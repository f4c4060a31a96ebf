----------------------- MODULE SaveCoordinator_proofs -----------------------
(***************************************************************************)
(* SaveCoordinator for every set of runs, every limit and any failures:    *)
(* the two threads never work on the run's files at once.                  *)
(*                                                                         *)
(* What the code relies on is run_write_in_flight: it is set before a job  *)
(* is sent to the worker and cleared when its completion is polled, a      *)
(* request waits for it, and no autosave is sent while a call is made.     *)
(* What the files, the memory and the screens agree on is the second part, *)
(* what is owed to a run that has ended and is not recorded yet the third. *)
(***************************************************************************)
EXTENDS SaveCoordinator, TLAPS

\* As much of the types as the flow of control needs.
ControlType ==
  /\ DOMAIN job = Threads
  /\ \A t \in Threads : "stage" \in DOMAIN job[t]
  /\ {"call", "inFlight", "revision"} \subseteq DOMAIN coordinator
  /\ coordinator.inFlight \in BOOLEAN
  /\ {"mode", "request", "failed", "return", "run", "available", "damaged", "dirty",
      "chronicle"} \subseteq DOMAIN app
  /\ app.return \notin {"Off", "Boot", "Exiting"}

\* Calls are made one after another, and none before or after the frames.
OneCall ==
  /\ app.mode = "Off" => coordinator = NoCoordinator
  /\ app.mode = "Exiting" => coordinator.call = "none"
  /\ coordinator.call = "none" => At("main", "idle")

\* The flag covers the job from its sending to its completion, and a call.
FlagCovers ==
  /\ coordinator.call # "none" => ~coordinator.inFlight
  /\ ~coordinator.inFlight =>
        queue = Missing /\ At("worker", "idle") /\ completion = NoCompletion
  /\ completion # NoCompletion => queue = Missing /\ At("worker", "idle")
  /\ ~At("worker", "idle") => queue = Missing

IInv == ControlType /\ OneCall /\ FlagCovers

\* The screens and the scheduler leave the threads alone.
LEMMA ScreenKeeps ==
  ASSUME IInv, Frame,
         UNCHANGED <<job, coordinator, queue, completion>>,
         DOMAIN app' = DOMAIN app, app'.mode # "Off",
         app'.return \notin {"Off", "Boot", "Exiting"}
  PROVE  IInv'
<1>1. coordinator.call = "none"
  BY DEF Frame
<1> QED
  BY <1>1 DEF IInv, ControlType, OneCall, FlagCovers, At

\* An autosave is sent when none is in flight, in a frame.
LEMMA EnqueueKeeps ==
  ASSUME IInv, Frame, NEW from, Enqueue(from), DOMAIN from = DOMAIN app,
         from.mode # "Off", from.return = app.return,
         UNCHANGED <<job, completion>>
  PROVE  IInv'
<1>1. /\ coordinator.call = "none" /\ ~coordinator.inFlight
      /\ coordinator' = [coordinator EXCEPT !.inFlight = TRUE]
      /\ app' = [from EXCEPT !.run.rev = NextRevision, !.dirty = FALSE]
  BY DEF Frame, Enqueue
<1>2. /\ queue = Missing /\ At("worker", "idle") /\ completion = NoCompletion
      /\ At("main", "idle")
  BY <1>1 DEF IInv, OneCall, FlagCovers
<1>3. /\ coordinator'.call = "none" /\ coordinator'.inFlight = TRUE
      /\ DOMAIN coordinator' = DOMAIN coordinator
  BY <1>1 DEF IInv, ControlType
<1>4. /\ DOMAIN app' = DOMAIN app /\ app'.mode = from.mode /\ app'.return = app.return
  BY <1>1 DEF IInv, ControlType
<1>5. ControlType'
  BY <1>3, <1>4 DEF IInv, ControlType
<1>6. OneCall'
  BY <1>2, <1>3, <1>4 DEF OneCall, At
<1>7. FlagCovers'
  BY <1>2, <1>3 DEF FlagCovers, At
<1> QED
  BY <1>5, <1>6, <1>7 DEF IInv

LEMMA InputsKeep ==
  ASSUME IInv, Inputs
  PROVE  IInv'
<1> USE DEF IInv
<1>1. CASE ChooseResume \/ ChooseNewRun \/ Tick \/ EndRun \/ Pause
  BY <1>1, ScreenKeeps DEF ChooseResume, ChooseNewRun, Tick, EndRun, Pause, On, Shows, Waits,
     AppBecomes, ControlType, Frame
<1>2. ASSUME NEW id \in Ids, BeginNewRun(id)
      PROVE IInv'
  BY <1>2, ScreenKeeps DEF BeginNewRun, On, AppBecomes, ControlType, Frame
<1>3. CASE SaveAndLeave \/ ConfirmAbandon \/ Repair
  BY <1>3, ScreenKeeps DEF SaveAndLeave, ConfirmAbandon, Repair, On, Waits, AppBecomes,
     ControlType, Frame
<1>4. CASE AnswerError
  BY <1>4, ScreenKeeps DEF AnswerError, On, Fulfilled, AppBecomes, ControlType, Frame
<1>5. CASE Leave \/ CloseWindow
  BY <1>5, ScreenKeeps DEF Leave, CloseWindow, On, Shows, Waits, AppBecomes, ControlType, Frame
<1>6. CASE Suspend
  <2>1. Frame /\ UNCHANGED <<job, completion>> /\ app.mode # "Off"
    BY <1>6 DEF Suspend, Frame
  <2>2. CASE Enqueue(app)
    BY <2>1, <2>2, EnqueueKeeps
  <2>3. CASE app' = [app EXCEPT !.dirty = TRUE] /\ UNCHANGED <<queue, coordinator>>
    BY <2>1, <2>3, ScreenKeeps DEF ControlType
  <2> QED
    BY <1>6, <2>2, <2>3 DEF Suspend
<1> QED
  BY <1>1, <1>2, <1>3, <1>4, <1>5, <1>6 DEF Inputs

-----------------------------------------------------------------------------
(* The scheduler's frame *)

LEMMA FramesKeep ==
  ASSUME IInv, Autosave \/ Poll \/ Checkpoint \/ Process
  PROVE  IInv'
<1> USE DEF IInv
<1>1. CASE Autosave
  BY <1>1, EnqueueKeeps DEF Autosave, Frame
<1>2. CASE Poll
  <2>1. /\ Frame /\ completion # NoCompletion /\ completion' = NoCompletion
        /\ UNCHANGED <<job, queue>>
        /\ \E rev : coordinator' = [coordinator EXCEPT !.inFlight = FALSE, !.revision = rev]
        /\ \/ \E b : app' = [app EXCEPT !.available = b]
           \/ app' = [app EXCEPT !.dirty = TRUE]
    <3>1. \E rev : coordinator' = [coordinator EXCEPT !.inFlight = FALSE, !.revision = rev]
      BY <1>2 DEF Poll
    <3> QED
      BY <1>2, <3>1 DEF Poll
  <2>2. queue = Missing /\ At("worker", "idle")
    BY <2>1 DEF FlagCovers
  <2>3. coordinator'.call = "none" /\ ~coordinator'.inFlight /\ coordinator'.inFlight \in BOOLEAN
        /\ DOMAIN coordinator' = DOMAIN coordinator
    BY <2>1 DEF Frame, ControlType
  <2>4. /\ app'.mode = app.mode /\ app'.return = app.return /\ DOMAIN app' = DOMAIN app
    BY <2>1 DEF ControlType
  <2>5. ControlType'
    BY <2>1, <2>3, <2>4 DEF ControlType
  <2>6. OneCall'
    BY <2>1, <2>3, <2>4 DEF OneCall, Frame, At
  <2>7. FlagCovers'
    BY <2>1, <2>2, <2>3 DEF FlagCovers, At
  <2> QED
    BY <2>5, <2>6, <2>7
<1>3. CASE Checkpoint
  <2>1. Frame /\ UNCHANGED <<job, completion>> /\ app.mode # "Off"
    BY <1>3 DEF Checkpoint, Frame
  <2>2. CASE Enqueue([app EXCEPT !.request = "None"])
    BY <2>1, <2>2, EnqueueKeeps DEF ControlType
  <2>3. CASE app' = [app EXCEPT !.request = "None", !.dirty = TRUE]
             /\ UNCHANGED <<queue, coordinator>>
    BY <2>1, <2>3, ScreenKeeps DEF ControlType
  <2>4. CASE app' = Failing("Save_Checkpoint", "Playing") /\ UNCHANGED <<queue, coordinator>>
    BY <2>1, <2>4, ScreenKeeps DEF ControlType, Failing
  <2> QED
    BY <1>3, <2>2, <2>3, <2>4 DEF Checkpoint
<1>4. CASE Process
  <2>1. /\ Frame /\ ~coordinator.inFlight /\ UNCHANGED <<job, queue, completion>>
        /\ \E call : coordinator' = [coordinator EXCEPT !.call = call]
        /\ \E terminal : app' = [app EXCEPT !.run.terminal = terminal]
    <3>1. \E terminal : app' = [app EXCEPT !.run.terminal = terminal]
      BY <1>4 DEF Process
    <3> QED
      BY <1>4, <3>1 DEF Process
  <2>2. ~coordinator'.inFlight /\ coordinator'.inFlight \in BOOLEAN
        /\ DOMAIN coordinator' = DOMAIN coordinator
    BY <2>1 DEF ControlType
  <2>3. app'.mode = app.mode /\ app'.return = app.return /\ DOMAIN app' = DOMAIN app
    BY <2>1 DEF ControlType
  <2>4. ControlType'
    BY <2>1, <2>2, <2>3 DEF ControlType
  <2>5. OneCall'
    BY <2>1, <2>3 DEF OneCall, Frame, At
  <2>6. FlagCovers'
    BY <2>1, <2>2 DEF FlagCovers, At
  <2> QED
    BY <2>4, <2>5, <2>6
<1> QED
  BY <1>1, <1>2, <1>3, <1>4

-----------------------------------------------------------------------------
(* The main thread's calls *)

LEMMA BeginCallKeeps ==
  ASSUME IInv, BeginCall
  PROVE  IInv'
<1> USE DEF IInv
<1>1. /\ UNCHANGED <<app, coordinator, queue, completion>>
      /\ coordinator.call \in Loads \cup Writes \cup Clears
      /\ \E j : job' = [job EXCEPT !["main"] = j] /\ "stage" \in DOMAIN j
  <2>1. /\ UNCHANGED <<app, coordinator, queue, completion>>
        /\ coordinator.call \in Loads \cup Writes \cup Clears
    BY DEF BeginCall
  <2>2. CASE BeginRecover("main")
    <3> DEFINE j == [NoJob EXCEPT !.stage = "scan", !.kind = "recover"]
    <3>1. job' = [job EXCEPT !["main"] = j]
      BY <2>2 DEF BeginRecover, Becoming
    <3>2. "stage" \in DOMAIN j
      BY DEF NoJob
    <3> QED
      BY <2>1, <3>1, <3>2
  <2>3. CASE BeginWrite("main", Snapshot)
    <3> DEFINE j == [NoJob EXCEPT !.stage = "stage", !.kind = "write", !.doc = Snapshot]
    <3>1. job' = [job EXCEPT !["main"] = j]
      BY <2>3 DEF BeginWrite, Becoming
    <3>2. "stage" \in DOMAIN j
      BY DEF NoJob
    <3> QED
      BY <2>1, <3>1, <3>2
  <2>4. ASSUME NEW kind, BeginClear("main", kind)
        PROVE  \E j : job' = [job EXCEPT !["main"] = j] /\ "stage" \in DOMAIN j
    <3> DEFINE j == [NoJob EXCEPT !.stage = kind, !.kind = kind, !.left = Artifacts]
    <3>1. job' = [job EXCEPT !["main"] = j]
      BY <2>4 DEF BeginClear, Becoming
    <3>2. "stage" \in DOMAIN j
      BY DEF NoJob
    <3> QED
      BY <3>1, <3>2
  <2> QED
    BY <2>1, <2>2, <2>3, <2>4 DEF BeginCall
<1>2. coordinator.call # "none"
  BY <1>1 DEF Loads, Writes, Clears
<1>3. \A t \in Threads : "stage" \in DOMAIN job'[t]
  BY <1>1 DEF ControlType
<1>4. DOMAIN job' = Threads /\ job'["worker"] = job["worker"]
  BY <1>1, CoordinatorAssumption DEF ControlType
<1>5. ControlType'
  BY <1>1, <1>3, <1>4 DEF ControlType
<1>6. OneCall' /\ FlagCovers'
  BY <1>1, <1>2, <1>4 DEF OneCall, FlagCovers, At
<1> QED
  BY <1>5, <1>6

\* A call that has returned leaves the main thread idle, perhaps to make another.
LEMMA ReturnKeeps ==
  ASSUME IInv, coordinator.call # "none",
         job' = [job EXCEPT !["main"] = NoJob],
         NEW next, NEW rev, coordinator' = [coordinator EXCEPT !.call = next, !.revision = rev],
         UNCHANGED <<queue, completion>>,
         DOMAIN app' = DOMAIN app, app'.mode # "Off",
         app'.mode = "Exiting" => next = "none",
         app'.return \notin {"Off", "Boot", "Exiting"}
  PROVE  IInv'
<1> USE DEF IInv
<1>1. /\ coordinator'.call = next /\ coordinator'.inFlight = coordinator.inFlight
      /\ DOMAIN coordinator' = DOMAIN coordinator
  BY DEF ControlType
<1>2. /\ DOMAIN job' = Threads /\ job'["worker"] = job["worker"] /\ job'["main"] = NoJob
      /\ \A t \in Threads : "stage" \in DOMAIN job'[t]
  BY CoordinatorAssumption DEF ControlType, NoJob
<1>3. NoJob.stage = "idle"
  BY DEF NoJob
<1>4. ~coordinator.inFlight
  BY DEF FlagCovers
<1>5. ControlType'
  BY <1>1, <1>2 DEF ControlType
<1>6. OneCall'
  BY <1>1, <1>2, <1>3 DEF OneCall, At
<1>7. FlagCovers'
  BY <1>1, <1>2, <1>4 DEF FlagCovers, At
<1> QED
  BY <1>5, <1>6, <1>7

LEMMA ReturnsKeep ==
  ASSUME IInv, Returns
  PROVE  IInv'
<1> USE DEF IInv
<1>0. /\ coordinator.call # "none" /\ app.mode \notin {"Off", "Exiting"}
      /\ job' = [job EXCEPT !["main"] = NoJob] /\ UNCHANGED <<queue, completion>>
  <2>1. /\ coordinator.call # "none"
        /\ job' = [job EXCEPT !["main"] = NoJob] /\ UNCHANGED <<queue, completion>>
    BY DEF Returns, Returned, Resumed, LeftRun, AbandonedLoaded, AbandonedMarked,
       AbandonedRemoved, RunRecovered, RunQuarantined, Archived, Finalized, BootLoaded,
       Discarded, ReturnTo, Return, End, Becoming
  <2>2. NoCoordinator.call = "none"
    BY DEF NoCoordinator
  <2> QED
    BY <2>1, <2>2 DEF OneCall
<1>1. CASE Resumed
  <2>1. \E rev : coordinator' = [coordinator EXCEPT !.call = "none", !.revision = rev]
    BY <1>1 DEF Resumed, ReturnTo, Return
  <2>2. DOMAIN app' = DOMAIN app /\ app'.mode # "Off"
        /\ app'.return \notin {"Off", "Boot", "Exiting"}
    BY <1>1 DEF Resumed, Fulfilled, Unrestored, Failing, ControlType
  <2> QED
    BY <1>0, <2>1, <2>2, ReturnKeeps
<1>2. CASE LeftRun
  <2>1. \E rev : coordinator' = [coordinator EXCEPT !.call = "none", !.revision = rev]
    BY <1>2 DEF LeftRun, Return
  <2>2. DOMAIN app' = DOMAIN app /\ app'.mode # "Off"
        /\ app'.return \notin {"Off", "Boot", "Exiting"}
    BY <1>2 DEF LeftRun, Fulfilled, Failing, ControlType
  <2> QED
    BY <1>0, <2>1, <2>2, ReturnKeeps
<1>3. CASE AbandonedLoaded \/ AbandonedMarked \/ AbandonedRemoved
  <2>1. \E next, rev : coordinator' = [coordinator EXCEPT !.call = next, !.revision = rev]
    BY <1>3 DEF AbandonedLoaded, AbandonedMarked, AbandonedRemoved, ReturnTo, Return
  <2>2. DOMAIN app' = DOMAIN app /\ app'.mode \notin {"Off", "Exiting"}
        /\ app'.return \notin {"Off", "Boot", "Exiting"}
    BY <1>0, <1>3 DEF AbandonedLoaded, AbandonedMarked, AbandonedRemoved, Fulfilled, Unrestored,
       Failing, ControlType
  <2> QED
    BY <1>0, <2>1, <2>2, ReturnKeeps
<1>4. CASE RunRecovered \/ RunQuarantined
  <2>1. \E rev : coordinator' = [coordinator EXCEPT !.call = "none", !.revision = rev]
    BY <1>4 DEF RunRecovered, RunQuarantined, ReturnTo, Return
  <2>2. DOMAIN app' = DOMAIN app /\ app'.mode # "Off"
        /\ app'.return \notin {"Off", "Boot", "Exiting"}
    BY <1>4 DEF RunRecovered, RunQuarantined, Fulfilled, Failing, ControlType
  <2> QED
    BY <1>0, <2>1, <2>2, ReturnKeeps
<1>5. CASE Archived
  <2>1. \E next, rev : coordinator' = [coordinator EXCEPT !.call = next, !.revision = rev]
    <3>1. coordinator' = [coordinator EXCEPT !.call = "none"] =>
            coordinator' = [coordinator EXCEPT !.call = "none", !.revision = coordinator.revision]
      BY DEF ControlType
    <3> QED
      BY <1>5, <3>1 DEF Archived
  <2>2. DOMAIN app' = DOMAIN app /\ app'.mode \notin {"Off", "Exiting"}
        /\ app'.return \notin {"Off", "Boot", "Exiting"}
    <3>1. /\ DOMAIN Unfinalized = DOMAIN app /\ Unfinalized.mode \in {"Title", "Save_Error"}
          /\ Unfinalized.return \notin {"Off", "Boot", "Exiting"}
      BY DEF Unfinalized, Failing, ControlType
    <3> QED
      BY <1>0, <1>5, <3>1 DEF Archived, ControlType
  <2> QED
    BY <1>0, <2>1, <2>2, ReturnKeeps
<1>6. CASE Finalized
  <2>1. \E rev : coordinator' = [coordinator EXCEPT !.call = "none", !.revision = rev]
    BY <1>6 DEF Finalized, ReturnTo, Return
  <2>2. DOMAIN app' = DOMAIN app /\ app'.mode # "Off"
        /\ app'.return \notin {"Off", "Boot", "Exiting"}
    BY <1>0, <1>6 DEF Finalized, Unfinalized, Failing, ControlType
  <2> QED
    BY <1>0, <2>1, <2>2, ReturnKeeps
<1>7. CASE BootLoaded \/ Discarded
  <2>1. \E next, rev : coordinator' = [coordinator EXCEPT !.call = next, !.revision = rev]
    BY <1>7 DEF BootLoaded, Discarded, ReturnTo, Return
  <2>2. DOMAIN app' = DOMAIN app /\ app'.mode \notin {"Off", "Exiting"}
        /\ app'.return \notin {"Off", "Boot", "Exiting"}
    BY <1>0, <1>7 DEF BootLoaded, Discarded, ControlType
  <2> QED
    BY <1>0, <2>1, <2>2, ReturnKeeps
<1> QED
  BY <1>1, <1>2, <1>3, <1>4, <1>5, <1>6, <1>7 DEF Returns

-----------------------------------------------------------------------------
(* The worker, and the steps of a job *)

LEMMA WorkerKeeps ==
  ASSUME IInv, Take \/ Complete
  PROVE  IInv'
<1> USE DEF IInv
<1>1. CASE Take
  <2>1. /\ queue # Missing /\ queue' = Missing /\ UNCHANGED <<app, coordinator, completion>>
        /\ \E j : job' = [job EXCEPT !["worker"] = j] /\ "stage" \in DOMAIN j
    <3> DEFINE j == [NoJob EXCEPT !.stage = "stage", !.kind = "write", !.doc = queue]
    <3>1. /\ queue # Missing /\ queue' = Missing
          /\ UNCHANGED <<app, coordinator, completion>>
          /\ job' = [job EXCEPT !["worker"] = j]
      BY <1>1 DEF Take, BeginWrite, Becoming
    <3>2. "stage" \in DOMAIN j
      BY DEF NoJob
    <3> QED
      BY <3>1, <3>2
  <2>2. coordinator.inFlight /\ completion = NoCompletion
    BY <2>1 DEF FlagCovers, ControlType
  <2>3. DOMAIN job' = Threads /\ job'["main"] = job["main"]
        /\ \A t \in Threads : "stage" \in DOMAIN job'[t]
    BY <2>1, CoordinatorAssumption DEF ControlType
  <2> QED
    BY <2>1, <2>2, <2>3 DEF ControlType, OneCall, FlagCovers, At
<1>2. CASE Complete
  <2>1. /\ ~At("worker", "idle") /\ UNCHANGED <<app, coordinator, queue>>
        /\ job' = [job EXCEPT !["worker"] = NoJob]
    BY <1>2 DEF Complete, End, Becoming, At
  <2>2. coordinator.inFlight /\ queue = Missing
    BY <2>1 DEF FlagCovers, ControlType
  <2>3. DOMAIN job' = Threads /\ job'["main"] = job["main"] /\ job'["worker"].stage = "idle"
        /\ \A t \in Threads : "stage" \in DOMAIN job'[t]
    BY <2>1, CoordinatorAssumption DEF ControlType, NoJob
  <2> QED
    BY <2>1, <2>2, <2>3 DEF ControlType, OneCall, FlagCovers, At
<1> QED
  BY <1>1, <1>2

LEMMA FileStepKeeps ==
  ASSUME IInv, NEW t \in Threads, FileStep(t)
  PROVE  IInv'
<1> USE DEF IInv
<1>1. UNCHANGED <<app, coordinator, queue, completion>> /\ JobStep(t)
  BY DEF FileStep
<1>2. ~At(t, "idle")
  BY <1>1 DEF JobStep, At, Choose, Stage, Retire, Promote, Displace, Quarantine, Unlink,
     Cleared, SyncParent, Unsynced
<1>3. \E j : job' = [job EXCEPT ![t] = j] /\ DOMAIN j = DOMAIN job[t]
  BY ZenonT(30), <1>1 DEF JobStep, Choose, Stage, Retire, Promote, Displace, Quarantine, Unlink, Cleared,
     SyncParent, Goto, Fails, Becoming
<1>4. /\ DOMAIN job' = Threads /\ \A u \in Threads : "stage" \in DOMAIN job'[u]
      /\ \A u \in Threads \ {t} : job'[u] = job[u]
  BY <1>3 DEF ControlType
<1>5. ControlType'
  BY <1>1, <1>4 DEF ControlType
<1>6. CASE t = "main"
  <2>1. coordinator.call # "none" /\ ~coordinator.inFlight
    BY <1>2, <1>6 DEF OneCall, FlagCovers
  <2>2. /\ queue' = Missing /\ completion' = NoCompletion
        /\ job'["worker"] = job["worker"] /\ At("worker", "idle")
    BY <1>1, <1>4, <1>6, <2>1, CoordinatorAssumption DEF FlagCovers
  <2>3. app' = app /\ coordinator' = coordinator
    BY <1>1
  <2>4. OneCall'
    BY <2>1, <2>3 DEF OneCall
  <2>5. FlagCovers'
    BY <2>2, <2>3 DEF FlagCovers, At
  <2> QED
    BY <1>5, <2>4, <2>5
<1>7. CASE t = "worker"
  <2>1. coordinator.inFlight /\ queue = Missing /\ completion = NoCompletion
    BY <1>2, <1>7 DEF FlagCovers, ControlType
  <2>2. /\ app' = app /\ coordinator' = coordinator /\ queue' = queue
        /\ completion' = completion /\ job'["main"] = job["main"]
    BY <1>1, <1>4, <1>7, CoordinatorAssumption
  <2>3. OneCall'
    BY <2>2 DEF OneCall, At
  <2>4. FlagCovers'
    BY <2>1, <2>2 DEF FlagCovers, At
  <2> QED
    BY <1>5, <2>3, <2>4
<1> QED
  BY <1>5, <1>6, <1>7, CoordinatorAssumption

-----------------------------------------------------------------------------
(* Starting and stopping *)

LEMMA LifeKeeps ==
  ASSUME IInv, Boot \/ Exit \/ Crash
  PROVE  IInv'
<1> USE DEF IInv
<1>1. NoCoordinator.call = "none" /\ ~NoCoordinator.inFlight /\ NoCoordinator.inFlight \in BOOLEAN
      /\ DOMAIN NoCoordinator = {"call", "inFlight", "revision"}
      /\ NoApp.mode = "Off" /\ NoApp.return = "Title" /\ NoJob.stage = "idle"
      /\ "stage" \in DOMAIN NoJob
      /\ DOMAIN NoApp = {"mode", "request", "failed", "return", "run", "available", "damaged",
                         "dirty", "chronicle"}
  BY DEF NoCoordinator, NoApp, NoJob
<1>2. CASE Boot
  <2>1. /\ UNCHANGED <<job, queue, completion>> /\ coordinator = NoCoordinator
        /\ coordinator'.call = "boot" /\ ~coordinator'.inFlight
        /\ coordinator'.inFlight \in BOOLEAN
        /\ DOMAIN coordinator' = {"call", "inFlight", "revision"}
    BY <1>2 DEF Boot, OneCall, NoCoordinator
  <2>2. DOMAIN app' = DOMAIN NoApp /\ app'.mode = "Boot" /\ app'.return = "Title"
    BY <1>1, <1>2 DEF Boot
  <2> QED
    BY <1>1, <2>1, <2>2 DEF ControlType, OneCall, FlagCovers, At
<1>3. CASE Exit
  <2>1. /\ UNCHANGED job /\ coordinator.call = "none" /\ At("worker", "idle")
        /\ app' = NoApp /\ coordinator' = NoCoordinator
        /\ queue' = Missing /\ completion' = NoCompletion
    BY <1>3 DEF Exit, Off, OneCall
  <2> QED
    BY <1>1, <2>1 DEF ControlType, OneCall, FlagCovers, At
<1>4. CASE Crash
  <2>1. /\ job' = [t \in Threads |-> NoJob]
        /\ app' = NoApp /\ coordinator' = NoCoordinator
        /\ queue' = Missing /\ completion' = NoCompletion
    BY <1>4 DEF Crash, PowerCut, Off
  <2> QED
    BY <1>1, <2>1, CoordinatorAssumption DEF ControlType, OneCall, FlagCovers, At
<1> QED
  BY <1>2, <1>3, <1>4

-----------------------------------------------------------------------------
(* The theorem *)

LEMMA InitHolds == Init => IInv
BY CoordinatorAssumption DEF Init, FileInit, IInv, ControlType, OneCall, FlagCovers, At, NoApp,
   NoCoordinator, NoJob

LEMMA StepHolds == IInv /\ [Next]_vars => IInv'
<1> SUFFICES ASSUME IInv, [Next]_vars PROVE IInv'
  OBVIOUS
<1>1. CASE UNCHANGED vars
  BY <1>1 DEF vars, IInv, ControlType, OneCall, FlagCovers, At
<1>2. CASE Next
  BY <1>2, InputsKeep, FramesKeep, BeginCallKeeps, ReturnsKeep, WorkerKeeps, FileStepKeeps,
     LifeKeeps DEF Next
<1> QED
  BY <1>1, <1>2

\* While the main thread makes a call, the worker is idle and nothing is on its
\* way to it (run_write_in_flight in persistence_update_scheduler).
THEOREM OneWriterHolds == Spec => []OneWriter
<1>1. IInv => OneWriter
  BY DEF IInv, OneWriter, OneCall, FlagCovers, ControlType, At
<1> QED
  BY <1>1, InitHolds, StepHolds, PTL DEF Spec

-----------------------------------------------------------------------------
(***************************************************************************)
(* What was saved stays, and every start can choose, as long as no call    *)
(* has failed.                                                             *)
(*                                                                         *)
(* The invariant follows a document from the memory to the disk.  The run  *)
(* in memory is as far on as anything in the files (Covers), a document    *)
(* that is sent is its next revision (Flight), a job writes it over files  *)
(* that are all older (Progressing), and every directory a crash may leave *)
(* has the order tmp, primary, backup from the newest to the oldest        *)
(* (Ordered) and the confirmed save under a settled name (HasKept).  That  *)
(* no run begins while another is on disk is the work of the screens:      *)
(* their part is Screens.                                                  *)
(***************************************************************************)

(* While nothing has failed: types *)

Contents == Docs \cup {Missing, Torn}
Views == [Names -> Contents]

Writing == {"stage", "staged", "retire", "retired", "promote", "promoted"}

Kinds == {"none", "write", "recover", "quarantine", "remove"}

\* The stages of each kind of job, without a failure.
StagesOf(kind) ==
  CASE kind = "none"       -> {"idle"}
    [] kind = "write"      -> Writing \cup {"done"}
    [] kind = "recover"    -> Writing \cup {"scan", "done"}
    [] kind = "quarantine" -> {"quarantine", "quarantined", "done"}
    [] kind = "remove"     -> {"remove", "removed", "done"}

Stages == UNION {StagesOf(kind) : kind \in Kinds}

\* The names a clear still has to remove.
Lefts == {<<>>, <<"bak">>, <<"tmp", "bak">>, Artifacts}

Jobs ==
  {j \in [stage: Stages, kind: Kinds, doc: Contents, left: Lefts, removed: BOOLEAN,
          ok: BOOLEAN] : j.stage \in StagesOf(j.kind) /\ (j.kind = "none" => j = NoJob)}

Runs == [id: Ids \cup {NoId}, terminal: Terminals, progress: 0..MaxProgress, rev: Nat]

Keeps == [id: Ids \cup {NoId}, progress: Nat]

Types ==
  /\ disk \in Views /\ survivors \subseteq Views /\ disk \in survivors
  /\ job \in [Threads -> Jobs]
  /\ app.run \in Runs
  /\ {app.available, app.damaged} \subseteq BOOLEAN
  /\ coordinator.revision \in Nat
  /\ coordinator.call \in {"none"} \cup Loads \cup Writes \cup Clears
  /\ queue \in Docs \cup {Missing}
  /\ completion = NoCompletion \/ (completion.doc \in Docs /\ completion.ok)
  /\ history.kept \in Keeps
  /\ {"started", "ended", "marked", "kept"} \subseteq DOMAIN history

-----------------------------------------------------------------------------
(* The files *)

\* a was written after b: the same run, further on, and its end is not undone.
Above(a, b) ==
  Valid(a) /\ Valid(b) =>
    \/ a = b
    \/ /\ a.id = b.id /\ a.rev > b.rev /\ a.body.progress >= b.body.progress
       /\ a.body.terminal = "Active" => b.body.terminal = "Active"

\* The temporary file is the newest, the backup the oldest.
Ordered(v) ==
  /\ v["primary"] # Torn /\ v["bak"] # Torn
  /\ Above(v["primary"], v["bak"])
  /\ Above(v["tmp"], v["primary"]) /\ Above(v["tmp"], v["bak"])

\* One of the settled files has the save that was confirmed.
HasKept(v) ==
  \E name \in {"primary", "bak"} :
    /\ Valid(v[name]) /\ v[name].id = history.kept.id
    /\ v[name].body.progress >= history.kept.progress

Sound ==
  \A v \in survivors : Ordered(v) /\ (history.kept.id # NoId => HasKept(v))

\* What the directory holds is on the disk, but between a change and its sync.
SteadyJob(j) ==
  \/ j.stage \in {"idle", "scan", "stage", "retire", "promote", "done", "quarantine"}
  \/ j.stage = "remove" /\ ~j.removed

Synced == (\A t \in Threads : SteadyJob(job[t])) => survivors = {disk}

\* How far a job has come.
Progressing(t) ==
  LET j == job[t]
  IN  /\ j.stage \in Writing => j.doc \in Docs /\ j.ok
      /\ j.stage \in {"stage", "staged", "retire"} =>
           Above(j.doc, disk["primary"]) /\ Above(j.doc, disk["bak"])
      /\ j.stage \in {"staged", "retire", "retired", "promote"} => disk["tmp"] = j.doc
      /\ j.stage \in {"retired", "promote"} => disk["primary"] = Missing
      /\ j.stage = "retire" => Valid(disk["primary"])
      /\ j.stage = "promoted" => disk["primary"] = j.doc /\ disk["tmp"] = Missing
      /\ j.kind \in {"write", "recover"} /\ j.stage = "done" =>
           j.doc = Recovered(disk) /\ (j.ok <=> j.doc # Torn)
      /\ j.kind = "write" /\ j.stage = "done" => j.doc \in Docs /\ disk["primary"] = j.doc
      /\ j.kind = "recover" /\ j.stage = "stage" => j.doc = Recovered(disk)
      /\ j.kind \in {"quarantine", "remove"} =>
           /\ j.ok
           /\ \A name \in Names : (\A i \in DOMAIN j.left : j.left[i] # name) => disk[name] = Missing
           /\ j.stage \in {"removed", "done"} => j.left = <<>>
      /\ j.stage = "removed" => j.removed
      /\ j.kind = "quarantine" => ~j.removed
      /\ j.stage = "remove" /\ j.left = Artifacts => ~j.removed

Files == Sound /\ Synced /\ \A t \in Threads : Progressing(t)

-----------------------------------------------------------------------------
(* The run in memory, and what is on its way to the disk *)

Live == run.id # NoId /\ run.terminal = "Active"

\* The documents in the directories a crash may leave.
Stored == {d \in Docs : \E v \in survivors, name \in Names : v[name] = d}

WritingRun == coordinator.call \in Writes /\ ~At("main", "idle")

\* What the run has in memory is as far on as anything on the disk.
Covered(d) ==
  /\ d.id = run.id /\ d.body.progress <= run.progress
  /\ d.rev < NextRevision \/ (WritingRun /\ d.rev = NextRevision)

Covers == run.id # NoId => \A d \in Stored : Covered(d)

\* Outside of the calls that end a run, no file says that one has ended.
NoMarks ==
  /\ coordinator.call \in {"none", "resume", "return", "quit", "load_abandoned", "recover",
                           "quarantine"}
  /\ app.mode # "Off"
  => \A d \in Stored : d.body.terminal = "Active"

\* A document on its way to the disk.
InFlight(d) ==
  /\ d \in Docs
  /\ d.id = run.id /\ d.rev = run.rev /\ d.rev > coordinator.revision
  /\ d.body.progress <= run.progress /\ d.body.terminal = "Active"

Flight ==
  /\ queue # Missing =>
       /\ InFlight(queue)
       /\ \A d \in Stored : d.rev < run.rev /\ d.body.progress <= queue.body.progress
  /\ ~At("worker", "idle") => job["worker"].kind = "write" /\ InFlight(job["worker"].doc)
  /\ completion # NoCompletion => InFlight(completion.doc) /\ disk["primary"] = completion.doc

\* The job of a synchronous call.
KindOf(call) ==
  CASE call = "none"       -> "none"
    [] call \in Loads      -> "recover"
    [] call \in Writes     -> "write"
    [] call = "quarantine" -> "quarantine"
    [] OTHER               -> "remove"

Calling ==
  ~At("main", "idle") =>
    /\ job["main"].kind = KindOf(coordinator.call)
    /\ coordinator.call \in Writes => job["main"].doc = Snapshot
    /\ coordinator.call \in Clears => history.kept = NothingKept

Memory == Covers /\ NoMarks /\ Flight /\ Calling

-----------------------------------------------------------------------------
(* The screens and the requests *)

\* What a call is made for.
Purposes ==
  LET call == coordinator.call
  IN  /\ call \in {"boot", "discard"} => app.mode = "Boot" /\ run = NoRun
      /\ call \in {"boot", "discard"} => app.request = "None"
      /\ call = "resume" => app.request = "Resume"
      /\ call = "return" => app.request = "Save_Return_Title"
      /\ call = "quit" => app.request = "Save_Quit"
      /\ call \in {"load_abandoned", "mark_abandoned", "remove_abandoned"} =>
           app.request = "Abandon"
      /\ call = "load_abandoned" => run.id = NoId
      /\ call \in {"mark_abandoned", "remove_abandoned"} =>
           run.id # NoId /\ run.terminal = "Abandoned"
      /\ call = "recover" => app.request = "Recover_Run"
      /\ call = "quarantine" => app.request = "Quarantine_Run"
      /\ call \in {"mark_ended", "remove_ended"} =>
           /\ run.id # NoId /\ run.terminal = "Ended"
           /\ (app.mode = "Boot" /\ app.request = "None") \/ app.request = "Finalize"
      /\ call # "none" => app.mode # "Select"

Wanted ==
  /\ app.request \in {"Save_Return_Title", "Save_Quit", "Save_Checkpoint"} => Live
  /\ app.request = "Save_Checkpoint" => app.mode = "Playing" /\ ~coordinator.inFlight
  /\ app.request = "Finalize" => run.id # NoId /\ run.terminal = "Ended" /\ ~app.damaged
  /\ app.request \notin {"None", "Save_Checkpoint", "Finalize"} => app.mode = "Save_Wait"
  /\ app.request \in {"Recover_Run", "Quarantine_Run"} => app.damaged
  /\ app.mode \in {"Playing", "Paused", "Resume_Veil"} =>
       Live /\ app.request \in {"None", "Save_Checkpoint"}
  /\ app.mode = "Recovery" => app.damaged
  /\ app.mode \in {"Dying", "Ended"} => ~Live
  /\ app.mode \in {"Off", "Boot"} => app.request = "None"
  /\ app.mode = "Boot" => coordinator.call # "none" /\ ~app.damaged
  /\ app.mode = "Off" => run = NoRun
  /\ app.mode = "Save_Error" =>
       /\ app.request = "None"
       /\ \/ app.failed \in {"Resume", "Abandon"} /\ app.return = "Title"
          \/ app.failed = "Recover_Run" /\ app.return = "Recovery" /\ app.damaged
  /\ app.request \in {"None", "Save_Checkpoint", "Resume", "Save_Return_Title", "Save_Quit",
                      "Abandon", "Recover_Run", "Quarantine_Run", "Finalize"}

\* A run that is left is saved.
Saved ==
  /\ Live
  /\ \/ app.mode \in {"Title", "Abandon_Confirm", "Select", "Recovery", "Save_Error"}
     \/ app.request \in {"Resume", "Abandon", "Recover_Run", "Quarantine_Run"}
  => history.kept.id # NoId

Clean == survivors = {disk} /\ \A name \in Names : disk[name] = Missing

\* When the title screen offers a new run at once, there is room for one.
Vacant ==
  /\ coordinator.call = "none" /\ app.mode \notin {"Off", "Boot"}
  /\ app.request = "None" /\ ~app.available /\ ~app.damaged
  => Clean /\ ~Live

Offered ==
  /\ app.mode = "Select" => app.request = "None" /\ ~app.available /\ ~app.damaged
  /\ app.damaged => ~Live
  /\ Live /\ coordinator.call = "none" => app.available
  /\ coordinator.inFlight => app.available
  /\ coordinator.inFlight /\ ~Live => app.request # "None"

Screens == Purposes /\ Wanted /\ Saved /\ Vacant /\ Offered

Whole == faults \in Nat /\ (faults = 0 => Types /\ Files /\ Memory /\ Screens)

-----------------------------------------------------------------------------
(* Documents, and what recovery finds among them *)

\* Missing and Torn are no documents, and a document carries a positive revision.
LEMMA DocumentFacts ==
  /\ \A d \in Docs : /\ Valid(d) /\ d.id \in Ids /\ d.rev \in Nat /\ d.rev >= 1
                     /\ d.body.terminal \in Terminals /\ d.body.progress \in Nat
                     /\ d.body.progress \in 0..MaxProgress
  /\ ~Valid(Missing) /\ ~Valid(Torn) /\ Missing # Torn
  /\ Missing \notin Docs /\ Torn \notin Docs
BY DocumentsAssumption, CoordinatorAssumption DEF Docs, Valid, Missing, Torn

\* A directory maps the three names to contents.
LEMMA ViewFacts ==
  ASSUME NEW v \in Views
  PROVE  /\ \A name \in Names : v[name] \in Contents
         /\ \A name \in Names : Valid(v[name]) <=> v[name] \in Docs
         /\ \A name \in Names, content \in Contents :
              /\ [v EXCEPT ![name] = content] \in Views
              /\ [v EXCEPT ![name] = content][name] = content
              /\ \A other \in Names \ {name} : [v EXCEPT ![name] = content][other] = v[other]
BY DocumentFacts DEF Views, Names, Contents

\* The documents of a directory are of one run, and differ in revision.
Agree(v) ==
  \A m, n \in Names :
    Valid(v[m]) /\ Valid(v[n]) => v[m].id = v[n].id /\ (v[m].rev = v[n].rev => v[m] = v[n])

\* One round of the loop keeps the best of what it has seen.
LEMMA ConsiderBest ==
  ASSUME NEW v \in Views, Agree(v), NEW best \in Names, NEW name \in Names
  PROVE  LET scan == [best |-> best, conflict |-> FALSE]
             next == IF Valid(v[name]) /\ (Valid(v[best]) => v[name].rev > v[best].rev)
                       THEN name ELSE best
         IN  Consider(v, scan, name) = [best |-> next, conflict |-> FALSE]
<1>1. Valid(v[name]) /\ Valid(v[best]) =>
        v[best].id = v[name].id /\ (v[name].rev = v[best].rev => v[name] = v[best])
  BY DEF Agree
<1> QED
  BY <1>1 DEF Consider

\* In any state of the files, the loop ends with one of them.
LEMMA ScanType ==
  ASSUME NEW v
  PROVE  Scan(v).best \in Names /\ Scan(v).conflict \in BOOLEAN
<1> DEFINE Scans == [best: Names, conflict: BOOLEAN]
<1>1. ASSUME NEW scan \in Scans, NEW name \in Names
      PROVE  Consider(v, scan, name) \in Scans
  BY DEF Consider
<1>2. [best |-> "primary", conflict |-> FALSE] \in Scans
  BY DEF Names
<1>3. "primary" \in Names /\ "tmp" \in Names /\ "bak" \in Names
  BY DEF Names
<1> HIDE DEF Scans
<1>4. Scan(v) \in Scans
  BY <1>1, <1>2, <1>3 DEF Scan
<1> QED
  BY <1>4 DEF Scans

\* Recovery returns a document, Missing or Torn.
LEMMA RecoveredType ==
  ASSUME NEW v \in Views
  PROVE  Recovered(v) \in Contents
<1>1. v[Scan(v).best] \in Contents
  BY ScanType, ViewFacts
<1> QED
  BY <1>1 DEF Recovered, Contents

\* The best of three: the highest revision.
LEMMA ScanBest ==
  ASSUME NEW v \in Views, Agree(v)
  PROVE  /\ ~Scan(v).conflict
         /\ Scan(v).best \in Names
         /\ \A name \in Names :
              Valid(v[name]) => /\ Valid(v[Scan(v).best])
                                /\ v[name].rev <= v[Scan(v).best].rev
<1> DEFINE Better(name, best) ==
             IF Valid(v[name]) /\ (Valid(v[best]) => v[name].rev > v[best].rev)
               THEN name ELSE best
           one == Better("primary", "primary")
           two == Better("tmp", one)
           three == Better("bak", two)
<1>1. {"primary", "tmp", "bak"} = Names
  BY DEF Names
<1>2. one = "primary"
  BY <1>1, ViewFacts, DocumentFacts
<1>3. two \in Names /\ three \in Names /\ one \in Names
  BY <1>1
<1>4. Scan(v) = [best |-> three, conflict |-> FALSE]
  <2>1. Consider(v, [best |-> "primary", conflict |-> FALSE], "primary")
          = [best |-> one, conflict |-> FALSE]
    BY <1>1, ConsiderBest
  <2>2. Consider(v, [best |-> one, conflict |-> FALSE], "tmp") = [best |-> two, conflict |-> FALSE]
    BY <1>1, <1>3, ConsiderBest
  <2>3. Consider(v, [best |-> two, conflict |-> FALSE], "bak")
          = [best |-> three, conflict |-> FALSE]
    BY <1>1, <1>3, ConsiderBest
  <2> HIDE DEF one, two, three
  <2> QED
    BY <2>1, <2>2, <2>3 DEF Scan
<1>5. \A name \in Names : Valid(v[name]) => v[name].rev \in Nat
  BY ViewFacts, DocumentFacts
<1>6. \A name \in Names : Valid(v[name]) => Valid(v[three]) /\ v[name].rev <= v[three].rev
  BY <1>1, <1>2, <1>5
<1> HIDE DEF three
<1> QED
  BY <1>3, <1>4, <1>6

\* An ordered directory never holds two documents of one revision.
LEMMA OrderedAgrees ==
  ASSUME NEW v \in Views, Ordered(v)
  PROVE  Agree(v)
<1>1. \A name \in Names : Valid(v[name]) => v[name].rev \in Nat
  BY ViewFacts, DocumentFacts
<1> QED
  BY <1>1 DEF Ordered, Agree, Above, Names

\* In order, the files age from tmp over primary to bak.
LEMMA RecoveredOrdered ==
  ASSUME NEW v \in Views, Ordered(v)
  PROVE  /\ ~Scan(v).conflict
         /\ Recovered(v) = IF Valid(v["tmp"]) THEN v["tmp"]
                           ELSE IF Valid(v["primary"]) THEN v["primary"]
                           ELSE IF Valid(v["bak"]) THEN v["bak"]
                           ELSE IF v["tmp"] = Torn THEN Torn ELSE Missing
<1>1. Names = {"primary", "tmp", "bak"}
  BY DEF Names
<1>2. /\ \A name \in Names : v[name] \in Contents
      /\ \A name \in Names : Valid(v[name]) => v[name] \in Docs
  BY ViewFacts
<1>3. Agree(v)
  BY OrderedAgrees
<1>4. /\ ~Scan(v).conflict /\ Scan(v).best \in Names
      /\ \A name \in Names : Valid(v[name]) => /\ Valid(v[Scan(v).best])
                                               /\ v[name].rev <= v[Scan(v).best].rev
  BY <1>3, ScanBest
<1>5. CASE \E name \in Names : Valid(v[name])
  <2>1. PICK best \in Names : Recovered(v) = v[best] /\ best = Scan(v).best
    BY <1>4, <1>5 DEF Recovered
  <2>2. Valid(v[best]) /\ \A name \in Names : Valid(v[name]) => v[name].rev <= v[best].rev
    BY <1>4, <1>5, <2>1
  <2>3. \A name \in Names : Valid(v[name]) => v[name].rev \in Nat
    BY <1>2, DocumentFacts
  <2> QED
    BY <1>1, <1>4, <1>5, <2>1, <2>2, <2>3 DEF Ordered, Above
<1>6. CASE \A name \in Names : ~Valid(v[name])
  <2>1. v["primary"] = Missing /\ v["bak"] = Missing /\ v["tmp"] \in {Missing, Torn}
    BY <1>1, <1>2, <1>6, DocumentFacts DEF Ordered, Contents
  <2>2. Recovered(v) = IF \E name \in Names : v[name] = Torn THEN Torn ELSE Missing
    BY <1>4, <1>6 DEF Recovered
  <2> QED
    BY <1>1, <1>4, <1>6, <2>1, <2>2, DocumentFacts
<1> QED
  BY <1>5, <1>6

\* What recovery returns was written after everything there is.
LEMMA RecoveredAbove ==
  ASSUME NEW v \in Views, Ordered(v)
  PROVE  /\ Recovered(v) # Missing => \E name \in Names : v[name] = Recovered(v)
         /\ \A name \in Names : Valid(v[name]) =>
              Recovered(v) \in Docs /\ Above(Recovered(v), v[name])
         /\ Recovered(v) = Missing => \A name \in Names : v[name] = Missing
         /\ Recovered(v) \in Contents
<1>1. Names = {"primary", "tmp", "bak"}
  BY DEF Names
<1>2. /\ \A name \in Names : v[name] \in Contents
      /\ \A name \in Names : Valid(v[name]) <=> v[name] \in Docs
  BY ViewFacts
<1>3. Recovered(v) \in Contents
  BY RecoveredType
<1>4. v["primary"] # Torn /\ v["bak"] # Torn
  BY DEF Ordered
<1>5. \A name \in Names : Valid(v[name]) => Recovered(v) \in Docs /\ Above(Recovered(v), v[name])
  BY <1>1, <1>2, RecoveredOrdered DEF Ordered, Above
<1>6. Recovered(v) = Missing => \A name \in Names : v[name] = Missing
  BY <1>1, <1>2, <1>4, RecoveredOrdered, DocumentFacts DEF Contents
<1>7. Recovered(v) # Missing => \E name \in Names : v[name] = Recovered(v)
  BY <1>1, <1>2, RecoveredOrdered, DocumentFacts DEF Contents
<1> QED
  BY <1>3, <1>5, <1>6, <1>7

-----------------------------------------------------------------------------
(* The steps of a job that do not fail *)

\* The jobs there are before a step is made.
LEMMA FirstJobs ==
  /\ NoJob \in Jobs /\ NoJob.stage = "idle" /\ NoJob.kind = "none"
  /\ \A doc \in Docs :
       LET j == [NoJob EXCEPT !.stage = "stage", !.kind = "write", !.doc = doc]
       IN  j \in Jobs /\ j.stage = "stage" /\ j.kind = "write" /\ j.doc = doc /\ j.ok
           /\ ~j.removed
  /\ LET j == [NoJob EXCEPT !.stage = "scan", !.kind = "recover"]
     IN  j \in Jobs /\ j.stage = "scan" /\ j.kind = "recover"
  /\ \A kind \in {"remove", "quarantine"} :
       LET j == [NoJob EXCEPT !.stage = kind, !.kind = kind, !.left = Artifacts]
       IN  j \in Jobs /\ j.stage = kind /\ j.kind = kind /\ j.left = Artifacts /\ j.ok
           /\ ~j.removed
<1> DEFINE Fields == [stage: Stages, kind: Kinds, doc: Contents, left: Lefts, removed: BOOLEAN,
                      ok: BOOLEAN]
<1>1. \A kind \in Kinds : StagesOf(kind) \subseteq Stages
  BY DEF Stages
<1>2. /\ "idle" \in StagesOf("none") /\ "stage" \in StagesOf("write")
      /\ "scan" \in StagesOf("recover") /\ "remove" \in StagesOf("remove")
      /\ "quarantine" \in StagesOf("quarantine")
      /\ Kinds = {"none", "write", "recover", "quarantine", "remove"}
  BY DEF StagesOf, Writing, Kinds
<1>3. {"idle", "stage", "scan", "remove", "quarantine"} \subseteq Stages
  BY <1>1, <1>2
<1>4. Missing \in Contents /\ Docs \subseteq Contents /\ <<>> \in Lefts /\ Artifacts \in Lefts
  BY DEF Contents, Lefts
<1>5. /\ NoJob \in Fields /\ NoJob.stage = "idle" /\ NoJob.kind = "none"
      /\ NoJob.ok /\ ~NoJob.removed
  BY <1>2, <1>3, <1>4 DEF NoJob
<1>6. NoJob \in Jobs
  BY <1>2, <1>5 DEF Jobs
<1>7. ASSUME NEW doc \in Docs
      PROVE  LET j == [NoJob EXCEPT !.stage = "stage", !.kind = "write", !.doc = doc]
             IN  j \in Jobs /\ j.stage = "stage" /\ j.kind = "write" /\ j.doc = doc /\ j.ok
                 /\ ~j.removed
  <2> DEFINE j == [NoJob EXCEPT !.stage = "stage", !.kind = "write", !.doc = doc]
  <2>1. j \in Fields /\ j.stage = "stage" /\ j.kind = "write" /\ j.doc = doc /\ j.ok
        /\ ~j.removed
    BY <1>2, <1>3, <1>4, <1>5
  <2> HIDE DEF j
  <2>2. j \in Jobs
    BY <1>2, <2>1 DEF Jobs
  <2> QED
    BY <2>1, <2>2 DEF j
<1>8. LET j == [NoJob EXCEPT !.stage = "scan", !.kind = "recover"]
      IN  j \in Jobs /\ j.stage = "scan" /\ j.kind = "recover"
  <2> DEFINE j == [NoJob EXCEPT !.stage = "scan", !.kind = "recover"]
  <2>1. j \in Fields /\ j.stage = "scan" /\ j.kind = "recover"
    BY <1>2, <1>3, <1>5
  <2> HIDE DEF j
  <2>2. j \in Jobs
    BY <1>2, <2>1 DEF Jobs
  <2> QED
    BY <2>1, <2>2 DEF j
<1>9. ASSUME NEW kind \in {"remove", "quarantine"}
      PROVE  LET j == [NoJob EXCEPT !.stage = kind, !.kind = kind, !.left = Artifacts]
             IN  j \in Jobs /\ j.stage = kind /\ j.kind = kind /\ j.left = Artifacts /\ j.ok
                 /\ ~j.removed
  <2> DEFINE j == [NoJob EXCEPT !.stage = kind, !.kind = kind, !.left = Artifacts]
  <2>1. j \in Fields /\ j.stage = kind /\ j.kind = kind /\ j.left = Artifacts /\ j.ok
        /\ ~j.removed
    BY <1>2, <1>3, <1>4, <1>5
  <2> HIDE DEF j
  <2>2. j \in Jobs
    BY <1>2, <2>1 DEF Jobs
  <2> QED
    BY <2>1, <2>2 DEF j
<1> QED
  BY <1>5, <1>6, <1>7, <1>8, <1>9

\* The kind of a job tells its stages, and a stage the kinds.
LEMMA JobFacts ==
  ASSUME NEW j \in Jobs
  PROVE  /\ j.kind \in Kinds /\ j.stage \in StagesOf(j.kind) /\ j.stage \in Stages
         /\ j.doc \in Contents /\ j.left \in Lefts
         /\ j.removed \in BOOLEAN /\ j.ok \in BOOLEAN
         /\ j.stage = "idle" <=> j.kind = "none"
         /\ j.kind = "none" => j = NoJob
         /\ j.stage \in Writing => j.kind \in {"write", "recover"}
         /\ j.stage = "scan" => j.kind = "recover"
         /\ j.stage \in {"remove", "removed"} => j.kind = "remove"
         /\ j.stage \in {"quarantine", "quarantined"} => j.kind = "quarantine"
         /\ j.stage \notin {"displace", "displaced"}
BY DEF Jobs, Kinds, Stages, StagesOf, Writing

\* What is left of a job is done without changing its kind.
Moves(t, stage, doc, left, removed) ==
  /\ job' \in [Threads -> Jobs]
  /\ \A u \in Threads \ {t} : job'[u] = job[u]
  /\ job'[t].kind = job[t].kind /\ job'[t].ok = job[t].ok
  /\ job'[t].stage = stage /\ job'[t].doc = doc /\ job'[t].left = left
  /\ job'[t].removed = removed

\* A job takes a new stage.
LEMMA UpdateMoves ==
  ASSUME job \in [Threads -> Jobs], NEW t \in Threads, job[t].kind # "none",
         NEW stage \in StagesOf(job[t].kind), NEW doc \in Contents, NEW left \in Lefts,
         NEW removed \in BOOLEAN, NEW k,
         k = [job[t] EXCEPT !.stage = stage, !.doc = doc, !.left = left, !.removed = removed],
         Becoming(t, k)
  PROVE  Moves(t, stage, doc, left, removed)
<1> DEFINE Fields == [stage: Stages, kind: Kinds, doc: Contents, left: Lefts, removed: BOOLEAN,
                      ok: BOOLEAN]
<1>1. job[t] \in Jobs
  OBVIOUS
<1>2. job[t] \in Fields /\ job[t].kind \in Kinds
  BY <1>1 DEF Jobs
<1>3. stage \in Stages
  BY <1>2 DEF Stages
<1>4. /\ k \in Fields /\ k.kind = job[t].kind /\ k.ok = job[t].ok
      /\ k.stage = stage /\ k.doc = doc /\ k.left = left /\ k.removed = removed
  BY <1>2, <1>3
<1>5. k \in Jobs
  BY <1>4 DEF Jobs
<1>6. job' = [job EXCEPT ![t] = k]
  BY DEF Becoming
<1> QED
  BY <1>4, <1>5, <1>6 DEF Moves

\* It goes on to the next stage.
LEMMA GotoMoves ==
  ASSUME job \in [Threads -> Jobs], NEW t \in Threads, job[t].kind # "none",
         NEW stage \in StagesOf(job[t].kind), Goto(t, stage)
  PROVE  Moves(t, stage, job[t].doc, job[t].left, job[t].removed)
<1> DEFINE j == job[t]
           k == [j EXCEPT !.stage = stage]
<1>1. j \in Jobs
  OBVIOUS
<1>2. k = [j EXCEPT !.stage = stage, !.doc = j.doc, !.left = j.left, !.removed = j.removed]
  BY <1>1 DEF Jobs
<1>3. Becoming(t, k)
  BY DEF Goto
<1>4. j.doc \in Contents /\ j.left \in Lefts /\ j.removed \in BOOLEAN
  BY <1>1, JobFacts
<1> HIDE DEF k
<1> QED
  BY <1>2, <1>3, <1>4, UpdateMoves

\* Nothing fails when the count stays.
LEMMA NoFailure ==
  ASSUME faults \in Nat, faults' = faults, NEW c
  PROVE  ~Fault(c)
BY DEF Fault

LEMMA ChooseMoves ==
  ASSUME Types, NEW t \in Threads, Choose(t), disk["primary"] # Torn
  PROVE  /\ job[t].kind = "recover" /\ job[t].stage = "scan"
         /\ UNCHANGED <<disk, survivors>>
         /\ job' \in [Threads -> Jobs]
         /\ \A u \in Threads \ {t} : job'[u] = job[u]
         /\ job'[t].kind = "recover" /\ job'[t].doc = Recovered(disk)
         /\ job'[t].ok = (Recovered(disk) # Torn)
         /\ \/ job'[t].stage = "done"
            \/ job'[t].stage = "stage" /\ Valid(Recovered(disk))
<1> DEFINE j == job[t]
           found == Recovered(disk)
           stage == IF ~Valid(found) \/ Scan(disk).best = "primary" THEN "done"
                    ELSE IF disk["primary"] = Torn THEN "displace" ELSE "stage"
           k == [j EXCEPT !.doc = found, !.ok = (found # Torn), !.stage = stage]
<1>1. j \in Jobs /\ j.stage = "scan" /\ job \in [Threads -> Jobs]
  BY DEF Types, Choose, At
<1>2. j.kind = "recover"
  BY <1>1, JobFacts
<1>3. stage \in {"done", "stage"} /\ (stage = "stage" => Valid(found))
  OBVIOUS
<1>4. found \in Contents
  BY RecoveredType DEF Types
<1>5. Becoming(t, k) /\ UNCHANGED <<disk, survivors>>
  BY DEF Choose
<1> HIDE DEF found, stage
<1>6. stage \in Stages /\ stage \in StagesOf("recover")
  BY <1>3 DEF Stages, StagesOf, Kinds, Writing
<1>7. k \in Jobs /\ k.kind = "recover" /\ k.doc = found /\ k.ok = (found # Torn) /\ k.stage = stage
  BY <1>1, <1>2, <1>4, <1>6 DEF Jobs
<1> HIDE DEF k
<1>8. /\ job' \in [Threads -> Jobs] /\ job'[t] = k
      /\ \A u \in Threads \ {t} : job'[u] = job[u]
  BY <1>1, <1>5, <1>7 DEF Becoming
<1> QED
  BY <1>1, <1>2, <1>3, <1>5, <1>7, <1>8 DEF found

\* Stages of a job, for its kind.
LEMMA KindStages ==
  /\ \A kind \in {"write", "recover"} : Writing \cup {"done"} \subseteq StagesOf(kind)
  /\ StagesOf("quarantine") = {"quarantine", "quarantined", "done"}
  /\ StagesOf("remove") = {"remove", "removed", "done"}
  /\ Writing = {"stage", "staged", "retire", "retired", "promote", "promoted"}
BY DEF StagesOf, Writing

\* The stage of a thread's job and its kind.
LEMMA DoingFacts ==
  ASSUME Types, NEW t \in Threads
  PROVE  /\ job \in [Threads -> Jobs] /\ job[t] \in Jobs
         /\ job[t].doc \in Contents /\ job[t].left \in Lefts
         /\ job[t].removed \in BOOLEAN /\ job[t].kind \in Kinds
         /\ job[t].stage \in Writing => job[t].kind \in {"write", "recover"}
BY JobFacts DEF Types

LEMMA StageMoves ==
  ASSUME Types, faults \in Nat, faults' = faults, NEW t \in Threads, Stage(t)
  PROVE  /\ job[t].kind \in {"write", "recover"} /\ job[t].stage = "stage"
         /\ Becomes(Replace("tmp", job[t].doc), {Replace("tmp", Missing), Replace("tmp", Torn)})
         /\ Moves(t, "staged", job[t].doc, job[t].left, job[t].removed)
<1>1. job[t].stage = "stage" /\ job[t].kind \in {"write", "recover"}
  BY DoingFacts, KindStages DEF Stage, At
<1>2. /\ Becomes(Replace("tmp", job[t].doc), {Replace("tmp", Missing), Replace("tmp", Torn)})
      /\ Goto(t, "staged")
  BY NoFailure DEF Stage
<1>3. "staged" \in StagesOf(job[t].kind)
  BY <1>1, KindStages
<1> QED
  BY <1>1, <1>2, <1>3, DoingFacts, GotoMoves

LEMMA RetireMoves ==
  ASSUME Types, faults \in Nat, faults' = faults, NEW t \in Threads, Retire(t)
  PROVE  /\ job[t].kind \in {"write", "recover"} /\ job[t].stage = "retire"
         /\ Becomes(Rename("primary", "bak"), {Replace("bak", Missing)})
         /\ Moves(t, "retired", job[t].doc, job[t].left, job[t].removed)
<1>1. job[t].stage = "retire" /\ job[t].kind \in {"write", "recover"}
  BY DoingFacts, KindStages DEF Retire, At
<1>2. Becomes(Rename("primary", "bak"), {Replace("bak", Missing)}) /\ Goto(t, "retired")
  BY NoFailure DEF Retire
<1>3. "retired" \in StagesOf(job[t].kind)
  BY <1>1, KindStages
<1> QED
  BY <1>1, <1>2, <1>3, DoingFacts, GotoMoves

LEMMA PromoteMoves ==
  ASSUME Types, faults \in Nat, faults' = faults, NEW t \in Threads, Promote(t)
  PROVE  /\ job[t].kind \in {"write", "recover"} /\ job[t].stage = "promote"
         /\ Becomes(Rename("tmp", "primary"), {})
         /\ Moves(t, "promoted", job[t].doc, job[t].left, job[t].removed)
<1>1. job[t].stage = "promote" /\ job[t].kind \in {"write", "recover"}
  BY DoingFacts, KindStages DEF Promote, At
<1>2. Becomes(Rename("tmp", "primary"), {}) /\ Goto(t, "promoted")
  BY NoFailure DEF Promote
<1>3. "promoted" \in StagesOf(job[t].kind)
  BY <1>1, KindStages
<1> QED
  BY <1>1, <1>2, <1>3, DoingFacts, GotoMoves

\* The names still to remove are the rest of Artifacts.
LEMMA LeftFacts ==
  ASSUME NEW left \in Lefts
  PROVE  /\ left # <<>> => Head(left) \in Names /\ Tail(left) \in Lefts
         /\ left # <<>> => \A name \in Names :
              (\A i \in DOMAIN Tail(left) : Tail(left)[i] # name) =>
                name = Head(left) \/ (\A i \in DOMAIN left : left[i] # name)
         /\ Tail(left) # Artifacts \/ left = <<>>
         /\ Artifacts # <<>>
         /\ \A name \in Names : \E i \in DOMAIN Artifacts : Artifacts[i] = name
<1>1. CASE left = Artifacts
  <2>1. Head(left) = "primary" /\ Tail(left) = <<"tmp", "bak">>
    BY <1>1 DEF Artifacts
  <2>2. DOMAIN Tail(left) = {1, 2} /\ DOMAIN left = {1, 2, 3}
        /\ Tail(left)[1] = "tmp" /\ Tail(left)[2] = "bak"
    BY <1>1, <2>1 DEF Artifacts
  <2> QED
    BY <1>1, <2>1, <2>2 DEF Lefts, Names, Artifacts
<1>2. CASE left = <<"tmp", "bak">>
  <2>1. Head(left) = "tmp" /\ Tail(left) = <<"bak">>
    BY <1>2
  <2>2. DOMAIN Tail(left) = {1} /\ DOMAIN left = {1, 2} /\ Tail(left)[1] = "bak"
        /\ left[1] = "tmp" /\ left[2] = "bak"
    BY <1>2, <2>1
  <2> QED
    BY <1>2, <2>1, <2>2 DEF Lefts, Names, Artifacts
<1>3. CASE left = <<"bak">>
  <2>1. Head(left) = "bak" /\ Tail(left) = <<>>
    BY <1>3
  <2>2. DOMAIN left = {1} /\ left[1] = "bak"
    BY <1>3
  <2> QED
    BY <1>3, <2>1, <2>2 DEF Lefts, Names, Artifacts
<1>4. CASE left = <<>>
  BY <1>4 DEF Names, Artifacts
<1> QED
  BY <1>1, <1>2, <1>3, <1>4 DEF Lefts

LEMMA QuarantineMoves ==
  ASSUME Types, faults \in Nat, faults' = faults, NEW t \in Threads, Quarantine(t)
  PROVE  LET file == Head(job[t].left)
         IN  /\ job[t].kind = "quarantine" /\ job[t].stage = "quarantine"
             /\ job[t].left # <<>>
             /\ \/ /\ disk[file] = Missing /\ UNCHANGED <<disk, survivors>>
                   /\ Moves(t, "quarantine", job[t].doc, Tail(job[t].left), job[t].removed)
                \/ /\ Becomes(Replace(file, Missing), {})
                   /\ Moves(t, "quarantined", job[t].doc, Tail(job[t].left), job[t].removed)
<1> DEFINE j == job[t]
           rest == Tail(j.left)
           after == [j EXCEPT !.left = Tail(@)]
           moved == [after EXCEPT !.stage = "quarantined"]
<1>1. j \in Jobs /\ j.stage = "quarantine" /\ j.left # <<>> /\ job \in [Threads -> Jobs]
  BY DoingFacts DEF Quarantine, At
<1>2. j.kind = "quarantine" /\ j.left \in Lefts /\ rest \in Lefts
  BY <1>1, JobFacts, LeftFacts
<1>3. /\ after = [j EXCEPT !.stage = "quarantine", !.doc = j.doc, !.left = rest,
                          !.removed = j.removed]
      /\ moved = [j EXCEPT !.stage = "quarantined", !.doc = j.doc, !.left = rest,
                          !.removed = j.removed]
  BY <1>1 DEF Jobs
<1>4. \/ disk[Head(j.left)] = Missing /\ UNCHANGED <<disk, survivors>> /\ Becoming(t, after)
      \/ Becomes(Replace(Head(j.left), Missing), {}) /\ Becoming(t, moved)
  BY NoFailure DEF Quarantine
<1>5. j.doc \in Contents /\ j.removed \in BOOLEAN
  BY <1>1, JobFacts
<1> DEFINE here == "quarantine"
           there == "quarantined"
<1>8. here \in StagesOf(j.kind) /\ there \in StagesOf(j.kind) /\ j.kind # "none"
  BY <1>2, KindStages
<1> HIDE DEF after, moved, rest, here, there
<1>6. Becoming(t, after) => Moves(t, here, j.doc, rest, j.removed)
  BY <1>1, <1>2, <1>3, <1>5, <1>8, UpdateMoves DEF here
<1>7. Becoming(t, moved) => Moves(t, there, j.doc, rest, j.removed)
  BY <1>1, <1>2, <1>3, <1>5, <1>8, UpdateMoves DEF there
<1> QED
  BY <1>1, <1>2, <1>4, <1>6, <1>7 DEF rest, here, there

LEMMA UnlinkMoves ==
  ASSUME Types, faults \in Nat, faults' = faults, NEW t \in Threads, Unlink(t)
  PROVE  LET file == Head(job[t].left)
         IN  /\ job[t].kind = "remove" /\ job[t].stage = "remove"
             /\ job[t].left # <<>>
             /\ \/ /\ disk[file] = Missing /\ UNCHANGED <<disk, survivors>>
                   /\ Moves(t, "remove", job[t].doc, Tail(job[t].left), job[t].removed)
                \/ /\ Becomes(Replace(file, Missing), {})
                   /\ Moves(t, "remove", job[t].doc, Tail(job[t].left), TRUE)
<1> DEFINE j == job[t]
           rest == Tail(j.left)
           after == [j EXCEPT !.left = Tail(@)]
           moved == [after EXCEPT !.removed = TRUE]
<1>1. j \in Jobs /\ j.stage = "remove" /\ j.left # <<>> /\ job \in [Threads -> Jobs]
  BY DoingFacts DEF Unlink, At
<1>2. j.kind = "remove" /\ j.left \in Lefts /\ rest \in Lefts
  BY <1>1, JobFacts, LeftFacts
<1>3. /\ after = [j EXCEPT !.stage = "remove", !.doc = j.doc, !.left = rest,
                          !.removed = j.removed]
      /\ moved = [j EXCEPT !.stage = "remove", !.doc = j.doc, !.left = rest, !.removed = TRUE]
  BY <1>1 DEF Jobs
<1>4. \/ disk[Head(j.left)] = Missing /\ UNCHANGED <<disk, survivors>> /\ Becoming(t, after)
      \/ Becomes(Replace(Head(j.left), Missing), {}) /\ Becoming(t, moved)
  BY NoFailure DEF Unlink
<1>5. j.doc \in Contents /\ j.removed \in BOOLEAN
  BY <1>1, JobFacts
<1> DEFINE here == "remove"
<1>8. here \in StagesOf(j.kind) /\ j.kind # "none"
  BY <1>2, KindStages
<1> HIDE DEF after, moved, rest, here
<1>6. Becoming(t, after) => Moves(t, here, j.doc, rest, j.removed)
  BY <1>1, <1>2, <1>3, <1>5, <1>8, UpdateMoves DEF here
<1>7. Becoming(t, moved) => Moves(t, here, j.doc, rest, TRUE)
  <2> DEFINE yes == TRUE
  <2>1. yes \in BOOLEAN /\ moved = [j EXCEPT !.stage = here, !.doc = j.doc, !.left = rest,
                                            !.removed = yes]
    BY <1>3 DEF here
  <2> HIDE DEF yes
  <2>2. Becoming(t, moved) => Moves(t, here, j.doc, rest, yes)
    BY <1>1, <1>2, <1>5, <1>8, <2>1, UpdateMoves
  <2> QED
    BY <2>2 DEF yes
<1> QED
  BY <1>1, <1>2, <1>4, <1>6, <1>7 DEF rest, here

LEMMA ClearedMoves ==
  ASSUME Types, NEW t \in Threads, Cleared(t), job[t].kind = "quarantine" => ~job[t].removed
  PROVE  /\ job[t].kind \in {"quarantine", "remove"} /\ job[t].stage = job[t].kind
         /\ job[t].left = <<>> /\ UNCHANGED <<disk, survivors>>
         /\ Moves(t, IF job[t].removed THEN "removed" ELSE "done", job[t].doc, job[t].left,
                  job[t].removed)
<1> DEFINE stage == IF job[t].removed THEN "removed" ELSE "done"
<1>1. /\ job[t].stage \in {"remove", "quarantine"} /\ job[t].left = <<>>
      /\ Goto(t, stage) /\ UNCHANGED <<disk, survivors>>
  BY DEF Cleared
<1>2. job[t].kind \in {"quarantine", "remove"} /\ job[t].stage = job[t].kind
  BY <1>1, DoingFacts, JobFacts
<1>3. stage \in StagesOf(job[t].kind)
  BY <1>2, KindStages
<1> HIDE DEF stage
<1>4. Moves(t, stage, job[t].doc, job[t].left, job[t].removed)
  BY <1>1, <1>2, <1>3, DoingFacts, GotoMoves
<1> QED
  BY <1>1, <1>2, <1>4 DEF stage

\* Where the job goes on after a sync.
SyncedStage(t) ==
  CASE job[t].stage = "staged"      -> IF disk["primary"] = Missing THEN "promote" ELSE "retire"
    [] job[t].stage = "retired"     -> "promote"
    [] job[t].stage = "quarantined" -> "quarantine"
    [] job[t].stage \in {"promoted", "removed"} -> "done"

LEMMA SyncParentMoves ==
  ASSUME Types, faults \in Nat, faults' = faults, NEW t \in Threads, SyncParent(t),
         disk["primary"] # Torn
  PROVE  /\ disk' = disk /\ survivors' = {disk}
         /\ job[t].stage \in {"staged", "retired", "promoted", "quarantined", "removed"}
         /\ Moves(t, SyncedStage(t), job[t].doc, job[t].left, job[t].removed)
<1>1. /\ Settled /\ Goto(t, AfterSync(t))
      /\ job[t].stage \in {"staged", "retired", "displaced", "quarantined", "promoted", "removed"}
  BY NoFailure DEF SyncParent, Unsynced
<1>2. job[t].stage \in {"staged", "retired", "promoted", "quarantined", "removed"}
  BY <1>1, DoingFacts, JobFacts
<1>3. SyncedStage(t) = AfterSync(t)
  BY <1>2 DEF SyncedStage, AfterSync
<1>4. SyncedStage(t) \in StagesOf(job[t].kind) /\ job[t].kind # "none"
  <2>1. CASE job[t].stage \in {"staged", "retired", "promoted"}
    <3>1. job[t].kind \in {"write", "recover"}
      BY <2>1, DoingFacts, KindStages
    <3> QED
      BY <2>1, <3>1, KindStages DEF SyncedStage
  <2>2. CASE job[t].stage = "quarantined"
    <3>1. job[t].kind = "quarantine"
      BY <2>2, DoingFacts, JobFacts
    <3> QED
      BY <2>2, <3>1, KindStages DEF SyncedStage
  <2>3. CASE job[t].stage = "removed"
    <3>1. job[t].kind = "remove"
      BY <2>3, DoingFacts, JobFacts
    <3> QED
      BY <2>3, <3>1, KindStages DEF SyncedStage
  <2> QED
    BY <1>2, <2>1, <2>2, <2>3
<1> HIDE DEF SyncedStage
<1>5. Moves(t, SyncedStage(t), job[t].doc, job[t].left, job[t].removed)
  BY <1>1, <1>3, <1>4, DoingFacts, GotoMoves
<1> QED
  BY <1>1, <1>2, <1>5 DEF Settled

-----------------------------------------------------------------------------
(* The files under a step of the job of t, the other thread being idle *)

Stepping(t) ==
  /\ Types /\ Files /\ faults \in Nat /\ faults' = faults
  /\ t \in Threads
  /\ \A u \in Threads \ {t} : job[u].stage = "idle"
  /\ job[t].kind \in {"quarantine", "remove"} => history.kept.id = NoId
  /\ history' = history

\* What the step leaves.
Stepped(t) ==
  /\ disk' \in Views /\ survivors' \subseteq Views /\ disk' \in survivors'
  /\ job' \in [Threads -> Jobs]
  /\ Files'
  /\ \A d \in Stored' : d \in Stored \/ (job[t].kind = "write" /\ d = job[t].doc)
  /\ job'[t].kind = job[t].kind /\ job'[t].stage # "idle"
  /\ job[t].kind = "write" => job'[t].doc = job[t].doc
  /\ \A u \in Threads \ {t} : job'[u] = job[u]

\* The names are three.
LEMMA NameFacts ==
  /\ Names = {"primary", "tmp", "bak"}
  /\ "primary" \in Names /\ "tmp" \in Names /\ "bak" \in Names
BY DEF Names

\* What may become of the directory.
Fit(v) == v \in Views /\ Ordered(v) /\ (history.kept.id # NoId => HasKept(v))

LEMMA BecomesSound ==
  ASSUME Types, Sound, history' = history, NEW steps, NEW view, Becomes(view, steps),
         Fit(view), \A v \in steps : Fit(v)
  PROVE  /\ disk' \in Views /\ survivors' \subseteq Views /\ disk' \in survivors'
         /\ Sound'
         /\ disk' = view
         /\ \A d \in Stored' :
              d \in Stored \/ \E v \in steps \cup {view}, name \in Names : v[name] = d
<1>1. disk' = view /\ survivors' = survivors \cup steps \cup {view}
  BY DEF Becomes
<1>2. disk' \in Views /\ survivors' \subseteq Views /\ disk' \in survivors'
  BY <1>1 DEF Types, Fit
<1>3. Sound'
  <2> SUFFICES ASSUME NEW v \in survivors'
               PROVE  Ordered(v) /\ (history'.kept.id # NoId => HasKept(v)')
    BY DEF Sound
  <2>1. CASE v \in survivors
    BY <2>1 DEF Sound, HasKept
  <2>2. CASE v \in steps \cup {view}
    BY <2>2 DEF Fit, HasKept
  <2> QED
    BY <1>1, <2>1, <2>2
<1>4. ASSUME NEW d \in Stored'
      PROVE  d \in Stored \/ \E v \in steps \cup {view}, name \in Names : v[name] = d
  BY <1>1 DEF Stored
<1> QED
  BY <1>1, <1>2, <1>3, <1>4

\* The directory of the moment is one a crash may leave.
LEMMA DiskFit ==
  ASSUME Types, Sound
  PROVE  Fit(disk)
BY DEF Types, Sound, Fit

\* The other thread has no part in it.
LEMMA IdleProgress ==
  ASSUME NEW u \in Threads, job'[u] \in Jobs, job'[u].stage = "idle"
  PROVE  Progressing(u)'
<1>1. job'[u].kind = "none"
  BY JobFacts
<1> QED
  BY <1>1 DEF Progressing, Writing

\* What a step has to establish about the files.
LEMMA FilesFrom ==
  ASSUME NEW t \in Threads, Stepping(t), \A u \in Threads \ {t} : job'[u] = job[u],
         job' \in [Threads -> Jobs],
         Sound', Progressing(t)', SteadyJob(job'[t]) => survivors' = {disk'}
  PROVE  Files'
<1>1. \A u \in Threads \ {t} : Progressing(u)'
  BY IdleProgress DEF Stepping
<1>2. Synced'
  BY DEF Synced
<1> QED
  BY <1>1, <1>2 DEF Files

\* A recovery chooses.
LEMMA ChooseFiles ==
  ASSUME NEW t \in Threads, Stepping(t), Choose(t)
  PROVE  Stepped(t)
<1>1. Types /\ Files /\ Sound /\ Ordered(disk) /\ disk \in Views
  BY DiskFit DEF Stepping, Files, Fit
<1>2. disk["primary"] # Torn
  BY <1>1 DEF Ordered
<1>3. /\ job[t].kind = "recover" /\ job[t].stage = "scan"
      /\ UNCHANGED <<disk, survivors>>
      /\ job' \in [Threads -> Jobs]
      /\ \A u \in Threads \ {t} : job'[u] = job[u]
      /\ job'[t].kind = "recover" /\ job'[t].doc = Recovered(disk)
      /\ job'[t].ok = (Recovered(disk) # Torn)
      /\ job'[t].stage \in {"done", "stage"}
      /\ job'[t].stage = "stage" => Valid(Recovered(disk))
  BY <1>1, <1>2, ChooseMoves
<1>4. survivors = {disk}
  <2>1. \A u \in Threads : SteadyJob(job[u])
    BY <1>3 DEF Stepping, SteadyJob
  <2> QED
    BY <1>1, <2>1 DEF Files, Synced
<1>5. Recovered(disk) \in Contents /\ (Valid(Recovered(disk)) => Recovered(disk) \in Docs)
  BY <1>1, RecoveredAbove, DocumentFacts DEF Contents
<1>6. Above(Recovered(disk), disk["primary"]) /\ Above(Recovered(disk), disk["bak"])
  BY <1>1, RecoveredAbove, NameFacts DEF Above
<1>7. job'[t].stage = "stage" => job'[t].ok
  BY <1>3, DocumentFacts
<1>8. Recovered(disk)' = Recovered(disk)
  <2>1. disk' = disk
    BY <1>3
  <2> QED
    BY <2>1
<1>9. Progressing(t)'
  BY <1>3, <1>5, <1>6, <1>7, <1>8 DEF Progressing, Writing
<1>10. Sound'
  BY <1>1, <1>3 DEF Sound, HasKept, Stepping
<1>11. Files'
  BY <1>3, <1>4, <1>9, <1>10, FilesFrom
<1>12. Stored' = Stored
  BY <1>3 DEF Stored
<1> QED
  BY <1>1, <1>3, <1>11, <1>12 DEF Stepped, Types

\* The temporary file is written.
LEMMA StageFiles ==
  ASSUME NEW t \in Threads, Stepping(t), Stage(t)
  PROVE  Stepped(t)
<1> DEFINE doc == job[t].doc
           steps == {Replace("tmp", Missing), Replace("tmp", Torn)}
           view == Replace("tmp", doc)
<1>1. /\ Types /\ Files /\ Sound /\ Ordered(disk) /\ disk \in Views
      /\ (history.kept.id # NoId => HasKept(disk)) /\ Progressing(t)
  BY DiskFit DEF Stepping, Files, Fit
<1>2. /\ job[t].kind \in {"write", "recover"} /\ job[t].stage = "stage"
      /\ Becomes(view, steps)
      /\ Moves(t, "staged", doc, job[t].left, job[t].removed)
  BY <1>1, StageMoves DEF Stepping
<1>3. doc \in Docs /\ job[t].ok
      /\ Above(doc, disk["primary"]) /\ Above(doc, disk["bak"])
  BY <1>1, <1>2 DEF Progressing, Writing
<1>4. \A content \in {doc, Missing, Torn} :
        LET v == Replace("tmp", content)
        IN  /\ v \in Views /\ v["tmp"] = content
            /\ v["primary"] = disk["primary"] /\ v["bak"] = disk["bak"]
  <2>1. {doc, Missing, Torn} \subseteq Contents
    BY <1>3 DEF Contents
  <2> QED
    BY <1>1, <2>1, ViewFacts, NameFacts DEF Replace
<1>5. \A content \in {doc, Missing, Torn} : Fit(Replace("tmp", content))
  <2> SUFFICES ASSUME NEW content \in {doc, Missing, Torn}
               PROVE  Fit(Replace("tmp", content))
    OBVIOUS
  <2> DEFINE v == Replace("tmp", content)
  <2>1. /\ v \in Views /\ v["tmp"] = content
        /\ v["primary"] = disk["primary"] /\ v["bak"] = disk["bak"]
    BY <1>4
  <2> HIDE DEF v
  <2>2. Above(content, disk["primary"]) /\ Above(content, disk["bak"])
    BY <1>3, DocumentFacts DEF Above
  <2>3. Ordered(v)
    BY <1>1, <2>1, <2>2 DEF Ordered
  <2>4. history.kept.id # NoId => HasKept(v)
    BY <1>1, <2>1 DEF HasKept
  <2>5. Fit(v)
    BY <2>1, <2>3, <2>4 DEF Fit
  <2> QED
    BY <2>5 DEF v
<1> HIDE DEF steps, view
<1>6. Fit(view) /\ \A v \in steps : Fit(v)
  BY <1>5 DEF view, steps
<1>7. /\ disk' \in Views /\ survivors' \subseteq Views /\ disk' \in survivors' /\ Sound'
      /\ disk' = view
      /\ \A d \in Stored' :
           d \in Stored \/ \E v \in steps \cup {view}, name \in Names : v[name] = d
  BY <1>1, <1>2, <1>6, BecomesSound DEF Stepping
<1>8. /\ disk'["tmp"] = doc /\ disk'["primary"] = disk["primary"] /\ disk'["bak"] = disk["bak"]
  BY <1>4, <1>7 DEF view
<1>9. ~SteadyJob(job'[t]) /\ job'[t].stage = "staged" /\ job'[t].doc = doc /\ job'[t].ok
      /\ job'[t].kind = job[t].kind
  BY <1>2, <1>3 DEF Moves, SteadyJob
<1>10. Progressing(t)'
  BY <1>2, <1>3, <1>8, <1>9 DEF Progressing, Writing
<1>11. Files'
  BY <1>2, <1>7, <1>9, <1>10, FilesFrom DEF Moves
<1>12. ASSUME NEW d \in Stored'
       PROVE  d \in Stored \/ (job[t].kind = "write" /\ d = doc)
  <2>1. d \in Docs
    BY DEF Stored
  <2>2. CASE \E v \in steps \cup {view}, name \in Names : v[name] = d
    <3>1. PICK content \in {doc, Missing, Torn}, name \in Names : Replace("tmp", content)[name] = d
      BY <2>2 DEF steps, view
    <3>2. d = doc \/ d = disk["primary"] \/ d = disk["bak"]
      BY <1>4, <2>1, <3>1, NameFacts, DocumentFacts
    <3>3. \A name2 \in Names : disk[name2] = d => d \in Stored
      BY <1>1, <2>1 DEF Stored, Types
    <3>4. job[t].kind = "recover" => doc = Recovered(disk)
      BY <1>1, <1>2 DEF Progressing
    <3>5. job[t].kind = "recover" => \E name2 \in Names : disk[name2] = doc
      BY <1>1, <1>3, <3>4, RecoveredAbove, DocumentFacts
    <3> QED
      BY <1>2, <3>2, <3>3, <3>5, NameFacts
  <2> QED
    BY <1>7, <2>2
<1> QED
  BY <1>2, <1>7, <1>9, <1>11, <1>12 DEF Stepped, Moves

\* The primary file becomes the backup.
LEMMA RetireFiles ==
  ASSUME NEW t \in Threads, Stepping(t), Retire(t)
  PROVE  Stepped(t)
<1> DEFINE doc == job[t].doc
           steps == {Replace("bak", Missing)}
           view == Rename("primary", "bak")
           p == disk["primary"]
           b == disk["bak"]
<1>1. /\ Types /\ Files /\ Sound /\ Ordered(disk) /\ disk \in Views
      /\ (history.kept.id # NoId => HasKept(disk)) /\ Progressing(t)
  BY DiskFit DEF Stepping, Files, Fit
<1>2. /\ job[t].kind \in {"write", "recover"} /\ job[t].stage = "retire"
      /\ Becomes(view, steps)
      /\ Moves(t, "retired", doc, job[t].left, job[t].removed)
  BY <1>1, RetireMoves DEF Stepping
<1>3. doc \in Docs /\ job[t].ok /\ Above(doc, p) /\ Above(doc, b) /\ disk["tmp"] = doc
      /\ p \in Docs
  BY <1>1, <1>2, ViewFacts, NameFacts DEF Progressing, Writing
<1>4. LET v == Replace("bak", Missing)
      IN  v \in Views /\ v["tmp"] = doc /\ v["primary"] = p /\ v["bak"] = Missing
  BY <1>1, <1>3, ViewFacts, NameFacts DEF Replace, Contents
<1>5. view \in Views /\ view["tmp"] = doc /\ view["primary"] = Missing /\ view["bak"] = p
  BY <1>1, <1>3, NameFacts DEF Rename, Contents, Views
<1>6. history.kept.id # NoId =>
        /\ p.id = history.kept.id
        /\ p.body.progress >= history.kept.progress
  <2>1. Valid(p) /\ (Valid(b) => b \in Docs)
    BY <1>1, <1>3, DocumentFacts, ViewFacts, NameFacts
  <2>2. Above(p, b)
    BY <1>1 DEF Ordered
  <2>3. p.body.progress \in Nat /\ (Valid(b) => b.body.progress \in Nat)
        /\ history.kept.progress \in Nat
    BY <1>1, <1>3, <2>1, DocumentFacts DEF Types, Keeps
  <2> QED
    BY <1>1, <2>1, <2>2, <2>3 DEF HasKept, Above
<1>7. Fit(Replace("bak", Missing))
  <2> DEFINE v == Replace("bak", Missing)
  <2>1. v \in Views /\ v["tmp"] = doc /\ v["primary"] = p /\ v["bak"] = Missing
    BY <1>4
  <2> HIDE DEF v, doc, p
  <2>2. Ordered(v)
    BY <1>3, <2>1, DocumentFacts DEF Ordered, Above
  <2>3. history.kept.id # NoId => HasKept(v)
    BY <1>3, <1>6, <2>1, DocumentFacts DEF HasKept
  <2>4. Fit(v)
    BY <2>1, <2>2, <2>3 DEF Fit
  <2> QED
    BY <2>4 DEF v
<1> HIDE DEF view
<1>8. Fit(view)
  <2>2. Ordered(view)
    BY <1>3, <1>5, DocumentFacts DEF Ordered, Above
  <2>3. history.kept.id # NoId => HasKept(view)
    BY <1>3, <1>5, <1>6, DocumentFacts DEF HasKept
  <2> QED
    BY <1>5, <2>2, <2>3 DEF Fit
<1> HIDE DEF steps
<1>9. \A v \in steps : Fit(v)
  BY <1>7 DEF steps
<1>10. /\ disk' \in Views /\ survivors' \subseteq Views /\ disk' \in survivors' /\ Sound'
       /\ disk' = view
       /\ \A d \in Stored' :
            d \in Stored \/ \E v \in steps \cup {view}, name \in Names : v[name] = d
  BY <1>1, <1>2, <1>8, <1>9, BecomesSound DEF Stepping
<1>11. ~SteadyJob(job'[t]) /\ job'[t].stage = "retired" /\ job'[t].doc = doc /\ job'[t].ok
       /\ job'[t].kind = job[t].kind
  BY <1>2, <1>3 DEF Moves, SteadyJob
<1>12. Progressing(t)'
  BY <1>2, <1>3, <1>5, <1>10, <1>11 DEF Progressing, Writing
<1>13. Files'
  BY <1>2, <1>10, <1>11, <1>12, FilesFrom DEF Moves
<1>14. ASSUME NEW d \in Stored'
       PROVE  d \in Stored
  <2>1. d \in Docs
    BY DEF Stored
  <2>2. CASE \E v \in steps \cup {view}, name \in Names : v[name] = d
    <3>1. d = doc \/ d = p
      BY <1>4, <1>5, <2>1, <2>2, NameFacts, DocumentFacts DEF steps
    <3> QED
      BY <1>1, <1>3, <2>1, <3>1, NameFacts DEF Stored, Types
  <2> QED
    BY <1>10, <2>2
<1> QED
  BY <1>2, <1>10, <1>11, <1>13, <1>14 DEF Stepped, Moves

\* The temporary file becomes the primary one.
LEMMA PromoteFiles ==
  ASSUME NEW t \in Threads, Stepping(t), Promote(t)
  PROVE  Stepped(t)
<1> DEFINE doc == job[t].doc
           view == Rename("tmp", "primary")
           b == disk["bak"]
<1>1. /\ Types /\ Files /\ Sound /\ Ordered(disk) /\ disk \in Views
      /\ (history.kept.id # NoId => HasKept(disk)) /\ Progressing(t)
  BY DiskFit DEF Stepping, Files, Fit
<1>2. /\ job[t].kind \in {"write", "recover"} /\ job[t].stage = "promote"
      /\ Becomes(view, {})
      /\ Moves(t, "promoted", doc, job[t].left, job[t].removed)
  BY <1>1, PromoteMoves DEF Stepping
<1>3. doc \in Docs /\ job[t].ok /\ disk["tmp"] = doc /\ disk["primary"] = Missing
  BY <1>1, <1>2 DEF Progressing, Writing
<1>4. view \in Views /\ view["tmp"] = Missing /\ view["primary"] = doc /\ view["bak"] = b
  BY <1>1, <1>3, NameFacts DEF Rename, Contents, Views
<1>5. Above(doc, b)
  BY <1>1, <1>3 DEF Ordered
<1> HIDE DEF view
<1>6. Fit(view)
  <2>1. Ordered(view)
    BY <1>1, <1>3, <1>4, <1>5, DocumentFacts DEF Ordered, Above
  <2>2. history.kept.id # NoId => HasKept(view)
    BY <1>1, <1>3, <1>4, DocumentFacts DEF HasKept
  <2> QED
    BY <1>4, <2>1, <2>2 DEF Fit
<1>7. /\ disk' \in Views /\ survivors' \subseteq Views /\ disk' \in survivors' /\ Sound'
      /\ disk' = view
      /\ \A d \in Stored' :
           d \in Stored \/ \E v \in {} \cup {view}, name \in Names : v[name] = d
  BY <1>1, <1>2, <1>6, BecomesSound DEF Stepping
<1>8. ~SteadyJob(job'[t]) /\ job'[t].stage = "promoted" /\ job'[t].doc = doc /\ job'[t].ok
      /\ job'[t].kind = job[t].kind
  BY <1>2, <1>3 DEF Moves, SteadyJob
<1>9. Progressing(t)'
  BY <1>2, <1>3, <1>4, <1>7, <1>8 DEF Progressing, Writing
<1>10. Files'
  BY <1>2, <1>7, <1>8, <1>9, FilesFrom DEF Moves
<1>11. ASSUME NEW d \in Stored'
       PROVE  d \in Stored
  <2>1. d \in Docs
    BY DEF Stored
  <2>2. CASE \E name \in Names : view[name] = d
    <3>1. d = doc \/ d = b
      BY <1>4, <2>1, <2>2, NameFacts, DocumentFacts
    <3> QED
      BY <1>1, <1>3, <2>1, <3>1, NameFacts DEF Stored, Types
  <2> QED
    BY <1>7, <2>2
<1> QED
  BY <1>2, <1>7, <1>8, <1>10, <1>11 DEF Stepped, Moves

\* A directory stays in order when a file is removed from it.
LEMMA RemovalOrdered ==
  ASSUME NEW v \in Views, Ordered(v), NEW file \in Names
  PROVE  LET w == [v EXCEPT ![file] = Missing]
         IN  /\ w \in Views /\ Ordered(w)
             /\ \A name \in Names : w[name] = v[name] \/ w[name] = Missing
             /\ w[file] = Missing
             /\ \A name \in Names \ {file} : w[name] = v[name]
<1> DEFINE w == [v EXCEPT ![file] = Missing]
<1>1. /\ w \in Views /\ w[file] = Missing
      /\ \A name \in Names \ {file} : w[name] = v[name]
  BY ViewFacts DEF Contents
<1>2. \A name \in Names : w[name] = v[name] \/ w[name] = Missing
  BY <1>1
<1> HIDE DEF w
<1>3. Ordered(w)
  BY <1>1, <1>2, NameFacts, DocumentFacts DEF Ordered, Above
<1> QED
  BY <1>1, <1>2, <1>3 DEF w

\* One of the files is removed or set aside, or is not there.
LEMMA ClearFiles ==
  ASSUME NEW t \in Threads, Stepping(t), Quarantine(t) \/ Unlink(t)
  PROVE  Stepped(t)
<1> DEFINE left == job[t].left
           file == Head(left)
           view == Replace(file, Missing)
<1>1. /\ Types /\ Files /\ Sound /\ Ordered(disk) /\ disk \in Views /\ Progressing(t)
      /\ faults \in Nat /\ faults' = faults
  BY DiskFit DEF Stepping, Files, Fit
<1>2. \E stage, removed :
        /\ job[t].kind \in {"quarantine", "remove"} /\ job[t].stage = job[t].kind
        /\ left # <<>>
        /\ Moves(t, stage, job[t].doc, Tail(left), removed)
        /\ \/ /\ disk[file] = Missing /\ UNCHANGED <<disk, survivors>>
              /\ stage = job[t].kind /\ removed = job[t].removed
           \/ /\ Becomes(view, {})
              /\ \/ job[t].kind = "quarantine" /\ stage = "quarantined"
                    /\ removed = job[t].removed
                 \/ job[t].kind = "remove" /\ stage = "remove" /\ removed = TRUE
  <2>1. CASE Quarantine(t)
    <3>1. \/ /\ disk[file] = Missing /\ UNCHANGED <<disk, survivors>>
             /\ Moves(t, "quarantine", job[t].doc, Tail(left), job[t].removed)
          \/ /\ Becomes(view, {})
             /\ Moves(t, "quarantined", job[t].doc, Tail(left), job[t].removed)
      BY <1>1, <2>1, QuarantineMoves
    <3>2. job[t].kind = "quarantine" /\ job[t].stage = "quarantine" /\ left # <<>>
      BY <1>1, <2>1, QuarantineMoves
    <3> HIDE DEF file, left, view
    <3> QED
      BY <3>1, <3>2
  <2>2. CASE Unlink(t)
    <3>1. \/ /\ disk[file] = Missing /\ UNCHANGED <<disk, survivors>>
             /\ Moves(t, "remove", job[t].doc, Tail(left), job[t].removed)
          \/ /\ Becomes(view, {})
             /\ Moves(t, "remove", job[t].doc, Tail(left), TRUE)
      BY <1>1, <2>2, UnlinkMoves
    <3>2. job[t].kind = "remove" /\ job[t].stage = "remove" /\ left # <<>>
      BY <1>1, <2>2, UnlinkMoves
    <3> HIDE DEF file, left, view
    <3> QED
      BY <3>1, <3>2
  <2> QED
    BY <2>1, <2>2
<1>3. PICK stage, removed :
        /\ job[t].kind \in {"quarantine", "remove"} /\ job[t].stage = job[t].kind
        /\ left # <<>>
        /\ Moves(t, stage, job[t].doc, Tail(left), removed)
        /\ \/ /\ disk[file] = Missing /\ UNCHANGED <<disk, survivors>>
              /\ stage = job[t].kind /\ removed = job[t].removed
           \/ /\ Becomes(view, {})
              /\ \/ job[t].kind = "quarantine" /\ stage = "quarantined"
                    /\ removed = job[t].removed
                 \/ job[t].kind = "remove" /\ stage = "remove" /\ removed = TRUE
  BY <1>2
<1>4. left \in Lefts /\ file \in Names
  BY <1>1, <1>3, DoingFacts, LeftFacts
<1>5. /\ job' \in [Threads -> Jobs] /\ \A u \in Threads \ {t} : job'[u] = job[u]
      /\ job'[t].kind = job[t].kind /\ job'[t].ok = job[t].ok /\ job'[t].stage = stage
      /\ job'[t].left = Tail(left) /\ job'[t].removed = removed
  BY <1>3 DEF Moves
<1>6. /\ job[t].ok /\ (job[t].kind = "quarantine" => ~job[t].removed)
      /\ \A name \in Names : (\A i \in DOMAIN left : left[i] # name) => disk[name] = Missing
  BY <1>1, <1>3 DEF Progressing
<1>7. history.kept.id = NoId /\ history' = history
  BY <1>3 DEF Stepping
<1>8. /\ disk' \in Views /\ survivors' \subseteq Views /\ disk' \in survivors' /\ Sound'
      /\ \A d \in Stored' : d \in Stored
      /\ disk'[file] = Missing /\ \A name \in Names : disk[name] = Missing => disk'[name] = Missing
  <2>1. CASE UNCHANGED <<disk, survivors>>
    <3>1. disk[file] = Missing \/ Becomes(view, {})
      BY <1>3
    <3>2. Becomes(view, {}) => disk' = view
      BY DEF Becomes
    <3>3. disk'[file] = Missing
      BY <1>1, <1>4, <2>1, <3>1, <3>2, ViewFacts DEF Replace, Contents
    <3>4. Sound'
      BY <1>1, <1>7, <2>1 DEF Sound, HasKept
    <3> QED
      BY <1>1, <2>1, <3>3, <3>4 DEF Types, Stored
  <2>2. CASE Becomes(view, {})
    <3>1. /\ view \in Views /\ Ordered(view)
          /\ \A name \in Names : view[name] = disk[name] \/ view[name] = Missing
          /\ view[file] = Missing
      BY <1>1, <1>4, RemovalOrdered DEF Replace
    <3> HIDE DEF view
    <3>2. Fit(view)
      BY <1>7, <3>1 DEF Fit
    <3>3. /\ disk' \in Views /\ survivors' \subseteq Views /\ disk' \in survivors' /\ Sound'
          /\ disk' = view
          /\ \A d \in Stored' :
               d \in Stored \/ \E v \in {} \cup {view}, name \in Names : v[name] = d
      BY <1>1, <1>7, <2>2, <3>2, BecomesSound
    <3>4. ASSUME NEW d \in Stored'
          PROVE  d \in Stored
      <4>1. d \in Docs
        BY DEF Stored
      <4>2. CASE \E name \in Names : view[name] = d
        BY <1>1, <3>1, <4>1, <4>2, DocumentFacts DEF Stored, Types
      <4> QED
        BY <3>3, <4>2
    <3> QED
      BY <3>1, <3>3, <3>4
  <2> QED
    BY <1>3, <2>1, <2>2
<1>9. ASSUME NEW name \in Names, \A i \in DOMAIN Tail(left) : Tail(left)[i] # name
      PROVE  disk'[name] = Missing
  <2>1. name = file \/ (\A i \in DOMAIN left : left[i] # name)
    BY <1>3, <1>4, <1>9, LeftFacts
  <2> QED
    BY <1>6, <1>8, <2>1
<1>10. Tail(left) # Artifacts
  BY <1>3, <1>4, LeftFacts
<1>11. Progressing(t)'
  <2>1. /\ job'[t].stage \in {"quarantine", "quarantined", "remove"}
        /\ (job'[t].kind = "quarantine" => ~job'[t].removed)
        /\ job'[t].kind \in {"quarantine", "remove"}
    BY <1>3, <1>5, <1>6
  <2> HIDE DEF left
  <2> QED
    BY <1>5, <1>6, <1>9, <1>10, <2>1 DEF Progressing, Writing
<1>12. ASSUME SteadyJob(job'[t]) PROVE survivors' = {disk'}
  <2>1. UNCHANGED <<disk, survivors>> /\ stage = job[t].kind /\ removed = job[t].removed
    <3>1. CASE Becomes(view, {})
                 /\ \/ job[t].kind = "quarantine" /\ stage = "quarantined"
                    \/ job[t].kind = "remove" /\ stage = "remove" /\ removed = TRUE
      BY <1>5, <1>12, <3>1 DEF SteadyJob
    <3> QED
      BY <1>3, <3>1
  <2>2. SteadyJob(job[t])
    BY <1>3, <1>5, <1>12, <2>1 DEF SteadyJob
  <2>3. \A u \in Threads : SteadyJob(job[u])
    BY <2>2 DEF SteadyJob, Stepping
  <2> QED
    BY <1>1, <2>1, <2>3 DEF Files, Synced
<1>13. Files'
  BY <1>5, <1>8, <1>11, <1>12, FilesFrom
<1>14. job'[t].stage # "idle" /\ job[t].kind # "write"
  BY <1>3, <1>5
<1> QED
  BY <1>5, <1>8, <1>13, <1>14 DEF Stepped

\* All of them have been tried.
LEMMA ClearedFiles ==
  ASSUME NEW t \in Threads, Stepping(t), Cleared(t)
  PROVE  Stepped(t)
<1>1. /\ Types /\ Files /\ Sound /\ Ordered(disk) /\ disk \in Views /\ Progressing(t)
  BY DiskFit DEF Stepping, Files, Fit
<1>2. job[t].kind = "quarantine" => ~job[t].removed
  BY <1>1 DEF Progressing
<1>3. /\ job[t].kind \in {"quarantine", "remove"} /\ job[t].stage = job[t].kind
      /\ job[t].left = <<>> /\ UNCHANGED <<disk, survivors>>
      /\ Moves(t, IF job[t].removed THEN "removed" ELSE "done", job[t].doc, job[t].left,
               job[t].removed)
  BY <1>1, <1>2, ClearedMoves
<1>4. /\ job' \in [Threads -> Jobs] /\ \A u \in Threads \ {t} : job'[u] = job[u]
      /\ job'[t].kind = job[t].kind /\ job'[t].ok = job[t].ok
      /\ job'[t].stage = IF job[t].removed THEN "removed" ELSE "done"
      /\ job'[t].left = job[t].left /\ job'[t].removed = job[t].removed
  BY <1>3 DEF Moves
<1>5. /\ job[t].ok /\ \A name \in Names : (\A i \in DOMAIN job[t].left : job[t].left[i] # name)
                                            => disk[name] = Missing
  BY <1>1, <1>3 DEF Progressing
<1>6. Artifacts # <<>>
  BY DEF Artifacts
<1>7. Progressing(t)'
  BY <1>2, <1>3, <1>4, <1>5, <1>6 DEF Progressing, Writing
<1>8. Sound'
  BY <1>1, <1>3 DEF Sound, HasKept, Stepping
<1>9. ASSUME SteadyJob(job'[t]) PROVE survivors' = {disk'}
  <2>1. ~job[t].removed
    BY <1>4, <1>9 DEF SteadyJob
  <2>2. \A u \in Threads : SteadyJob(job[u])
    BY <1>3, <2>1 DEF SteadyJob, Stepping
  <2> QED
    BY <1>1, <1>3, <2>2 DEF Files, Synced
<1>10. Files'
  BY <1>4, <1>7, <1>8, <1>9, FilesFrom
<1>11. Stored' = Stored
  BY <1>3 DEF Stored
<1>12. job'[t].stage # "idle" /\ job[t].kind # "write"
  BY <1>3, <1>4
<1> QED
  BY <1>1, <1>3, <1>4, <1>10, <1>11, <1>12 DEF Stepped, Types

\* The directory is synced.
LEMMA SyncFiles ==
  ASSUME NEW t \in Threads, Stepping(t), SyncParent(t)
  PROVE  Stepped(t)
<1> DEFINE doc == job[t].doc
<1>1. /\ Types /\ Files /\ Sound /\ Ordered(disk) /\ disk \in Views /\ Progressing(t)
      /\ Fit(disk) /\ faults \in Nat /\ faults' = faults
  BY DiskFit DEF Stepping, Files, Fit
<1>2. disk["primary"] # Torn
  BY <1>1 DEF Ordered
<1>3. /\ disk' = disk /\ survivors' = {disk}
      /\ job[t].stage \in {"staged", "retired", "promoted", "quarantined", "removed"}
      /\ Moves(t, SyncedStage(t), doc, job[t].left, job[t].removed)
  BY <1>1, <1>2, SyncParentMoves
<1>4. /\ job' \in [Threads -> Jobs] /\ \A u \in Threads \ {t} : job'[u] = job[u]
      /\ job'[t].kind = job[t].kind /\ job'[t].ok = job[t].ok
      /\ job'[t].stage = SyncedStage(t) /\ job'[t].doc = doc
      /\ job'[t].left = job[t].left /\ job'[t].removed = job[t].removed
  BY <1>3 DEF Moves
<1>5. Recovered(disk)' = Recovered(disk)
  BY <1>3
<1>6. Progressing(t)'
  <2>1. CASE job[t].stage = "staged"
    <3>1. disk["primary"] # Missing => Valid(disk["primary"])
      BY <1>1, <1>2, ViewFacts, NameFacts DEF Contents, Valid, Missing, Torn
    <3>2. job'[t].stage \in {"promote", "retire"}
          /\ (job'[t].stage = "promote" <=> disk["primary"] = Missing)
      BY <1>4, <2>1 DEF SyncedStage
    <3>3. doc \in Docs /\ job[t].ok /\ disk["tmp"] = doc
          /\ Above(doc, disk["primary"]) /\ Above(doc, disk["bak"])
      BY <1>1, <2>1 DEF Progressing, Writing
    <3>4. job[t].kind \in {"write", "recover"}
      BY <1>1, <2>1, DoingFacts DEF Writing
    <3> QED
      BY <1>3, <1>4, <3>1, <3>2, <3>3, <3>4 DEF Progressing, Writing
  <2>2. CASE job[t].stage = "retired"
    <3>1. job'[t].stage = "promote"
      BY <1>4, <2>2 DEF SyncedStage
    <3>2. doc \in Docs /\ job[t].ok /\ disk["tmp"] = doc /\ disk["primary"] = Missing
      BY <1>1, <2>2 DEF Progressing, Writing
    <3>3. job[t].kind \in {"write", "recover"}
      BY <1>1, <2>2, DoingFacts DEF Writing
    <3> QED
      BY <1>3, <1>4, <3>1, <3>2, <3>3 DEF Progressing, Writing
  <2>3. CASE job[t].stage = "promoted"
    <3>1. job'[t].stage = "done"
      BY <1>4, <2>3 DEF SyncedStage
    <3>2. doc \in Docs /\ job[t].ok /\ disk["primary"] = doc /\ disk["tmp"] = Missing
      BY <1>1, <2>3 DEF Progressing, Writing
    <3>3. job[t].kind \in {"write", "recover"}
      BY <1>1, <2>3, DoingFacts DEF Writing
    <3>4. Recovered(disk) = doc /\ doc # Torn
      BY <1>1, <3>2, RecoveredOrdered, DocumentFacts
    <3> QED
      BY <1>3, <1>4, <1>5, <3>1, <3>2, <3>3, <3>4 DEF Progressing, Writing
  <2>4. CASE job[t].stage \in {"quarantined", "removed"}
    <3>1. job[t].kind \in {"quarantine", "remove"} /\ (job[t].stage = "removed" => job[t].kind = "remove")
          /\ (job[t].stage = "quarantined" => job[t].kind = "quarantine")
      BY <2>4, <1>1, DoingFacts, JobFacts
    <3>2. job'[t].stage = IF job[t].stage = "removed" THEN "done" ELSE "quarantine"
      BY <1>4, <2>4 DEF SyncedStage
    <3>3. /\ job[t].ok
          /\ \A name \in Names : (\A i \in DOMAIN job[t].left : job[t].left[i] # name)
                                   => disk[name] = Missing
          /\ job[t].stage = "removed" => job[t].left = <<>>
          /\ job[t].kind = "quarantine" => ~job[t].removed
      BY <1>1, <3>1 DEF Progressing
    <3> QED
      BY <1>3, <1>4, <3>1, <3>2, <3>3 DEF Progressing, Writing
  <2> QED
    BY <1>3, <2>1, <2>2, <2>3, <2>4
<1>7. Sound'
  BY <1>1, <1>3 DEF Sound, HasKept, Stepping, Fit
<1>8. Files'
  BY <1>3, <1>4, <1>6, <1>7, FilesFrom
<1>9. \A d \in Stored' : d \in Stored
  BY <1>1, <1>3 DEF Stored, Types
<1>10. job'[t].stage # "idle"
  BY <1>3, <1>4 DEF SyncedStage
<1> QED
  BY <1>1, <1>3, <1>4, <1>8, <1>9, <1>10 DEF Stepped

\* Any step.
LEMMA JobStepFiles ==
  ASSUME NEW t \in Threads, Stepping(t), JobStep(t)
  PROVE  Stepped(t) /\ job[t].stage # "idle"
<1>1. ~Displace(t)
  BY DoingFacts, JobFacts DEF Stepping, Displace, At
<1>2. job[t].stage # "idle"
  BY <1>1 DEF JobStep, At, Choose, Stage, Retire, Promote, Quarantine, Unlink, Cleared,
     SyncParent, Unsynced
<1> QED
  BY <1>1, <1>2, ChooseFiles, StageFiles, RetireFiles, PromoteFiles, ClearFiles, ClearedFiles,
     SyncFiles DEF JobStep

-----------------------------------------------------------------------------
(* The whole invariant under a step of a job *)

Ctx == IInv /\ faults = 0 /\ Types /\ Files /\ Memory /\ Screens

Kept == Types /\ Files /\ Memory /\ Screens

Calls == {"none"} \cup Loads \cup Writes \cup Clears

LEMMA CallFacts ==
  /\ Loads = {"boot", "resume", "load_abandoned", "recover"}
  /\ Writes = {"return", "quit", "mark_abandoned", "mark_ended"}
  /\ Clears = {"discard", "remove_abandoned", "remove_ended", "quarantine"}
  /\ \A call \in Calls :
       /\ KindOf(call) = "write" <=> call \in Writes
       /\ KindOf(call) = "recover" <=> call \in Loads
       /\ KindOf(call) \in {"quarantine", "remove"} <=> call \in Clears
       /\ KindOf(call) = "quarantine" <=> call = "quarantine"
       /\ KindOf(call) = "none" <=> call = "none"
BY DEF Loads, Writes, Clears, Calls, KindOf

\* The next number is new.
LEMMA RevFacts ==
  ASSUME Types
  PROVE  /\ NextRevision \in Nat /\ NextRevision >= 1
         /\ NextRevision > run.rev /\ NextRevision > coordinator.revision
         /\ NextRevision = run.rev + 1 \/ NextRevision = coordinator.revision + 1
         /\ run.rev \in Nat /\ run.progress \in Nat /\ coordinator.revision \in Nat
<1>1. run.rev \in Nat /\ run.progress \in Nat /\ coordinator.revision \in Nat
  BY CoordinatorAssumption DEF Types, Runs, run
<1> QED
  BY <1>1 DEF NextRevision

\* Who works, and who waits.
LEMMA ThreadFacts ==
  ASSUME Ctx
  PROVE  /\ Threads = {"main", "worker"} /\ "main" \in Threads /\ "worker" \in Threads
         /\ job \in [Threads -> Jobs]
         /\ job["main"].stage # "idle" =>
              /\ coordinator.call # "none" /\ ~coordinator.inFlight
              /\ job["worker"].stage = "idle" /\ queue = Missing /\ completion = NoCompletion
         /\ job["worker"].stage # "idle" =>
              /\ coordinator.call = "none" /\ coordinator.inFlight
              /\ job["main"].stage = "idle" /\ queue = Missing /\ completion = NoCompletion
BY CoordinatorAssumption DEF Ctx, Types, IInv, OneCall, FlagCovers, ControlType, At

\* The snapshot of a run that may be written.
LEMMA SnapshotFacts ==
  /\ Snapshot.id = run.id /\ Snapshot.rev = NextRevision
  /\ Snapshot.body.progress = run.progress /\ Snapshot.body.terminal = run.terminal
BY DEF Snapshot

LEMMA StepContext ==
  ASSUME Ctx, NEW t \in Threads, FileStep(t), faults' = 0
  PROVE  Stepping(t) /\ JobStep(t) /\ job[t].stage # "idle"
         /\ UNCHANGED <<app, coordinator, queue, completion, recorded, history>>
<1>1. JobStep(t) /\ UNCHANGED <<app, coordinator, queue, completion, recorded, history>>
  BY DEF FileStep
<1>2. job[t].stage # "idle"
  BY <1>1 DEF JobStep, At, Choose, Stage, Retire, Promote, Displace, Quarantine, Unlink, Cleared,
     SyncParent, Unsynced
<1>3. \A u \in Threads \ {t} : job[u].stage = "idle"
  BY <1>2, ThreadFacts
<1>4. ASSUME job[t].kind \in {"quarantine", "remove"} PROVE history.kept.id = NoId
  <2>1. t = "main"
    BY <1>2, <1>4, ThreadFacts DEF Ctx, Memory, Flight, At
  <2>2. KindOf(coordinator.call) \in {"quarantine", "remove"} /\ coordinator.call \in Calls
    BY <1>2, <1>4, <2>1 DEF Ctx, Memory, Calling, At, Types, Calls
  <2>3. history.kept = NothingKept
    BY <1>2, <2>1, <2>2, CallFacts DEF Ctx, Memory, Calling, At
  <2> QED
    BY <2>3 DEF NothingKept
<1> QED
  BY <1>1, <1>2, <1>3, <1>4 DEF Stepping, Ctx

LEMMA FileStepKept ==
  ASSUME Ctx, NEW t \in Threads, FileStep(t), faults' = 0
  PROVE  Kept'
<1>1. /\ Stepped(t) /\ job[t].stage # "idle" /\ Stepping(t)
      /\ UNCHANGED <<app, coordinator, queue, completion, recorded, history>>
  BY StepContext, JobStepFiles
<1>2. /\ Files' /\ job' \in [Threads -> Jobs]
      /\ \A d \in Stored' : d \in Stored \/ (job[t].kind = "write" /\ d = job[t].doc)
      /\ job'[t].kind = job[t].kind /\ job'[t].stage # "idle"
      /\ job[t].kind = "write" => job'[t].doc = job[t].doc
      /\ \A u \in Threads \ {t} : job'[u] = job[u]
  BY <1>1 DEF Stepped
<1>3. Types'
  BY <1>1 DEF Stepped, Ctx, Types, run
<1>4. queue = Missing /\ completion = NoCompletion
  BY <1>1, ThreadFacts
<1>5. WritingRun' = WritingRun /\ NextRevision' = NextRevision /\ run' = run
  <2>1. At("main", "idle")' = At("main", "idle")
    BY <1>1, <1>2, ThreadFacts DEF At
  <2> QED
    BY <1>1, <2>1 DEF WritingRun, NextRevision, run
<1>6. t = "main" \/ (t = "worker" /\ job[t].kind = "write" /\ InFlight(job[t].doc))
  BY <1>1, ThreadFacts DEF Ctx, Memory, Flight, At
<1>7. ASSUME job[t].kind = "write", t = "main"
      PROVE  coordinator.call \in Writes /\ job[t].doc = Snapshot /\ WritingRun
  <2>1. KindOf(coordinator.call) = "write" /\ coordinator.call \in Calls
    BY <1>1, <1>7 DEF Ctx, Memory, Calling, At, Types, Calls
  <2> QED
    BY <1>1, <1>7, <2>1, CallFacts DEF Ctx, Memory, Calling, At, WritingRun
<1>8. Covers'
  <2> SUFFICES ASSUME run.id # NoId, NEW d \in Stored'
               PROVE  /\ d.id = run.id /\ d.body.progress <= run.progress
                      /\ d.rev < NextRevision \/ (WritingRun /\ d.rev = NextRevision)
    BY <1>5 DEF Covers, Covered
  <2>1. CASE d \in Stored
    BY <2>1 DEF Ctx, Memory, Covers, Covered
  <2>2. CASE job[t].kind = "write" /\ d = job[t].doc
    <3>1. run.progress \in Nat /\ run.rev < NextRevision
      BY RevFacts DEF Ctx
    <3> QED
      BY <1>6, <1>7, <2>2, <3>1, SnapshotFacts DEF InFlight
  <2> QED
    BY <1>2, <2>1, <2>2
<1>9. NoMarks'
  <2> SUFFICES ASSUME coordinator.call \in {"none", "resume", "return", "quit", "load_abandoned",
                                            "recover", "quarantine"},
                      app.mode # "Off", NEW d \in Stored'
               PROVE  d.body.terminal = "Active"
    BY <1>1 DEF NoMarks
  <2>1. CASE d \in Stored
    BY <2>1 DEF Ctx, Memory, NoMarks
  <2>2. CASE job[t].kind = "write" /\ d = job[t].doc
    <3>1. CASE t = "main"
      <4>1. coordinator.call \in {"return", "quit"} /\ d = Snapshot
        BY <1>7, <2>2, <3>1, CallFacts
      <4>2. run.terminal = "Active"
        BY <4>1 DEF Ctx, Screens, Purposes, Wanted, Live
      <4> QED
        BY <4>1, <4>2, SnapshotFacts
    <3> QED
      BY <1>6, <2>2, <3>1 DEF InFlight
  <2> QED
    BY <1>2, <2>1, <2>2
<1>10. Flight'
  <2>1. ASSUME job'["worker"].stage # "idle"
        PROVE  job'["worker"].kind = "write" /\ InFlight(job'["worker"].doc)
    BY <1>1, <1>2, <1>6, <2>1, ThreadFacts DEF Ctx, Memory, Flight, At
  <2>3. InFlight(job["worker"].doc)' <=> InFlight(job'["worker"].doc)
    BY <1>1, <1>5 DEF InFlight
  <2> QED
    BY <1>1, <1>4, <2>1, <2>3 DEF Flight, At
<1>11. Calling'
  <2> SUFFICES ASSUME job'["main"].stage # "idle"
               PROVE  /\ job'["main"].kind = KindOf(coordinator.call)
                      /\ coordinator.call \in Writes => job'["main"].doc = Snapshot
                      /\ coordinator.call \in Clears => history.kept = NothingKept
    BY <1>1, <1>5 DEF Calling, At, Snapshot
  <2>1. job["main"].stage # "idle" /\ job'["main"].kind = job["main"].kind
    BY <1>1, <1>2, ThreadFacts
  <2>2. /\ job["main"].kind = KindOf(coordinator.call)
        /\ coordinator.call \in Writes => job["main"].doc = Snapshot
        /\ coordinator.call \in Clears => history.kept = NothingKept
    BY <2>1 DEF Ctx, Memory, Calling, At
  <2>3. coordinator.call \in Writes => job["main"].kind = "write"
    BY <2>2, CallFacts DEF Calls
  <2>4. job["main"].kind = "write" => job'["main"].doc = job["main"].doc
    BY <1>2, ThreadFacts
  <2> QED
    BY <2>1, <2>2, <2>3, <2>4
<1>12. Screens'
  <2>1. coordinator.call # "none" \/ app.available
    BY <1>1, ThreadFacts DEF Ctx, Screens, Offered
  <2>2. Vacant'
    BY <1>1, <2>1 DEF Vacant
  <2>3. Purposes' /\ Wanted' /\ Saved' /\ Offered'
    BY <1>1 DEF Ctx, Screens, Purposes, Wanted, Saved, Offered, Live, run
  <2> QED
    BY <2>2, <2>3 DEF Screens
<1> QED
  BY <1>2, <1>3, <1>8, <1>9, <1>10, <1>11, <1>12 DEF Kept, Memory

-----------------------------------------------------------------------------
(* The screens *)

\* Nothing happens to the files.
LEMMA FilesStay ==
  ASSUME Files, UNCHANGED <<disk, survivors, job>>
  PROVE  Synced' /\ (\A t \in Threads : Progressing(t)') /\ Stored' = Stored
<1>1. Synced'
  BY DEF Files, Synced
<1>2. \A t \in Threads : Progressing(t)'
  <2>1. Recovered(disk)' = Recovered(disk)
    OBVIOUS
  <2> SUFFICES ASSUME NEW t \in Threads PROVE Progressing(t)'
    OBVIOUS
  <2>2. Progressing(t)
    BY DEF Files
  <2> QED
    BY <2>1, <2>2 DEF Progressing
<1>3. Stored' = Stored
  BY DEF Stored
<1> QED
  BY <1>1, <1>2, <1>3

\* Neither to what they have to keep.
LEMMA FilesSame ==
  ASSUME Ctx, UNCHANGED <<disk, survivors, job>>, history'.kept = history.kept
  PROVE  Files' /\ Stored' = Stored
<1>1. Sound'
  BY DEF Ctx, Files, Sound, HasKept
<1> QED
  BY <1>1, FilesStay DEF Ctx, Files

\* In a frame no call is made.
LEMMA FrameFacts ==
  ASSUME Ctx, Frame
  PROVE  /\ coordinator.call = "none" /\ app.mode \notin {"Off", "Boot", "Exiting"}
         /\ job["main"].stage = "idle" /\ ~WritingRun
BY ThreadFacts, CallFacts DEF Frame, WritingRun, Ctx, IInv, OneCall, At

\* An input leaves the files and what is under way alone; the run at most plays on.
LEMMA ScreenMemory ==
  ASSUME Ctx, Frame, UNCHANGED <<disk, survivors, job, coordinator, queue, completion>>,
         history'.kept = history.kept,
         {"started", "ended", "marked", "kept"} \subseteq DOMAIN history',
         app'.run \in Runs, app'.run.id = run.id, app'.run.rev = run.rev,
         app'.run.progress >= run.progress,
         app'.available \in BOOLEAN, app'.damaged \in BOOLEAN
  PROVE  Types' /\ Files' /\ Memory'
<1>1. Files' /\ Stored' = Stored
  BY FilesSame
<1>2. Types'
  BY DEF Ctx, Types, run
<1>3. /\ coordinator.call = "none" /\ app.mode \notin {"Off", "Boot", "Exiting"}
      /\ job["main"].stage = "idle" /\ ~WritingRun
  BY FrameFacts
<1>4. NextRevision' = NextRevision /\ ~WritingRun' /\ run.progress \in Nat
      /\ app'.run.progress \in Nat
  BY <1>3, RevFacts, CallFacts, CoordinatorAssumption DEF Ctx, NextRevision, run, WritingRun, Runs
<1>5. Covers'
  <2> SUFFICES ASSUME app'.run.id # NoId, NEW d \in Stored'
               PROVE  d.id = app'.run.id /\ d.body.progress <= app'.run.progress
                      /\ d.rev < NextRevision
    BY <1>4 DEF Covers, Covered, run
  <2>1. d \in Stored /\ d \in Docs
    BY <1>1 DEF Stored
  <2>2. Covered(d)
    BY <2>1 DEF Ctx, Memory, Covers
  <2>3. d.body.progress \in Nat
    BY <2>1, DocumentFacts
  <2> QED
    BY <1>3, <1>4, <2>2, <2>3 DEF Covered
<1>6. NoMarks'
  BY <1>1, <1>3 DEF Ctx, Memory, NoMarks
<1>7. Flight'
  <2>1. ASSUME NEW d, InFlight(d)
        PROVE  /\ d \in Docs
               /\ d.id = app'.run.id /\ d.rev = app'.run.rev /\ d.rev > coordinator.revision
               /\ d.body.progress <= app'.run.progress /\ d.body.terminal = "Active"
    <3>1. d.body.progress \in Nat
      BY <2>1, DocumentFacts DEF InFlight
    <3> QED
      BY <1>4, <2>1, <3>1 DEF InFlight
  <2>2. queue' # Missing =>
          /\ InFlight(queue)'
          /\ \A d \in Stored' : d.rev < app'.run.rev /\ d.body.progress <= queue.body.progress
    BY <1>1, <2>1 DEF Ctx, Memory, Flight, InFlight, run
  <2>3. job'["worker"].stage # "idle" =>
          job'["worker"].kind = "write" /\ InFlight(job["worker"].doc)'
    BY <2>1 DEF Ctx, Memory, Flight, InFlight, run, At
  <2>4. completion' # NoCompletion =>
          InFlight(completion.doc)' /\ disk'["primary"] = completion'.doc
    BY <2>1 DEF Ctx, Memory, Flight, InFlight, run
  <2> QED
    BY <2>2, <2>3, <2>4 DEF Flight, run, At
<1>8. Calling'
  BY <1>3 DEF Calling, At
<1> QED
  BY <1>1, <1>2, <1>5, <1>6, <1>7, <1>8 DEF Memory

\* What a screen may know of the run and its files.
LEMMA FrameKnows ==
  ASSUME Ctx, Frame
  PROVE  /\ Wanted /\ Saved /\ Vacant /\ Offered
         /\ coordinator.call = "none" /\ app.mode \notin {"Off", "Boot", "Exiting"}
         /\ app.available \in BOOLEAN /\ app.damaged \in BOOLEAN
         /\ {"mode", "request", "failed", "return", "run", "available", "damaged", "dirty",
             "chronicle"} \subseteq DOMAIN app
         /\ app.run \in Runs /\ run = app.run /\ run.progress \in Nat
         /\ ~Due => app.request # "Save_Checkpoint"
                    /\ (app.request = "None" \/ coordinator.inFlight)
         /\ coordinator.inFlight \in BOOLEAN
BY FrameFacts, RevFacts DEF Ctx, Screens, Types, IInv, ControlType, run, Due

\* The mode changes.
LEMMA ShownKept ==
  ASSUME Ctx, Frame, ~Due, app.mode # "Save_Wait",
         app'.request = app.request, app'.failed = app.failed,
         app'.return = app.return, app'.run = app.run, app'.available = app.available,
         app'.damaged = app.damaged,
         UNCHANGED <<disk, survivors, job, coordinator, queue, completion, history>>,
         app'.mode \notin {"Off", "Boot", "Save_Error", "Save_Wait"},
         app'.mode \in {"Playing", "Paused", "Resume_Veil"} => Live /\ app.request = "None",
         app'.mode = "Recovery" => app.damaged,
         app'.mode = "Select" => app.request = "None" /\ ~app.available /\ ~app.damaged,
         app'.mode \in {"Dying", "Ended"} => ~Live,
         Live /\ app'.mode \in {"Title", "Abandon_Confirm", "Select", "Recovery"} =>
           history.kept.id # NoId
  PROVE  Kept'
<1>1. Types' /\ Files' /\ Memory'
  BY FrameKnows, ScreenMemory DEF Ctx, Types
<1>2. Wanted'
  BY FrameKnows DEF Wanted, Live, run
<1>3. Saved'
  BY FrameKnows DEF Saved, Live, run
<1>4. Vacant'
  BY FrameKnows DEF Vacant, Clean, Live, run
<1>5. Offered'
  BY FrameKnows DEF Offered, Live, run
<1>6. Purposes'
  BY FrameKnows, CallFacts DEF Purposes
<1> QED
  BY <1>1, <1>2, <1>3, <1>4, <1>5, <1>6 DEF Kept, Screens

\* The overlay waits for a request.
LEMMA WaitsKept ==
  ASSUME Ctx, Frame, app'.mode = "Save_Wait",
         app'.run = app.run, app'.available = app.available, app'.damaged = app.damaged,
         UNCHANGED <<disk, survivors, job, coordinator, queue, completion, history>>,
         app'.request \in {"Resume", "Save_Return_Title", "Save_Quit", "Abandon", "Recover_Run",
                           "Quarantine_Run"},
         app'.request \in {"Save_Return_Title", "Save_Quit"} => Live,
         app'.request \in {"Recover_Run", "Quarantine_Run"} => app.damaged,
         Live /\ app'.request \in {"Resume", "Abandon", "Recover_Run", "Quarantine_Run"} =>
           history.kept.id # NoId
  PROVE  Kept'
<1>1. Types' /\ Files' /\ Memory'
  BY FrameKnows, ScreenMemory DEF Ctx, Types
<1>2. Wanted'
  BY FrameKnows DEF Wanted, Live, run
<1>3. Saved'
  BY FrameKnows DEF Saved, Live, run
<1>4. Vacant'
  BY FrameKnows DEF Vacant
<1>5. Offered'
  BY FrameKnows DEF Offered, Live, run
<1>6. Purposes'
  BY FrameKnows, CallFacts DEF Purposes
<1> QED
  BY <1>1, <1>2, <1>3, <1>4, <1>5, <1>6 DEF Kept, Screens

\* A new run begins where there is no other.
LEMMA BeginNewRunKept ==
  ASSUME Ctx, NEW id \in Ids, BeginNewRun(id)
  PROVE  Kept'
<1> DEFINE fresh == [NoRun EXCEPT !.id = id]
<1>1. /\ Frame /\ ~Due /\ app.mode = "Select"
      /\ app' = [app EXCEPT !.mode = "Playing", !.request = "Save_Checkpoint", !.run = fresh,
                            !.dirty = TRUE, !.available = TRUE, !.damaged = FALSE]
      /\ UNCHANGED <<disk, survivors, job, coordinator, queue, completion>>
      /\ history' = [history EXCEPT !.started = @ \cup {id}]
  BY DEF BeginNewRun, On, AppBecomes
<1>2. /\ fresh \in Runs /\ fresh.id = id /\ fresh.terminal = "Active" /\ id # NoId
  BY DocumentsAssumption, CoordinatorAssumption DEF NoRun, Runs, Terminals
<1> HIDE DEF fresh
<1>3. /\ app'.mode = "Playing" /\ app'.request = "Save_Checkpoint" /\ app'.run = fresh
      /\ app'.available = TRUE /\ app'.damaged = FALSE
  BY <1>1, FrameKnows
<1>4. history'.kept = history.kept /\ DOMAIN history' = DOMAIN history
  BY <1>1 DEF Ctx, Types
<1>5. Clean /\ ~Live /\ app.request = "None" /\ ~app.available
  BY <1>1, FrameKnows DEF Offered, Vacant
<1>6. ~coordinator.inFlight /\ job["main"].stage = "idle" /\ ~WritingRun
  BY <1>1, <1>5, FrameKnows, FrameFacts DEF Offered
<1>7. queue = Missing /\ job["worker"].stage = "idle" /\ completion = NoCompletion
  BY <1>6 DEF Ctx, IInv, FlagCovers, At
<1>8. Files' /\ Stored' = Stored
  BY <1>1, <1>4, FilesSame
<1>9. Stored = {}
  BY <1>5, DocumentFacts DEF Clean, Stored
<1>10. Types'
  BY <1>1, <1>2, <1>3, <1>4 DEF Ctx, Types, run
<1>11. Memory'
  <2>1. Covers' /\ NoMarks'
    BY <1>8, <1>9 DEF Covers, NoMarks
  <2>2. Flight' /\ Calling'
    BY <1>1, <1>6, <1>7 DEF Flight, Calling, At
  <2> QED
    BY <2>1, <2>2 DEF Memory
<1>12. Screens'
  <2>1. Wanted'
    BY <1>1, <1>2, <1>3, <1>6, FrameKnows DEF Wanted, Live, run
  <2>2. Saved'
    BY <1>3 DEF Saved
  <2>3. Vacant'
    BY <1>3 DEF Vacant
  <2>4. Offered'
    BY <1>1, <1>3, <1>6 DEF Offered, Live, run
  <2>5. Purposes'
    BY <1>1, FrameKnows, CallFacts DEF Purposes
  <2> QED
    BY <2>1, <2>2, <2>3, <2>4, <2>5 DEF Screens
<1> QED
  BY <1>8, <1>10, <1>11, <1>12 DEF Kept


LEMMA ScreenModesKept ==
  ASSUME Ctx, ChooseResume \/ ChooseNewRun \/ Pause \/ Leave \/ CloseWindow
  PROVE  Kept'
<1> DEFINE fields ==
      /\ app'.request = app.request /\ app'.failed = app.failed
      /\ app'.return = app.return /\ app'.run = app.run
      /\ app'.available = app.available /\ app'.damaged = app.damaged
      /\ UNCHANGED <<disk, survivors, job, coordinator, queue, completion, history>>
<1> DEFINE waiting ==
      /\ app'.mode = "Save_Wait" /\ app'.run = app.run
      /\ app'.available = app.available /\ app'.damaged = app.damaged
      /\ UNCHANGED <<disk, survivors, job, coordinator, queue, completion, history>>
<1>1. Frame /\ ~Due
  BY DEF ChooseResume, ChooseNewRun, Pause, Leave, CloseWindow, On
<1>2. /\ Wanted /\ Saved /\ Offered /\ app.available \in BOOLEAN /\ app.damaged \in BOOLEAN
      /\ app.request # "Save_Checkpoint" /\ (app.request = "None" \/ coordinator.inFlight)
      /\ app.request # "None" => app.available
  BY <1>1, FrameKnows DEF Offered
<1>5. CASE ChooseResume
  <2>1. CASE app.available /\ Waits("Resume", "Title")
    <3>1. app'.request = "Resume" /\ waiting
      BY <2>1, <1>1, FrameKnows DEF Waits, AppBecomes
    <3> QED
      BY <1>1, <1>2, <1>5, <3>1, WaitsKept DEF ChooseResume, On, Saved
  <2>2. CASE app.damaged /\ Shows("Recovery")
    <3>1. app'.mode = "Recovery" /\ fields
      BY <2>2, <1>1, FrameKnows DEF Shows, AppBecomes
    <3> QED
      BY <1>1, <1>2, <1>5, <2>2, <3>1, ShownKept DEF ChooseResume, On, Saved
  <2> QED
    BY <1>5, <2>1, <2>2 DEF ChooseResume
<1>6. CASE ChooseNewRun
  <2> DEFINE mode == IF app.damaged THEN "Recovery"
                     ELSE IF app.available THEN "Abandon_Confirm" ELSE "Select"
  <2>1. app'.mode = mode /\ fields
    BY <1>1, <1>6, FrameKnows DEF ChooseNewRun, Shows, AppBecomes
  <2> QED
    BY <1>1, <1>2, <1>6, <2>1, ShownKept DEF ChooseNewRun, On, Saved
<1>7. CASE Pause
  <2>1. app'.mode = "Paused" /\ fields
    BY <1>1, <1>7, FrameKnows DEF Pause, Shows, AppBecomes
  <2> QED
    BY <1>1, <1>2, <1>7, <2>1, ShownKept DEF Pause, On, Wanted
<1>8. CASE Leave
  <2>1. \/ app.mode \in {"Select", "Abandon_Confirm", "Recovery", "Ended"} /\ Shows("Title")
        \/ app.mode \in {"Paused", "Resume_Veil"} /\ Shows("Playing")
        \/ app.mode = "Dying" /\ Shows("Ended")
    BY <1>8 DEF Leave, On
  <2>2. /\ fields
        /\ \/ app.mode \in {"Select", "Abandon_Confirm", "Recovery", "Ended"} /\ app'.mode = "Title"
           \/ app.mode \in {"Paused", "Resume_Veil"} /\ app'.mode = "Playing"
           \/ app.mode = "Dying" /\ app'.mode = "Ended"
    BY <1>1, <2>1, FrameKnows DEF Shows, AppBecomes
  <2> QED
    BY <1>1, <1>2, <2>2, ShownKept DEF Wanted, Saved
<1>9. CASE CloseWindow
  <2>1. CASE LiveDescent /\ Waits("Save_Quit", "Paused")
    <3>1. app'.request = "Save_Quit" /\ waiting
      BY <2>1, <1>1, FrameKnows DEF Waits, AppBecomes
    <3> QED
      BY <1>1, <2>1, <3>1, WaitsKept DEF LiveDescent, Live
  <2>2. CASE Shows("Exiting")
    <3>1. app'.mode = "Exiting" /\ fields
      BY <2>2, <1>1, FrameKnows DEF Shows, AppBecomes
    <3> QED
      BY <1>1, <1>9, <3>1, ShownKept DEF CloseWindow
  <2> QED
    BY <1>9, <2>1, <2>2 DEF CloseWindow
<1> QED
  BY <1>5, <1>6, <1>7, <1>8, <1>9

LEMMA RequestsKept ==
  ASSUME Ctx, SaveAndLeave \/ ConfirmAbandon \/ Repair
  PROVE  Kept'
<1>1. Frame /\ ~Due
  BY DEF SaveAndLeave, ConfirmAbandon, Repair, On
<1>2. /\ app'.mode = "Save_Wait" /\ app'.run = app.run
      /\ app'.available = app.available /\ app'.damaged = app.damaged
      /\ UNCHANGED <<disk, survivors, job, coordinator, queue, completion, history>>
      /\ \/ app.mode = "Paused" /\ app'.request \in {"Save_Return_Title", "Save_Quit"}
         \/ app.mode = "Abandon_Confirm" /\ app'.request = "Abandon"
         \/ app.mode = "Recovery" /\ app'.request \in {"Recover_Run", "Quarantine_Run"}
  BY <1>1, FrameKnows DEF SaveAndLeave, ConfirmAbandon, Repair, On, Waits, AppBecomes
<1> QED
  BY <1>1, <1>2, FrameKnows, WaitsKept DEF Wanted, Saved

LEMMA AnswerErrorKept ==
  ASSUME Ctx, AnswerError
  PROVE  Kept'
<1>1. Frame /\ ~Due /\ app.mode = "Save_Error"
  BY DEF AnswerError, On
<1>2. /\ app.request = "None"
      /\ \/ app.failed \in {"Resume", "Abandon"} /\ app.return = "Title"
         \/ app.failed = "Recover_Run" /\ app.return = "Recovery" /\ app.damaged
      /\ Live => history.kept.id # NoId
  BY <1>1, FrameKnows DEF Wanted, Saved
<1>3. /\ app'.run = app.run /\ app'.available = app.available /\ app'.damaged = app.damaged
      /\ app'.failed = app.failed /\ app'.return = app.return
      /\ UNCHANGED <<disk, survivors, job, coordinator, queue, completion, history>>
      /\ \/ app'.mode = "Save_Wait" /\ app'.request = app.failed
         \/ app'.mode \in {app.return, "Title"} /\ app'.request = "None"
  BY <1>1, <1>2, FrameKnows DEF AnswerError, AppBecomes, Fulfilled
<1>4. CASE app'.mode = "Save_Wait" /\ app'.request = app.failed
  BY <1>1, <1>2, <1>3, <1>4, WaitsKept
<1>5. CASE app'.mode \in {app.return, "Title"} /\ app'.request = "None"
  BY <1>1, <1>2, <1>3, <1>5, ShownKept
<1> QED
  BY <1>3, <1>4, <1>5

\* The run is played on, or ends.
LEMMA PlayKept ==
  ASSUME Ctx, Tick \/ EndRun
  PROVE  Kept'
<1>1. Frame /\ ~Due /\ app.mode = "Playing" /\ Live /\ app.request = "None"
  <2>1. Frame /\ ~Due /\ app.mode = "Playing"
    BY DEF Tick, EndRun, On
  <2> QED
    BY <2>1, FrameKnows DEF Wanted
<1>2. /\ UNCHANGED <<disk, survivors, job, coordinator, queue, completion>>
      /\ history'.kept = history.kept /\ DOMAIN history' = DOMAIN history
  <2>1. UNCHANGED history \/ history' = [history EXCEPT !.ended = @ \cup {run.id}]
    BY DEF Tick, EndRun
  <2>2. UNCHANGED <<disk, survivors, job, coordinator, queue, completion>>
    BY DEF Tick, EndRun, AppBecomes
  <2> QED
    BY <2>1, <2>2 DEF Ctx, Types
<1>3. /\ app'.run \in Runs /\ app'.run.id = run.id /\ app'.run.rev = run.rev
      /\ app'.run.progress >= run.progress
      /\ app'.available = app.available /\ app'.damaged = app.damaged
      /\ \/ app'.mode = app.mode /\ app'.request = app.request /\ app'.run.terminal = run.terminal
         \/ /\ app'.mode \in {"Dying", "Ended"} /\ app'.request = "Finalize"
            /\ app'.run.terminal = "Ended"
  <2>1. CASE Tick
    <3>1. PICK progress \in {run.progress, run.progress + 1} :
            progress <= MaxProgress /\ app' = [app EXCEPT !.run.progress = progress, !.dirty = TRUE]
      BY <2>1 DEF Tick, AppBecomes
    <3>2. progress \in 0..MaxProgress /\ progress >= run.progress
      BY <3>1, <1>1, FrameKnows, CoordinatorAssumption
    <3> QED
      BY <3>1, <3>2, <1>1, FrameKnows DEF Runs
  <2>2. CASE EndRun
    <3>1. PICK mode \in {"Dying", "Ended"} :
            app' = [app EXCEPT !.mode = mode, !.run.terminal = "Ended", !.dirty = TRUE,
                               !.request = "Finalize"]
      BY <2>2 DEF EndRun, AppBecomes
    <3> QED
      BY <3>1, <1>1, FrameKnows DEF Runs, Terminals
  <2> QED
    BY <2>1, <2>2
<1>4. Types' /\ Files' /\ Memory'
  BY <1>1, <1>2, <1>3, FrameKnows, ScreenMemory DEF Ctx, Types
<1>5. Wanted'
  BY <1>1, <1>2, <1>3, FrameKnows DEF Wanted, Offered, Live, run
<1>6. Saved'
  BY <1>1, <1>2, <1>3, FrameKnows DEF Saved, Live, run
<1>7. Vacant'
  BY <1>1, <1>2, <1>3, FrameKnows DEF Vacant, Clean, Live, Offered, run
<1>8. Offered'
  BY <1>1, <1>2, <1>3, FrameKnows DEF Offered, Live, run
<1>9. Purposes'
  BY <1>1, <1>2, FrameKnows, CallFacts DEF Purposes
<1> QED
  BY <1>4, <1>5, <1>6, <1>7, <1>8, <1>9 DEF Kept, Screens

-----------------------------------------------------------------------------
(* The scheduler *)

\* While nothing is in flight and no call is made, nothing is on its way.
LEMMA QuietFacts ==
  ASSUME Ctx, job["main"].stage = "idle", job["worker"].stage = "idle"
  PROVE  survivors = {disk}
<1> QED
  BY ThreadFacts DEF Ctx, Files, Synced, SteadyJob

\* The run may be written: its snapshot is a document.
LEMMA SnapshotDoc ==
  ASSUME Types, NextRevision <= MaxRevision, run.id # NoId
  PROVE  Snapshot \in Docs
<1>1. NextRevision \in 1..MaxRevision
  BY RevFacts, DocumentsAssumption
<1>2. run.id \in Ids /\ run.terminal \in Terminals /\ run.progress \in 0..MaxProgress
  BY DEF Types, Runs, run
<1>3. [terminal |-> run.terminal, progress |-> run.progress] \in Bodies
  BY <1>2, CoordinatorAssumption
<1> QED
  BY <1>1, <1>2, <1>3 DEF Snapshot, Docs

\* An autosave is sent.
LEMMA SentKept ==
  ASSUME Ctx, Frame, Live, ~coordinator.inFlight, Room, queue' = Snapshot,
         app'.run = [app.run EXCEPT !.rev = NextRevision],
         app'.mode = app.mode, app'.failed = app.failed, app'.return = app.return,
         app'.available = app.available, app'.damaged = app.damaged,
         app'.request = "None", app.request \in {"None", "Save_Checkpoint"},
         coordinator' = [coordinator EXCEPT !.inFlight = TRUE],
         UNCHANGED <<disk, survivors, job, completion, history>>
  PROVE  Kept'
<1>1. /\ queue = Missing /\ job["worker"].stage = "idle" /\ completion = NoCompletion
      /\ job["main"].stage = "idle" /\ ~WritingRun /\ coordinator.call = "none"
  BY FrameFacts DEF Ctx, IInv, FlagCovers, At
<1>2. NextRevision \in Nat /\ NextRevision > coordinator.revision /\ NextRevision > run.rev
      /\ coordinator.revision \in Nat /\ run.progress \in Nat /\ run.rev \in Nat
  BY RevFacts DEF Ctx
<1>3. /\ app'.run.id = run.id /\ app'.run.terminal = run.terminal
      /\ app'.run.progress = run.progress /\ app'.run.rev = NextRevision
      /\ app'.run \in Runs
  BY <1>2, FrameKnows DEF Runs
<1>4. /\ coordinator'.call = "none" /\ coordinator'.inFlight = TRUE
      /\ coordinator'.revision = coordinator.revision
  BY <1>1 DEF Ctx, IInv, ControlType
<1>5. Snapshot \in Docs
  <2>1. NextRevision <= MaxRevision
    BY <1>2, DocumentsAssumption DEF Room
  <2> QED
    BY <2>1, SnapshotDoc DEF Ctx, Live
<1>6. Files' /\ Stored' = Stored
  BY FilesSame
<1>7. Types'
  BY <1>1, <1>2, <1>3, <1>4, <1>5 DEF Ctx, Types
<1>8. \A d \in Stored : d.rev < NextRevision /\ d \in Docs /\ d.id = run.id
                        /\ d.body.progress <= run.progress
  BY <1>1 DEF Ctx, Memory, Covers, Covered, Live, Stored
<1>9. NextRevision' = NextRevision + 1
  BY <1>2, <1>3, <1>4 DEF NextRevision, run
<1>10. Covers'
  <2> SUFFICES ASSUME NEW d \in Stored
               PROVE  d.id = app'.run.id /\ d.body.progress <= app'.run.progress
                      /\ d.rev < NextRevision + 1
    BY <1>6, <1>9 DEF Covers, Covered, run
  <2>1. d.rev \in Nat
    BY <1>8, DocumentFacts
  <2> QED
    BY <1>2, <1>3, <1>8, <2>1
<1>11. NoMarks'
  BY <1>1, <1>4, <1>6 DEF Ctx, Memory, NoMarks
<1>12. Flight'
  <2>1. InFlight(queue)'
    BY <1>2, <1>3, <1>4, <1>5, SnapshotFacts DEF InFlight, Live, run
  <2>2. \A d \in Stored' : d.rev < run'.rev /\ d.body.progress <= queue'.body.progress
    BY <1>3, <1>6, <1>8, SnapshotFacts DEF run
  <2> QED
    BY <1>1, <2>1, <2>2 DEF Flight, At
<1>13. Calling'
  BY <1>1 DEF Calling, At
<1>14. Screens'
  <2>1. Live'
    BY <1>3 DEF Live, run
  <2>2. /\ Wanted /\ Saved /\ Offered /\ app.available
    BY <1>1, FrameKnows DEF Offered
  <2>3. Wanted'
    BY <1>4, <2>1, <2>2, FrameKnows DEF Wanted
  <2>4. Saved'
    BY <2>1, <2>2 DEF Saved
  <2>5. Vacant'
    BY <2>2 DEF Vacant
  <2>6. Offered'
    BY <1>4, <2>1, <2>2 DEF Offered
  <2>7. Purposes'
    BY <1>4, CallFacts DEF Purposes
  <2> QED
    BY <2>3, <2>4, <2>5, <2>6, <2>7 DEF Screens
<1> QED
  BY <1>6, <1>7, <1>10, <1>11, <1>12, <1>13, <1>14 DEF Kept, Memory

\* The run is marked dirty instead.
LEMMA DirtyKept ==
  ASSUME Ctx, Frame, ~Due, app' = [app EXCEPT !.dirty = TRUE], LiveDescent,
         UNCHANGED <<disk, survivors, job, coordinator, queue, completion, history>>
  PROVE  Kept'
<1>1. /\ app'.mode = app.mode /\ app'.request = app.request /\ app'.failed = app.failed
      /\ app'.return = app.return /\ app'.run = app.run /\ app'.available = app.available
      /\ app'.damaged = app.damaged
  BY FrameKnows
<1>2. app.mode \in {"Playing", "Paused", "Resume_Veil"} /\ Live /\ app.request = "None"
  BY FrameKnows DEF LiveDescent, Wanted
<1> QED
  BY <1>1, <1>2, ShownKept

LEMMA SavesKept ==
  ASSUME Ctx, faults' = 0, Autosave \/ Suspend \/ Checkpoint
  PROVE  Kept'
<1> DEFINE sent ==
      /\ Frame /\ Live /\ ~coordinator.inFlight /\ Room /\ queue' = Snapshot
      /\ app'.run = [app.run EXCEPT !.rev = NextRevision]
      /\ app'.mode = app.mode /\ app'.failed = app.failed /\ app'.return = app.return
      /\ app'.available = app.available /\ app'.damaged = app.damaged
      /\ app'.request = "None" /\ app.request \in {"None", "Save_Checkpoint"}
      /\ coordinator' = [coordinator EXCEPT !.inFlight = TRUE]
      /\ UNCHANGED <<disk, survivors, job, completion, history>>
<1>1. sent => Kept'
  BY SentKept
<1>2. CASE Autosave
  <2>1. sent
    BY <1>2, FrameKnows DEF Autosave, Enqueue, Live
  <2> QED
    BY <1>1, <2>1
<1>3. CASE Suspend
  <2>1. CASE Enqueue(app)
    <3>1. Frame /\ Live /\ app.request = "None"
      BY <1>3, FrameKnows DEF Suspend, LiveDescent, Wanted
    <3>2. sent
      BY <1>3, <2>1, <3>1, FrameKnows DEF Suspend, Enqueue
    <3> QED
      BY <1>1, <3>2
  <2>2. CASE app' = [app EXCEPT !.dirty = TRUE] /\ UNCHANGED <<queue, coordinator>>
    BY <1>3, <2>2, DirtyKept DEF Suspend
  <2> QED
    BY <1>3, <2>1, <2>2 DEF Suspend
<1>4. CASE Checkpoint
  <2>1. Frame /\ app.request = "Save_Checkpoint" /\ Live /\ ~coordinator.inFlight
    BY <1>4, FrameKnows DEF Checkpoint, Wanted
  <2>2. ~ProfileUnwritten(app.chronicle)
    BY DEF ProfileUnwritten, Ctx
  <2>3. Enqueue([app EXCEPT !.request = "None"])
        /\ UNCHANGED <<disk, survivors, job, completion, history>>
    BY <1>4, <2>1, <2>2 DEF Checkpoint
  <2> DEFINE from == [app EXCEPT !.request = "None"]
  <2>4. /\ from.run = app.run /\ from.mode = app.mode /\ from.failed = app.failed
        /\ from.return = app.return /\ from.available = app.available
        /\ from.damaged = app.damaged /\ from.request = "None"
        /\ DOMAIN from = DOMAIN app
    BY <2>1, FrameKnows
  <2>5. /\ Room /\ queue' = Snapshot
        /\ app' = [from EXCEPT !.run.rev = NextRevision, !.dirty = FALSE]
        /\ coordinator' = [coordinator EXCEPT !.inFlight = TRUE]
    BY <2>3 DEF Enqueue
  <2> HIDE DEF from
  <2>6. sent
    BY <2>1, <2>3, <2>4, <2>5, FrameKnows
  <2> QED
    BY <1>1, <2>6
<1> QED
  BY <1>2, <1>3, <1>4

\* The worker's completion is seen: what it wrote is kept from now on.
LEMMA PollKept ==
  ASSUME Ctx, Poll
  PROVE  Kept'
<1> DEFINE doc == completion.doc
<1>1. Frame /\ completion # NoCompletion /\ completion.ok /\ InFlight(doc)
      /\ disk["primary"] = doc
  BY DEF Poll, Ctx, Types, Memory, Flight, NoCompletion
<1>2. /\ coordinator.inFlight /\ queue = Missing /\ job["worker"].stage = "idle"
      /\ job["main"].stage = "idle" /\ ~WritingRun /\ coordinator.call = "none"
  BY <1>1, FrameFacts DEF Ctx, IInv, FlagCovers, At
<1>3. /\ doc \in Docs /\ doc.id = run.id /\ doc.rev = run.rev /\ doc.rev > coordinator.revision
      /\ doc.id \in Ids /\ doc.rev \in Nat /\ doc.body.progress \in Nat /\ Valid(doc)
      /\ run.id # NoId
  BY <1>1, DocumentFacts, DocumentsAssumption DEF InFlight
<1>4. /\ coordinator' = [coordinator EXCEPT !.inFlight = FALSE, !.revision = doc.rev]
      /\ app' = [app EXCEPT !.available = (run.terminal = "Active")]
      /\ history' = [history EXCEPT !.kept = [id |-> doc.id, progress |-> doc.body.progress]]
      /\ completion' = NoCompletion
      /\ UNCHANGED <<disk, survivors, job, faults, queue, recorded>>
  <2>1. completion.doc.rev > coordinator.revision
    BY <1>3
  <2> QED
    BY <1>1, <2>1 DEF Poll, Keeping
<1> HIDE DEF doc
<1>5. /\ coordinator'.call = "none" /\ coordinator'.inFlight = FALSE
      /\ coordinator'.revision = doc.rev
  BY <1>2, <1>4 DEF Ctx, IInv, ControlType
<1>6. /\ app'.mode = app.mode /\ app'.request = app.request /\ app'.failed = app.failed
      /\ app'.return = app.return /\ app'.run = app.run /\ app'.damaged = app.damaged
      /\ app'.available = (run.terminal = "Active")
  BY <1>1, <1>4, FrameKnows
<1>7. /\ history'.kept = [id |-> doc.id, progress |-> doc.body.progress]
      /\ history'.kept.id = doc.id /\ history'.kept.progress = doc.body.progress
      /\ history'.kept \in Keeps /\ DOMAIN history' = DOMAIN history
  BY <1>3, <1>4 DEF Ctx, Types, Keeps
<1>8. Types'
  BY <1>3, <1>4, <1>5, <1>6, <1>7 DEF Ctx, Types, run
<1>9. survivors = {disk}
  BY <1>2, QuietFacts
<1>10. Sound'
  <2>1. HasKept(disk)'
    <3>1. "primary" \in {"primary", "bak"} /\ Valid(disk["primary"])
          /\ disk["primary"].id = history'.kept.id
          /\ disk["primary"].body.progress >= history'.kept.progress
      BY <1>1, <1>3, <1>7 DEF doc
    <3> QED
      BY <1>4, <3>1 DEF HasKept
  <2>2. Ordered(disk)
    BY <1>9 DEF Ctx, Files, Sound
  <2> QED
    BY <1>4, <1>9, <2>1, <2>2 DEF Sound, HasKept
<1>11. Files' /\ Stored' = Stored
  BY <1>4, <1>10, FilesStay DEF Ctx, Files
<1>12. NextRevision' = NextRevision
  <2>1. NextRevision = run.rev + 1 /\ run.rev \in Nat
    BY <1>3, RevFacts DEF Ctx, NextRevision
  <2> QED
    BY <1>3, <1>5, <1>6, <2>1 DEF NextRevision, run
<1>13. Memory'
  <2>1. Covers'
    BY <1>2, <1>6, <1>11, <1>12 DEF Ctx, Memory, Covers, Covered, run
  <2>2. NoMarks'
    BY <1>2, <1>5, <1>6, <1>11 DEF Ctx, Memory, NoMarks
  <2>3. Flight'
    BY <1>2, <1>4 DEF Flight, At
  <2>4. Calling'
    BY <1>2, <1>4 DEF Calling, At
  <2> QED
    BY <2>1, <2>2, <2>3, <2>4 DEF Memory
<1>14. Screens'
  <2>1. Live' <=> Live
    BY <1>6 DEF Live, run
  <2>2. /\ Wanted /\ Saved /\ Offered /\ app.available /\ app.mode # "Select"
        /\ ~Live => app.request # "None"
        /\ app.available' <=> Live
    BY <1>1, <1>2, <1>3, <1>6, FrameKnows DEF Offered, Live
  <2>3. Wanted'
    BY <1>1, <1>5, <1>6, <2>1, <2>2, FrameKnows DEF Wanted, run
  <2>4. Saved'
    BY <1>3, <1>7, DocumentsAssumption DEF Saved
  <2>5. Vacant'
    BY <1>6, <2>2 DEF Vacant
  <2>6. Offered'
    BY <1>5, <1>6, <2>1, <2>2 DEF Offered
  <2>7. Purposes'
    BY <1>5, CallFacts DEF Purposes
  <2> QED
    BY <2>3, <2>4, <2>5, <2>6, <2>7 DEF Screens
<1> QED
  BY <1>8, <1>11, <1>13, <1>14 DEF Kept

\* A request is processed once nothing is in flight.
LEMMA ProcessKept ==
  ASSUME Ctx, Process
  PROVE  Kept'
<1> DEFINE call == FirstCall
<1>1. /\ Frame /\ app.request \notin {"None", "Save_Checkpoint"} /\ ~coordinator.inFlight
      /\ coordinator' = [coordinator EXCEPT !.call = call]
      /\ app' = [app EXCEPT !.run.terminal = IF call = "mark_abandoned" THEN "Abandoned" ELSE @]
      /\ UNCHANGED <<disk, survivors, job, faults, queue, completion, recorded, history>>
  BY DEF Process
<1>2. /\ queue = Missing /\ completion = NoCompletion /\ job["worker"].stage = "idle"
      /\ job["main"].stage = "idle" /\ ~WritingRun /\ coordinator.call = "none"
      /\ app.mode # "Off" /\ app.mode # "Boot"
  BY <1>1, FrameFacts DEF Ctx, IInv, FlagCovers, At
<1>3. /\ Wanted /\ Saved /\ Offered
      /\ app.run \in Runs /\ run = app.run
  BY <1>1, FrameKnows
<1>4. \/ app.request = "Resume" /\ call = "resume"
      \/ app.request = "Save_Return_Title" /\ call = "return"
      \/ app.request = "Save_Quit" /\ call = "quit"
      \/ app.request = "Abandon" /\ run.id = NoId /\ call = "load_abandoned"
      \/ app.request = "Abandon" /\ run.id # NoId /\ call = "mark_abandoned"
      \/ app.request = "Recover_Run" /\ call = "recover"
      \/ app.request = "Quarantine_Run" /\ call = "quarantine"
      \/ app.request = "Finalize" /\ call = "mark_ended"
  BY <1>1, <1>3 DEF Wanted, FirstCall
<1> HIDE DEF call
<1>5. /\ coordinator'.call = call /\ coordinator'.inFlight = FALSE
      /\ coordinator'.revision = coordinator.revision
  BY <1>1 DEF Ctx, IInv, ControlType
<1>6. /\ app'.mode = app.mode /\ app'.request = app.request /\ app'.failed = app.failed
      /\ app'.return = app.return /\ app'.damaged = app.damaged
      /\ app'.available = app.available
      /\ app'.run.id = run.id /\ app'.run.rev = run.rev /\ app'.run.progress = run.progress
      /\ app'.run.terminal = IF call = "mark_abandoned" THEN "Abandoned" ELSE run.terminal
      /\ app'.run \in Runs
  <2>1. app'.run = [app.run EXCEPT !.terminal = IF call = "mark_abandoned" THEN "Abandoned" ELSE @]
    BY <1>1, FrameKnows
  <2>2. /\ app'.mode = app.mode /\ app'.request = app.request /\ app'.failed = app.failed
        /\ app'.return = app.return /\ app'.damaged = app.damaged
        /\ app'.available = app.available
    BY <1>1, FrameKnows
  <2> QED
    BY <1>3, <2>1, <2>2 DEF Runs, Terminals
<1>7. call \in Calls
  BY <1>4, CallFacts DEF Calls
<1>8. Types'
  BY <1>1, <1>2, <1>5, <1>6, <1>7 DEF Ctx, Types, Calls
<1>9. Files' /\ Stored' = Stored
  BY <1>1, FilesSame
<1>10. NextRevision' = NextRevision /\ ~WritingRun'
  BY <1>1, <1>2, <1>5, <1>6 DEF NextRevision, WritingRun, run, At
<1>11. Memory'
  <2>1. Covers'
    BY <1>2, <1>6, <1>9, <1>10 DEF Ctx, Memory, Covers, Covered, run
  <2>2. NoMarks'
    BY <1>2, <1>6, <1>9 DEF Ctx, Memory, NoMarks
  <2>3. Flight'
    BY <1>1, <1>2 DEF Flight, At
  <2>4. Calling'
    BY <1>1, <1>2 DEF Calling, At
  <2> QED
    BY <2>1, <2>2, <2>3, <2>4 DEF Memory
<1>12. Screens'
  <2>1. Live' => Live /\ call # "mark_abandoned"
    BY <1>6 DEF Live, run
  <2>2. Live /\ call # "mark_abandoned" => Live'
    BY <1>6 DEF Live, run
  <2>3. app.mode \notin {"Playing", "Paused", "Resume_Veil", "Select"}
    BY <1>1, <1>3 DEF Wanted, Offered
  <2>4. Wanted'
    BY <1>1, <1>2, <1>3, <1>4, <1>5, <1>6, <2>1, <2>2, <2>3 DEF Wanted, run
  <2>5. Saved'
    BY <1>1, <1>3, <1>6, <2>1 DEF Saved
  <2>6. Vacant'
    BY <1>4, <1>5 DEF Vacant
  <2>7. Offered'
    BY <1>3, <1>4, <1>5, <1>6, <2>1, <2>3 DEF Offered
  <2>8. Purposes'
    BY <1>3, <1>4, <1>5, <1>6, <2>3 DEF Purposes, run, Wanted
  <2> QED
    BY <2>4, <2>5, <2>6, <2>7, <2>8 DEF Screens
<1> QED
  BY <1>8, <1>9, <1>11, <1>12 DEF Kept

-----------------------------------------------------------------------------
(* A call begins *)

LEMMA BegunKept ==
  ASSUME Ctx, coordinator.call # "none", job["main"].stage = "idle",
         job' \in [Threads -> Jobs], job'["worker"] = job["worker"],
         job'["main"].stage # "idle", job'["main"].kind = KindOf(coordinator.call),
         coordinator.call \in Writes => job'["main"].doc = Snapshot,
         Progressing("main")',
         UNCHANGED <<disk, survivors, app, coordinator, queue, completion>>,
         \/ history' = history /\ coordinator.call \notin Clears
         \/ /\ history' = [history EXCEPT !.kept = NothingKept]
            /\ coordinator.call \in Clears
  PROVE  Kept'
<1>1. /\ queue = Missing /\ completion = NoCompletion /\ job["worker"].stage = "idle"
      /\ Threads = {"main", "worker"}
  BY ThreadFacts DEF Ctx, IInv, FlagCovers, At
<1>2. survivors = {disk}
  BY <1>1, QuietFacts
<1>3. /\ DOMAIN history' = DOMAIN history
      /\ \/ history'.kept = history.kept /\ coordinator.call \notin Clears
         \/ history'.kept = NothingKept /\ coordinator.call \in Clears
  BY DEF Ctx, Types
<1>4. NothingKept \in Keeps /\ NothingKept.id = NoId
  BY DEF NothingKept, Keeps
<1>5. Types'
  BY <1>3, <1>4 DEF Ctx, Types, run
<1>6. Files'
  <2>1. Sound'
    <3>1. Ordered(disk) /\ (history.kept.id # NoId => HasKept(disk))
      BY <1>2 DEF Ctx, Files, Sound
    <3>2. history'.kept.id # NoId => HasKept(disk)'
      BY <1>3, <1>4, <3>1 DEF HasKept
    <3> QED
      BY <1>2, <3>1, <3>2 DEF Sound, HasKept
  <2>2. Synced'
    BY <1>2 DEF Synced
  <2>3. Progressing("worker")'
    BY <1>1, IdleProgress
  <2> QED
    BY <1>1, <2>1, <2>2, <2>3 DEF Files
<1>7. Stored' = Stored
  BY DEF Stored
<1>8. NextRevision' = NextRevision /\ run' = run /\ Snapshot' = Snapshot /\ ~WritingRun
  <2>1. NextRevision' = NextRevision /\ run' = run
    BY DEF NextRevision, run
  <2> QED
    BY <2>1 DEF Snapshot, WritingRun, At
<1>9. Memory'
  <2>1. Covers'
    BY <1>7, <1>8 DEF Ctx, Memory, Covers, Covered
  <2>2. NoMarks'
    BY <1>7 DEF Ctx, Memory, NoMarks
  <2>3. Flight'
    BY <1>1 DEF Flight, At
  <2>4. Calling'
    BY <1>3, <1>8 DEF Calling, At
  <2> QED
    BY <2>1, <2>2, <2>3, <2>4 DEF Memory
<1>10. Screens'
  <2>1. Wanted' /\ Purposes' /\ Offered'
    BY DEF Ctx, Screens, Wanted, Purposes, Offered, Live, run
  <2>2. Vacant'
    BY DEF Vacant
  <2>3. ASSUME coordinator.call \in Clears PROVE ~Live
    BY <2>3, CallFacts DEF Ctx, Screens, Purposes, Offered, Wanted, Live, NoRun
  <2>4. Saved'
    BY <1>3, <2>3 DEF Ctx, Screens, Saved, Live, run
  <2> QED
    BY <2>1, <2>2, <2>4 DEF Screens
<1> QED
  BY <1>5, <1>6, <1>9, <1>10 DEF Kept

\* What is about to be written is newer than what the files have.
LEMMA SnapshotAbove ==
  ASSUME Ctx, coordinator.call \in Writes, job["main"].stage = "idle", run.id # NoId
  PROVE  \A name \in Names : Above(Snapshot, disk[name])
<1> SUFFICES ASSUME NEW name \in Names, Valid(disk[name])
             PROVE  /\ Snapshot.id = disk[name].id /\ Snapshot.rev > disk[name].rev
                    /\ Snapshot.body.progress >= disk[name].body.progress
                    /\ Snapshot.body.terminal = "Active" => disk[name].body.terminal = "Active"
  BY DEF Above
<1> DEFINE d == disk[name]
<1>1. d \in Docs /\ d \in Stored
  BY ViewFacts DEF Ctx, Types, Stored
<1> HIDE DEF d
<1>2. d.rev \in Nat /\ d.body.progress \in Nat
  BY <1>1, DocumentFacts
<1>3. d.id = run.id /\ d.body.progress <= run.progress /\ d.rev < NextRevision
  BY <1>1 DEF Ctx, Memory, Covers, Covered, WritingRun, At
<1>4. run.terminal = "Active" => d.body.terminal = "Active"
  <2>1. run.terminal = "Active" => coordinator.call \in {"return", "quit"}
    BY CallFacts DEF Ctx, Screens, Purposes
  <2>2. app.mode # "Off"
    BY CallFacts DEF Ctx, IInv, OneCall, NoCoordinator
  <2> QED
    BY <1>1, <2>1, <2>2 DEF Ctx, Memory, NoMarks
<1> QED
  BY <1>2, <1>3, <1>4, RevFacts, SnapshotFacts DEF Ctx, d

LEMMA BeginCallKept ==
  ASSUME Ctx, BeginCall
  PROVE  Kept'
<1>1. /\ job["main"].stage = "idle" /\ UNCHANGED <<app, coordinator, queue, completion, recorded>>
      /\ job \in [Threads -> Jobs] /\ "main" \in Threads /\ "worker" \in Threads
      /\ Threads = {"main", "worker"}
  BY ThreadFacts DEF BeginCall, At
<1>2. ASSUME NEW j \in Jobs, Becoming("main", j)
      PROVE  /\ job' \in [Threads -> Jobs] /\ job'["worker"] = job["worker"]
             /\ job'["main"] = j
  BY <1>1, <1>2 DEF Becoming
<1>3. CASE coordinator.call \in Loads /\ BeginRecover("main") /\ UNCHANGED history
  <2> DEFINE j == [NoJob EXCEPT !.stage = "scan", !.kind = "recover"]
  <2>1. j \in Jobs /\ j.stage = "scan" /\ j.kind = "recover"
    BY FirstJobs
  <2>2. Becoming("main", j) /\ UNCHANGED <<disk, survivors, faults>>
    BY <1>3 DEF BeginRecover
  <2> HIDE DEF j
  <2>3. /\ job' \in [Threads -> Jobs] /\ job'["worker"] = job["worker"] /\ job'["main"] = j
    BY <1>2, <2>1, <2>2
  <2>4. Progressing("main")'
    BY <2>1, <2>3 DEF Progressing, Writing
  <2>5. /\ KindOf(coordinator.call) = "recover" /\ coordinator.call \notin Writes
        /\ coordinator.call \notin Clears /\ coordinator.call # "none"
    BY <1>3, CallFacts DEF Calls
  <2> QED
    BY <1>1, <1>3, <2>1, <2>2, <2>3, <2>4, <2>5, BegunKept
<1>4. CASE /\ coordinator.call \in Writes /\ NextRevision <= MaxRevision
           /\ BeginWrite("main", Snapshot) /\ UNCHANGED history
  <2>1. run.id # NoId
    BY <1>4, CallFacts, DocumentsAssumption DEF Ctx, Screens, Purposes, Wanted, Live
  <2>2. Snapshot \in Docs
    BY <1>4, <2>1, SnapshotDoc DEF Ctx
  <2> DEFINE j == [NoJob EXCEPT !.stage = "stage", !.kind = "write", !.doc = Snapshot]
  <2>3. j \in Jobs /\ j.stage = "stage" /\ j.kind = "write" /\ j.doc = Snapshot /\ j.ok
        /\ ~j.removed
    BY <2>2, FirstJobs
  <2>4. Becoming("main", j) /\ UNCHANGED <<disk, survivors, faults>>
    BY <1>4 DEF BeginWrite
  <2> HIDE DEF j
  <2>5. /\ job' \in [Threads -> Jobs] /\ job'["worker"] = job["worker"] /\ job'["main"] = j
    BY <1>2, <2>3, <2>4
  <2>6. /\ Above(j.doc, disk["primary"]) /\ Above(j.doc, disk["bak"])
    BY <1>1, <1>4, <2>1, <2>3, SnapshotAbove, NameFacts
  <2>7. Progressing("main")'
    BY <2>2, <2>3, <2>4, <2>5, <2>6 DEF Progressing, Writing
  <2>8. /\ KindOf(coordinator.call) = "write"
        /\ coordinator.call \notin Clears /\ coordinator.call # "none"
    BY <1>4, CallFacts DEF Calls
  <2> QED
    BY <1>1, <1>4, <2>3, <2>4, <2>5, <2>7, <2>8, BegunKept
<1>5. CASE /\ coordinator.call \in Clears
           /\ BeginClear("main", IF coordinator.call = "quarantine" THEN "quarantine" ELSE "remove")
           /\ history' = [history EXCEPT !.kept = NothingKept]
  <2> DEFINE kind == IF coordinator.call = "quarantine" THEN "quarantine" ELSE "remove"
             j == [NoJob EXCEPT !.stage = kind, !.kind = kind, !.left = Artifacts]
  <2>1. kind \in {"remove", "quarantine"} /\ KindOf(coordinator.call) = kind
        /\ coordinator.call \notin Writes /\ coordinator.call # "none"
    BY <1>5, CallFacts DEF KindOf
  <2>2. Becoming("main", j) /\ UNCHANGED <<disk, survivors, faults>>
    BY <1>5 DEF BeginClear
  <2> HIDE DEF kind
  <2>3. j \in Jobs /\ j.stage = kind /\ j.kind = kind /\ j.left = Artifacts /\ j.ok
        /\ ~j.removed
    BY <2>1, FirstJobs
  <2> HIDE DEF j
  <2>4. /\ job' \in [Threads -> Jobs] /\ job'["worker"] = job["worker"] /\ job'["main"] = j
    BY <1>2, <2>2, <2>3
  <2>5. \A name \in Names : \E i \in DOMAIN Artifacts : Artifacts[i] = name
    BY LeftFacts DEF Lefts
  <2>6. Progressing("main")'
    BY <2>1, <2>3, <2>4, <2>5 DEF Progressing, Writing
  <2> QED
    BY <1>1, <1>5, <2>1, <2>2, <2>3, <2>4, <2>6, BegunKept
<1> QED
  BY <1>3, <1>4, <1>5 DEF BeginCall

-----------------------------------------------------------------------------
(* A call returns *)

\* Every document there is lies in the directory, once it is settled.
LEMMA SettledStored ==
  ASSUME survivors = {disk}
  PROVE  \A d \in Stored : d \in Docs /\ \E name \in Names : disk[name] = d
BY DEF Stored

\* What a call has done when it returns.
LEMMA DoneFacts ==
  ASSUME Ctx, job["main"].stage = "done"
  PROVE  /\ coordinator.call \in Calls /\ coordinator.call # "none" /\ ~coordinator.inFlight
         /\ queue = Missing /\ completion = NoCompletion /\ job["worker"].stage = "idle"
         /\ Threads = {"main", "worker"} /\ job \in [Threads -> Jobs]
         /\ survivors = {disk} /\ Ordered(disk) /\ disk \in Views
         /\ coordinator.call \in Loads => Found = Recovered(disk)
         /\ coordinator.call \in Writes =>
              /\ Found = Snapshot /\ Found \in Docs /\ disk["primary"] = Found
              /\ Succeeded /\ WritingRun
         /\ coordinator.call \in Clears => Succeeded /\ Clean /\ history.kept = NothingKept
         /\ app.mode # "Off"
<1>1. /\ coordinator.call # "none" /\ ~coordinator.inFlight /\ queue = Missing
      /\ completion = NoCompletion /\ job["worker"].stage = "idle"
      /\ Threads = {"main", "worker"} /\ "main" \in Threads /\ job \in [Threads -> Jobs]
  BY ThreadFacts
<1>2. coordinator.call \in Calls
  BY DEF Ctx, Types, Calls
<1>3. survivors = {disk}
  BY <1>1 DEF Ctx, Files, Synced, SteadyJob
<1>4. Ordered(disk) /\ disk \in Views
  BY <1>3 DEF Ctx, Files, Sound, Types
<1>5. job["main"].kind = KindOf(coordinator.call)
  BY DEF Ctx, Memory, Calling, At
<1>6. Progressing("main")
  BY <1>1 DEF Ctx, Files
<1>7. coordinator.call \in Loads => Found = Recovered(disk)
  BY <1>2, <1>5, <1>6, CallFacts DEF Progressing, Found
<1>8. ASSUME coordinator.call \in Writes
      PROVE  /\ Found = Snapshot /\ Found \in Docs /\ disk["primary"] = Found
             /\ Succeeded /\ WritingRun
  <2>1. job["main"].kind = "write" /\ Found = Snapshot /\ WritingRun
    BY <1>2, <1>5, <1>8, CallFacts DEF Ctx, Memory, Calling, At, Found, WritingRun
  <2>2. Found \in Docs /\ disk["primary"] = Found /\ (job["main"].ok <=> Found # Torn)
    BY <1>6, <2>1 DEF Progressing, Found
  <2>3. Succeeded
    BY <2>2, DocumentFacts DEF Succeeded
  <2> QED
    BY <2>1, <2>2, <2>3
<1>9. ASSUME coordinator.call \in Clears PROVE Succeeded /\ Clean /\ history.kept = NothingKept
  <2>1. job["main"].kind \in {"quarantine", "remove"} /\ history.kept = NothingKept
    BY <1>2, <1>5, <1>9, CallFacts DEF Ctx, Memory, Calling, At
  <2>2. job["main"].ok /\ job["main"].left = <<>>
    BY <1>6, <2>1 DEF Progressing
  <2>3. DOMAIN job["main"].left = {}
    BY <2>2
  <2>4. \A name \in Names : disk[name] = Missing
    BY <1>6, <2>1, <2>3 DEF Progressing
  <2> QED
    BY <1>3, <2>1, <2>2, <2>4 DEF Clean, Succeeded
<1>10. app.mode # "Off"
  BY <1>1 DEF Ctx, IInv, OneCall, NoCoordinator
<1> QED
  BY <1>1, <1>2, <1>3, <1>4, <1>7, <1>8, <1>9, <1>10

\* What a start or a resume finds is newer than everything else, or there is nothing.
LEMMA FoundFacts ==
  ASSUME Ctx, job["main"].stage = "done", coordinator.call \in Loads
  PROVE  /\ Valid(Found) => Found \in Docs /\ Found \in Stored
         /\ ~Valid(Found) => Stored = {}
         /\ Found = Missing => Clean
         /\ \A d \in Stored :
              /\ d.id = Found.id /\ d.rev <= Found.rev /\ d.body.progress <= Found.body.progress
              /\ Found.body.terminal = "Active" => d.body.terminal = "Active"
<1>1. survivors = {disk} /\ Ordered(disk) /\ disk \in Views /\ Found = Recovered(disk)
  BY DoneFacts
<1>2. /\ Recovered(disk) # Missing => \E name \in Names : disk[name] = Recovered(disk)
      /\ \A name \in Names : Valid(disk[name]) =>
           Recovered(disk) \in Docs /\ Above(Recovered(disk), disk[name])
      /\ Recovered(disk) = Missing => \A name \in Names : disk[name] = Missing
      /\ Recovered(disk) \in Contents
  BY <1>1, RecoveredAbove
<1>3. Valid(Found) => Found \in Docs /\ Found \in Stored
  BY <1>1, <1>2, DocumentFacts DEF Contents, Stored
<1>4. ASSUME NEW d \in Stored
      PROVE  /\ Valid(Found)
             /\ d.id = Found.id /\ d.rev <= Found.rev /\ d.body.progress <= Found.body.progress
             /\ Found.body.terminal = "Active" => d.body.terminal = "Active"
  <2>1. PICK name \in Names : disk[name] = d /\ d \in Docs
    BY <1>1, SettledStored
  <2>2. Valid(d) /\ Found \in Docs /\ Above(Found, d) /\ Valid(Found)
    BY <1>1, <1>2, <2>1, DocumentFacts
  <2>3. /\ d.rev \in Nat /\ d.body.progress \in Nat /\ Found.rev \in Nat
        /\ Found.body.progress \in Nat
    BY <2>1, <2>2, DocumentFacts
  <2> QED
    BY <2>2, <2>3 DEF Above
<1>5. Found = Missing => Clean
  BY <1>1, <1>2 DEF Clean
<1> QED
  BY <1>3, <1>4, <1>5

\* The files and the threads, when a call returns.
LEMMA ReturnedFiles ==
  ASSUME Ctx, job["main"].stage = "done", Becoming("main", NoJob),
         UNCHANGED <<disk, survivors, queue, completion>>,
         app'.run \in Runs, app'.available \in BOOLEAN, app'.damaged \in BOOLEAN,
         coordinator'.call \in Calls, coordinator'.revision \in Nat,
         coordinator'.inFlight = coordinator.inFlight,
         DOMAIN history' = DOMAIN history, history'.kept \in Keeps,
         history'.kept = history.kept \/ HasKept(disk)'
  PROVE  /\ Types' /\ Files' /\ Flight' /\ Calling' /\ Stored' = Stored
         /\ ~WritingRun' /\ ~coordinator'.inFlight
         /\ Clean' = Clean
<1>1. /\ queue = Missing /\ completion = NoCompletion /\ job["worker"].stage = "idle"
      /\ Threads = {"main", "worker"} /\ job \in [Threads -> Jobs]
      /\ survivors = {disk} /\ Ordered(disk) /\ ~coordinator.inFlight
  BY DoneFacts
<1>2. /\ job' = [job EXCEPT !["main"] = NoJob] /\ UNCHANGED <<disk, survivors>>
  BY DEF Becoming
<1>3. /\ NoJob \in Jobs /\ NoJob.stage = "idle"
  BY FirstJobs
<1>4. /\ job' \in [Threads -> Jobs] /\ job'["main"].stage = "idle"
      /\ job'["worker"].stage = "idle"
  BY <1>1, <1>2, <1>3
<1>5. Types'
  BY <1>1, <1>2, <1>4 DEF Ctx, Types, Calls
<1>6. Sound'
  <2>1. history.kept.id # NoId => HasKept(disk)
    BY <1>1 DEF Ctx, Files, Sound
  <2>2. history'.kept.id # NoId => HasKept(disk)'
    BY <1>2, <2>1 DEF HasKept
  <2> QED
    BY <1>1, <1>2, <2>2 DEF Sound, HasKept
<1>7. Synced'
  BY <1>1, <1>2 DEF Synced
<1>8. \A t \in Threads : Progressing(t)'
  BY <1>1, <1>4, IdleProgress
<1>9. Flight' /\ Calling'
  BY <1>1, <1>4 DEF Flight, Calling, At
<1>10. Stored' = Stored /\ Clean' = Clean
  BY <1>2 DEF Stored, Clean
<1>11. ~WritingRun'
  BY <1>4 DEF WritingRun, At
<1> QED
  BY <1>1, <1>5, <1>6, <1>7, <1>8, <1>9, <1>10, <1>11 DEF Files

LEMMA ReturnFiles ==
  ASSUME Ctx, job["main"].stage = "done", End("main"), UNCHANGED <<queue, completion>>,
         app'.run \in Runs, app'.available \in BOOLEAN, app'.damaged \in BOOLEAN,
         coordinator'.call \in Calls, coordinator'.revision \in Nat,
         coordinator'.inFlight = coordinator.inFlight,
         DOMAIN history' = DOMAIN history, history'.kept \in Keeps,
         history'.kept = history.kept \/ HasKept(disk)'
  PROVE  /\ Types' /\ Files' /\ Flight' /\ Calling' /\ Stored' = Stored
         /\ ~WritingRun' /\ ~coordinator'.inFlight
         /\ Clean' = Clean
BY ReturnedFiles DEF End

\* A run that was just read is as far on as the files are.
LEMMA ReadCovers ==
  ASSUME Ctx, job["main"].stage = "done", coordinator.call \in Loads, Valid(Found),
         Stored' = Stored,
         app'.run.id = Found.id, app'.run.rev = Found.rev,
         app'.run.progress = Found.body.progress, coordinator'.revision = Found.rev
  PROVE  Covers'
<1>1. Found \in Docs /\ Found.rev \in Nat
  BY FoundFacts, DocumentFacts
<1>2. NextRevision' = Found.rev + 1
  BY <1>1 DEF NextRevision, run
<1> SUFFICES ASSUME NEW d \in Stored
             PROVE  d.id = Found.id /\ d.body.progress <= Found.body.progress
                    /\ d.rev < Found.rev + 1
  BY <1>2 DEF Covers, Covered, run
<1>3. d.rev \in Nat
  BY DocumentFacts DEF Stored
<1> QED
  BY <1>1, <1>3, FoundFacts

\* A run that was just written is, too.
LEMMA WrittenCovers ==
  ASSUME Ctx, job["main"].stage = "done", coordinator.call \in Writes,
         Stored' = Stored, run.id # NoId,
         app'.run.id = run.id, app'.run.rev = Found.rev,
         app'.run.progress = run.progress, coordinator'.revision = Found.rev
  PROVE  Covers'
<1>1. Found \in Docs /\ Found.rev = NextRevision /\ NextRevision \in Nat
  BY DoneFacts, SnapshotFacts, RevFacts DEF Ctx
<1>2. NextRevision' = NextRevision + 1
  BY <1>1 DEF NextRevision, run
<1> SUFFICES ASSUME NEW d \in Stored
             PROVE  d.id = run.id /\ d.body.progress <= run.progress
                    /\ d.rev < NextRevision + 1
  BY <1>2 DEF Covers, Covered, run
<1>3. d.rev \in Nat
  BY DocumentFacts DEF Stored
<1>4. Covered(d)
  BY DEF Ctx, Memory, Covers
<1> QED
  BY <1>1, <1>3, <1>4 DEF Covered

LEMMA ResumedKept ==
  ASSUME Ctx, Resumed
  PROVE  Kept'
<1>1. /\ coordinator.call = "resume" /\ job["main"].stage = "done" /\ coordinator.call \in Loads
      /\ coordinator.call \notin Writes
  BY CallFacts DEF Resumed, Returned, At
<1>2. /\ Wanted /\ Saved /\ Offered /\ app.request = "Resume" /\ app.mode # "Off"
      /\ app.mode # "Boot" /\ app.mode = "Save_Wait"
  BY <1>1, DoneFacts DEF Ctx, Screens, Purposes, Wanted
<1>3. /\ ~coordinator.inFlight /\ {"call", "inFlight", "revision"} \subseteq DOMAIN coordinator
      /\ {"mode", "request", "failed", "return", "run", "available", "damaged", "dirty"}
           \subseteq DOMAIN app
      /\ app.run \in Runs /\ coordinator.revision \in Nat
  BY <1>1, DoneFacts DEF Ctx, IInv, ControlType, Types
<1>4. \A d \in Stored : d.body.terminal = "Active"
  BY <1>1, <1>2 DEF Ctx, Memory, NoMarks
<1>5. CASE IsActive(Found) /\ ReturnTo("none", Found.rev)
           /\ app' = [Fulfilled("Resume_Veil") EXCEPT !.run = Installed(Found),
                        !.available = TRUE, !.damaged = FALSE, !.dirty = FALSE]
  <2>1. /\ Found \in Docs /\ Valid(Found) /\ Found.body.terminal = "Active"
        /\ Found.rev \in Nat /\ Found.id \in Ids
    BY <1>1, <1>5, FoundFacts, DocumentFacts DEF IsActive
  <2>2. /\ End("main") /\ UNCHANGED <<queue, completion, recorded, history>>
        /\ coordinator'.call = "none" /\ coordinator'.revision = Found.rev
        /\ coordinator'.inFlight = coordinator.inFlight
    BY <1>3, <1>5 DEF ReturnTo, Return
  <2>3. Installed(Found) \in Runs
    BY <2>1, DocumentFacts DEF Installed, Runs
  <2>4. /\ app'.run = Installed(Found) /\ app'.available = TRUE /\ app'.damaged = FALSE
        /\ app'.mode = "Resume_Veil" /\ app'.request = "None"
    BY <1>3, <1>5 DEF Fulfilled
  <2>5. /\ Types' /\ Files' /\ Flight' /\ Calling' /\ Stored' = Stored
        /\ ~WritingRun' /\ ~coordinator'.inFlight
    BY <1>1, <2>1, <2>2, <2>3, <2>4, ReturnFiles DEF Ctx, Types, Calls
  <2>6. /\ app'.run.id = Found.id /\ app'.run.rev = Found.rev
        /\ app'.run.progress = Found.body.progress /\ app'.run.terminal = "Active"
    BY <2>1, <2>4 DEF Installed
  <2>7. Covers'
    BY <1>1, <2>1, <2>2, <2>5, <2>6, ReadCovers
  <2>8. NoMarks'
    BY <1>4, <2>5 DEF NoMarks
  <2>9. Live'
    BY <2>1, <2>6, DocumentsAssumption DEF Live, run
  <2>10. Screens'
    <3>1. Wanted'
      BY <2>4, <2>9 DEF Wanted
    <3>2. Saved' /\ Vacant' /\ Offered'
      BY <2>4, <2>5 DEF Saved, Vacant, Offered
    <3>3. Purposes'
      BY <2>2, CallFacts DEF Purposes
    <3> QED
      BY <3>1, <3>2, <3>3 DEF Screens
  <2> QED
    BY <2>5, <2>7, <2>8, <2>10 DEF Kept, Memory
<1>6. CASE ~IsActive(Found) /\ ReturnTo("none", coordinator.revision)
           /\ app' = Unrestored("Resume")
  <2>1. Stored = {} /\ ~Live
    <3>1. ~Valid(Found)
      BY <1>1, <1>4, <1>6, FoundFacts DEF IsActive
    <3>2. Stored = {}
      BY <1>1, <3>1, FoundFacts
    <3>3. ASSUME Live PROVE FALSE
      <4>1. HasKept(disk)
        BY <1>1, <1>2, <3>3, DoneFacts DEF Saved, Ctx, Files, Sound
      <4>2. PICK name \in {"primary", "bak"} : Valid(disk[name])
        BY <4>1 DEF HasKept
      <4>3. disk[name] \in Stored
        BY <1>1, <4>2, ViewFacts, DoneFacts, NameFacts DEF Stored
      <4> QED
        BY <3>2, <4>3
    <3> QED
      BY <3>2, <3>3
  <2>2. /\ End("main") /\ UNCHANGED <<queue, completion, recorded, history>>
        /\ coordinator'.call = "none" /\ coordinator'.revision = coordinator.revision
        /\ coordinator'.inFlight = coordinator.inFlight
    BY <1>3, <1>6 DEF ReturnTo, Return
  <2>3. /\ app'.run = app.run /\ app'.available = app.available
        /\ app'.damaged = (Found # Missing)
        /\ app'.mode = "Save_Error" /\ app'.request = "None" /\ app'.failed = "Resume"
        /\ app'.return = "Title"
    BY <1>3, <1>6 DEF Unrestored, Failing
  <2>4. /\ Types' /\ Files' /\ Flight' /\ Calling' /\ Stored' = Stored
        /\ ~WritingRun' /\ ~coordinator'.inFlight /\ Clean' = Clean
    BY <1>1, <1>3, <2>2, <2>3, ReturnFiles DEF Ctx, Types, Calls
  <2>5. Covers' /\ NoMarks'
    BY <2>1, <2>4 DEF Covers, NoMarks
  <2>6. ~Live'
    BY <2>1, <2>3 DEF Live, run
  <2>7. Screens'
    <3>1. Wanted'
      BY <2>3 DEF Wanted
    <3>2. Saved' /\ Offered'
      BY <2>3, <2>4, <2>6 DEF Saved, Offered
    <3>3. Vacant'
      BY <1>1, <2>3, <2>4, <2>6, FoundFacts DEF Vacant
    <3>4. Purposes'
      BY <2>2, CallFacts DEF Purposes
    <3> QED
      BY <3>1, <3>2, <3>3, <3>4 DEF Screens
  <2> QED
    BY <2>4, <2>5, <2>7 DEF Kept, Memory
<1> QED
  BY <1>5, <1>6 DEF Resumed

LEMMA LeftRunKept ==
  ASSUME Ctx, LeftRun
  PROVE  Kept'
<1>1. PICK call \in {"return", "quit"} :
        /\ Returned(call)
        /\ \/ /\ Succeeded
              /\ app' = [Fulfilled(IF call = "quit" THEN "Exiting" ELSE "Title") EXCEPT
                           !.run.rev = Found.rev, !.available = (run.terminal = "Active")]
              /\ Return("none", Found.rev) /\ history' = Keeping(Found)
           \/ ~Succeeded
        /\ UNCHANGED recorded
  BY DEF LeftRun
<1>2. /\ coordinator.call \in {"return", "quit"} /\ job["main"].stage = "done"
      /\ coordinator.call \in Writes /\ coordinator.call \notin Loads
  BY <1>1, CallFacts DEF Returned, At
<1>3. /\ Found = Snapshot /\ Found \in Docs /\ disk["primary"] = Found
      /\ Succeeded /\ WritingRun /\ survivors = {disk} /\ ~coordinator.inFlight /\ app.mode # "Off"
  BY <1>2, DoneFacts
<1>4. /\ Wanted /\ Offered /\ Live /\ {"call", "inFlight", "revision"} \subseteq DOMAIN coordinator
      /\ {"mode", "request", "failed", "return", "run", "available", "damaged", "dirty"}
           \subseteq DOMAIN app
      /\ app.run \in Runs /\ run = app.run /\ app.damaged \in BOOLEAN
  BY <1>2 DEF Ctx, Screens, Purposes, Wanted, IInv, ControlType, Types, run
<1>5. /\ Found.rev \in Nat /\ Found.body.progress \in Nat /\ Found.id \in Ids /\ Valid(Found)
      /\ Found.id # NoId
  BY <1>3, DocumentFacts DEF Valid
<1>6. /\ End("main") /\ UNCHANGED <<queue, completion>>
      /\ coordinator'.call = "none" /\ coordinator'.revision = Found.rev
      /\ coordinator'.inFlight = coordinator.inFlight
  BY <1>1, <1>3, <1>4 DEF Return
<1>7. /\ app'.run = [app.run EXCEPT !.rev = Found.rev]
      /\ app'.available = (run.terminal = "Active") /\ app'.damaged = app.damaged
      /\ app'.mode \in {"Title", "Exiting"} /\ app'.request = "None"
  BY <1>1, <1>3, <1>4 DEF Fulfilled
<1>8. /\ app'.run \in Runs /\ app'.run.id = run.id /\ app'.run.rev = Found.rev
      /\ app'.run.progress = run.progress /\ app'.run.terminal = run.terminal
  BY <1>4, <1>5, <1>7 DEF Runs
<1>9. /\ DOMAIN history' = DOMAIN history
      /\ history'.kept = [id |-> Found.id, progress |-> Found.body.progress]
  BY <1>1, <1>3 DEF Keeping, Ctx, Types
<1>10. history'.kept \in Keeps /\ history'.kept.id = Found.id
       /\ history'.kept.progress = Found.body.progress
  BY <1>5, <1>9 DEF Keeps
<1>11. HasKept(disk)'
  <2>1. disk' = disk
    BY <1>6 DEF End
  <2>2. "primary" \in {"primary", "bak"} /\ Valid(disk["primary"])
        /\ disk["primary"].id = history'.kept.id
        /\ disk["primary"].body.progress >= history'.kept.progress
    BY <1>3, <1>5, <1>10
  <2> QED
    BY <2>1, <2>2 DEF HasKept
<1>12. /\ Types' /\ Files' /\ Flight' /\ Calling' /\ Stored' = Stored
       /\ ~WritingRun' /\ ~coordinator'.inFlight
  BY <1>2, <1>4, <1>5, <1>6, <1>7, <1>8, <1>9, <1>10, <1>11, ReturnFiles DEF Calls
<1>13. Covers'
  BY <1>2, <1>4, <1>6, <1>8, <1>12, WrittenCovers DEF Live
<1>14. NoMarks'
  BY <1>2, <1>3, <1>12 DEF Ctx, Memory, NoMarks
<1>15. Live' /\ app'.available /\ (app'.damaged => ~Live)
  BY <1>4, <1>7, <1>8 DEF Live, Offered, run
<1>16. Screens'
  <2>1. Wanted' /\ Vacant' /\ Offered'
    BY <1>4, <1>7, <1>12, <1>15 DEF Wanted, Vacant, Offered
  <2>2. Saved'
    BY <1>5, <1>10 DEF Saved
  <2>3. Purposes'
    BY <1>6, CallFacts DEF Purposes
  <2> QED
    BY <2>1, <2>2, <2>3 DEF Screens
<1> QED
  BY <1>12, <1>13, <1>14, <1>16 DEF Kept, Memory

\* What a call that returns knows.
LEMMA ReturnKnows ==
  ASSUME Ctx, job["main"].stage = "done"
  PROVE  /\ Purposes /\ Wanted /\ Saved /\ Offered /\ app.mode # "Off"
         /\ coordinator.call \in Calls /\ coordinator.call # "none"
         /\ ~coordinator.inFlight /\ coordinator.revision \in Nat
         /\ {"call", "inFlight", "revision"} \subseteq DOMAIN coordinator
         /\ {"mode", "request", "failed", "return", "run", "available", "damaged", "dirty",
             "chronicle"} \subseteq DOMAIN app
         /\ app.run \in Runs /\ run = app.run /\ app.available \in BOOLEAN
         /\ app.damaged \in BOOLEAN /\ history.kept \in Keeps
BY DoneFacts DEF Ctx, Screens, IInv, ControlType, Types, run

LEMMA AbandonedLoadedKept ==
  ASSUME Ctx, AbandonedLoaded
  PROVE  Kept'
<1>1. /\ coordinator.call = "load_abandoned" /\ job["main"].stage = "done"
      /\ coordinator.call \in Loads /\ coordinator.call \notin Writes
  BY CallFacts DEF AbandonedLoaded, Returned, At
<1>2. /\ app.request = "Abandon" /\ run.id = NoId /\ app.mode = "Save_Wait"
  BY <1>1, ReturnKnows DEF Purposes, Wanted
<1>3. \A d \in Stored : d.body.terminal = "Active"
  BY <1>1, <1>2 DEF Ctx, Memory, NoMarks
<1>4. CASE IsActive(Found) /\ ReturnTo("mark_abandoned", Found.rev)
           /\ app' = [app EXCEPT !.run = [Installed(Found) EXCEPT !.terminal = "Abandoned"],
                                 !.available = TRUE, !.damaged = FALSE]
  <2>1. /\ Found \in Docs /\ Valid(Found) /\ Found.rev \in Nat /\ Found.id \in Ids
        /\ Found.id # NoId
    BY <1>1, <1>4, FoundFacts, DocumentFacts DEF IsActive, Valid
  <2>2. /\ End("main") /\ UNCHANGED <<queue, completion, recorded, history>>
        /\ coordinator'.call = "mark_abandoned" /\ coordinator'.revision = Found.rev
        /\ coordinator'.inFlight = coordinator.inFlight
    BY <1>1, <1>4, ReturnKnows DEF ReturnTo, Return
  <2>3. /\ app'.run = [Installed(Found) EXCEPT !.terminal = "Abandoned"]
        /\ app'.available = TRUE /\ app'.damaged = FALSE
        /\ app'.mode = app.mode /\ app'.request = app.request
    BY <1>1, <1>4, ReturnKnows
  <2>4. /\ app'.run \in Runs /\ app'.run.id = Found.id /\ app'.run.rev = Found.rev
        /\ app'.run.progress = Found.body.progress /\ app'.run.terminal = "Abandoned"
    BY <2>1, <2>3, DocumentFacts DEF Installed, Runs, Terminals
  <2>5. coordinator'.call \in Calls
    BY <2>2, CallFacts DEF Calls
  <2>6. /\ Types' /\ Files' /\ Flight' /\ Calling' /\ Stored' = Stored
        /\ ~WritingRun' /\ ~coordinator'.inFlight
    BY <1>1, <2>1, <2>2, <2>3, <2>4, <2>5, ReturnKnows, ReturnFiles
  <2>7. Covers'
    BY <1>1, <2>1, <2>2, <2>4, <2>6, ReadCovers
  <2>8. NoMarks'
    BY <2>2 DEF NoMarks
  <2>9. ~Live'
    BY <2>4 DEF Live, run
  <2>10. Screens'
    <3>1. Wanted'
      BY <1>2, <2>3 DEF Wanted
    <3>2. Saved' /\ Vacant'
      BY <2>3, <2>9 DEF Saved, Vacant
    <3>3. Offered'
      BY <1>2, <2>3, <2>6, <2>9 DEF Offered
    <3>4. Purposes'
      BY <1>2, <2>1, <2>2, <2>3, <2>4 DEF Purposes, run
    <3> QED
      BY <3>1, <3>2, <3>3, <3>4 DEF Screens
  <2> QED
    BY <2>6, <2>7, <2>8, <2>10 DEF Kept, Memory
<1>5. CASE ~IsActive(Found) /\ ReturnTo("none", coordinator.revision)
           /\ app' = Unrestored("Abandon")
  <2>1. Stored = {}
    <3>1. ~Valid(Found)
      BY <1>1, <1>3, <1>5, FoundFacts DEF IsActive
    <3> QED
      BY <1>1, <3>1, FoundFacts
  <2>2. /\ End("main") /\ UNCHANGED <<queue, completion, recorded, history>>
        /\ coordinator'.call = "none" /\ coordinator'.revision = coordinator.revision
        /\ coordinator'.inFlight = coordinator.inFlight
    BY <1>1, <1>5, ReturnKnows DEF ReturnTo, Return
  <2>3. /\ app'.run = app.run /\ app'.available = app.available
        /\ app'.damaged = (Found # Missing)
        /\ app'.mode = "Save_Error" /\ app'.request = "None" /\ app'.failed = "Abandon"
        /\ app'.return = "Title"
    BY <1>1, <1>5, ReturnKnows DEF Unrestored, Failing
  <2>4. /\ Types' /\ Files' /\ Flight' /\ Calling' /\ Stored' = Stored
        /\ ~WritingRun' /\ ~coordinator'.inFlight /\ Clean' = Clean
    BY <1>1, <2>2, <2>3, ReturnKnows, ReturnFiles DEF Calls
  <2>5. Covers' /\ NoMarks'
    BY <2>1, <2>4 DEF Covers, NoMarks
  <2>6. ~Live'
    BY <1>2, <2>3 DEF Live, run
  <2>7. Screens'
    <3>1. Wanted'
      BY <2>3 DEF Wanted
    <3>2. Saved' /\ Offered'
      BY <2>3, <2>4, <2>6 DEF Saved, Offered
    <3>3. Vacant'
      BY <1>1, <2>3, <2>4, <2>6, FoundFacts DEF Vacant
    <3>4. Purposes'
      BY <2>2, CallFacts DEF Purposes
    <3> QED
      BY <3>1, <3>2, <3>3, <3>4 DEF Screens
  <2> QED
    BY <2>4, <2>5, <2>7 DEF Kept, Memory
<1> QED
  BY <1>4, <1>5 DEF AbandonedLoaded

LEMMA AbandonedMarkedKept ==
  ASSUME Ctx, AbandonedMarked
  PROVE  Kept'
<1>1. /\ coordinator.call = "mark_abandoned" /\ job["main"].stage = "done"
      /\ coordinator.call \in Writes /\ coordinator.call \notin Loads
  BY CallFacts DEF AbandonedMarked, Returned, At
<1>2. /\ app.request = "Abandon" /\ run.id # NoId /\ run.terminal = "Abandoned"
      /\ app.mode = "Save_Wait"
  BY <1>1, ReturnKnows DEF Purposes, Wanted
<1>3. Succeeded /\ Found \in Docs /\ Found.rev \in Nat
  BY <1>1, DoneFacts, DocumentFacts
<1>4. /\ End("main") /\ UNCHANGED <<queue, completion, recorded, history>>
      /\ coordinator'.call = "remove_abandoned" /\ coordinator'.revision = Found.rev
      /\ coordinator'.inFlight = coordinator.inFlight
  BY <1>1, <1>3, ReturnKnows DEF AbandonedMarked, ReturnTo, Return
<1>5. /\ app'.run = [app.run EXCEPT !.rev = Found.rev] /\ app'.available = FALSE
      /\ app'.damaged = app.damaged /\ app'.mode = app.mode /\ app'.request = app.request
  BY <1>1, <1>3, ReturnKnows DEF AbandonedMarked
<1>6. /\ app'.run \in Runs /\ app'.run.id = run.id /\ app'.run.rev = Found.rev
      /\ app'.run.progress = run.progress /\ app'.run.terminal = run.terminal
  BY <1>1, <1>3, <1>5, ReturnKnows DEF Runs
<1>7. coordinator'.call \in Calls
  BY <1>4, CallFacts DEF Calls
<1>8. /\ Types' /\ Files' /\ Flight' /\ Calling' /\ Stored' = Stored
      /\ ~WritingRun' /\ ~coordinator'.inFlight
  BY <1>1, <1>3, <1>4, <1>5, <1>6, <1>7, ReturnKnows, ReturnFiles
<1>9. Covers'
  BY <1>1, <1>2, <1>4, <1>6, <1>8, WrittenCovers
<1>10. NoMarks'
  BY <1>4 DEF NoMarks
<1>11. ~Live'
  BY <1>2, <1>6 DEF Live, run
<1>12. Screens'
  <2>1. Wanted'
    BY <1>2, <1>5 DEF Wanted
  <2>2. Saved'
    BY <1>11 DEF Saved
  <2>3. Vacant'
    BY <1>4 DEF Vacant
  <2>4. Offered'
    BY <1>2, <1>5, <1>8, <1>11 DEF Offered
  <2>5. Purposes'
    BY <1>2, <1>4, <1>5, <1>6 DEF Purposes, run
  <2> QED
    BY <2>1, <2>2, <2>3, <2>4, <2>5 DEF Screens
<1> QED
  BY <1>8, <1>9, <1>10, <1>12 DEF Kept, Memory

\* The files are gone: whatever run is left in memory, there is nothing it could contradict.
LEMMA ClearedKept ==
  ASSUME Ctx, job["main"].stage = "done", coordinator.call \in Clears, End("main"),
         UNCHANGED <<queue, completion, history>>,
         coordinator'.call = "none", coordinator'.revision = coordinator.revision,
         coordinator'.inFlight = coordinator.inFlight,
         app'.run \in Runs, app'.available \in BOOLEAN, app'.damaged \in BOOLEAN,
         app'.run = NoRun \/ (app'.run = app.run /\ ~Live),
         app'.mode \notin {"Off", "Boot", "Playing", "Paused", "Resume_Veil", "Recovery",
                           "Save_Error"},
         app'.mode = "Select" => ~app'.available /\ ~app'.damaged,
         app'.request = "None"
  PROVE  Kept'
<1>1. Clean /\ coordinator.call # "none"
  BY DoneFacts
<1>2. Stored = {}
  BY <1>1, DocumentFacts DEF Clean, Stored
<1>3. /\ Types' /\ Files' /\ Flight' /\ Calling' /\ Stored' = Stored
      /\ ~WritingRun' /\ ~coordinator'.inFlight /\ Clean' = Clean
  BY ReturnKnows, ReturnFiles DEF Calls
<1>4. Covers' /\ NoMarks'
  BY <1>2, <1>3 DEF Covers, NoMarks
<1>5. ~Live'
  BY DEF Live, run, NoRun
<1>6. Screens'
  <2>1. Wanted'
    BY <1>5 DEF Wanted
  <2>2. Saved' /\ Offered'
    BY <1>3, <1>5 DEF Saved, Offered
  <2>3. Vacant'
    BY <1>1, <1>3, <1>5 DEF Vacant
  <2>4. Purposes'
    BY CallFacts DEF Purposes
  <2> QED
    BY <2>1, <2>2, <2>3, <2>4 DEF Screens
<1> QED
  BY <1>3, <1>4, <1>6 DEF Kept, Memory

LEMMA ClearsKept ==
  ASSUME Ctx, AbandonedRemoved \/ RunQuarantined \/ Finalized \/ Discarded
  PROVE  Kept'
<1>1. job["main"].stage = "done" /\ coordinator.call \in Clears
      /\ (AbandonedRemoved => coordinator.call = "remove_abandoned")
      /\ (RunQuarantined => coordinator.call = "quarantine")
      /\ (Finalized => coordinator.call = "remove_ended")
      /\ (Discarded => coordinator.call = "discard")
  BY CallFacts DEF AbandonedRemoved, RunQuarantined, Finalized, Discarded, Returned, At
<1>2. Succeeded
  BY <1>1, DoneFacts
<1>3. /\ End("main") /\ UNCHANGED <<queue, completion, history>>
      /\ coordinator'.call = "none" /\ coordinator'.revision = coordinator.revision
      /\ coordinator'.inFlight = coordinator.inFlight
  BY <1>1, ReturnKnows DEF AbandonedRemoved, RunQuarantined, Finalized, Discarded, ReturnTo, Return
<1>4. NoRun \in Runs
  BY CoordinatorAssumption DEF NoRun, Runs, Terminals
<1>5. ~Live
  BY <1>1, ReturnKnows, CallFacts DEF Purposes, Offered, Wanted, Live, NoRun
<1>6. CASE AbandonedRemoved
  <2>1. /\ app'.run = NoRun /\ app'.available = FALSE /\ app'.damaged = FALSE
        /\ app'.mode = "Select" /\ app'.request = "None"
    BY <1>1, <1>2, <1>6, ReturnKnows DEF AbandonedRemoved, Fulfilled
  <2> QED
    BY <1>1, <1>3, <1>4, <2>1, ClearedKept
<1>7. CASE RunQuarantined
  <2>1. /\ app'.run = app.run /\ app'.available = FALSE /\ app'.damaged = FALSE
        /\ app'.mode = "Select" /\ app'.request = "None"
    BY <1>1, <1>2, <1>7, ReturnKnows DEF RunQuarantined, Fulfilled
  <2> QED
    BY <1>1, <1>3, <1>5, <2>1, ReturnKnows, ClearedKept
<1>8. CASE Finalized
  <2>1. /\ app'.run = IF app.mode = "Boot" THEN NoRun ELSE app.run
        /\ app'.available = FALSE /\ app'.damaged = FALSE
        /\ app'.mode = IF app.mode = "Boot" THEN "Title"
                       ELSE IF app.mode = "Save_Wait" THEN "Ended" ELSE app.mode
        /\ app'.request = "None"
    BY <1>1, <1>2, <1>8, ReturnKnows DEF Finalized
  <2>2. app.mode # "Boot" =>
          app.mode \notin {"Off", "Playing", "Paused", "Resume_Veil", "Recovery", "Save_Error",
                           "Select"}
    BY <1>1, <1>8, ReturnKnows DEF Purposes, Wanted, Offered
  <2> QED
    BY <1>1, <1>3, <1>4, <1>5, <2>1, <2>2, ReturnKnows, ClearedKept
<1>9. CASE Discarded
  <2>1. /\ app'.run = app.run /\ app'.available = app.available /\ app'.damaged = app.damaged
        /\ app'.mode = "Title" /\ app'.request = app.request
    BY <1>1, <1>9, ReturnKnows DEF Discarded
  <2>2. app.request = "None"
    BY <1>1, <1>9, ReturnKnows DEF Purposes
  <2> QED
    BY <1>1, <1>3, <1>5, <2>1, <2>2, ReturnKnows, ClearedKept
<1> QED
  BY <1>6, <1>7, <1>8, <1>9

LEMMA RunRecoveredKept ==
  ASSUME Ctx, RunRecovered
  PROVE  Kept'
<1>1. /\ coordinator.call = "recover" /\ job["main"].stage = "done"
      /\ coordinator.call \in Loads /\ coordinator.call \notin Writes
  BY CallFacts DEF RunRecovered, Returned, At
<1>2. app.request = "Recover_Run" /\ app.damaged /\ ~Live /\ app.mode # "Off"
  BY <1>1, ReturnKnows DEF Purposes, Wanted, Offered
<1>3. /\ End("main") /\ UNCHANGED <<queue, completion, recorded, history>>
      /\ coordinator'.call = "none" /\ coordinator'.revision = coordinator.revision
      /\ coordinator'.inFlight = coordinator.inFlight
  BY <1>1, ReturnKnows DEF RunRecovered, ReturnTo, Return
<1>4. /\ app'.run = app.run /\ app'.request = "None" /\ app'.available \in BOOLEAN
      /\ \/ app'.available = TRUE /\ app'.damaged = FALSE /\ app'.mode = "Title"
         \/ /\ app'.damaged = TRUE /\ app'.mode = "Save_Error"
            /\ app'.failed = "Recover_Run" /\ app'.return = "Recovery"
  BY <1>1, <1>2, ReturnKnows DEF RunRecovered, Fulfilled, Failing
<1>5. /\ Types' /\ Files' /\ Flight' /\ Calling' /\ Stored' = Stored
      /\ ~WritingRun' /\ ~coordinator'.inFlight
  BY <1>1, <1>3, <1>4, ReturnKnows, ReturnFiles DEF Calls
<1>6. NextRevision' = NextRevision /\ run' = run
  BY <1>3, <1>4 DEF NextRevision, run
<1>7. Covers'
  BY <1>1, <1>5, <1>6 DEF Ctx, Memory, Covers, Covered, WritingRun
<1>8. NoMarks'
  BY <1>1, <1>2, <1>5 DEF Ctx, Memory, NoMarks
<1>9. ~Live'
  BY <1>2, <1>6 DEF Live
<1>10. Screens'
  <2>1. Wanted'
    BY <1>4 DEF Wanted
  <2>2. Saved' /\ Offered' /\ Vacant'
    BY <1>4, <1>5, <1>9 DEF Saved, Offered, Vacant
  <2>3. Purposes'
    BY <1>3, CallFacts DEF Purposes
  <2> QED
    BY <2>1, <2>2, <2>3 DEF Screens
<1> QED
  BY <1>5, <1>7, <1>8, <1>10 DEF Kept, Memory

LEMMA ArchivedKept ==
  ASSUME Ctx, Archived, faults' = 0
  PROVE  Kept'
<1>1. /\ coordinator.call = "mark_ended" /\ job["main"].stage = "done"
      /\ coordinator.call \in Writes /\ coordinator.call \notin Loads
  BY CallFacts DEF Archived, Returned, At
<1>2. /\ run.id # NoId /\ run.terminal = "Ended" /\ app.mode # "Select"
      /\ (app.mode = "Boot" /\ app.request = "None") \/ app.request = "Finalize"
  BY <1>1, ReturnKnows DEF Purposes
<1>3. /\ Found \in Docs /\ disk["primary"] = Found /\ Succeeded
      /\ Found.rev \in Nat /\ Found.body.progress \in Nat /\ Found.id \in Ids /\ Valid(Found)
  BY <1>1, DoneFacts, DocumentFacts
<1>4. \A chronicle : ~ProfileUnwritten(chronicle)
  BY DEF ProfileUnwritten, Ctx
<1>5. /\ coordinator' = [coordinator EXCEPT !.call = "remove_ended", !.revision = Found.rev]
      /\ app' = [app EXCEPT !.run.rev = Found.rev, !.available = FALSE,
                            !.chronicle = WithRecord(@, run.id)]
      /\ history' = [Keeping(Found) EXCEPT !.marked = @ \cup {run.id}]
      /\ Becoming("main", NoJob)
      /\ UNCHANGED <<disk, survivors, queue, completion>> /\ faults' = faults
  BY <1>3, <1>4 DEF Archived, ProfileWritten, NoFault
<1>6. End("main")
  BY <1>5 DEF End
<1>7. /\ coordinator'.call = "remove_ended" /\ coordinator'.revision = Found.rev
      /\ coordinator'.inFlight = coordinator.inFlight
  BY <1>1, <1>5, ReturnKnows
<1>8. /\ app'.run = [app.run EXCEPT !.rev = Found.rev] /\ app'.available = FALSE
      /\ app'.damaged = app.damaged /\ app'.mode = app.mode /\ app'.request = app.request
      /\ app'.failed = app.failed /\ app'.return = app.return
  BY <1>1, <1>5, ReturnKnows
<1>9. /\ app'.run \in Runs /\ app'.run.id = run.id /\ app'.run.rev = Found.rev
      /\ app'.run.progress = run.progress /\ app'.run.terminal = run.terminal
  BY <1>1, <1>3, <1>8, ReturnKnows DEF Runs
<1>10. /\ DOMAIN history' = DOMAIN history
       /\ history'.kept = [id |-> Found.id, progress |-> Found.body.progress]
  BY <1>5 DEF Keeping, Ctx, Types
<1>11. history'.kept \in Keeps /\ history'.kept.id = Found.id
       /\ history'.kept.progress = Found.body.progress
  BY <1>3, <1>10 DEF Keeps
<1>12. HasKept(disk)'
  <2>1. "primary" \in {"primary", "bak"} /\ Valid(disk["primary"])
        /\ disk["primary"].id = history'.kept.id
        /\ disk["primary"].body.progress >= history'.kept.progress
    BY <1>3, <1>11
  <2> QED
    BY <1>5, <2>1 DEF HasKept
<1>13. coordinator'.call \in Calls
  BY <1>7, CallFacts DEF Calls
<1>14. /\ Types' /\ Files' /\ Flight' /\ Calling' /\ Stored' = Stored
       /\ ~WritingRun' /\ ~coordinator'.inFlight
  BY <1>1, <1>3, <1>5, <1>6, <1>7, <1>8, <1>9, <1>10, <1>11, <1>12, <1>13, ReturnKnows, ReturnFiles
<1>15. Covers'
  BY <1>1, <1>2, <1>7, <1>9, <1>14, WrittenCovers
<1>16. NoMarks'
  BY <1>7 DEF NoMarks
<1>17. ~Live /\ ~Live'
  BY <1>2, <1>9 DEF Live, run
<1>18. Screens'
  <2>1. Wanted'
    BY <1>1, <1>2, <1>7, <1>8, <1>9, <1>14, <1>17, ReturnKnows DEF Wanted, run
  <2>2. Saved'
    BY <1>17 DEF Saved
  <2>3. Vacant'
    BY <1>7 DEF Vacant
  <2>4. Offered'
    BY <1>2, <1>8, <1>14, <1>17 DEF Offered
  <2>5. Purposes'
    BY <1>2, <1>7, <1>8, <1>9 DEF Purposes, run
  <2> QED
    BY <2>1, <2>2, <2>3, <2>4, <2>5 DEF Screens
<1> QED
  BY <1>14, <1>15, <1>16, <1>18 DEF Kept, Memory

LEMMA BootLoadedKept ==
  ASSUME Ctx, BootLoaded
  PROVE  Kept'
<1>1. /\ coordinator.call = "boot" /\ job["main"].stage = "done"
      /\ coordinator.call \in Loads /\ coordinator.call \notin Writes
  BY CallFacts DEF BootLoaded, Returned, At
<1>2. /\ app.mode = "Boot" /\ run = NoRun /\ app.request = "None"
      /\ run.id = NoId /\ ~Live /\ ~app.damaged
  BY <1>1, ReturnKnows DEF Purposes, NoRun, Live, Wanted
<1>3. Valid(Found) => Found \in Docs /\ Found.rev \in Nat /\ Found.id \in Ids /\ Found.id # NoId
  BY <1>1, FoundFacts, DocumentFacts DEF Valid
<1>4. CASE \/ /\ ~Valid(Found) /\ ReturnTo("none", 0)
              /\ app' = [app EXCEPT !.mode = "Title", !.damaged = (Found # Missing)]
           \/ /\ IsActive(Found) /\ ReturnTo("none", Found.rev)
              /\ app' = [app EXCEPT !.mode = "Title", !.available = TRUE]
  <2>1. /\ End("main") /\ UNCHANGED <<queue, completion, recorded, history>>
        /\ coordinator'.call = "none" /\ coordinator'.revision \in Nat
        /\ coordinator'.inFlight = coordinator.inFlight
    <3>1. PICK rev \in Nat : ReturnTo("none", rev)
      BY <1>3, <1>4 DEF IsActive
    <3> QED
      BY <1>1, <3>1, ReturnKnows DEF ReturnTo, Return
  <2>2. /\ app'.run = app.run /\ app'.request = "None" /\ app'.mode = "Title"
        /\ app'.available \in BOOLEAN /\ app'.damaged \in BOOLEAN
        /\ \/ ~Valid(Found) /\ app'.damaged = (Found # Missing)
           \/ IsActive(Found) /\ app'.available = TRUE
    BY <1>1, <1>2, <1>4, ReturnKnows
  <2>3. /\ Types' /\ Files' /\ Flight' /\ Calling' /\ Stored' = Stored
        /\ ~WritingRun' /\ ~coordinator'.inFlight /\ Clean' = Clean
    BY <1>1, <2>1, <2>2, ReturnKnows, ReturnFiles DEF Calls
  <2>4. Covers' /\ ~Live'
    BY <1>2, <2>2 DEF Covers, Live, run
  <2>5. NoMarks'
    BY <1>1, <2>2, <2>3, FoundFacts DEF NoMarks, IsActive
  <2>6. Screens'
    <3>1. Wanted'
      BY <2>2 DEF Wanted
    <3>2. Saved' /\ Offered'
      BY <2>2, <2>3, <2>4 DEF Saved, Offered
    <3>3. Vacant'
      BY <1>1, <2>2, <2>3, <2>4, FoundFacts DEF Vacant
    <3>4. Purposes'
      BY <2>1, CallFacts DEF Purposes
    <3> QED
      BY <3>1, <3>2, <3>3, <3>4 DEF Screens
  <2> QED
    BY <2>3, <2>4, <2>5, <2>6 DEF Kept, Memory
<1>5. CASE /\ Valid(Found) /\ Found.body.terminal = "Abandoned"
           /\ ReturnTo("discard", Found.rev) /\ UNCHANGED app
  <2>1. /\ End("main") /\ UNCHANGED <<queue, completion, recorded, history>>
        /\ coordinator'.call = "discard" /\ coordinator'.revision \in Nat
        /\ coordinator'.inFlight = coordinator.inFlight
    BY <1>1, <1>3, <1>5, ReturnKnows DEF ReturnTo, Return
  <2>2. coordinator'.call \in Calls
    BY <2>1, CallFacts DEF Calls
  <2>3. /\ Types' /\ Files' /\ Flight' /\ Calling' /\ Stored' = Stored
        /\ ~WritingRun' /\ ~coordinator'.inFlight
    BY <1>1, <1>5, <2>1, <2>2, ReturnKnows, ReturnFiles
  <2>4. Covers' /\ ~Live' /\ run' = run
    BY <1>2, <1>5 DEF Covers, Live, run
  <2>5. NoMarks' /\ Vacant' /\ Saved'
    BY <2>1, <2>4 DEF NoMarks, Vacant, Saved
  <2>6. Purposes'
    BY <1>2, <1>5, <2>1, <2>4 DEF Purposes
  <2>7. Offered'
    BY <1>2, <1>5, <2>3, <2>4 DEF Offered
  <2>8. Wanted'
    BY <1>2, <1>5, <2>1, <2>2, <2>3, <2>4, CallFacts DEF Wanted
  <2> QED
    BY <2>3, <2>4, <2>5, <2>6, <2>7, <2>8 DEF Kept, Memory, Screens
<1>6. CASE /\ Valid(Found) /\ Found.body.terminal = "Ended"
           /\ ReturnTo("mark_ended", Found.rev)
           /\ app' = [app EXCEPT !.run = Installed(Found)]
  <2>1. /\ End("main") /\ UNCHANGED <<queue, completion, recorded, history>>
        /\ coordinator'.call = "mark_ended" /\ coordinator'.revision = Found.rev
        /\ coordinator'.inFlight = coordinator.inFlight
    BY <1>1, <1>3, <1>6, ReturnKnows DEF ReturnTo, Return
  <2>2. coordinator'.call \in Calls
    BY <2>1, CallFacts DEF Calls
  <2>3. /\ app'.run = Installed(Found) /\ app'.request = "None" /\ app'.mode = "Boot"
        /\ app'.available = app.available /\ app'.damaged = app.damaged
    BY <1>1, <1>2, <1>6, ReturnKnows
  <2>4. /\ app'.run \in Runs /\ app'.run.id = Found.id /\ app'.run.rev = Found.rev
        /\ app'.run.progress = Found.body.progress /\ app'.run.terminal = "Ended"
    BY <1>3, <1>6, <2>3, DocumentFacts DEF Installed, Runs
  <2>5. /\ Types' /\ Files' /\ Flight' /\ Calling' /\ Stored' = Stored
        /\ ~WritingRun' /\ ~coordinator'.inFlight
    BY <1>1, <1>3, <1>6, <2>1, <2>2, <2>3, <2>4, ReturnKnows, ReturnFiles
  <2>6. Covers'
    BY <1>1, <1>6, <2>1, <2>4, <2>5, ReadCovers
  <2>7. ~Live'
    BY <2>4 DEF Live, run
  <2>8. NoMarks' /\ Vacant' /\ Saved'
    BY <2>1, <2>7 DEF NoMarks, Vacant, Saved
  <2>9. Purposes'
    BY <1>3, <1>6, <2>1, <2>3, <2>4 DEF Purposes, run
  <2>10. Offered'
    BY <2>3, <2>5, <2>7 DEF Offered
  <2>11. Wanted'
    BY <1>2, <2>1, <2>3, <2>5 DEF Wanted
  <2> QED
    BY <2>5, <2>6, <2>8, <2>9, <2>10, <2>11 DEF Kept, Memory, Screens
<1> QED
  BY <1>4, <1>5, <1>6 DEF BootLoaded

-----------------------------------------------------------------------------
(* The worker, and the process *)

LEMMA TakeKept ==
  ASSUME Ctx, Take
  PROVE  Kept'
<1> DEFINE j == [NoJob EXCEPT !.stage = "stage", !.kind = "write", !.doc = queue]
<1>1. /\ queue # Missing /\ job["worker"].stage = "idle" /\ Becoming("worker", j)
      /\ queue' = Missing
      /\ UNCHANGED <<disk, survivors, faults, app, coordinator, completion, recorded, history>>
  BY DEF Take, BeginWrite, Idle, At
<1>2. InFlight(queue) /\ queue \in Docs
      /\ \A d \in Stored : d.rev < run.rev /\ d.body.progress <= queue.body.progress
  BY <1>1 DEF Ctx, Memory, Flight, InFlight
<1>3. j \in Jobs /\ j.stage = "stage" /\ j.kind = "write" /\ j.doc = queue /\ j.ok /\ ~j.removed
  BY <1>2, FirstJobs
<1> HIDE DEF j
<1>4. /\ coordinator.inFlight /\ coordinator.call = "none" /\ completion = NoCompletion
      /\ job["main"].stage = "idle" /\ app.mode # "Off"
      /\ Threads = {"main", "worker"} /\ job \in [Threads -> Jobs]
  BY <1>1, ThreadFacts DEF Ctx, IInv, FlagCovers, OneCall, ControlType, At, NoCoordinator
<1>5. /\ job' \in [Threads -> Jobs] /\ job'["main"] = job["main"] /\ job'["worker"] = j
  BY <1>1, <1>3, <1>4 DEF Becoming
<1>6. survivors = {disk}
  BY <1>1, <1>4, QuietFacts
<1>7. Types'
  BY <1>1, <1>5 DEF Ctx, Types, run
<1>8. Stored' = Stored
  BY <1>1 DEF Stored
<1>9. \A name \in Names : Above(queue, disk[name])
  <2> SUFFICES ASSUME NEW name \in Names, Valid(disk[name])
               PROVE  /\ queue.id = disk[name].id /\ queue.rev > disk[name].rev
                      /\ queue.body.progress >= disk[name].body.progress
                      /\ queue.body.terminal = "Active" => disk[name].body.terminal = "Active"
    BY DEF Above
  <2> DEFINE d == disk[name]
  <2>1. d \in Docs /\ d \in Stored
    BY ViewFacts DEF Ctx, Types, Stored
  <2> HIDE DEF d
  <2>2. d.rev \in Nat /\ d.body.progress \in Nat /\ queue.rev \in Nat
        /\ queue.body.progress \in Nat
    BY <1>2, <2>1, DocumentFacts
  <2>3. queue.id = run.id /\ queue.rev = run.rev /\ run.id # NoId
    BY <1>2, DocumentFacts, DocumentsAssumption DEF InFlight
  <2>4. d.id = run.id
    BY <2>1, <2>3 DEF Ctx, Memory, Covers, Covered
  <2>5. d.body.terminal = "Active"
    BY <1>4, <2>1 DEF Ctx, Memory, NoMarks
  <2> QED
    BY <1>2, <2>1, <2>2, <2>3, <2>4, <2>5 DEF d
<1>10. Files'
  <2>1. Sound'
    BY <1>1 DEF Ctx, Files, Sound, HasKept
  <2>2. Synced'
    BY <1>1, <1>6 DEF Synced
  <2>3. Progressing("worker")'
    BY <1>1, <1>2, <1>3, <1>5, <1>9, NameFacts DEF Progressing, Writing
  <2>4. Progressing("main")'
    BY <1>4, <1>5, IdleProgress
  <2> QED
    BY <1>4, <2>1, <2>2, <2>3, <2>4 DEF Files
<1>11. NextRevision' = NextRevision /\ run' = run /\ WritingRun' = WritingRun
  <2>1. At("main", "idle")' = At("main", "idle")
    BY <1>5 DEF At
  <2> QED
    BY <1>1, <2>1 DEF NextRevision, run, WritingRun
<1>12. Memory'
  <2>1. Covers'
    BY <1>8, <1>11 DEF Ctx, Memory, Covers, Covered
  <2>2. NoMarks'
    BY <1>1, <1>8 DEF Ctx, Memory, NoMarks
  <2>3. InFlight(job["worker"].doc)'
    BY <1>1, <1>2, <1>3, <1>5 DEF InFlight, run
  <2>4. Flight'
    BY <1>1, <1>3, <1>4, <1>5, <2>3 DEF Flight
  <2>5. Calling'
    BY <1>4, <1>5 DEF Calling, At
  <2> QED
    BY <2>1, <2>2, <2>4, <2>5 DEF Memory
<1>13. Screens'
  <2>1. Wanted' /\ Purposes' /\ Saved' /\ Offered'
    BY <1>1 DEF Ctx, Screens, Wanted, Purposes, Saved, Offered, Live, run
  <2>2. Vacant'
    BY <1>1, <1>4 DEF Ctx, Screens, Offered, Vacant
  <2> QED
    BY <2>1, <2>2 DEF Screens
<1> QED
  BY <1>7, <1>10, <1>12, <1>13 DEF Kept

LEMMA CompleteKept ==
  ASSUME Ctx, Complete
  PROVE  Kept'
<1> DEFINE doc == job["worker"].doc
<1>1. /\ job["worker"].stage = "done"
      /\ completion' = [doc |-> doc, ok |-> job["worker"].ok]
      /\ job' = [job EXCEPT !["worker"] = NoJob]
      /\ UNCHANGED <<disk, survivors, faults, app, coordinator, queue, recorded, history>>
  BY DEF Complete, End, Becoming, At
<1>2. /\ coordinator.inFlight /\ coordinator.call = "none" /\ queue = Missing
      /\ job["main"].stage = "idle" /\ Threads = {"main", "worker"} /\ "worker" \in Threads
      /\ job \in [Threads -> Jobs]
  BY <1>1, ThreadFacts
<1>3. job["worker"].kind = "write" /\ InFlight(doc) /\ doc \in Docs
  BY <1>1 DEF Ctx, Memory, Flight, InFlight, At
<1>4. disk["primary"] = doc /\ job["worker"].ok
  <2>1. Progressing("worker")
    BY <1>2 DEF Ctx, Files
  <2>2. doc # Torn
    BY <1>3, DocumentFacts
  <2> QED
    BY <1>1, <1>3, <2>1, <2>2, JobFacts, DoingFacts DEF Progressing, Ctx
<1> HIDE DEF doc
<1>5. completion'.doc = doc /\ completion'.ok
  BY <1>1, <1>4
<1>6. /\ job' \in [Threads -> Jobs] /\ job'["main"].stage = "idle" /\ job'["worker"].stage = "idle"
  BY <1>1, <1>2, FirstJobs
<1>7. survivors = {disk}
  BY <1>1, <1>2 DEF Ctx, Files, Synced, SteadyJob
<1>8. Types'
  BY <1>1, <1>3, <1>5, <1>6 DEF Ctx, Types, run
<1>9. Files'
  <2>1. Sound'
    BY <1>1 DEF Ctx, Files, Sound, HasKept
  <2>2. Synced'
    BY <1>1, <1>7 DEF Synced
  <2>3. \A t \in Threads : Progressing(t)'
    BY <1>2, <1>6, IdleProgress
  <2> QED
    BY <2>1, <2>2, <2>3 DEF Files
<1>10. Stored' = Stored
  BY <1>1 DEF Stored
<1>11. NextRevision' = NextRevision /\ run' = run /\ ~WritingRun /\ ~WritingRun'
  BY <1>1, <1>2, CallFacts DEF NextRevision, run, WritingRun
<1>12. Memory'
  <2>1. Covers'
    BY <1>10, <1>11 DEF Ctx, Memory, Covers, Covered
  <2>2. NoMarks'
    BY <1>1, <1>10 DEF Ctx, Memory, NoMarks
  <2>3. InFlight(completion.doc)'
    BY <1>1, <1>3, <1>5 DEF InFlight, run
  <2>4. Flight'
    BY <1>1, <1>2, <1>4, <1>5, <1>6, <2>3 DEF Flight, At
  <2>5. Calling'
    BY <1>6 DEF Calling, At
  <2> QED
    BY <2>1, <2>2, <2>4, <2>5 DEF Memory
<1>13. Screens'
  <2>1. Wanted' /\ Purposes' /\ Saved' /\ Offered'
    BY <1>1 DEF Ctx, Screens, Wanted, Purposes, Saved, Offered, Live, run
  <2>2. Vacant'
    BY <1>1, <1>2 DEF Ctx, Screens, Offered, Vacant
  <2> QED
    BY <2>1, <2>2 DEF Screens
<1> QED
  BY <1>8, <1>9, <1>12, <1>13 DEF Kept

\* The process stops, and leaves one of the directories it might have left.
LEMMA OffKept ==
  ASSUME Ctx, Off, disk' \in survivors, survivors' = {disk'},
         job' = [t \in Threads |-> NoJob]
  PROVE  Kept'
<1>1. /\ app' = NoApp /\ coordinator' = NoCoordinator /\ queue' = Missing
      /\ completion' = NoCompletion /\ history' = [history EXCEPT !.ended = {}]
  BY DEF Off
<1>2. /\ job' \in [Threads -> Jobs] /\ \A t \in Threads : job'[t].stage = "idle"
  BY FirstJobs
<1>3. history'.kept = history.kept /\ DOMAIN history' = DOMAIN history
  BY <1>1 DEF Ctx, Types
<1>4. NoRun \in Runs
  BY CoordinatorAssumption DEF NoRun, Runs, Terminals
<1>5. /\ app'.mode = "Off" /\ app'.request = "None" /\ app'.run = NoRun
      /\ app'.available = FALSE /\ app'.damaged = FALSE
      /\ coordinator'.call = "none" /\ coordinator'.inFlight = FALSE
      /\ coordinator'.revision = 0
  BY <1>1 DEF NoApp, NoCoordinator
<1>6. Types'
  <2>1. app'.run \in Runs /\ {app'.available, app'.damaged} \subseteq BOOLEAN
    BY <1>4, <1>5
  <2>2. disk' \in Views /\ survivors' \subseteq Views /\ disk' \in survivors'
    BY DEF Ctx, Types
  <2> QED
    BY <1>1, <1>2, <1>3, <1>5, <2>1, <2>2 DEF Ctx, Types
<1>7. Files'
  <2>1. Sound'
    BY <1>3 DEF Ctx, Files, Sound, HasKept
  <2>2. Synced'
    BY DEF Synced
  <2>3. \A t \in Threads : Progressing(t)'
    BY <1>2, IdleProgress
  <2> QED
    BY <2>1, <2>2, <2>3 DEF Files
<1>8. Memory'
  <2>1. Covers' /\ NoMarks'
    BY <1>5 DEF Covers, NoMarks, NoRun, run
  <2>2. Flight' /\ Calling'
    BY <1>1, <1>2, CoordinatorAssumption DEF Flight, Calling, At
  <2> QED
    BY <2>1, <2>2 DEF Memory
<1>9. ~Live'
  BY <1>5 DEF Live, run, NoRun
<1>10. Screens'
  <2>1. Wanted' /\ Saved' /\ Vacant' /\ Offered'
    BY <1>5, <1>9 DEF Wanted, Saved, Vacant, Offered, run
  <2>2. Purposes'
    BY <1>5, CallFacts DEF Purposes
  <2> QED
    BY <2>1, <2>2 DEF Screens
<1> QED
  BY <1>6, <1>7, <1>8, <1>10 DEF Kept

LEMMA StopKept ==
  ASSUME Ctx, Exit \/ Crash
  PROVE  Kept'
<1>1. CASE Exit
  <2>1. /\ Off /\ UNCHANGED <<disk, survivors, job>> /\ app.mode = "Exiting"
        /\ job["worker"].stage = "idle"
    BY <1>1 DEF Exit, At
  <2>2. job["main"].stage = "idle" /\ Threads = {"main", "worker"} /\ job \in [Threads -> Jobs]
    BY <2>1, ThreadFacts DEF Ctx, IInv, OneCall, At
  <2>3. survivors = {disk}
    BY <2>1, <2>2, QuietFacts
  <2>4. \A t \in Threads : job[t] = NoJob
    BY <2>1, <2>2, JobFacts
  <2>5. job' = [t \in Threads |-> NoJob]
    BY <2>1, <2>2, <2>4
  <2> QED
    BY <2>1, <2>3, <2>5, OffKept
<1>2. CASE Crash
  BY <1>2, OffKept DEF Crash, PowerCut
<1> QED
  BY <1>1, <1>2

LEMMA BootKept ==
  ASSUME Ctx, Boot
  PROVE  Kept'
<1>1. /\ app.mode = "Off" /\ app' = [NoApp EXCEPT !.mode = "Boot", !.chronicle = recorded]
      /\ coordinator' = [NoCoordinator EXCEPT !.call = "boot"]
      /\ UNCHANGED <<disk, survivors, job, faults, queue, completion, recorded, history>>
  BY DEF Boot
<1>2. coordinator = NoCoordinator /\ coordinator.call = "none" /\ ~coordinator.inFlight
  BY <1>1 DEF Ctx, IInv, OneCall, NoCoordinator
<1>3. /\ job["main"].stage = "idle" /\ job["worker"].stage = "idle" /\ queue = Missing
      /\ completion = NoCompletion
  BY <1>2 DEF Ctx, IInv, OneCall, FlagCovers, At
<1>4. /\ app'.mode = "Boot" /\ app'.request = "None" /\ app'.run = NoRun
      /\ app'.available = FALSE /\ app'.damaged = FALSE
      /\ coordinator'.call = "boot" /\ coordinator'.inFlight = FALSE
      /\ coordinator'.revision = 0
  BY <1>1 DEF NoApp, NoCoordinator
<1>5. NoRun \in Runs
  BY CoordinatorAssumption DEF NoRun, Runs, Terminals
<1>6. Types'
  <2>1. app'.run \in Runs /\ {app'.available, app'.damaged} \subseteq BOOLEAN
    BY <1>4, <1>5
  <2> QED
    BY <1>1, <1>4, <2>1, CallFacts DEF Ctx, Types
<1>7. Files'
  BY <1>1, FilesSame
<1>8. Memory'
  <2>1. Covers' /\ NoMarks'
    BY <1>4 DEF Covers, NoMarks, NoRun, run
  <2>2. Flight' /\ Calling'
    BY <1>1, <1>3 DEF Flight, Calling, At
  <2> QED
    BY <2>1, <2>2 DEF Memory
<1>9. ~Live'
  BY <1>4 DEF Live, run, NoRun
<1>10. Screens'
  <2>1. Wanted' /\ Saved' /\ Vacant' /\ Offered'
    BY <1>4, <1>9 DEF Wanted, Saved, Vacant, Offered, run
  <2>2. Purposes'
    BY <1>4, CallFacts DEF Purposes, run
  <2> QED
    BY <2>1, <2>2 DEF Screens
<1> QED
  BY <1>6, <1>7, <1>8, <1>10 DEF Kept

-----------------------------------------------------------------------------
(* The invariant of the specification *)

LEMMA InitWhole ==
  ASSUME Init
  PROVE  Whole
<1>1. /\ app = NoApp /\ coordinator = NoCoordinator /\ queue = Missing
      /\ completion = NoCompletion
      /\ history = [started |-> {}, ended |-> {}, marked |-> {}, kept |-> NothingKept]
      /\ disk = [name \in Names |-> Missing] /\ survivors = {disk}
      /\ job = [t \in Threads |-> NoJob] /\ faults = 0
  BY DEF Init, FileInit
<1>2. job \in [Threads -> Jobs] /\ \A t \in Threads : job[t].stage = "idle" /\ job[t].kind = "none"
  BY <1>1, FirstJobs
<1>3. disk \in Views /\ \A name \in Names : disk[name] = Missing
  BY <1>1 DEF Views, Contents
<1>4. /\ app.mode = "Off" /\ app.request = "None" /\ app.run = NoRun /\ run = NoRun
      /\ ~app.available /\ ~app.damaged /\ {app.available, app.damaged} \subseteq BOOLEAN
      /\ coordinator.call = "none" /\ ~coordinator.inFlight /\ coordinator.revision = 0
  BY <1>1 DEF NoApp, NoCoordinator, run
<1>5. NoRun \in Runs /\ NoRun.id = NoId
  BY CoordinatorAssumption DEF NoRun, Runs, Terminals
<1>6. /\ history.kept = NothingKept /\ NothingKept \in Keeps /\ NothingKept.id = NoId
      /\ {"started", "ended", "marked", "kept"} \subseteq DOMAIN history
  BY <1>1 DEF NothingKept, Keeps
<1>7. Types
  BY <1>1, <1>2, <1>3, <1>4, <1>5, <1>6 DEF Types
<1>8. Stored = {}
  BY <1>1, <1>3, DocumentFacts DEF Stored
<1>9. Files
  <2>1. Ordered(disk)
    BY <1>3, NameFacts, DocumentFacts DEF Ordered, Above
  <2>2. Sound
    BY <1>1, <1>6, <2>1 DEF Sound
  <2>3. Synced
    BY <1>1 DEF Synced
  <2>4. \A t \in Threads : Progressing(t)
    BY <1>2 DEF Progressing, Writing
  <2> QED
    BY <2>2, <2>3, <2>4 DEF Files
<1>10. Memory
  <2>1. Covers /\ NoMarks
    BY <1>8 DEF Covers, NoMarks
  <2>2. Flight /\ Calling
    BY <1>1, <1>2, CoordinatorAssumption DEF Flight, Calling, At
  <2> QED
    BY <2>1, <2>2 DEF Memory
<1>11. Screens
  <2>1. ~Live
    BY <1>4, <1>5 DEF Live
  <2>2. Purposes
    BY <1>4, CallFacts DEF Purposes
  <2>3. Wanted /\ Saved /\ Vacant /\ Offered
    BY <1>4, <2>1 DEF Wanted, Saved, Vacant, Offered
  <2> QED
    BY <2>2, <2>3 DEF Screens
<1> QED
  BY <1>1, <1>7, <1>9, <1>10, <1>11 DEF Whole

\* Failures are counted.
LEMMA FaultsCounted ==
  ASSUME [Next]_vars
  PROVE  faults' = faults \/ faults' = faults + 1
<1>1. CASE UNCHANGED vars
  BY <1>1 DEF vars
<1>2. CASE Inputs
  BY <1>2 DEF Inputs, ChooseResume, ChooseNewRun, BeginNewRun, Tick, EndRun, Pause, SaveAndLeave,
     ConfirmAbandon, Repair, AnswerError, Leave, CloseWindow, Suspend, Shows, Waits, AppBecomes
<1>3. CASE Autosave \/ Poll \/ Checkpoint \/ Process \/ Take \/ Complete \/ Boot \/ Exit \/ Crash
  BY <1>3 DEF Autosave, Poll, Checkpoint, Process, Take, Complete, Boot, Exit, Crash,
     ProfileWritten, ProfileUnwritten, NoFault, BeginWrite, End, PowerCut
<1>4. CASE BeginCall
  BY <1>4 DEF BeginCall, BeginRecover, BeginWrite, BeginClear
<1>5. CASE Returns
  <2>1. CASE Archived
    BY <2>1 DEF Archived, ProfileWritten, ProfileUnwritten, NoFault
  <2>2. CASE LeftRun
    BY <2>2 DEF LeftRun, Return, End
  <2>3. CASE Resumed \/ AbandonedLoaded \/ AbandonedMarked \/ BootLoaded
    BY <2>3 DEF Resumed, AbandonedLoaded, AbandonedMarked, BootLoaded, ReturnTo, Return, End
  <2>4. CASE AbandonedRemoved \/ RunRecovered \/ RunQuarantined \/ Finalized \/ Discarded
    BY <2>4 DEF AbandonedRemoved, RunRecovered, RunQuarantined, Finalized, Discarded, ReturnTo,
       Return, End
  <2> QED
    BY <1>5, <2>1, <2>2, <2>3, <2>4 DEF Returns
<1>6. CASE \E t \in Threads : FileStep(t)
  <2>1. PICK t \in Threads : JobStep(t)
    BY <1>6 DEF FileStep
  <2> QED
    BY <2>1 DEF JobStep, Choose, Stage, Retire, Promote, Displace, Quarantine, Unlink, Cleared,
       SyncParent, Fault, NoFault
<1> QED
  BY <1>1, <1>2, <1>3, <1>4, <1>5, <1>6 DEF Next

\* A step without a failure.
LEMMA StepKept ==
  ASSUME Ctx, [Next]_vars, faults' = 0
  PROVE  Kept'
<1>1. CASE UNCHANGED vars
  <2>1. UNCHANGED <<disk, survivors, job, app, coordinator, queue, completion, history>>
    BY <1>1 DEF vars
  <2>2. Files' /\ Stored' = Stored
    BY <2>1, FilesSame
  <2>3. Types'
    BY <2>1 DEF Ctx, Types, run
  <2>4. NextRevision' = NextRevision /\ run' = run /\ WritingRun' = WritingRun
        /\ Snapshot' = Snapshot
    <3>1. At("main", "idle")' = At("main", "idle")
      BY <2>1 DEF At
    <3>2. NextRevision' = NextRevision /\ run' = run
      BY <2>1 DEF NextRevision, run
    <3> QED
      BY <2>1, <3>1, <3>2 DEF WritingRun, Snapshot
  <2>5. Covers' /\ NoMarks'
    BY <2>1, <2>2, <2>4 DEF Ctx, Memory, Covers, Covered, NoMarks
  <2>6. Flight'
    BY <2>1, <2>2 DEF Ctx, Memory, Flight, InFlight, At, run
  <2>7. Calling'
    BY <2>1, <2>4 DEF Ctx, Memory, Calling, At
  <2>8. Screens'
    <3>1. Clean' = Clean
      BY <2>1 DEF Clean
    <3> QED
      BY <2>1, <3>1 DEF Ctx, Screens, Purposes, Wanted, Saved, Vacant, Offered, Live, run
  <2> QED
    BY <2>2, <2>3, <2>5, <2>6, <2>7, <2>8 DEF Kept, Memory
<1>2. CASE Inputs
  <2>1. CASE \E id \in Ids : BeginNewRun(id)
    BY <2>1, BeginNewRunKept
  <2>2. CASE ChooseResume \/ ChooseNewRun \/ Pause \/ Leave \/ CloseWindow
    BY <2>2, ScreenModesKept
  <2>3. CASE SaveAndLeave \/ ConfirmAbandon \/ Repair
    BY <2>3, RequestsKept
  <2>4. CASE AnswerError
    BY <2>4, AnswerErrorKept
  <2>5. CASE Tick \/ EndRun
    BY <2>5, PlayKept
  <2>6. CASE Suspend
    BY <2>6, SavesKept
  <2> QED
    BY <1>2, <2>1, <2>2, <2>3, <2>4, <2>5, <2>6 DEF Inputs
<1>3. CASE Autosave \/ Checkpoint
  BY <1>3, SavesKept
<1>4. CASE Poll
  BY <1>4, PollKept
<1>5. CASE Process
  BY <1>5, ProcessKept
<1>6. CASE BeginCall
  BY <1>6, BeginCallKept
<1>7. CASE Returns
  BY <1>7, ResumedKept, LeftRunKept, AbandonedLoadedKept, AbandonedMarkedKept, ClearsKept,
     RunRecoveredKept, ArchivedKept, BootLoadedKept DEF Returns
<1>8. CASE Take \/ Complete
  BY <1>8, TakeKept, CompleteKept
<1>9. CASE \E t \in Threads : FileStep(t)
  BY <1>9, FileStepKept
<1>10. CASE Boot \/ Exit \/ Crash
  BY <1>10, BootKept, StopKept
<1> QED
  BY <1>1, <1>2, <1>3, <1>4, <1>5, <1>6, <1>7, <1>8, <1>9, <1>10 DEF Next

LEMMA StepWhole ==
  ASSUME IInv, Whole, [Next]_vars
  PROVE  Whole'
<1>1. faults \in Nat /\ (faults' = faults \/ faults' = faults + 1)
  BY FaultsCounted DEF Whole
<1>2. ASSUME faults' = 0 PROVE Kept'
  <2>1. faults = 0
    BY <1>1, <1>2
  <2>2. Ctx
    BY <2>1 DEF Whole, Ctx
  <2> QED
    BY <1>2, <2>2, StepKept
<1> QED
  BY <1>1, <1>2 DEF Whole, Kept

\* Every start finds the save, for it is in every directory a crash may leave, and
\* what recovery returns is as new as anything there.
LEMMA WholeKeeps ==
  ASSUME Whole
  PROVE  CheckpointKept
<1> SUFFICES ASSUME faults = 0, history.kept.id # NoId, NEW v \in survivors
             PROVE  /\ Valid(Recovered(v)) /\ Recovered(v).id = history.kept.id
                    /\ Recovered(v).body.progress >= history.kept.progress
  BY DEF CheckpointKept, Outcomes
<1>1. v \in Views /\ Ordered(v) /\ HasKept(v) /\ history.kept.progress \in Nat
  BY DEF Whole, Files, Sound, Types, Keeps
<1>2. PICK name \in {"primary", "bak"} :
        /\ Valid(v[name]) /\ v[name].id = history.kept.id
        /\ v[name].body.progress >= history.kept.progress
  BY <1>1 DEF HasKept
<1>3. Recovered(v) \in Docs /\ Above(Recovered(v), v[name])
  BY <1>1, <1>2, RecoveredAbove, NameFacts
<1>4. v[name] \in Docs
  BY <1>1, <1>2, ViewFacts, NameFacts
<1>5. Valid(Recovered(v)) /\ Recovered(v).body.progress \in Nat /\ v[name].body.progress \in Nat
  BY <1>3, <1>4, DocumentFacts
<1> QED
  BY <1>1, <1>2, <1>3, <1>5 DEF Above

LEMMA WholeAgrees ==
  ASSUME Whole
  PROVE  NoSplitBrain
BY RecoveredOrdered DEF Whole, Files, Sound, Types, NoSplitBrain

LEMMA SpecWhole == Spec => [](IInv /\ Whole)
<1>1. Init => IInv /\ Whole
  BY InitHolds, InitWhole
<1>2. IInv /\ Whole /\ [Next]_vars => (IInv /\ Whole)'
  BY StepHolds, StepWhole
<1> QED
  BY <1>1, <1>2, PTL DEF Spec

\* A save that the game was told is durable stays: as long as no call has failed,
\* every start finds the run of the last confirmed save, as far on or further, until
\* its file is removed or set aside; whatever is autosaved, abandoned, recovered, cut
\* short by a crash or left by an exit in between (persistence.odin, storage.odin).
THEOREM CheckpointKeptHolds == Spec => []CheckpointKept
<1>1. Whole => CheckpointKept
  BY WholeKeeps
<1> QED
  BY <1>1, SpecWhole, PTL

\* The files of two runs are never mixed, nor two revisions with one number: as long as
\* no call has failed, no start is unable to choose among them.
THEOREM NoSplitBrainHolds == Spec => []NoSplitBrain
<1>1. Whole => NoSplitBrain
  BY WholeAgrees
<1> QED
  BY <1>1, SpecWhole, PTL

-----------------------------------------------------------------------------
(***************************************************************************)
(* A run that was marked as ended is recorded, or the marker is still      *)
(* there, as long as at most one call fails.                               *)
(*                                                                         *)
(* Nothing recorded is ever lost (Books), and a marked run is recorded at  *)
(* once unless that very write of the profile is the one that fails.  From *)
(* then on nothing else fails, and little can happen: the marker is alone  *)
(* in the files (Marker), no call is made but the next finalization and    *)
(* the recovery of a start (Marking), and the screens lead to the          *)
(* finalization, or to a new run whose first checkpoint records what the   *)
(* Chronicle in memory holds (Owing).                                      *)
(***************************************************************************)

\* The runs of a Chronicle.
Listed(chronicle) == {chronicle[i] : i \in DOMAIN chronicle}

\* What is recorded is known in memory.
Books ==
  /\ recorded \in Seq(Listed(recorded))
  /\ "chronicle" \in DOMAIN app /\ app.chronicle \in Seq(Listed(app.chronicle))
  /\ app.mode # "Off" => Listed(recorded) \subseteq Listed(app.chronicle)
  /\ {"started", "ended", "marked", "kept"} \subseteq DOMAIN history

\* The document that says that a run has ended.
Marks(doc, id) == Valid(doc) /\ doc.id = id /\ doc.body.terminal = "Ended"

\* The marker is settled, and what is newer is a marker too.
Marker(v, id) ==
  /\ Marks(v["primary"], id) \/ Marks(v["bak"], id)
  /\ \A name \in {"primary", "tmp"} : Valid(v[name]) => Marks(v[name], id)

\* The threads: a recovery or the marker written once more.
Marking(id) ==
  /\ ~coordinator.inFlight
  /\ coordinator.call \in {"none", "boot", "mark_ended"}
  /\ job["main"].kind \in {"none", KindOf(coordinator.call)}
  /\ job["main"].kind = "recover" /\ job["main"].stage \in Writing =>
       Marks(job["main"].doc, id)
  /\ job["main"].kind = "write" => job["main"].doc = Snapshot

\* The run in memory is the one that ended, none, or a new one that is not saved yet.
InMemory(id) ==
  /\ run.terminal # "Active" =>
       run.terminal = "Ended" /\ run.id = id /\ \A d \in Stored : Covered(d)
  /\ run.terminal = "Active" /\ app.request # "Save_Checkpoint" => run.id = NoId
  /\ app.request = "Finalize" \/ app.mode = "Save_Error" \/ coordinator.call = "mark_ended" =>
       run.terminal = "Ended"
  /\ app.mode \notin {"Off", "Boot"} => id \in Listed(app.chronicle)

\* The screens.
Owing ==
  /\ app.mode \in {"Off", "Boot", "Title", "Select", "Playing", "Save_Wait", "Save_Error",
                   "Ended", "Exiting"}
  /\ app.request \in {"None", "Save_Checkpoint", "Finalize"}
  /\ app.mode = "Playing" => app.request = "Save_Checkpoint"
  /\ app.request = "Save_Checkpoint" => app.mode = "Playing" /\ coordinator.call = "none"
  /\ ~app.damaged /\ (app.mode # "Playing" => ~app.available)
  /\ app.mode = "Save_Error" => app.failed = "Finalize" /\ app.return = "Ended"
  /\ coordinator.call = "boot" => app.mode = "Boot"

Owed(id) ==
  /\ Types /\ Files
  /\ \A v \in survivors : Marker(v, id)
  /\ Marking(id) /\ InMemory(id) /\ Owing

Debts ==
  faults <= 1 => \A id \in history.marked \ Listed(recorded) : faults = 1 /\ Owed(id)

-----------------------------------------------------------------------------
(* The Chronicle only grows *)

LEMMA WithRecordLists ==
  ASSUME NEW chronicle, chronicle \in Seq(Listed(chronicle)), NEW id
  PROVE  /\ WithRecord(chronicle, id) \in Seq(Listed(WithRecord(chronicle, id)))
         /\ Listed(chronicle) \subseteq Listed(WithRecord(chronicle, id))
         /\ id \in Listed(WithRecord(chronicle, id))
<1>1. CASE id \in Listed(chronicle)
  BY <1>1 DEF WithRecord, Listed
<1>2. CASE id \notin Listed(chronicle)
  <2> DEFINE S == Listed(chronicle) \cup {id}
             longer == Append(chronicle, id)
  <2>1. WithRecord(chronicle, id) = longer
    BY <1>2 DEF WithRecord, Listed
  <2>2. chronicle \in Seq(S) /\ id \in S
    OBVIOUS
  <2> HIDE DEF S
  <2>3. /\ longer \in Seq(S) /\ Len(longer) = Len(chronicle) + 1 /\ Len(chronicle) \in Nat
        /\ \A i \in 1..Len(chronicle) : longer[i] = chronicle[i]
        /\ longer[Len(chronicle) + 1] = id
        /\ DOMAIN chronicle = 1..Len(chronicle) /\ DOMAIN longer = 1..Len(longer)
    BY <2>2
  <2> HIDE DEF longer
  <2>4. \A i \in DOMAIN chronicle : i \in DOMAIN longer /\ longer[i] = chronicle[i]
    BY <2>3
  <2>5. Len(chronicle) + 1 \in DOMAIN longer
    BY <2>3
  <2>6. Listed(chronicle) \subseteq Listed(longer) /\ id \in Listed(longer)
    BY <2>3, <2>4, <2>5 DEF Listed
  <2>7. S \subseteq Listed(longer)
    BY <2>6 DEF S
  <2>8. longer \in Seq(Listed(longer))
    BY <2>3, <2>7
  <2> QED
    BY <2>1, <2>6, <2>8
<1> QED
  BY <1>1, <1>2

LEMMA InitBooks ==
  ASSUME Init
  PROVE  Books
<1>1. recorded = <<>> /\ app.chronicle = <<>> /\ app.mode = "Off"
  BY DEF Init, NoApp
<1>2. \A S : <<>> \in Seq(S)
  OBVIOUS
<1> QED
  BY <1>1, <1>2 DEF Books, Init, NoApp

\* A step that does not touch them.
LEMMA SameBooks ==
  ASSUME Books, recorded' = recorded, app'.chronicle = app.chronicle,
         "chronicle" \in DOMAIN app', app.mode # "Off", DOMAIN history' = DOMAIN history
  PROVE  Books' /\ Listed(recorded) \subseteq Listed(recorded')
BY DEF Books

Grows ==
  /\ Books' /\ Listed(recorded) \subseteq Listed(recorded')
  /\ history'.marked = history.marked \/ Archived

LEMMA InputsGrow ==
  ASSUME IInv, Books, Inputs
  PROVE  Grows
<1>1. /\ app.mode # "Off" /\ recorded' = recorded
      /\ DOMAIN history' = DOMAIN history /\ history'.marked = history.marked
  <2>1. CASE EndRun \/ Tick \/ AnswerError
             \/ Suspend \/ (\E id \in Ids : BeginNewRun(id))
    BY <2>1 DEF BeginNewRun, EndRun, Tick, AnswerError, Suspend, On, Frame, AppBecomes, Books
  <2>2. CASE ChooseResume \/ ChooseNewRun \/ Pause \/ SaveAndLeave \/ ConfirmAbandon \/ Repair
             \/ Leave \/ CloseWindow
    BY <2>2 DEF ChooseResume, ChooseNewRun, Pause, SaveAndLeave, ConfirmAbandon, Repair, Leave,
       CloseWindow, On, Frame, Shows, Waits, AppBecomes
  <2> QED
    BY <2>1, <2>2 DEF Inputs
<1>2. app'.chronicle = app.chronicle /\ "chronicle" \in DOMAIN app'
  <2>1. CASE ChooseResume \/ ChooseNewRun \/ Pause \/ SaveAndLeave \/ ConfirmAbandon \/ Repair
             \/ Leave \/ CloseWindow
    BY <2>1 DEF ChooseResume, ChooseNewRun, Pause, SaveAndLeave, ConfirmAbandon, Repair, Leave,
       CloseWindow, Shows, Waits, AppBecomes, IInv, ControlType
  <2>2. CASE \E id \in Ids : BeginNewRun(id)
    BY <2>2 DEF BeginNewRun, AppBecomes, IInv, ControlType
  <2>3. CASE Tick \/ EndRun
    BY <2>3 DEF Tick, EndRun, AppBecomes, IInv, ControlType
  <2>4. CASE AnswerError
    BY <2>4 DEF AnswerError, AppBecomes, Fulfilled, IInv, ControlType
  <2>5. CASE Suspend
    BY <2>5 DEF Suspend, Enqueue, IInv, ControlType
  <2> QED
    BY <2>1, <2>2, <2>3, <2>4, <2>5 DEF Inputs
<1> QED
  BY <1>1, <1>2, SameBooks DEF Grows

LEMMA FramesGrow ==
  ASSUME IInv, Books, Autosave \/ Poll \/ Checkpoint \/ Process
  PROVE  Grows
<1>1. /\ app.mode # "Off" /\ DOMAIN history' = DOMAIN history /\ history'.marked = history.marked
  BY DEF Autosave, Poll, Checkpoint, Process, Frame, Keeping, Books
<1>2. app'.chronicle = app.chronicle /\ "chronicle" \in DOMAIN app'
  <2>1. CASE Autosave
    BY <2>1 DEF Autosave, Enqueue, IInv, ControlType
  <2>2. CASE Poll
    BY <2>2 DEF Poll, IInv, ControlType
  <2>3. CASE Checkpoint
    BY <2>3 DEF Checkpoint, Enqueue, Failing, IInv, ControlType
  <2>4. CASE Process
    BY <2>4 DEF Process, IInv, ControlType
  <2> QED
    BY <2>1, <2>2, <2>3, <2>4
<1>3. recorded' = recorded \/ recorded' = app.chronicle
  BY DEF Autosave, Poll, Checkpoint, Process, ProfileWritten, ProfileUnwritten
<1> QED
  BY <1>1, <1>2, <1>3 DEF Grows, Books

\* The finalization records the run that it marks.
LEMMA ArchivedGrows ==
  ASSUME IInv, Books, Archived
  PROVE  /\ Grows
         /\ history'.marked \subseteq history.marked \cup {run.id}
         /\ \/ history'.marked = history.marked
            \/ run.id \in Listed(recorded')
            \/ ProfileUnwritten(WithRecord(app.chronicle, run.id))
<1> DEFINE longer == WithRecord(app.chronicle, run.id)
<1>1. /\ longer \in Seq(Listed(longer)) /\ Listed(app.chronicle) \subseteq Listed(longer)
      /\ run.id \in Listed(longer)
  BY WithRecordLists DEF Books
<1>2. /\ coordinator.call # "none" /\ app.mode # "Off"
      /\ Listed(recorded) \subseteq Listed(app.chronicle)
  <2>1. coordinator.call # "none"
    BY DEF Archived, Returned
  <2> QED
    BY <2>1 DEF IInv, OneCall, NoCoordinator, Books
<1> HIDE DEF longer
<1>3. \/ /\ history' = [Keeping(Found) EXCEPT !.marked = @ \cup {run.id}]
         /\ app'.chronicle = longer /\ "chronicle" \in DOMAIN app'
         /\ recorded' = longer \/ (ProfileUnwritten(longer) /\ recorded' \in {recorded, longer})
      \/ history' = history /\ recorded' = recorded /\ app' = Unfinalized
  BY DEF Archived, ProfileWritten, ProfileUnwritten, Unfinalized, Failing, IInv, ControlType,
     longer
<1>4. /\ Unfinalized.chronicle = app.chronicle /\ "chronicle" \in DOMAIN Unfinalized
  BY DEF Unfinalized, Failing, IInv, ControlType
<1>5. CASE history' = history /\ recorded' = recorded /\ app' = Unfinalized
  BY <1>2, <1>4, <1>5 DEF Grows, Books
<1>6. CASE /\ history' = [Keeping(Found) EXCEPT !.marked = @ \cup {run.id}]
           /\ app'.chronicle = longer /\ "chronicle" \in DOMAIN app'
           /\ recorded' = longer \/ (ProfileUnwritten(longer) /\ recorded' \in {recorded, longer})
  <2>1. /\ DOMAIN history' = DOMAIN history /\ history'.marked = history.marked \cup {run.id}
    BY <1>6 DEF Keeping, Books
  <2>2. recorded' \in Seq(Listed(recorded')) /\ Listed(recorded) \subseteq Listed(recorded')
        /\ Listed(recorded') \subseteq Listed(longer)
    BY <1>1, <1>2, <1>6 DEF Books
  <2>3. Books'
    BY <1>1, <1>6, <2>1, <2>2 DEF Books
  <2> QED
    BY <1>1, <1>6, <2>1, <2>2, <2>3 DEF Grows, longer
<1> QED
  BY <1>3, <1>5, <1>6

LEMMA ReturnsGrow ==
  ASSUME IInv, Books, Returns
  PROVE  Grows
<1>1. coordinator.call # "none"
  BY DEF Returns, Returned, Resumed, LeftRun, AbandonedLoaded, AbandonedMarked,
     AbandonedRemoved, RunRecovered, RunQuarantined, Archived, Finalized, BootLoaded, Discarded
<1>2. app.mode # "Off"
  BY <1>1 DEF IInv, OneCall, NoCoordinator
<1>3. CASE Resumed \/ AbandonedLoaded \/ AbandonedMarked \/ BootLoaded
  <2>1. UNCHANGED <<recorded, history>>
    BY <1>3 DEF Resumed, AbandonedLoaded, AbandonedMarked, BootLoaded, ReturnTo
  <2>2. app'.chronicle = app.chronicle /\ "chronicle" \in DOMAIN app'
    BY <1>3 DEF Resumed, AbandonedLoaded, AbandonedMarked, BootLoaded, Unrestored, Failing,
       Fulfilled, IInv, ControlType
  <2> QED
    BY <1>2, <2>1, <2>2, SameBooks DEF Grows
<1>4. CASE AbandonedRemoved \/ RunRecovered \/ RunQuarantined \/ Finalized \/ Discarded
  <2>1. UNCHANGED <<recorded, history>>
    BY <1>4 DEF AbandonedRemoved, RunRecovered, RunQuarantined, Finalized, Discarded, ReturnTo
  <2>2. app'.chronicle = app.chronicle /\ "chronicle" \in DOMAIN app'
    BY <1>4 DEF AbandonedRemoved, RunRecovered, RunQuarantined, Finalized, Discarded,
       Unfinalized, Failing, Fulfilled, IInv, ControlType
  <2> QED
    BY <1>2, <2>1, <2>2, SameBooks DEF Grows
<1>5. CASE LeftRun
  <2>1. recorded' = recorded /\ DOMAIN history' = DOMAIN history
        /\ history'.marked = history.marked
    BY <1>5 DEF LeftRun, Keeping, Books
  <2>2. app'.chronicle = app.chronicle /\ "chronicle" \in DOMAIN app'
    BY <1>5 DEF LeftRun, Failing, Fulfilled, IInv, ControlType
  <2> QED
    BY <1>2, <2>1, <2>2, SameBooks DEF Grows
<1>6. CASE Archived
  BY <1>6, ArchivedGrows
<1> QED
  BY <1>3, <1>4, <1>5, <1>6 DEF Returns

LEMMA StepGrows ==
  ASSUME IInv, Books, [Next]_vars
  PROVE  Grows
<1>1. CASE \/ UNCHANGED vars \/ Take \/ Complete \/ (\E thread \in Threads : FileStep(thread))
  <2>1. UNCHANGED <<app, recorded, history>>
    BY <1>1 DEF vars, Take, Complete, FileStep
  <2> QED
    BY <2>1 DEF Grows, Books
<1>2. CASE BeginCall
  <2>1. /\ UNCHANGED <<app, recorded>>
        /\ history' = history \/ history' = [history EXCEPT !.kept = NothingKept]
    BY <1>2 DEF BeginCall
  <2> QED
    BY <2>1 DEF Grows, Books
<1>3. CASE Boot
  <2>1. /\ app'.chronicle = recorded /\ "chronicle" \in DOMAIN app'
        /\ UNCHANGED <<recorded, history>>
    BY <1>3 DEF Boot, NoApp
  <2> QED
    BY <2>1 DEF Grows, Books
<1>4. CASE Exit \/ Crash
  <2>1. /\ app'.chronicle = <<>> /\ "chronicle" \in DOMAIN app' /\ app'.mode = "Off"
        /\ recorded' = recorded /\ history' = [history EXCEPT !.ended = {}]
    BY <1>4 DEF Exit, Crash, Off, NoApp
  <2>2. \A S : <<>> \in Seq(S)
    OBVIOUS
  <2>3. DOMAIN history' = DOMAIN history /\ history'.marked = history.marked
    BY <2>1 DEF Books
  <2> QED
    BY <2>1, <2>2, <2>3 DEF Grows, Books
<1>5. CASE Inputs \/ Autosave \/ Poll \/ Checkpoint \/ Process \/ Returns
  BY <1>5, InputsGrow, FramesGrow, ReturnsGrow
<1> QED
  BY <1>1, <1>2, <1>3, <1>4, <1>5 DEF Next

-----------------------------------------------------------------------------
(* The marker in the files *)

\* A start that finds the marker finds that the run has ended.
LEMMA MarkerFound ==
  ASSUME NEW id, NEW v \in Views, Ordered(v), Marker(v, id)
  PROVE  Marks(Recovered(v), id)
<1>1. Recovered(v) = IF Valid(v["tmp"]) THEN v["tmp"]
                     ELSE IF Valid(v["primary"]) THEN v["primary"]
                     ELSE IF Valid(v["bak"]) THEN v["bak"]
                     ELSE IF v["tmp"] = Torn THEN Torn ELSE Missing
  BY RecoveredOrdered
<1> QED
  BY <1>1 DEF Marker, Marks

LEMMA BecomesMarked ==
  ASSUME NEW id, \A v \in survivors : Marker(v, id), NEW steps, NEW view, Becomes(view, steps),
         Marker(view, id), \A v \in steps : Marker(v, id)
  PROVE  \A v \in survivors' : Marker(v, id)
BY DEF Becomes

\* A step of a recovery, or of the writing of a marker, keeps it.
LEMMA StepMarked ==
  ASSUME NEW id, NEW t \in Threads, Stepping(t), JobStep(t),
         job[t].kind \in {"write", "recover"},
         \A v \in survivors : Marker(v, id),
         job[t].stage \in Writing => Marks(job[t].doc, id)
  PROVE  /\ \A v \in survivors' : Marker(v, id)
         /\ job'[t].stage \in Writing => Marks(job'[t].doc, id)
<1> DEFINE doc == job[t].doc
           p == disk["primary"]
           b == disk["bak"]
<1>1. /\ Types /\ Files /\ Sound /\ Ordered(disk) /\ disk \in Views /\ Progressing(t)
      /\ faults \in Nat /\ faults' = faults /\ disk \in survivors
  BY DiskFit DEF Stepping, Files, Fit, Types
<1>2. disk["primary"] # Torn /\ Marker(disk, id)
  BY <1>1 DEF Ordered
<1>3. job[t] \in Jobs /\ \A name \in Names : disk[name] \in Contents
  BY <1>1, DoingFacts, ViewFacts
<1>4. ~Valid(Missing) /\ ~Valid(Torn)
  BY DocumentFacts
<1>5. CASE Choose(t)
  <2>1. /\ UNCHANGED <<disk, survivors>> /\ job'[t].doc = Recovered(disk)
    BY <1>1, <1>2, <1>5, ChooseMoves
  <2> QED
    BY <1>1, <1>2, <2>1, MarkerFound
<1>6. CASE Stage(t)
  <2> DEFINE steps == {Replace("tmp", Missing), Replace("tmp", Torn)}
             view == Replace("tmp", doc)
  <2>1. job[t].stage = "stage" /\ Becomes(view, steps) /\ job'[t].doc = doc
    BY <1>1, <1>6, StageMoves DEF Moves
  <2>2. Marks(doc, id) /\ Valid(doc)
    BY <2>1 DEF Writing, Marks
  <2>3. ASSUME NEW content \in {doc, Missing, Torn} PROVE Marker(Replace("tmp", content), id)
    <3> DEFINE v == Replace("tmp", content)
    <3>1. /\ v["tmp"] = content /\ v["primary"] = disk["primary"] /\ v["bak"] = disk["bak"]
      BY <1>1 DEF Replace, Views, Names
    <3> HIDE DEF v, doc
    <3>2. Valid(content) => Marks(content, id)
      BY <1>4, <2>2
    <3>3. Marker(v, id)
      BY <1>2, <3>1, <3>2 DEF Marker
    <3> QED
      BY <3>3 DEF v
  <2>4. Marker(view, id)
    BY <2>3
  <2>5. \A v \in steps : Marker(v, id)
    BY <2>3
  <2> HIDE DEF view, steps, doc
  <2>6. \A v \in survivors' : Marker(v, id)
    BY <2>1, <2>4, <2>5, BecomesMarked
  <2> QED
    BY <2>1, <2>2, <2>6
<1>7. CASE Retire(t)
  <2> DEFINE steps == {Replace("bak", Missing)}
             view == Rename("primary", "bak")
             one == Replace("bak", Missing)
  <2>1. job[t].stage = "retire" /\ Becomes(view, steps) /\ job'[t].doc = doc
    BY <1>1, <1>7, RetireMoves DEF Moves
  <2>2. Marks(doc, id) /\ disk["tmp"] = doc /\ Valid(p)
    BY <1>1, <2>1 DEF Writing, Progressing
  <2>3. /\ one["tmp"] = doc /\ one["primary"] = p /\ one["bak"] = Missing
        /\ view["tmp"] = doc /\ view["primary"] = Missing /\ view["bak"] = p
    BY <1>1, <2>2 DEF Replace, Rename, Views, Names
  <2>4. Marks(p, id)
    BY <1>2, <2>2 DEF Marker
  <2>5. steps = {one}
    OBVIOUS
  <2> HIDE DEF view, steps, doc, one, p
  <2>6. Marker(view, id) /\ Marker(one, id)
    BY <1>4, <2>2, <2>3, <2>4 DEF Marker
  <2>7. \A v \in survivors' : Marker(v, id)
    BY <2>1, <2>5, <2>6, BecomesMarked
  <2> QED
    BY <2>1, <2>2, <2>7
<1>8. CASE Promote(t)
  <2> DEFINE view == Rename("tmp", "primary")
  <2>1. job[t].stage = "promote" /\ Becomes(view, {}) /\ job'[t].doc = doc
    BY <1>1, <1>8, PromoteMoves DEF Moves
  <2>2. Marks(doc, id) /\ disk["tmp"] = doc
    BY <1>1, <2>1 DEF Writing, Progressing
  <2>3. view["tmp"] = Missing /\ view["primary"] = doc
    BY <1>1, <2>2 DEF Rename, Views, Names
  <2> HIDE DEF view, doc
  <2>4. Marker(view, id)
    BY <1>4, <2>2, <2>3 DEF Marker
  <2>5. \A v \in survivors' : Marker(v, id)
    BY <2>1, <2>4, BecomesMarked
  <2> QED
    BY <2>1, <2>2, <2>5
<1>9. CASE SyncParent(t)
  <2>1. /\ survivors' = {disk} /\ job'[t].doc = doc /\ job[t].stage \in {"staged", "retired",
           "promoted", "quarantined", "removed"}
    BY <1>1, <1>2, <1>9, SyncParentMoves DEF Moves
  <2>2. job[t].stage \in Writing
    BY <1>3, <2>1, JobFacts DEF Writing
  <2> QED
    BY <1>2, <2>1, <2>2
<1>10. ~Displace(t) /\ ~Quarantine(t) /\ ~Unlink(t) /\ ~Cleared(t)
  BY <1>3, JobFacts DEF Displace, Quarantine, Unlink, Cleared, At
<1> QED
  BY <1>5, <1>6, <1>7, <1>8, <1>9, <1>10 DEF JobStep

-----------------------------------------------------------------------------
(* The steps there are while the record of a marked run is owed *)

Owes(id) == IInv /\ Books /\ faults = 1 /\ faults' = 1 /\ Owed(id)

LEMMA OwedFacts ==
  ASSUME NEW id, Owes(id)
  PROVE  /\ Types /\ Files /\ Sound /\ Synced /\ Marking(id) /\ InMemory(id) /\ Owing
         /\ disk \in Views /\ disk \in survivors /\ Ordered(disk) /\ Marker(disk, id)
         /\ \A v \in survivors : Marker(v, id) /\ Ordered(v)
         /\ id # NoId /\ Marks(Recovered(disk), id)
         /\ Threads = {"main", "worker"} /\ "main" \in Threads /\ "worker" \in Threads
         /\ job \in [Threads -> Jobs]
         /\ queue = Missing /\ completion = NoCompletion /\ job["worker"].stage = "idle"
         /\ coordinator.call = "none" => job["main"].stage = "idle"
         /\ app.run \in Runs /\ run = app.run
         /\ {"mode", "request", "failed", "return", "run", "available", "damaged", "dirty",
             "chronicle"} \subseteq DOMAIN app
         /\ {"call", "inFlight", "revision"} \subseteq DOMAIN coordinator
<1>1. /\ Types /\ Files /\ Sound /\ Synced /\ Marking(id) /\ InMemory(id) /\ Owing
      /\ \A v \in survivors : Marker(v, id) /\ Ordered(v)
      /\ disk \in Views /\ disk \in survivors
  BY DEF Owes, Owed, Types, Files, Sound
<1>2. Ordered(disk) /\ Marker(disk, id)
  BY <1>1
<1>3. id # NoId
  BY <1>2 DEF Marker, Marks, Valid
<1>4. Marks(Recovered(disk), id)
  BY <1>1, <1>2, MarkerFound
<1>5. /\ queue = Missing /\ completion = NoCompletion /\ job["worker"].stage = "idle"
      /\ coordinator.call = "none" => job["main"].stage = "idle"
  BY <1>1 DEF Owes, IInv, FlagCovers, OneCall, At, Marking
<1>6. /\ {"mode", "request", "failed", "return", "run", "available", "damaged", "dirty",
          "chronicle"} \subseteq DOMAIN app
      /\ {"call", "inFlight", "revision"} \subseteq DOMAIN coordinator
  BY DEF Owes, IInv, ControlType
<1> QED
  BY <1>1, <1>2, <1>3, <1>4, <1>5, <1>6, CoordinatorAssumption DEF Types, run

\* Nothing happens to the files.
LEMMA FilesHeld ==
  ASSUME Files, UNCHANGED <<disk, survivors, job>>, history'.kept = history.kept
  PROVE  Files' /\ Stored' = Stored
<1>1. Sound'
  BY DEF Files, Sound, HasKept
<1> QED
  BY <1>1, FilesStay DEF Files

\* A step of the screens.
LEMMA ScreenOwes ==
  ASSUME NEW id, Owes(id), UNCHANGED <<disk, survivors, job, coordinator, queue, completion>>,
         history'.kept = history.kept, DOMAIN history' = DOMAIN history,
         app'.run \in Runs, app'.run = app.run \/ app'.run.terminal = "Active",
         app'.available \in BOOLEAN, app'.damaged \in BOOLEAN,
         app'.run.terminal = "Active" /\ app'.request # "Save_Checkpoint" => app'.run.id = NoId,
         app'.request = "Finalize" \/ app'.mode = "Save_Error" \/ coordinator.call = "mark_ended" =>
           app'.run.terminal = "Ended",
         app'.mode \notin {"Off", "Boot"} => id \in Listed(app'.chronicle),
         Owing'
  PROVE  Owed(id)'
<1>1. /\ Types /\ Files /\ Marking(id) /\ InMemory(id) /\ run = app.run
      /\ \A v \in survivors : Marker(v, id)
  BY OwedFacts
<1>2. Files' /\ Stored' = Stored
  BY <1>1, FilesHeld
<1>3. Types'
  BY <1>1 DEF Types
<1>4. app'.run = app.run => NextRevision' = NextRevision /\ WritingRun' = WritingRun
  BY DEF NextRevision, WritingRun, run, At
<1>5. InMemory(id)'
  <2>1. app'.run.terminal # "Active" => \A d \in Stored' : Covered(d)'
    BY <1>1, <1>2, <1>4 DEF InMemory, Covered, run
  <2> QED
    BY <1>1, <2>1 DEF InMemory, run
<1>6. Marking(id)'
  <2>1. job["main"].kind = "write" => app'.run = app.run
    <3>1. job["main"].kind = "write" => KindOf(coordinator.call) = "write"
      BY <1>1 DEF Marking
    <3>2. KindOf(coordinator.call) = "write" => coordinator.call = "mark_ended"
      BY <1>1, CallFacts DEF Marking, Calls
    <3> QED
      BY <3>1, <3>2
  <2>2. app'.run = app.run => Snapshot' = Snapshot
    BY <1>4 DEF Snapshot, run
  <2> QED
    BY <1>1, <2>1, <2>2 DEF Marking
<1> QED
  BY <1>1, <1>2, <1>3, <1>5, <1>6 DEF Owed

\* Most inputs find no screen that takes them.
LEMMA InputsOwe ==
  ASSUME NEW id, Owes(id), Inputs
  PROVE  Owed(id)'
<1>1. /\ Types /\ Marking(id) /\ InMemory(id) /\ Owing /\ app.run \in Runs /\ run = app.run
      /\ {"mode", "request", "failed", "return", "run", "available", "damaged", "dirty",
          "chronicle"} \subseteq DOMAIN app
  BY OwedFacts
<1>2. app.available \in BOOLEAN /\ app.damaged \in BOOLEAN
  BY <1>1 DEF Types
<1>3. ASSUME NEW mode, On(mode)
      PROVE  /\ app.mode = mode /\ app.request # "Save_Checkpoint" /\ mode # "Playing"
             /\ coordinator.call = "none" /\ mode \notin {"Off", "Boot", "Exiting"}
  BY <1>1, <1>3 DEF On, Frame, Due, Owing
<1>4. ASSUME Frame, app.request # "Save_Checkpoint", app.mode \notin {"Playing", "Save_Error"},
             NEW mode \in {"Title", "Select", "Exiting"}, Shows(mode)
      PROVE  Owed(id)'
  <2>1. /\ app' = [app EXCEPT !.mode = mode] /\ UNCHANGED history
        /\ UNCHANGED <<disk, survivors, job, coordinator, queue, completion>>
    BY <1>4 DEF Shows, AppBecomes
  <2>2. /\ app'.mode = mode /\ app'.request = app.request /\ app'.run = app.run
        /\ app'.available = app.available /\ app'.damaged = app.damaged
        /\ app'.chronicle = app.chronicle
    BY <1>1, <2>1
  <2>3. coordinator.call = "none" /\ app.mode \notin {"Off", "Boot", "Exiting"}
    BY <1>4 DEF Frame
  <2>4. Owing'
    BY <1>1, <1>4, <2>1, <2>2, <2>3 DEF Owing
  <2> QED
    BY <1>1, <1>2, <1>4, <2>1, <2>2, <2>3, <2>4, ScreenOwes DEF InMemory
<1>5. CASE ChooseResume \/ Tick \/ EndRun \/ Pause \/ SaveAndLeave \/ ConfirmAbandon \/ Repair
  <2>1. ~app.damaged /\ (app.mode # "Playing" => ~app.available)
    BY <1>1 DEF Owing
  <2>2. ~ChooseResume
    BY <1>3, <2>1 DEF ChooseResume
  <2>3. ~Tick /\ ~EndRun /\ ~Pause
    BY <1>3 DEF Tick, EndRun, Pause
  <2>4. app.mode \notin {"Paused", "Abandon_Confirm", "Recovery"}
    BY <1>1 DEF Owing
  <2>5. ~SaveAndLeave /\ ~ConfirmAbandon /\ ~Repair
    BY <1>3, <2>4 DEF SaveAndLeave, ConfirmAbandon, Repair
  <2> QED
    BY <1>5, <2>2, <2>3, <2>5
<1>6. CASE ChooseNewRun
  <2>1. On("Title") /\ Frame /\ Shows("Select")
    BY <1>1, <1>3, <1>6 DEF ChooseNewRun, Owing, On
  <2> QED
    BY <1>3, <1>4, <2>1
<1>7. ASSUME NEW new \in Ids, BeginNewRun(new)
      PROVE  Owed(id)'
  <2>1. /\ On("Select")
        /\ app' = [app EXCEPT !.mode = "Playing", !.request = "Save_Checkpoint",
                     !.run = [NoRun EXCEPT !.id = new], !.dirty = TRUE,
                     !.available = TRUE, !.damaged = FALSE]
        /\ UNCHANGED <<disk, survivors, job, coordinator, queue, completion>>
        /\ history' = [history EXCEPT !.started = @ \cup {new}]
    BY <1>7 DEF BeginNewRun, AppBecomes
  <2>2. /\ app'.mode = "Playing" /\ app'.request = "Save_Checkpoint"
        /\ app'.run = [NoRun EXCEPT !.id = new] /\ app'.available = TRUE
        /\ app'.damaged = FALSE /\ app'.chronicle = app.chronicle
    BY <1>1, <2>1
  <2>3. app'.run \in Runs /\ app'.run.terminal = "Active"
    BY <2>2, CoordinatorAssumption DEF NoRun, Runs, Terminals
  <2>4. app.mode = "Select" /\ coordinator.call = "none"
    BY <1>3, <2>1
  <2>5. DOMAIN history' = DOMAIN history /\ history'.kept = history.kept
    BY <2>1 DEF Owes, Books
  <2>6. Owing'
    BY <2>1, <2>2, <2>4 DEF Owing
  <2>7. id \in Listed(app'.chronicle)
    BY <1>1, <2>2, <2>4 DEF InMemory
  <2> QED
    BY <2>1, <2>2, <2>3, <2>4, <2>5, <2>6, <2>7, ScreenOwes
<1>8. CASE AnswerError
  <2>1. /\ On("Save_Error") /\ app.failed = "Finalize" /\ app.return = "Ended"
        /\ run.terminal = "Ended" /\ id \in Listed(app.chronicle)
        /\ app.mode = "Save_Error" /\ coordinator.call = "none" /\ app.request # "Save_Checkpoint"
    BY <1>1, <1>3, <1>8 DEF AnswerError, Owing, InMemory
  <2>2. /\ \/ app' = [app EXCEPT !.mode = "Save_Wait", !.request = "Finalize"]
           \/ app' = [app EXCEPT !.mode = "Ended", !.request = "None"]
           \/ app' = [app EXCEPT !.mode = "Title", !.request = "None"]
        /\ UNCHANGED <<disk, survivors, job, coordinator, queue, completion, history>>
    BY <1>8, <2>1 DEF AnswerError, AppBecomes, Fulfilled
  <2>3. /\ app'.mode \in {"Save_Wait", "Ended", "Title"} /\ app'.request \in {"Finalize", "None"}
        /\ app'.run = app.run /\ app'.available = app.available /\ app'.damaged = app.damaged
        /\ app'.chronicle = app.chronicle
    BY <1>1, <2>2
  <2>4. Owing'
    BY <1>1, <2>1, <2>2, <2>3 DEF Owing
  <2> QED
    BY <1>1, <1>2, <2>1, <2>2, <2>3, <2>4, ScreenOwes
<1>9. CASE Leave
  <2>1. app.mode \notin {"Abandon_Confirm", "Recovery", "Paused", "Resume_Veil", "Dying"}
    BY <1>1 DEF Owing
  <2>2. \E screen \in {"Select", "Ended"} : On(screen) /\ Shows("Title")
    BY <1>3, <1>9, <2>1 DEF Leave
  <2> QED
    BY <1>3, <1>4, <2>2 DEF On
<1>10. CASE CloseWindow
  <2>1. Frame /\ ~Due /\ app.mode \notin {"Save_Wait", "Save_Error"}
    BY <1>10 DEF CloseWindow
  <2>2. app.request # "Save_Checkpoint" /\ app.mode # "Playing"
    BY <1>1, <2>1 DEF Due, Owing
  <2>3. ~LiveDescent
    BY <1>1, <2>2 DEF LiveDescent, Owing
  <2>4. Shows("Exiting")
    BY <1>10, <2>3 DEF CloseWindow
  <2> QED
    BY <1>4, <2>1, <2>2, <2>4
<1>11. ~Suspend
  BY <1>1 DEF Suspend, LiveDescent, Due, Owing
<1> QED
  BY <1>5, <1>6, <1>7, <1>8, <1>9, <1>10, <1>11 DEF Inputs

\* Of the scheduler's steps, a checkpoint records, and a finalization begins.
LEMMA FramesOwe ==
  ASSUME NEW id, Owes(id), Autosave \/ Poll \/ Checkpoint \/ Process
  PROVE  Owed(id)' \/ id \in Listed(recorded')
<1>1. /\ Types /\ Files /\ Marking(id) /\ InMemory(id) /\ Owing /\ app.run \in Runs /\ run = app.run
      /\ {"mode", "request", "failed", "return", "run", "available", "damaged", "dirty",
          "chronicle"} \subseteq DOMAIN app
      /\ {"call", "inFlight", "revision"} \subseteq DOMAIN coordinator
      /\ completion = NoCompletion /\ "main" \in Threads /\ job \in [Threads -> Jobs]
  BY OwedFacts
<1>2. ~Autosave
  BY <1>1 DEF Autosave, InMemory
<1>3. ~Poll
  BY <1>1 DEF Poll
<1>4. CASE Checkpoint
  <2>1. app.request = "Save_Checkpoint" /\ app.mode = "Playing"
    BY <1>1, <1>4 DEF Checkpoint, Owing
  <2>2. id \in Listed(app.chronicle)
    BY <1>1, <2>1 DEF InMemory
  <2>3. ~ProfileUnwritten(app.chronicle)
    BY DEF ProfileUnwritten, Owes
  <2>4. recorded' = app.chronicle
    BY <1>4, <2>3 DEF Checkpoint, ProfileWritten
  <2> QED
    BY <2>2, <2>4
<1>5. CASE Process
  <2>1. /\ app.request = "Finalize" /\ coordinator.call = "none" /\ job["main"].stage = "idle"
        /\ app.mode \notin {"Off", "Boot", "Exiting"}
    BY <1>1, <1>5, OwedFacts DEF Process, Frame, Owing
  <2>2. FirstCall = "mark_ended"
    BY <2>1 DEF FirstCall
  <2>3. /\ coordinator' = [coordinator EXCEPT !.call = "mark_ended"]
        /\ app' = [app EXCEPT !.run.terminal = @]
        /\ UNCHANGED <<disk, survivors, job, faults, queue, completion, recorded, history>>
    BY <1>5, <2>2 DEF Process
  <2>4. /\ app'.run = app.run /\ app'.mode = app.mode /\ app'.request = app.request
        /\ app'.failed = app.failed /\ app'.return = app.return
        /\ app'.available = app.available /\ app'.damaged = app.damaged
        /\ app'.chronicle = app.chronicle
    <3>1. [app.run EXCEPT !.terminal = @] = app.run
      BY <1>1 DEF Runs
    <3> QED
      BY <1>1, <2>3, <3>1
  <2>5. /\ coordinator'.call = "mark_ended" /\ coordinator'.inFlight = coordinator.inFlight
        /\ coordinator'.revision = coordinator.revision
    BY <1>1, <2>3
  <2>6. Files' /\ Stored' = Stored
    BY <1>1, <2>3, FilesHeld
  <2>7. Types'
    BY <1>1, <2>3, <2>4, <2>5, CallFacts DEF Types
  <2>8. job["main"].kind = "none"
    BY <1>1, <2>1, JobFacts
  <2>9. Marking(id)'
    BY <1>1, <2>1, <2>3, <2>5, <2>8 DEF Marking, Writing
  <2>10. run.terminal = "Ended" /\ id \in Listed(app.chronicle)
    BY <1>1, <2>1 DEF InMemory
  <2>11. InMemory(id)'
    <3>1. NextRevision' = NextRevision /\ ~WritingRun
      BY <2>1, <2>4, <2>5 DEF NextRevision, run, WritingRun, At
    <3>2. \A d \in Stored : Covered(d)'
      BY <1>1, <2>4, <2>10, <3>1 DEF InMemory, Covered, run
    <3> QED
      BY <1>1, <2>4, <2>6, <2>10, <3>2 DEF InMemory, run
  <2>12. Owing'
    BY <1>1, <2>1, <2>4, <2>5 DEF Owing
  <2>13. \A v \in survivors' : Marker(v, id)
    BY <2>3, OwedFacts
  <2> QED
    BY <2>6, <2>7, <2>9, <2>11, <2>12, <2>13 DEF Owed
<1> QED
  BY <1>2, <1>3, <1>4, <1>5

\* A job of the main thread begins.
LEMMA BegunOwes ==
  ASSUME NEW id, Owes(id), coordinator.call # "none", job["main"].stage = "idle",
         job' \in [Threads -> Jobs], job'["worker"] = job["worker"],
         job'["main"].stage # "idle", job'["main"].kind = KindOf(coordinator.call),
         job'["main"].kind = "write" => job'["main"].doc = Snapshot,
         job'["main"].kind = "recover" => job'["main"].stage \notin Writing,
         Progressing("main")',
         UNCHANGED <<disk, survivors, app, coordinator, queue, completion, history>>
  PROVE  Owed(id)'
<1>1. /\ Types /\ Files /\ Sound /\ Synced /\ Marking(id) /\ InMemory(id) /\ Owing
      /\ job["worker"].stage = "idle" /\ Threads = {"main", "worker"} /\ run = app.run
      /\ \A v \in survivors : Marker(v, id)
  BY OwedFacts
<1>2. survivors = {disk}
  BY <1>1 DEF Synced, SteadyJob
<1>3. Files'
  <2>1. Sound'
    BY <1>1 DEF Sound, HasKept
  <2>2. Synced'
    BY <1>2 DEF Synced
  <2>3. Progressing("worker")'
    BY <1>1, IdleProgress
  <2> QED
    BY <1>1, <2>1, <2>2, <2>3 DEF Files
<1>4. Stored' = Stored
  BY DEF Stored
<1>5. NextRevision' = NextRevision /\ run' = run /\ Snapshot' = Snapshot /\ ~WritingRun
  <2>1. NextRevision' = NextRevision /\ run' = run
    BY DEF NextRevision, run
  <2> QED
    BY <2>1 DEF Snapshot, WritingRun, At
<1>6. Types'
  BY <1>1 DEF Types, run
<1>7. Marking(id)'
  BY <1>1, <1>5 DEF Marking, KindOf
<1>8. InMemory(id)'
  <2>1. \A d \in Stored : Covered(d) => Covered(d)'
    BY <1>5 DEF Covered
  <2> QED
    BY <1>1, <1>4, <1>5, <2>1 DEF InMemory
<1>9. Owing'
  BY <1>1 DEF Owing
<1> QED
  BY <1>1, <1>3, <1>6, <1>7, <1>8, <1>9 DEF Owed

LEMMA BeginCallOwes ==
  ASSUME NEW id, Owes(id), BeginCall
  PROVE  Owed(id)'
<1>1. /\ Types /\ Files /\ Marking(id) /\ InMemory(id) /\ Owing /\ disk \in Views
      /\ Threads = {"main", "worker"} /\ "main" \in Threads /\ "worker" \in Threads
      /\ job \in [Threads -> Jobs] /\ run = app.run /\ id # NoId
  BY OwedFacts
<1>2. /\ job["main"].stage = "idle" /\ UNCHANGED <<app, coordinator, queue, completion, recorded>>
  BY DEF BeginCall, At
<1>3. ASSUME NEW j \in Jobs, Becoming("main", j)
      PROVE  /\ job' \in [Threads -> Jobs] /\ job'["worker"] = job["worker"]
             /\ job'["main"] = j
  BY <1>1, <1>3 DEF Becoming
<1>4. CASE coordinator.call = "boot"
  <2>1. BeginRecover("main") /\ UNCHANGED history
    BY <1>4, CallFacts DEF BeginCall
  <2> DEFINE j == [NoJob EXCEPT !.stage = "scan", !.kind = "recover"]
  <2>2. j \in Jobs /\ j.stage = "scan" /\ j.kind = "recover"
    BY FirstJobs
  <2>3. Becoming("main", j) /\ UNCHANGED <<disk, survivors, faults>>
    BY <2>1 DEF BeginRecover
  <2> HIDE DEF j
  <2>4. /\ job' \in [Threads -> Jobs] /\ job'["worker"] = job["worker"] /\ job'["main"] = j
    BY <1>3, <2>2, <2>3
  <2>5. Progressing("main")'
    BY <2>2, <2>4 DEF Progressing, Writing
  <2>6. KindOf(coordinator.call) = "recover"
    BY <1>4, CallFacts DEF Calls
  <2>7. "scan" \notin Writing
    BY DEF Writing
  <2> QED
    BY <1>2, <1>4, <2>1, <2>2, <2>3, <2>4, <2>5, <2>6, <2>7, BegunOwes
<1>5. CASE coordinator.call = "mark_ended"
  <2>1. /\ NextRevision <= MaxRevision /\ BeginWrite("main", Snapshot) /\ UNCHANGED history
    BY <1>5, CallFacts DEF BeginCall
  <2>2. run.terminal = "Ended" /\ run.id = id /\ \A d \in Stored : Covered(d)
    BY <1>1, <1>5 DEF InMemory
  <2>3. Snapshot \in Docs
    BY <1>1, <2>1, <2>2, SnapshotDoc
  <2> DEFINE j == [NoJob EXCEPT !.stage = "stage", !.kind = "write", !.doc = Snapshot]
  <2>4. j \in Jobs /\ j.stage = "stage" /\ j.kind = "write" /\ j.doc = Snapshot /\ j.ok
        /\ ~j.removed
    BY <2>3, FirstJobs
  <2>5. Becoming("main", j) /\ UNCHANGED <<disk, survivors, faults>>
    BY <2>1 DEF BeginWrite
  <2> HIDE DEF j
  <2>6. /\ job' \in [Threads -> Jobs] /\ job'["worker"] = job["worker"] /\ job'["main"] = j
    BY <1>3, <2>4, <2>5
  <2>7. ASSUME NEW name \in Names PROVE Above(Snapshot, disk[name])
    <3> SUFFICES ASSUME Valid(disk[name])
                 PROVE  /\ Snapshot.id = disk[name].id /\ Snapshot.rev > disk[name].rev
                        /\ Snapshot.body.progress >= disk[name].body.progress
                        /\ Snapshot.body.terminal # "Active"
      BY DEF Above
    <3> DEFINE d == disk[name]
    <3>1. d \in Docs /\ d \in Stored
      BY <1>1, ViewFacts DEF Types, Stored
    <3> HIDE DEF d
    <3>2. d.rev \in Nat /\ d.body.progress \in Nat
      BY <3>1, DocumentFacts
    <3>3. d.id = run.id /\ d.body.progress <= run.progress /\ d.rev < NextRevision
      BY <1>2, <2>2, <3>1 DEF Covered, WritingRun, At
    <3> QED
      BY <1>1, <2>2, <3>2, <3>3, RevFacts, SnapshotFacts DEF d
  <2>8. Above(j.doc, disk["primary"]) /\ Above(j.doc, disk["bak"])
    BY <2>4, <2>7, NameFacts
  <2>9. Progressing("main")'
    BY <2>3, <2>4, <2>5, <2>6, <2>8 DEF Progressing, Writing
  <2>10. KindOf(coordinator.call) = "write"
    BY <1>5, CallFacts DEF Calls
  <2> QED
    BY <1>2, <1>5, <2>1, <2>4, <2>5, <2>6, <2>9, <2>10, BegunOwes
<1>6. coordinator.call # "none"
  BY CallFacts DEF BeginCall, Loads, Writes, Clears
<1> QED
  BY <1>1, <1>4, <1>5, <1>6 DEF Marking

\* The job of the main thread goes on.
LEMMA FileStepOwes ==
  ASSUME NEW id, Owes(id), NEW thread \in Threads, FileStep(thread)
  PROVE  Owed(id)'
<1> DEFINE j == job["main"]
<1>1. /\ Types /\ Files /\ Marking(id) /\ InMemory(id) /\ Owing
      /\ job["worker"].stage = "idle" /\ Threads = {"main", "worker"} /\ "main" \in Threads
      /\ run = app.run /\ \A v \in survivors : Marker(v, id)
      /\ coordinator.call = "none" => j.stage = "idle"
      /\ job \in [Threads -> Jobs] /\ id # NoId
  BY OwedFacts
<1>2. JobStep(thread) /\ UNCHANGED <<app, coordinator, queue, completion, recorded, history>>
  BY DEF FileStep
<1>3. job[thread].stage # "idle"
  BY <1>2 DEF JobStep, At, Choose, Stage, Retire, Promote, Displace, Quarantine, Unlink, Cleared,
     SyncParent, Unsynced
<1>4. thread = "main" /\ j.stage # "idle" /\ j.kind # "none"
  BY <1>1, <1>3, JobFacts
<1>5. /\ coordinator.call \in {"boot", "mark_ended"} /\ j.kind = KindOf(coordinator.call)
      /\ j.kind = "write" <=> coordinator.call = "mark_ended"
      /\ j.kind \in {"write", "recover"}
  BY <1>1, <1>4, CallFacts DEF Marking, Calls
<1>6. Stepping("main")
  BY <1>1, <1>2, <1>5 DEF Stepping, Owes
<1>7. /\ Stepped("main")
  BY <1>1, <1>2, <1>4, <1>6, JobStepFiles
<1>8. j.kind = "write" =>
        /\ run.terminal = "Ended" /\ run.id = id /\ j.doc = Snapshot /\ Marks(j.doc, id)
        /\ WritingRun
  BY <1>1, <1>4, <1>5, SnapshotFacts, CallFacts DEF Marking, InMemory, Marks, Valid, WritingRun, At
<1>9. j.stage \in Writing => Marks(j.doc, id)
  BY <1>1, <1>5, <1>8 DEF Marking
<1>10. /\ \A v \in survivors' : Marker(v, id)
       /\ job'["main"].stage \in Writing => Marks(job'["main"].doc, id)
  BY <1>1, <1>2, <1>4, <1>5, <1>6, <1>9, StepMarked
<1>11. /\ disk' \in Views /\ survivors' \subseteq Views /\ disk' \in survivors'
       /\ job' \in [Threads -> Jobs] /\ Files'
       /\ \A d \in Stored' : d \in Stored \/ (j.kind = "write" /\ d = j.doc)
       /\ job'["main"].kind = j.kind /\ job'["main"].stage # "idle"
       /\ j.kind = "write" => job'["main"].doc = j.doc
  BY <1>7 DEF Stepped
<1>12. Types'
  BY <1>1, <1>2, <1>11 DEF Types, run
<1>13. run' = run /\ NextRevision' = NextRevision /\ WritingRun' = WritingRun /\ Snapshot' = Snapshot
  <2>1. run' = run /\ NextRevision' = NextRevision
    BY <1>2 DEF run, NextRevision
  <2> QED
    BY <1>2, <1>4, <1>11, <2>1 DEF WritingRun, Snapshot, At
<1>14. Marking(id)'
  BY <1>1, <1>2, <1>10, <1>11, <1>13 DEF Marking
<1>15. InMemory(id)'
  <2>1. ASSUME run.terminal # "Active", NEW d \in Stored' PROVE Covered(d)'
    <3>1. Covered(d)' = Covered(d)
      BY <1>2, <1>13 DEF Covered
    <3>2. d \in Stored => Covered(d)
      BY <1>1, <2>1 DEF InMemory
    <3>3. j.kind = "write" => Covered(j.doc)
      <4>1. run.progress \in Nat
        BY <1>1, RevFacts
      <4> QED
        BY <1>8, <4>1, SnapshotFacts DEF Covered
    <3> QED
      BY <1>11, <2>1, <3>1, <3>2, <3>3
  <2> QED
    BY <1>1, <1>2, <1>13, <2>1 DEF InMemory
<1>16. Owing'
  BY <1>1, <1>2 DEF Owing
<1> QED
  BY <1>10, <1>11, <1>12, <1>14, <1>15, <1>16 DEF Owed

\* The start finds the marker, and writes it again.
LEMMA BootLoadedOwes ==
  ASSUME NEW id, Owes(id), BootLoaded
  PROVE  Owed(id)'
<1>1. /\ Types /\ Files /\ Sound /\ Synced /\ Marking(id) /\ InMemory(id) /\ Owing
      /\ job["worker"].stage = "idle" /\ Threads = {"main", "worker"}
      /\ "main" \in Threads /\ "worker" \in Threads
      /\ run = app.run /\ \A v \in survivors : Marker(v, id)
      /\ job \in [Threads -> Jobs] /\ Marks(Recovered(disk), id)
      /\ disk \in Views /\ Ordered(disk)
      /\ {"mode", "request", "failed", "return", "run", "available", "damaged", "dirty",
          "chronicle"} \subseteq DOMAIN app
      /\ {"call", "inFlight", "revision"} \subseteq DOMAIN coordinator
  BY OwedFacts
<1>2. coordinator.call = "boot" /\ job["main"].stage = "done"
  BY DEF BootLoaded, Returned, At
<1>3. job["main"].kind = "recover"
  BY <1>1, <1>2, CallFacts, JobFacts DEF Marking, Calls
<1>4. Found = Recovered(disk)
  <2>1. Progressing("main")
    BY <1>1 DEF Files
  <2> QED
    BY <1>2, <1>3, <2>1 DEF Progressing, Found
<1>5. Valid(Found) /\ Found.id = id /\ Found.body.terminal = "Ended"
  BY <1>1, <1>4 DEF Marks
<1>6. Found \in Docs /\ \A name \in Names : Valid(disk[name]) => Above(Found, disk[name])
  BY <1>1, <1>4, <1>5, RecoveredAbove, DocumentFacts DEF Contents
<1>7. survivors = {disk}
  BY <1>1, <1>2 DEF Synced, SteadyJob
<1>8. /\ ReturnTo("mark_ended", Found.rev) /\ app' = [app EXCEPT !.run = Installed(Found)]
  BY <1>5 DEF BootLoaded, IsActive
<1>9. /\ coordinator' = [coordinator EXCEPT !.call = "mark_ended", !.revision = Found.rev]
      /\ job' = [job EXCEPT !["main"] = NoJob]
      /\ UNCHANGED <<disk, survivors, faults, queue, completion, recorded, history>>
  BY <1>8 DEF ReturnTo, Return, End, Becoming
<1>10. NoJob \in Jobs /\ NoJob.stage = "idle" /\ NoJob.kind = "none"
  BY FirstJobs
<1>11. /\ job' \in [Threads -> Jobs] /\ job'["main"] = NoJob
       /\ job'["worker"].stage = "idle"
  BY <1>1, <1>9, <1>10
<1>12. Files'
  <2>1. Sound'
    BY <1>1, <1>9 DEF Sound, HasKept
  <2>2. Synced'
    BY <1>7, <1>9 DEF Synced
  <2>3. \A t \in Threads : Progressing(t)'
    BY <1>1, <1>10, <1>11, IdleProgress
  <2> QED
    BY <2>1, <2>2, <2>3 DEF Files
<1>13. /\ coordinator'.call = "mark_ended" /\ coordinator'.revision = Found.rev
       /\ coordinator'.inFlight = coordinator.inFlight
  BY <1>1, <1>9
<1>14. /\ app'.run = Installed(Found) /\ app'.mode = app.mode /\ app'.request = app.request
       /\ app'.failed = app.failed /\ app'.return = app.return
       /\ app'.available = app.available /\ app'.damaged = app.damaged
       /\ app'.chronicle = app.chronicle
  BY <1>1, <1>8
<1>15. /\ app'.run.id = id /\ app'.run.terminal = "Ended" /\ app'.run.rev = Found.rev
       /\ app'.run.progress = Found.body.progress /\ app'.run \in Runs /\ Found.rev \in Nat
  BY <1>5, <1>6, <1>14, DocumentFacts DEF Installed, Runs
<1>16. Types'
  BY <1>1, <1>9, <1>11, <1>13, <1>14, <1>15, CallFacts DEF Types
<1>17. Marking(id)'
  BY <1>1, <1>10, <1>11, <1>13 DEF Marking, Writing
<1>18. InMemory(id)'
  <2>1. NextRevision' = Found.rev + 1
    BY <1>13, <1>15 DEF NextRevision, run
  <2>2. ASSUME NEW d \in Stored' PROVE Covered(d)'
    <3>1. PICK name \in Names : disk[name] = d /\ d \in Docs
      BY <1>7, <1>9 DEF Stored
    <3>2. Above(Found, d) /\ Valid(d)
      BY <1>6, <3>1, DocumentFacts
    <3>3. /\ d.rev \in Nat /\ d.body.progress \in Nat /\ Found.body.progress \in Nat
      BY <1>6, <3>1, DocumentFacts
    <3>4. d.id = id /\ d.rev <= Found.rev /\ d.body.progress <= Found.body.progress
      BY <1>5, <1>15, <3>2, <3>3 DEF Above
    <3> QED
      BY <1>15, <2>1, <3>3, <3>4 DEF Covered, run
  <2>3. app.mode = "Boot"
    BY <1>1, <1>2 DEF Owing
  <2> QED
    BY <1>14, <1>15, <2>2, <2>3 DEF InMemory, run
<1>19. Owing'
  BY <1>1, <1>2, <1>13, <1>14 DEF Owing
<1>20. \A v \in survivors' : Marker(v, id)
  BY <1>1, <1>9
<1> QED
  BY <1>12, <1>16, <1>17, <1>18, <1>19, <1>20 DEF Owed

\* No other call returns, and the finalization records the run now.
LEMMA ReturnsOwe ==
  ASSUME NEW id, Owes(id), Returns
  PROVE  Owed(id)' \/ id \in Listed(recorded')
<1>1. /\ Types /\ Files /\ Marking(id) /\ InMemory(id)
      /\ coordinator.call \in {"none", "boot", "mark_ended"}
      /\ job \in [Threads -> Jobs] /\ "main" \in Threads
  BY OwedFacts DEF Marking
<1>2. CASE BootLoaded
  BY <1>2, BootLoadedOwes
<1>3. CASE Archived
  <2>1. coordinator.call = "mark_ended" /\ job["main"].stage = "done"
    BY <1>3 DEF Archived, Returned, At
  <2>2. run.id = id
    BY <1>1, <2>1 DEF InMemory
  <2>3. job["main"].kind = "write"
    BY <1>1, <2>1, CallFacts, JobFacts DEF Marking, Calls
  <2>4. Succeeded
    <3>1. Progressing("main")
      BY <1>1 DEF Files
    <3> QED
      BY <2>1, <2>3, <3>1, DocumentFacts DEF Progressing, Succeeded
  <2>5. \A chronicle : ~ProfileUnwritten(chronicle)
    BY DEF ProfileUnwritten, Owes
  <2>6. recorded' = WithRecord(app.chronicle, run.id)
    BY <1>3, <2>4, <2>5 DEF Archived, ProfileWritten, IInv, ControlType, Owes
  <2> QED
    BY <2>2, <2>6, WithRecordLists DEF Owes, Books
<1>4. ASSUME ~BootLoaded, ~Archived PROVE FALSE
  BY <1>1, <1>4 DEF Returns, Returned, Resumed, LeftRun, AbandonedLoaded, AbandonedMarked,
     AbandonedRemoved, RunRecovered, RunQuarantined, Finalized, Discarded
<1> QED
  BY <1>2, <1>3, <1>4

\* The program stops, however.
LEMMA OffOwes ==
  ASSUME NEW id, Owes(id), Off, disk' \in survivors, survivors' = {disk'},
         job' = [t \in Threads |-> NoJob]
  PROVE  Owed(id)'
<1>1. /\ app' = NoApp /\ coordinator' = NoCoordinator /\ queue' = Missing
      /\ completion' = NoCompletion /\ history' = [history EXCEPT !.ended = {}]
  BY DEF Off
<1>2. /\ Types /\ Files /\ Sound /\ Threads = {"main", "worker"}
      /\ \A v \in survivors : Marker(v, id)
  BY OwedFacts
<1>3. /\ job' \in [Threads -> Jobs] /\ \A t \in Threads : job'[t] = NoJob
      /\ NoJob.stage = "idle" /\ NoJob.kind = "none"
  BY FirstJobs
<1>4. history'.kept = history.kept /\ DOMAIN history' = DOMAIN history
  BY <1>1 DEF Owes, Books
<1>5. NoRun \in Runs /\ NoRun.terminal = "Active" /\ NoRun.id = NoId
  BY CoordinatorAssumption DEF NoRun, Runs, Terminals
<1>6. /\ app'.mode = "Off" /\ app'.request = "None" /\ app'.run = NoRun
      /\ app'.available = FALSE /\ app'.damaged = FALSE
      /\ coordinator'.call = "none" /\ coordinator'.inFlight = FALSE
      /\ coordinator'.revision = 0
  BY <1>1 DEF NoApp, NoCoordinator
<1>7. Types'
  <2>1. app'.run \in Runs /\ {app'.available, app'.damaged} \subseteq BOOLEAN
    BY <1>5, <1>6
  <2>2. disk' \in Views /\ survivors' \subseteq Views /\ disk' \in survivors'
    BY <1>2 DEF Types
  <2> QED
    BY <1>1, <1>2, <1>3, <1>4, <1>6, <2>1, <2>2 DEF Types
<1>8. Files'
  <2>1. Sound'
    BY <1>2, <1>4 DEF Sound, HasKept
  <2>2. Synced'
    BY DEF Synced
  <2>3. \A t \in Threads : Progressing(t)'
    BY <1>3, IdleProgress
  <2> QED
    BY <2>1, <2>2, <2>3 DEF Files
<1>9. Marking(id)'
  BY <1>2, <1>3, <1>6 DEF Marking, Writing
<1>10. InMemory(id)' /\ Owing'
  BY <1>5, <1>6 DEF InMemory, Owing, run
<1> QED
  BY <1>2, <1>7, <1>8, <1>9, <1>10 DEF Owed

\* It starts, ends, or the power goes.
LEMMA LifeOwes ==
  ASSUME NEW id, Owes(id), Boot \/ Exit \/ Crash
  PROVE  Owed(id)'
<1>1. /\ Types /\ Files /\ Sound /\ Synced /\ Threads = {"main", "worker"}
      /\ "main" \in Threads /\ "worker" \in Threads /\ job \in [Threads -> Jobs]
      /\ \A v \in survivors : Marker(v, id) /\ job["worker"].stage = "idle"
      /\ coordinator.call = "none" => job["main"].stage = "idle"
      /\ disk \in survivors /\ Marker(disk, id)
      /\ queue = Missing /\ completion = NoCompletion
  BY OwedFacts
<1>2. CASE Crash
  BY <1>2, OffOwes DEF Crash, PowerCut
<1>3. CASE Exit
  <2>1. Off /\ UNCHANGED <<disk, survivors, job>> /\ app.mode = "Exiting"
    BY <1>3 DEF Exit
  <2>2. coordinator.call = "none" /\ job["main"].stage = "idle" /\ job["worker"].stage = "idle"
    BY <1>1, <2>1, OwedFacts DEF Owes, IInv, OneCall
  <2>3. survivors = {disk}
    BY <1>1, <2>2 DEF Synced, SteadyJob
  <2>4. \A t \in Threads : job[t] = NoJob
    BY <1>1, <2>2, JobFacts
  <2>5. job' = [t \in Threads |-> NoJob]
    BY <1>1, <2>1, <2>4
  <2> QED
    BY <2>1, <2>3, <2>5, OffOwes
<1>4. CASE Boot
  <2>1. /\ app.mode = "Off" /\ app' = [NoApp EXCEPT !.mode = "Boot", !.chronicle = recorded]
        /\ coordinator' = [NoCoordinator EXCEPT !.call = "boot"]
        /\ UNCHANGED <<disk, survivors, job, faults, queue, completion, recorded, history>>
    BY <1>4 DEF Boot
  <2>2. coordinator.call = "none"
    BY <2>1 DEF Owes, IInv, OneCall, NoCoordinator
  <2>3. job["main"].stage = "idle" /\ job["main"].kind = "none"
    BY <1>1, <2>2, JobFacts
  <2>4. NoRun \in Runs /\ NoRun.terminal = "Active" /\ NoRun.id = NoId
    BY CoordinatorAssumption DEF NoRun, Runs, Terminals
  <2>5. /\ app'.mode = "Boot" /\ app'.request = "None" /\ app'.run = NoRun
        /\ app'.available = FALSE /\ app'.damaged = FALSE
        /\ coordinator'.call = "boot" /\ coordinator'.inFlight = FALSE
        /\ coordinator'.revision = 0
    BY <2>1 DEF NoApp, NoCoordinator
  <2>6. Files'
    BY <1>1, <2>1, FilesHeld
  <2>7. Types'
    <3>1. app'.run \in Runs /\ {app'.available, app'.damaged} \subseteq BOOLEAN
      BY <2>4, <2>5
    <3> QED
      BY <1>1, <2>1, <2>5, <3>1, CallFacts DEF Types
  <2>8. Marking(id)'
    BY <1>1, <2>1, <2>3, <2>5 DEF Marking, Writing
  <2>9. InMemory(id)' /\ Owing'
    BY <2>4, <2>5 DEF InMemory, Owing, run
  <2>10. \A v \in survivors' : Marker(v, id)
    BY <1>1, <2>1
  <2> QED
    BY <2>6, <2>7, <2>8, <2>9, <2>10 DEF Owed
<1> QED
  BY <1>2, <1>3, <1>4

\* Any step without another failure.
LEMMA StepOwes ==
  ASSUME NEW id, Owes(id), [Next]_vars
  PROVE  Owed(id)' \/ id \in Listed(recorded')
<1>1. CASE UNCHANGED vars
  <2>1. UNCHANGED <<disk, survivors, job, app, coordinator, queue, completion, history>>
    BY <1>1 DEF vars
  <2>2. /\ Types /\ InMemory(id) /\ Owing /\ app.run \in Runs /\ run = app.run
    BY OwedFacts
  <2>3. Owing'
    BY <2>1, <2>2 DEF Owing
  <2> QED
    BY <2>1, <2>2, <2>3, ScreenOwes DEF Types, InMemory
<1>2. ~Take /\ ~Complete
  BY OwedFacts DEF Take, Complete, At
<1>3. CASE Inputs \/ BeginCall \/ (\E thread \in Threads : FileStep(thread))
  BY <1>3, InputsOwe, BeginCallOwes, FileStepOwes
<1>4. CASE Autosave \/ Poll \/ Checkpoint \/ Process \/ Returns
  BY <1>4, FramesOwe, ReturnsOwe
<1>5. CASE Boot \/ Exit \/ Crash
  BY <1>5, LifeOwes
<1> QED
  BY <1>1, <1>2, <1>3, <1>4, <1>5 DEF Next

\* The failure: the run is marked, and the profile not written.
LEMMA ArchivedOwes ==
  ASSUME NEW id, id = run.id, Ctx, Books, Archived, history'.marked # history.marked,
         ProfileUnwritten(WithRecord(app.chronicle, run.id)), faults' = 1
  PROVE  Owed(id)' \/ id \in Listed(recorded')
<1> DEFINE longer == WithRecord(app.chronicle, run.id)
<1>1. /\ coordinator.call = "mark_ended" /\ job["main"].stage = "done"
      /\ coordinator.call \in Writes
  BY CallFacts DEF Archived, Returned, At
<1>2. /\ run.id # NoId /\ run.terminal = "Ended"
      /\ (app.mode = "Boot" /\ app.request = "None") \/ app.request = "Finalize"
      /\ ~app.damaged
  BY <1>1, ReturnKnows DEF Purposes, Wanted
<1>3. /\ Found \in Docs /\ Found = Snapshot /\ disk["primary"] = Found /\ Succeeded
      /\ Found.rev \in Nat /\ Found.body.progress \in Nat /\ Found.id \in Ids /\ Valid(Found)
      /\ survivors = {disk} /\ Ordered(disk) /\ disk \in Views
      /\ queue = Missing /\ completion = NoCompletion /\ job["worker"].stage = "idle"
  BY <1>1, DoneFacts, DocumentFacts
<1>4. /\ Becoming("main", NoJob) /\ UNCHANGED <<disk, survivors, queue, completion>>
      /\ history' = [Keeping(Found) EXCEPT !.marked = @ \cup {run.id}]
  BY DEF Archived
<1>5. CASE recorded' = longer
  BY <1>5, WithRecordLists DEF Books
<1>6. CASE /\ coordinator' = [coordinator EXCEPT !.call = "none", !.revision = Found.rev]
           /\ app' = [Unfinalized EXCEPT !.available = FALSE, !.chronicle = longer,
                        !.run.rev = IF app.mode = "Boot" THEN @ ELSE Found.rev]
  <2> HIDE DEF longer
  <2>1. /\ coordinator'.call = "none" /\ coordinator'.revision = Found.rev
        /\ coordinator'.inFlight = coordinator.inFlight /\ ~coordinator'.inFlight
        /\ coordinator'.call \in Calls
    BY <1>1, <1>6, ReturnKnows, CallFacts DEF Calls
  <2>2. /\ app'.available = FALSE /\ app'.damaged = FALSE /\ app'.chronicle = longer
        /\ app'.request = "None"
        /\ \/ app'.mode = "Title" /\ app'.run = NoRun
           \/ /\ app'.mode = "Save_Error" /\ app'.failed = "Finalize" /\ app'.return = "Ended"
              /\ app'.run = [app.run EXCEPT !.rev = Found.rev]
    <3>1. CASE app.mode = "Boot"
      <4>1. Unfinalized = [app EXCEPT !.mode = "Title", !.run = NoRun]
        BY <3>1 DEF Unfinalized
      <4>2. app' = [Unfinalized EXCEPT !.available = FALSE, !.chronicle = longer,
                      !.run.rev = @]
        BY <1>6, <3>1
      <4>3. NoRun = [NoRun EXCEPT !.rev = @]
        BY DEF NoRun
      <4>4. app.request = "None"
        BY <1>1, <3>1, ReturnKnows DEF Wanted
      <4> QED
        BY <1>1, <1>2, <4>1, <4>2, <4>3, <4>4, ReturnKnows
    <3>2. CASE app.mode # "Boot"
      <4>1. Unfinalized = [app EXCEPT !.mode = "Save_Error", !.request = "None",
                                      !.failed = "Finalize", !.return = "Ended"]
        BY <3>2 DEF Unfinalized, Failing
      <4>2. app' = [Unfinalized EXCEPT !.available = FALSE, !.chronicle = longer,
                      !.run.rev = Found.rev]
        BY <1>6, <3>2
      <4> QED
        BY <1>1, <1>2, <4>1, <4>2, ReturnKnows
    <3> QED
      BY <3>1, <3>2
  <2>3. NoRun \in Runs /\ NoRun.terminal = "Active" /\ NoRun.id = NoId
    BY CoordinatorAssumption DEF NoRun, Runs, Terminals
  <2>4. \/ app'.mode = "Title" /\ app'.run.terminal = "Active" /\ app'.run.id = NoId
        \/ /\ app'.mode = "Save_Error" /\ app'.failed = "Finalize" /\ app'.return = "Ended"
           /\ app'.run.id = run.id /\ app'.run.rev = Found.rev
           /\ app'.run.progress = run.progress /\ app'.run.terminal = "Ended"
    BY <1>1, <1>2, <2>2, <2>3, ReturnKnows DEF Runs
  <2>5. app'.run \in Runs
    BY <1>1, <1>3, <2>2, <2>3, ReturnKnows DEF Runs
  <2>6. /\ DOMAIN history' = DOMAIN history
        /\ history'.kept = [id |-> Found.id, progress |-> Found.body.progress]
    BY <1>4 DEF Keeping, Ctx, Types
  <2>7. history'.kept \in Keeps /\ history'.kept.id = Found.id
        /\ history'.kept.progress = Found.body.progress
    BY <1>3, <2>6 DEF Keeps
  <2>8. HasKept(disk)'
    <3>1. "primary" \in {"primary", "bak"} /\ Valid(disk["primary"])
          /\ disk["primary"].id = history'.kept.id
          /\ disk["primary"].body.progress >= history'.kept.progress
      BY <1>3, <2>7
    <3> QED
      BY <1>4, <3>1 DEF HasKept
  <2>9. Types' /\ Files' /\ Stored' = Stored
    BY <1>1, <1>3, <1>4, <2>1, <2>2, <2>5, <2>6, <2>7, <2>8, ReturnKnows, ReturnedFiles
  <2>10. Marks(Found, id)
    BY <1>2, <1>3 DEF Snapshot, Marks
  <2>11. Marker(disk, id)
    <3>1. job["main"].kind = "write" /\ Progressing("main")
      BY <1>1, CallFacts, DoneFacts DEF Ctx, Memory, Calling, At, Files
    <3>2. Found = Recovered(disk)
      BY <1>1, <3>1 DEF Progressing, Found
    <3>3. Valid(disk["tmp"]) => disk["tmp"] = Found
      BY <1>3, <3>2, RecoveredOrdered
    <3> QED
      BY <1>3, <2>10, <3>3 DEF Marker
  <2>12. \A v \in survivors' : Marker(v, id)
    BY <1>3, <1>4, <2>11
  <2>13. Marking(id)'
    <3>1. job'["main"] = NoJob
      BY <1>1, <1>4, DoneFacts DEF Becoming
    <3>2. NoJob.stage = "idle" /\ NoJob.kind = "none"
      BY FirstJobs
    <3> QED
      BY <2>1, <3>1, <3>2 DEF Marking, Writing
  <2>14. InMemory(id)'
    <3>1. run'.terminal # "Active" =>
            run'.terminal = "Ended" /\ run'.id = id /\ \A d \in Stored' : Covered(d)'
      <4> SUFFICES ASSUME app'.run.terminal # "Active"
                   PROVE  app'.run.terminal = "Ended" /\ app'.run.id = id /\ Covers'
        BY <1>2 DEF Covers, run
      <4>1. /\ app'.run.id = run.id /\ app'.run.rev = Found.rev
            /\ app'.run.progress = run.progress /\ app'.run.terminal = "Ended"
        BY <2>4
      <4> QED
        BY <1>1, <1>2, <2>1, <2>9, <4>1, WrittenCovers
    <3>2. id \in Listed(app'.chronicle)
      BY <2>2, WithRecordLists DEF Books, longer
    <3> QED
      BY <2>1, <2>2, <2>4, <3>1, <3>2 DEF InMemory, run
  <2>15. Owing'
    BY <2>1, <2>2, <2>4 DEF Owing
  <2> QED
    BY <2>9, <2>12, <2>13, <2>14, <2>15 DEF Owed
<1>7. \/ /\ ProfileWritten(longer)
      \/ /\ ProfileUnwritten(longer)
         /\ coordinator' = [coordinator EXCEPT !.call = "none", !.revision = Found.rev]
         /\ app' = [Unfinalized EXCEPT !.available = FALSE, !.chronicle = longer,
                      !.run.rev = IF app.mode = "Boot" THEN @ ELSE Found.rev]
  <2> DEFINE marked == [app EXCEPT !.run.rev = Found.rev, !.available = FALSE,
                          !.chronicle = WithRecord(@, run.id)]
  <2>1. marked.chronicle = longer
    BY <1>1, ReturnKnows
  <2> QED
    BY <2>1 DEF Archived
<1> QED
  BY <1>5, <1>6, <1>7 DEF ProfileWritten

-----------------------------------------------------------------------------
(* Every step *)

LEMMA InitDebts ==
  ASSUME Init
  PROVE  Debts
<1>1. history.marked = {}
  BY DEF Init
<1> QED
  BY <1>1 DEF Debts

LEMMA StepDebts ==
  ASSUME IInv, Whole, Books, Debts, [Next]_vars
  PROVE  Debts'
<1>1. faults \in Nat /\ (faults' = faults \/ faults' = faults + 1)
  BY FaultsCounted DEF Whole
<1>2. /\ Listed(recorded) \subseteq Listed(recorded')
      /\ history'.marked = history.marked \/ Archived
  BY StepGrows DEF Grows
<1> SUFFICES ASSUME faults' <= 1, NEW id, id \in history'.marked, id \notin Listed(recorded')
             PROVE  faults' = 1 /\ Owed(id)'
  BY DEF Debts, Listed
<1>3. CASE id \in history.marked
  <2>1. faults = 1 /\ Owed(id)
    BY <1>1, <1>2, <1>3 DEF Debts
  <2>2. Owes(id)
    BY <1>1, <2>1 DEF Owes
  <2> QED
    BY <2>2, StepOwes DEF Owes
<1>4. CASE id \notin history.marked
  <2>1. Archived /\ history'.marked # history.marked
    BY <1>2, <1>4
  <2>2. /\ id = run.id
        /\ ProfileUnwritten(WithRecord(app.chronicle, run.id))
    BY <1>4, <2>1, ArchivedGrows
  <2>3. faults = 0 /\ faults' = 1
    BY <1>1, <2>2 DEF ProfileUnwritten
  <2>4. Ctx
    BY <2>3 DEF Whole, Ctx
  <2> QED
    BY <2>1, <2>2, <2>3, <2>4, ArchivedOwes
<1> QED
  BY <1>3, <1>4

LEMMA DebtsArchive ==
  ASSUME Debts
  PROVE  ArchivedBeforeRemoved
<1> SUFFICES ASSUME faults <= 1, NEW id \in history.marked, id \notin Listed(recorded),
                    NEW v \in survivors
             PROVE  Marks(Recovered(v), id)
  BY DEF ArchivedBeforeRemoved, Outcomes, Listed, Marks
<1>1. Owed(id)
  BY DEF Debts
<1>2. v \in Views /\ Ordered(v) /\ Marker(v, id)
  BY <1>1 DEF Owed, Types, Files, Sound
<1> QED
  BY <1>2, MarkerFound

LEMMA SpecDebts == Spec => [](IInv /\ Whole /\ Books /\ Debts)
<1>1. Init => IInv /\ Whole /\ Books /\ Debts
  BY InitHolds, InitWhole, InitBooks, InitDebts
<1>2. IInv /\ Whole /\ Books /\ Debts /\ [Next]_vars => (IInv /\ Whole /\ Books /\ Debts)'
  BY StepHolds, StepWhole, StepGrows, StepDebts DEF Grows
<1> QED
  BY <1>1, <1>2, PTL DEF Spec

\* A run whose end is marked on disk is never forgotten: it is in the recorded Chronicle,
\* or every start finds the marker and finishes the job, with at most one call failing;
\* be it the write of the profile that fails, at the end of the run or at a start, and
\* whatever crashes, retries, exits and new runs follow (persistence_finalize_terminal).
THEOREM ArchivedBeforeRemovedHolds == Spec => []ArchivedBeforeRemoved
<1>1. Debts => ArchivedBeforeRemoved
  BY DebtsArchive
<1> QED
  BY <1>1, SpecDebts, PTL

=============================================================================
