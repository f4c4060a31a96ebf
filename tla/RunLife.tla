------------------------------ MODULE RunLife ------------------------------
(***************************************************************************)
(* The runs of the Python edition and the one file that keeps them: the    *)
(* screens of game.py and run_flow.py, the save file of save_system.py and *)
(* the session flags of net/mixin.py that decide whether a run is saved.   *)
(*                                                                         *)
(* The program has one thread.  A procedure that writes to the disk is a   *)
(* call with a list of system calls to do; the program may be killed       *)
(* between any two of them, as the phone does with one in the background.  *)
(* The kernel keeps what it was given: power cuts are left out.  While a   *)
(* call is under way nothing else runs.                                    *)
(*                                                                         *)
(* A run is its name, how far it came, and whether its player lies dead.   *)
(* Worlds of a co-op run carry the name Coop.  Inputs are those that touch *)
(* a run; the loop handles every input that waits, even after one of them  *)
(* has ended the program's loop (the simulation of that frame is left out).*)
(*                                                                         *)
(* Bounds: the solo runs, their progress (which stops at its limit, while  *)
(* saving goes on), and the system calls that fail.                        *)
(***************************************************************************)
EXTENDS Naturals, Sequences

CONSTANTS
    Runs,           \* solo runs a player may start
    Coop,           \* the run of a co-op session
    MaxProgress,
    Quiet, Hard,    \* RUN_CHECKPOINT_QUIET_SECONDS, _MAX_SECONDS, in frames
    Retry,          \* RUN_CHECKPOINT_RETRY_SECONDS
    MaxFaults

ASSUME RunsAssumption == Coop \notin Runs
ASSUME TimesAssumption == {Quiet, Hard, Retry} \subseteq Nat \ {0}
ASSUME LimitsAssumption == MaxProgress \in Nat /\ MaxFaults \in Nat

VARIABLES
    files,      \* the save, its .tmp, and the runs recorded in the options file
    game,       \* the program's memory
    call,       \* the call under way: what is left to do, on what, and then
    faults,     \* system calls that have failed
    past        \* what was confirmed and removed; not in the code

vars == <<files, game, call, faults, past>>

Missing == [is |-> "missing"]
Torn == [is |-> "torn"]
Saved(run) == [is |-> "saved", run |-> run]

NoRun == [id |-> "none", progress |-> 0, down |-> FALSE]
Least(a, b) == IF a < b THEN a ELSE b

RunType == [id : Runs \cup {Coop, NoRun.id}, progress : 0..MaxProgress, down : BOOLEAN]
Saves == {Missing} \cup {Saved(run) : run \in RunType}

GameType ==
    [screen : {"off", "title", "select", "lobby", "playing", "over"},
     sheet : BOOLEAN, running : BOOLEAN, run : RunType, session : BOOLEAN,
     active : BOOLEAN, pending : BOOLEAN, due : Nat, hard : Nat, history : SUBSET Runs]

\* What is left of save_run, and of the end of a run.
SaveSteps == {<<"open", "write", "replace">>, <<"write", "replace">>, <<"replace">>}
EndSteps == {<<"record">>, <<"record", "unlink", "unlink_tmp">>,
             <<"unlink", "unlink_tmp">>, <<"unlink_tmp">>}

TypeOK ==
    /\ files \in [main : Saves, tmp : Saves \cup {Torn}, options : SUBSET Runs]
    /\ game \in GameType
    /\ call \in [todo : SaveSteps \cup EndSteps \cup {<<>>}, doc : RunType,
                then : {"stay", "sheet", "title", "quit"}]
    /\ faults \in 0..MaxFaults
    /\ past \in [started : SUBSET Runs, owed : SUBSET Runs, kept : Saves,
                gone : SUBSET Runs]

Off == [screen |-> "off", sheet |-> FALSE, running |-> FALSE, run |-> NoRun,
        session |-> FALSE, active |-> FALSE,
        pending |-> FALSE, due |-> 0, hard |-> 0, history |-> {}]

Idle == [todo |-> <<>>, doc |-> NoRun, then |-> "stay"]

Init ==
    /\ files = [main |-> Missing, tmp |-> Missing, options |-> {}]
    /\ game = Off
    /\ call = Idle
    /\ faults = 0
    /\ past = [started |-> {}, owed |-> {}, kept |-> Missing, gone |-> {}]

\* screen is the state of the game; under the exit sheet, the state it goes
\* back to (exit_previous_state).  Between two calls, in the program:
Free == game.screen # "off" /\ call = Idle
At(screen) == Free /\ ~game.sheet /\ game.screen = screen
OnSheet == Free /\ game.sheet
\* In a frame that is not the program's last.
Looping == Free /\ game.running

-----------------------------------------------------------------------------
(* Deferred checkpoints *)

ResetCheckpoint(g) == [g EXCEPT !.pending = FALSE, !.due = 0, !.hard = 0]

\* Mutant: every kill starts the quiet period again.
DuePostponed(hard) == Quiet

DueAfter(hard) == Least(Quiet, hard)

RequestCheckpoint(g) ==
    LET hard == IF g.pending THEN g.hard ELSE Hard
    IN  IF g.active THEN g
        ELSE [g EXCEPT !.pending = TRUE, !.hard = hard, !.due = DueAfter(hard)]

ScheduleRetry(g) == [g EXCEPT !.pending = TRUE, !.hard = Hard, !.due = Retry]

-----------------------------------------------------------------------------
(* save_run: write the .tmp, then rename it *)

\* Mutant: the exit sheet is taken for a run in play.
CanSaveOnAnySheet(g) == ~g.active /\ (g.screen = "playing" \/ g.sheet)

\* In play, or on the exit sheet over it.
CanSave(g) == ~g.active /\ g.screen = "playing"

\* Nothing reads the world and the pending checkpoint that stay in memory.
Leave(g, screen) ==
    ResetCheckpoint([g EXCEPT !.screen = screen, !.sheet = FALSE, !.run = NoRun])

\* What a caller does when save_run has returned.
AfterSave(g, then, ok) ==
    CASE then = "sheet" -> [g EXCEPT !.sheet = TRUE]
      [] then = "title" /\ ok -> Leave(g, "title")
      [] then = "quit" /\ ok -> [g EXCEPT !.running = FALSE]
      [] OTHER -> g

\* The memory becomes g and save_run is called; it may refuse.
SaveMemory(g, then) ==
    /\ IF CanSave(g)
         THEN /\ game' = g
              /\ call' = [todo |-> <<"open", "write", "replace">>, doc |-> g.run,
                          then |-> then]
         ELSE /\ game' = AfterSave(g, then, FALSE)
              /\ UNCHANGED call
    /\ UNCHANGED <<files, faults>>

SaveRun(g, then) == SaveMemory(g, then) /\ UNCHANGED past

\* The run on the disk when it is not the one of the call.
Others == IF files.main.is = "saved" THEN {files.main.run.id} \ {call.doc.id} ELSE {}

Doing(step) == call.todo # <<>> /\ Head(call.todo) = step
OnToNext == call' = [call EXCEPT !.todo = Tail(@)]

\* Mutant: the save is written over the last one.
OpenInPlace ==
    /\ Doing("open")
    /\ files' = [files EXCEPT !.main = Torn]
    /\ OnToNext /\ UNCHANGED <<game, faults, past>>

Open ==
    /\ Doing("open")
    /\ files' = [files EXCEPT !.tmp = Torn]
    /\ OnToNext /\ UNCHANGED <<game, faults, past>>

Write ==
    /\ Doing("write")
    /\ files' = [files EXCEPT !.tmp = Saved(call.doc)]
    /\ OnToNext /\ UNCHANGED <<game, faults, past>>

Replace ==
    /\ Doing("replace")
    /\ files' = [files EXCEPT !.main = Saved(call.doc), !.tmp = Missing]
    /\ game' = ResetCheckpoint(AfterSave(game, call.then, TRUE))
    /\ call' = Idle
    /\ past' = [past EXCEPT
          !.kept = Saved(call.doc),
          !.owed = (@ \ Others) \cup ({call.doc.id} \cap Runs)]
    /\ UNCHANGED faults

SaveFails ==
    /\ faults < MaxFaults /\ faults' = faults + 1
    /\ Doing("open") \/ Doing("write") \/ Doing("replace")
    /\ game' = ScheduleRetry(AfterSave(game, call.then, FALSE))
    /\ call' = Idle
    /\ UNCHANGED <<files, past>>

-----------------------------------------------------------------------------
(* finalize_run and delete_save *)

\* Mutant: the save goes before the record is made.
DeleteFirst(g) ==
    IF g.active THEN <<"record">> ELSE <<"unlink", "unlink_tmp", "record">>

Ending(g) ==
    IF g.active THEN <<"record">> ELSE <<"record", "unlink", "unlink_tmp">>

\* The run is over, on the summary's screen: death, or victory.
EndRun ==
    /\ game' = [game EXCEPT !.history = @ \cup ({game.run.id} \cap Runs),
                            !.screen = "over", !.sheet = FALSE]
    /\ call' = [todo |-> Ending(game), doc |-> game.run, then |-> "stay"]
    /\ past' = [past EXCEPT !.kept = IF game.active THEN @ ELSE Missing]
    /\ UNCHANGED <<files, faults>>

Record ==
    /\ Doing("record")
    /\ files' = [files EXCEPT !.options = game.history]
    /\ OnToNext /\ UNCHANGED <<game, faults, past>>

\* save_options returns False and nobody looks.
RecordFails ==
    /\ faults < MaxFaults /\ faults' = faults + 1
    /\ Doing("record")
    /\ past' = [past EXCEPT !.owed = @ \ {call.doc.id}]
    /\ OnToNext /\ UNCHANGED <<files, game>>

Unlink ==
    /\ Doing("unlink")
    /\ files' = [files EXCEPT !.main = Missing]
    /\ past' = [past EXCEPT !.owed = @ \ Others]
    /\ OnToNext /\ UNCHANGED <<game, faults>>

UnlinkTmp ==
    /\ Doing("unlink_tmp")
    /\ files' = [files EXCEPT !.tmp = Missing]
    /\ game' = ResetCheckpoint(game)
    /\ past' = [past EXCEPT !.gone = @ \cup ({call.doc.id} \cap Runs)]
    /\ OnToNext /\ UNCHANGED faults

\* The first failing removal ends delete_save.
UnlinkFails ==
    /\ faults < MaxFaults /\ faults' = faults + 1
    /\ Doing("unlink") \/ Doing("unlink_tmp")
    /\ game' = ResetCheckpoint(game)
    /\ call' = Idle
    /\ UNCHANGED <<files, past>>

\* The list of system calls has been worked off.
Return ==
    /\ call.todo = <<>> /\ call # Idle
    /\ call' = Idle
    /\ UNCHANGED <<files, game, faults, past>>

-----------------------------------------------------------------------------
(* The title: recovery and loading *)

\* recover_interrupted_run_save
Recovered(f) ==
    CASE f.tmp.is # "saved" -> f
      [] f.tmp.is = "saved" /\ f.main.is = "saved" -> [f EXCEPT !.tmp = Missing]
      [] OTHER -> [f EXCEPT !.main = f.tmp, !.tmp = Missing]

\* The title asks save_exists on every frame; only a missing save is recovered.
SaveExists ==
    /\ At("title") /\ Looping
    /\ files.main = Missing /\ Recovered(files) # files
    /\ files' = Recovered(files)
    /\ UNCHANGED <<game, call, faults, past>>

LoadRun ==
    /\ At("title")
    /\ Recovered(files).main.is = "saved"
    /\ files' = Recovered(files)
    /\ game' = ResetCheckpoint([game EXCEPT !.screen = "playing",
                                            !.run = Recovered(files).main.run])
    /\ UNCHANGED <<call, faults, past>>

-----------------------------------------------------------------------------
(* The other screens *)

Show(g) == game' = g /\ UNCHANGED <<files, call, faults, past>>

NewRun == At("title") /\ Show(Leave(game, "select"))

\* restart
Start(r) ==
    /\ At("select")
    /\ r \notin past.started
    /\ SaveMemory([game EXCEPT !.run = [NoRun EXCEPT !.id = r], !.screen = "playing"], "stay")
    /\ past' = [past EXCEPT !.started = @ \cup {r}]

\* _dispatch_back: the command of a gamepad's or a phone's Back.
Back ==
    \/ At("select") /\ Show(Leave(game, "title"))
    \/ At("over") /\ Show(Leave(game, "select"))

\* mp_shutdown
Shut(g) == [g EXCEPT !.session = FALSE, !.active = FALSE]
EndToTitle(g) == Leave(Shut(g), "title")

\* The R key on the summary.
Again ==
    /\ At("over")
    /\ Show(IF game.active THEN EndToTitle(game) ELSE Leave(game, "select"))

-----------------------------------------------------------------------------
(* Play *)

Progressed(run) == [run EXCEPT !.progress = Least(@ + 1, MaxProgress)]

\* An ordinary enemy dies.
Slay ==
    /\ At("playing") /\ Looping
    /\ Show(RequestCheckpoint([game EXCEPT !.run = Progressed(@)]))

\* A floor, a boss, a purchase, a story choice: saved at once.
Advance ==
    /\ At("playing")
    /\ SaveRun([game EXCEPT !.run = Progressed(@)], "stay")

Fall == At("playing") /\ Looping /\ Show([game EXCEPT !.run.down = TRUE])

\* drink_potion asks only whether health is missing.
Drink ==
    /\ At("playing")
    /\ SaveRun([game EXCEPT !.run.down = FALSE], "stay")

\* The last player lies dead and the clip has played.
Die == At("playing") /\ Looping /\ game.run.down /\ EndRun

\* The last stairs or the last choice of the epilogue.
Win == At("playing") /\ EndRun

\* update: a due checkpoint is written, or its time comes nearer.
Frame ==
    /\ At("playing") /\ Looping
    /\ game.pending
    /\ IF game.due = 0 THEN ~game.active /\ SaveRun(game, "stay")
       ELSE Show([game EXCEPT !.due = @ - 1, !.hard = IF @ = 0 THEN 0 ELSE @ - 1])

-----------------------------------------------------------------------------
(* The exit sheet and the life of the program *)

RequestExit ==
    /\ Free /\ ~game.sheet
    /\ Show([game EXCEPT !.sheet = TRUE])

CancelExit == OnSheet /\ Show([game EXCEPT !.sheet = FALSE])

MainMenu ==
    /\ OnSheet
    /\ IF game.active \/ game.session THEN Show(EndToTitle(game))
       ELSE IF game.screen = "playing" THEN SaveRun(game, "title")
       ELSE Show(EndToTitle(game))

ConfirmExit ==
    /\ OnSheet
    /\ IF game.active \/ game.session THEN Show([Shut(game) EXCEPT !.running = FALSE])
       ELSE IF game.screen = "playing" THEN SaveRun(game, "quit")
       ELSE Show([game EXCEPT !.running = FALSE])

\* A phone puts the program into the background; ending it, or suspending a
\* handheld, leaves the screen as it is.
Background == Free /\ CanSave(game) /\ SaveRun(game, "sheet")
BackgroundCoop ==
    At("playing") /\ game.active /\ Show([game EXCEPT !.sheet = TRUE])
Terminating == Free /\ CanSave(game) /\ SaveRun(game, "stay")

Boot ==
    /\ game.screen = "off"
    /\ Show([Off EXCEPT !.screen = "title", !.running = TRUE, !.history = files.options])

\* The inputs of the frame are handled and the loop is left.
LoopEnds == Free /\ ~game.running /\ Show(Off)

Kill ==
    /\ game.screen # "off"
    /\ game' = Off /\ call' = Idle
    /\ UNCHANGED <<files, faults, past>>

-----------------------------------------------------------------------------
(* Co-op: a session may start a run and may end at any time *)

SetUp == At("title") /\ Show([Shut(game) EXCEPT !.screen = "lobby"])

Connect == At("lobby") /\ ~game.session /\ Show([game EXCEPT !.session = TRUE])

LeaveLobby ==
    /\ At("lobby")
    /\ \E screen \in {"lobby", "title"} : Show([Shut(game) EXCEPT !.screen = screen])

\* start_mp_run of a host, or the first floor a joiner gets.
CoopStarts ==
    /\ Looping /\ game.session /\ ~game.active
    /\ SaveRun([game EXCEPT !.active = TRUE, !.screen = "playing", !.sheet = FALSE,
                            !.run = [NoRun EXCEPT !.id = Coop]], "stay")

\* The host's run_ended reaches a joiner on any screen.
CoopEnds == OnSheet /\ Looping /\ game.active /\ game.screen = "playing" /\ EndRun

SessionEnds ==
    /\ Looping /\ game.session
    /\ Show(IF game.active THEN EndToTitle(game) ELSE Shut(game))

-----------------------------------------------------------------------------
Saving == Open \/ Write \/ Replace \/ SaveFails
Finishing == Record \/ RecordFails \/ Unlink \/ UnlinkTmp \/ UnlinkFails \/ Return

Screens == NewRun \/ Back \/ Again \/ (\E r \in Runs : Start(r))
Play == Slay \/ Advance \/ Fall \/ Drink \/ Die \/ Win
Sheet == RequestExit \/ CancelExit \/ MainMenu \/ ConfirmExit
Life == Boot \/ LoopEnds \/ Kill \/ Background \/ BackgroundCoop \/ Terminating
Session == SetUp \/ Connect \/ LeaveLobby \/ CoopStarts \/ CoopEnds \/ SessionEnds

Next == Saving \/ Finishing \/ SaveExists \/ LoadRun \/ Screens \/ Play \/ Frame
        \/ Sheet \/ Life \/ Session

\* Frames follow one another while a run is played, and a call of the one
\* thread goes on until it returns.  Nothing a player does is owed.
Fairness == WF_vars(Frame) /\ WF_vars(Saving \/ Finishing)

Spec == Init /\ [][Next]_vars
FairSpec == Spec /\ Fairness

-----------------------------------------------------------------------------
(* Properties *)

\* What the next start would offer to resume.
Found == Recovered(files).main

\* Killed at whatever point of a call, the program finds the last save that
\* returned true, whole, until its run ends (save_run, load_run).
SavedIsFound == past.kept # Missing => Found = past.kept

\* A run whose save was removed at its end is never offered again: not by a
\* checkpoint that was pending, not by the exit sheet over its summary, not by
\* what an earlier, failed save has left (delete_save, save_run).
EndedRunGone ==
    Found.is = "saved" => Found.run.id \notin past.gone

\* No run is lost without a trace: one that was ever saved is on the disk, in
\* the record of runs, or has given way to another run; unless the record
\* could not be written, which finalize_run does not look at.
NoRunVanishes ==
    \A r \in past.owed :
        \/ Found.is = "saved" /\ Found.run.id = r
        \/ r \in files.options

\* However thick the fight, a requested checkpoint of a run in play gets
\* written (RUN_CHECKPOINT_MAX_SECONDS, _schedule_failed_run_save_retry).
Wanting == game.running /\ game.pending /\ game.screen = "playing" /\ ~game.sheet /\ ~game.active
CheckpointWritten == Wanting ~> ~Wanting

\* A run that a player starts or resumes alone is not played in a session,
\* which would neither save nor remove it (game.py: "restarting a new descent
\* is a single-player entry point").
SinglePlayerEntry ==
    game.screen = "playing" /\ game.run.id \in Runs => ~game.active

=============================================================================
