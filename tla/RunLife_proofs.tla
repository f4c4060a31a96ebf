--------------------------- MODULE RunLife_proofs ---------------------------
(***************************************************************************)
(* RunLife for every set of runs, every limit and any number of failures:  *)
(* the last good save is found, an ended run is gone, and no run vanishes. *)
(*                                                                         *)
(* The invariant says, beside the types, which runs the files, the game    *)
(* and the call under way may name (OnlyLiving), how far the end of a run  *)
(* has come (Ended), that the save the player relies on is the main file   *)
(* (MainIsKept), and that a run owed to the player is the main file's or   *)
(* in the record (Accounted).                                              *)
(***************************************************************************)
EXTENDS RunLife, TLAPS

\* The runs a save may name: those started and not removed, and the session's.
Living == (past.started \ past.gone) \cup {Coop}

OnlyLiving ==
    /\ past.gone \subseteq past.started
    /\ \A file \in {files.main, files.tmp} :
          file.is = "saved" => file.run.id \in Living
    /\ game.screen = "playing" => game.run.id \in Living
    /\ call.todo \in SaveSteps => call.doc.id \in Living

Recording == {<<"record">>, <<"record", "unlink", "unlink_tmp">>}
Removing == EndSteps \ {<<"record">>}

Ended ==
    /\ call.todo \in EndSteps =>
          game.screen = "over" /\ call.doc.id \in past.started \cup {Coop}
    /\ call.todo = <<"unlink_tmp">> => files.main = Missing
    /\ call # Idle => game.screen # "off"
    /\ game.screen # "off" => files.options \subseteq game.history
    /\ call.todo \in Recording => call.doc.id \in game.history \cup {Coop}
    /\ call.todo = <<"unlink", "unlink_tmp">> =>
          call.doc.id \in files.options \/ call.doc.id \notin past.owed

MainIsKept ==
    past.kept # Missing => files.main = past.kept /\ call.todo \notin Removing

Accounted ==
    \A r \in past.owed :
        (files.main.is = "saved" /\ files.main.run.id = r) \/ r \in files.options

IInv == TypeOK /\ OnlyLiving /\ Ended /\ MainIsKept /\ Accounted

-----------------------------------------------------------------------------
(* The lists of steps *)

LEMMA Steps ==
    /\ Head(<<"open", "write", "replace">>) = "open"
    /\ Tail(<<"open", "write", "replace">>) = <<"write", "replace">>
    /\ Head(<<"write", "replace">>) = "write"
    /\ Tail(<<"write", "replace">>) = <<"replace">>
    /\ Head(<<"replace">>) = "replace"
    /\ Head(<<"record">>) = "record"
    /\ Tail(<<"record">>) = <<>>
    /\ Head(<<"record", "unlink", "unlink_tmp">>) = "record"
    /\ Tail(<<"record", "unlink", "unlink_tmp">>) = <<"unlink", "unlink_tmp">>
    /\ Head(<<"unlink", "unlink_tmp">>) = "unlink"
    /\ Tail(<<"unlink", "unlink_tmp">>) = <<"unlink_tmp">>
    /\ Head(<<"unlink_tmp">>) = "unlink_tmp"
    /\ Tail(<<"unlink_tmp">>) = <<>>
OBVIOUS

LEMMA Differ ==
    /\ \A todo \in SaveSteps : todo \notin EndSteps /\ todo # <<>>
    /\ \A todo \in EndSteps : todo # <<>>
    /\ <<"record">> # <<"record", "unlink", "unlink_tmp">>
    /\ <<"record">> # <<"unlink", "unlink_tmp">> /\ <<"record">> # <<"unlink_tmp">>
    /\ <<"record", "unlink", "unlink_tmp">> # <<"unlink", "unlink_tmp">>
    /\ <<"record", "unlink", "unlink_tmp">> # <<"unlink_tmp">>
    /\ <<"unlink", "unlink_tmp">> # <<"unlink_tmp">>
BY DEF SaveSteps, EndSteps

LEMMA AtStep ==
    ASSUME TypeOK
    PROVE /\ Doing("open") => call.todo = <<"open", "write", "replace">>
          /\ Doing("write") => call.todo = <<"write", "replace">>
          /\ Doing("replace") => call.todo = <<"replace">>
          /\ Doing("record") => call.todo \in Recording
          /\ Doing("unlink") => call.todo = <<"unlink", "unlink_tmp">>
          /\ Doing("unlink_tmp") => call.todo = <<"unlink_tmp">>
BY Steps DEF TypeOK, Doing, SaveSteps, EndSteps, Recording

-----------------------------------------------------------------------------
(* What the operators do to the game's memory *)

LEMMA NoRunType == NoRun \in RunType
BY LimitsAssumption DEF NoRun, RunType

\* h is g with, at most, another screen than play, and no other run in play.
Behaves(g, h) ==
    /\ h \in GameType
    /\ h.history = g.history
    /\ h.screen # "off"
    /\ h.screen = "playing" => g.screen = "playing" /\ h.run.id = g.run.id

LEMMA CheckpointBehaves ==
    ASSUME NEW g \in GameType, g.screen # "off"
    PROVE Behaves(g, ResetCheckpoint(g)) /\ Behaves(g, RequestCheckpoint(g))
          /\ Behaves(g, ScheduleRetry(g))
BY TimesAssumption
   DEF GameType, Behaves, ResetCheckpoint, RequestCheckpoint, ScheduleRetry, DueAfter, Least

LEMMA LeaveBehaves ==
    ASSUME NEW g \in GameType, NEW screen \in {"title", "select"}
    PROVE Behaves(g, Leave(g, screen))
BY NoRunType DEF GameType, Behaves, Leave, ResetCheckpoint

LEMMA ShutBehaves ==
    ASSUME NEW g \in GameType, g.screen # "off"
    PROVE Shut(g) \in GameType /\ Behaves(g, Shut(g)) /\ Behaves(g, EndToTitle(g))
<1>1. Shut(g) \in GameType /\ Behaves(g, Shut(g))
  BY DEF GameType, Behaves, Shut
<1>2. Behaves(Shut(g), EndToTitle(g))
  BY <1>1, LeaveBehaves DEF EndToTitle
<1> QED
  BY <1>1, <1>2 DEF Behaves

LEMMA AfterSaveBehaves ==
    ASSUME NEW g \in GameType, g.screen # "off", NEW then, NEW ok \in BOOLEAN
    PROVE Behaves(g, AfterSave(g, then, ok))
<1>1. Behaves(g, g) /\ Behaves(g, [g EXCEPT !.sheet = TRUE])
      /\ Behaves(g, [g EXCEPT !.running = FALSE])
  BY DEF GameType, Behaves
<1> QED
  BY <1>1, LeaveBehaves DEF AfterSave

LEMMA BehavesOn ==
    ASSUME NEW g, NEW h, NEW k, Behaves(g, h), Behaves(h, k)
    PROVE Behaves(g, k)
BY DEF Behaves

-----------------------------------------------------------------------------
(* Steps that leave the disk alone *)

LEMMA GameOnly ==
    ASSUME IInv, call = Idle, UNCHANGED <<files, call, faults, past>>,
           game' \in GameType,
           game'.screen = "playing" => game'.run.id \in Living,
           game'.screen # "off" => files.options \subseteq game'.history
    PROVE IInv'
<1> USE Differ DEF IInv
<1>1. TypeOK'
  BY DEF TypeOK
<1>2. OnlyLiving' /\ MainIsKept' /\ Accounted'
  BY DEF OnlyLiving, Living, MainIsKept, Accounted
<1>3. Ended'
  BY DEF Ended, Idle, Recording, EndSteps
<1> QED
  BY <1>1, <1>2, <1>3

LEMMA ShowBehaves ==
    ASSUME IInv, Free, NEW g, Behaves(game, g), Show(g)
    PROVE IInv'
<1>1. call = Idle /\ game.screen # "off" /\ UNCHANGED <<files, call, faults, past>> /\ game' = g
  BY DEF Free, Show
<1> QED
  BY <1>1, GameOnly DEF Behaves, IInv, OnlyLiving, Ended

\* save_run is called on a run in play, perhaps one that has just begun.
LEMMA SaveMemoryKeeps ==
    ASSUME IInv, Free, NEW g \in GameType, NEW then \in {"stay", "sheet", "title", "quit"},
           g.history = game.history, g.screen # "off",
           past' \in [started : SUBSET Runs, owed : SUBSET Runs, kept : Saves, gone : SUBSET Runs],
           past.started \subseteq past'.started, past'.gone = past.gone,
           past'.owed = past.owed, past'.kept = past.kept,
           g.screen = "playing" => g.run.id \in Living',
           SaveMemory(g, then)
    PROVE IInv'
<1> DEFINE todo == <<"open", "write", "replace">>
<1>1. call = Idle /\ game.screen # "off" /\ UNCHANGED <<files, faults>>
  BY DEF Free, SaveMemory
<1>2. /\ game' \in GameType /\ game'.history = game.history /\ game'.screen # "off"
      /\ game'.screen = "playing" => game'.run.id \in Living'
  <2>1. CASE CanSave(g)
    BY <2>1 DEF SaveMemory
  <2>2. CASE ~CanSave(g)
    <3>1. game' = AfterSave(g, then, FALSE)
      BY <2>2 DEF SaveMemory
    <3>2. Behaves(g, game')
      BY <3>1, AfterSaveBehaves
    <3> QED
      BY <3>2 DEF Behaves
  <2> QED
    BY <2>1, <2>2
<1>3. call' = Idle \/ (/\ call' = [todo |-> todo, doc |-> g.run, then |-> then]
                      /\ g.screen = "playing")
  BY <1>1 DEF SaveMemory, CanSave
<1>4. todo \in SaveSteps /\ todo \notin EndSteps /\ todo # <<>>
  BY Differ DEF SaveSteps
<1>5. call'.todo \in SaveSteps \cup {<<>>} /\ call'.todo \notin EndSteps
      /\ (call'.todo \in SaveSteps => call'.doc.id \in Living')
  BY <1>3, <1>4, Differ DEF Idle
<1>6. TypeOK'
  <2>1. g.run \in RunType
    BY DEF GameType
  <2>2. call' \in [todo : SaveSteps \cup EndSteps \cup {<<>>}, doc : RunType,
                  then : {"stay", "sheet", "title", "quit"}]
    BY <1>3, <1>4, <2>1, NoRunType DEF Idle
  <2> QED
    BY <1>1, <1>2, <2>2 DEF TypeOK, IInv
<1>7. OnlyLiving'
  BY <1>1, <1>2, <1>5 DEF IInv, OnlyLiving, Living
<1>8. Ended'
  <2>1. call'.todo \notin EndSteps
    BY <1>5
  <2> QED
    BY <1>1, <1>2, <2>1 DEF IInv, Ended, EndSteps, Recording
<1>9. MainIsKept' /\ Accounted'
  BY <1>1, <1>5 DEF IInv, MainIsKept, Accounted, Removing
<1> QED
  BY <1>6, <1>7, <1>8, <1>9 DEF IInv

LEMMA SaveRunKeeps ==
    ASSUME IInv, Free, NEW g, NEW then \in {"stay", "sheet", "title", "quit"},
           g \in GameType, g.history = game.history, g.screen # "off",
           g.screen = "playing" => g.run.id \in Living,
           SaveRun(g, then)
    PROVE IInv'
<1>1. UNCHANGED past /\ SaveMemory(g, then)
  BY DEF SaveRun
<1>2. past \in [started : SUBSET Runs, owed : SUBSET Runs, kept : Saves, gone : SUBSET Runs]
  BY DEF IInv, TypeOK
<1>3. Living' = Living
  BY <1>1 DEF Living
<1> QED
  BY <1>1, <1>2, <1>3, SaveMemoryKeeps

-----------------------------------------------------------------------------
(* The steps of save_run *)

LEMMA SavingKeeps ==
    ASSUME IInv, Saving
    PROVE IInv'
<1> USE DEF IInv
<1>1. CASE Open
  <2>1. /\ call.todo = <<"open", "write", "replace">>
        /\ call' = [call EXCEPT !.todo = <<"write", "replace">>]
        /\ files' = [files EXCEPT !.tmp = Torn] /\ UNCHANGED <<game, faults, past>>
    BY <1>1, AtStep, Steps DEF Open, OnToNext
  <2>2. TypeOK'
    BY <2>1 DEF TypeOK, SaveSteps
  <2>3. OnlyLiving'
    BY <2>1 DEF TypeOK, OnlyLiving, Living, SaveSteps, Torn
  <2>4. Ended' /\ MainIsKept' /\ Accounted'
    BY <2>1, Differ DEF TypeOK, Ended, MainIsKept, Accounted, SaveSteps, EndSteps, Recording,
       Removing, Idle
  <2> QED
    BY <2>2, <2>3, <2>4
<1>2. CASE Write
  <2>1. /\ call.todo = <<"write", "replace">> /\ call.todo \in SaveSteps
        /\ call' = [call EXCEPT !.todo = <<"replace">>]
        /\ files' = [files EXCEPT !.tmp = Saved(call.doc)] /\ UNCHANGED <<game, faults, past>>
    BY <1>2, AtStep, Steps DEF Write, OnToNext, SaveSteps
  <2>2. TypeOK'
    BY <2>1 DEF TypeOK, SaveSteps, Saves
  <2>3. OnlyLiving'
    BY <2>1 DEF TypeOK, OnlyLiving, Living, SaveSteps, Saved
  <2>4. Ended' /\ MainIsKept' /\ Accounted'
    BY <2>1, Differ DEF TypeOK, Ended, MainIsKept, Accounted, SaveSteps, EndSteps, Recording,
       Removing, Idle
  <2> QED
    BY <2>2, <2>3, <2>4
<1>3. CASE Replace
  <2> DEFINE g == ResetCheckpoint(AfterSave(game, call.then, TRUE))
  <2>1. /\ call.todo = <<"replace">> /\ call.todo \in SaveSteps /\ call # Idle
        /\ call.doc \in RunType /\ call.doc.id \in Living
        /\ files' = [files EXCEPT !.main = Saved(call.doc), !.tmp = Missing]
        /\ game' = g /\ call' = Idle /\ UNCHANGED faults
        /\ past' = [past EXCEPT !.kept = Saved(call.doc),
                      !.owed = (@ \ Others) \cup ({call.doc.id} \cap Runs)]
    BY <1>3, AtStep, Differ DEF Replace, SaveSteps, TypeOK, OnlyLiving, Idle
  <2>2. game.screen # "off" /\ Behaves(game, g)
    <3>1. game.screen # "off"
      BY <2>1 DEF Ended
    <3> DEFINE h == AfterSave(game, call.then, TRUE)
    <3>2. Behaves(game, h)
      BY <3>1, AfterSaveBehaves DEF TypeOK
    <3>3. Behaves(h, g)
      BY <3>2, CheckpointBehaves DEF Behaves
    <3> QED
      BY <3>1, <3>2, <3>3, BehavesOn
  <2>3. Saved(call.doc) \in Saves /\ Saved(call.doc).is = "saved"
        /\ Saved(call.doc).run = call.doc /\ Missing \in Saves /\ Missing.is = "missing"
    BY <2>1 DEF Saves, Saved, Missing
  <2>4. TypeOK'
    BY <2>1, <2>2, <2>3, NoRunType DEF TypeOK, Behaves, Idle
  <2>5. OnlyLiving'
    BY <2>1, <2>2, <2>3 DEF TypeOK, OnlyLiving, Living, Behaves, Idle, SaveSteps
  <2>6. Ended'
    BY <2>1, <2>2 DEF TypeOK, Ended, Behaves, Idle, EndSteps, Recording
  <2>7. MainIsKept'
    BY <2>1 DEF TypeOK, MainIsKept, Idle, Removing, EndSteps
  <2>8. Accounted'
    <3> SUFFICES ASSUME NEW r \in past'.owed
                 PROVE r = call.doc.id \/ r \in files.options
      BY <2>1, <2>3 DEF TypeOK, Accounted
    <3>1. CASE r \in past.owed \ Others
      BY <3>1 DEF Accounted, Others
    <3> QED
      BY <2>1, <3>1 DEF TypeOK
  <2> QED
    BY <2>4, <2>5, <2>6, <2>7, <2>8
<1>4. CASE SaveFails
  <2> DEFINE g == ScheduleRetry(AfterSave(game, call.then, FALSE))
  <2>1. /\ call # Idle /\ UNCHANGED <<files, past>> /\ game' = g /\ call' = Idle
        /\ faults' \in 0..MaxFaults
    BY <1>4, LimitsAssumption DEF SaveFails, TypeOK, Doing, Idle
  <2>2. Behaves(game, g)
    <3>1. game.screen # "off"
      BY <2>1 DEF Ended
    <3> DEFINE h == AfterSave(game, call.then, FALSE)
    <3>2. Behaves(game, h)
      BY <3>1, AfterSaveBehaves DEF TypeOK
    <3>3. Behaves(h, g)
      BY <3>2, CheckpointBehaves DEF Behaves
    <3> QED
      BY <3>2, <3>3, BehavesOn
  <2>3. TypeOK'
    BY <2>1, <2>2, NoRunType DEF TypeOK, Behaves, Idle
  <2>4. OnlyLiving'
    BY <2>1, <2>2 DEF OnlyLiving, Living, Behaves, Idle, SaveSteps
  <2>5. Ended'
    BY <2>1, <2>2 DEF Ended, Behaves, Idle, EndSteps, Recording
  <2>6. MainIsKept' /\ Accounted'
    BY <2>1 DEF MainIsKept, Accounted, Idle, Removing, EndSteps
  <2> QED
    BY <2>3, <2>4, <2>5, <2>6
<1> QED
  BY <1>1, <1>2, <1>3, <1>4 DEF Saving

-----------------------------------------------------------------------------
(* The end of a run *)

LEMMA EndRunKeeps ==
    ASSUME IInv, call = Idle, game.screen = "playing", EndRun
    PROVE IInv'
<1> USE DEF IInv
<1> DEFINE todo == Ending(game)
<1>1. /\ game' = [game EXCEPT !.history = @ \cup ({game.run.id} \cap Runs),
                              !.screen = "over", !.sheet = FALSE]
      /\ call' = [todo |-> todo, doc |-> game.run, then |-> "stay"]
      /\ past' = [past EXCEPT !.kept = IF game.active THEN @ ELSE Missing]
      /\ UNCHANGED <<files, faults>>
  BY DEF EndRun
<1>2. todo \in Recording /\ todo \in EndSteps /\ (game.active => todo \notin Removing)
      /\ todo # <<"unlink", "unlink_tmp">> /\ todo # <<"unlink_tmp">>
  BY Differ DEF Ending, Recording, EndSteps, Removing
<1>3. game.run \in RunType /\ game.run.id \in Living
  BY DEF TypeOK, GameType, OnlyLiving
<1>4. TypeOK'
  <2>1. game' \in GameType
    BY <1>1 DEF TypeOK, GameType
  <2>2. call' \in [todo : SaveSteps \cup EndSteps \cup {<<>>}, doc : RunType,
                  then : {"stay", "sheet", "title", "quit"}]
    BY <1>1, <1>2, <1>3
  <2>3. past' \in [started : SUBSET Runs, owed : SUBSET Runs, kept : Saves, gone : SUBSET Runs]
    BY <1>1 DEF TypeOK, Saves
  <2> QED
    BY <1>1, <2>1, <2>2, <2>3 DEF TypeOK
<1>5. /\ game'.screen = "over" /\ past'.gone = past.gone /\ past'.started = past.started
      /\ past'.owed = past.owed /\ call'.todo = todo /\ call'.doc = game.run
      /\ game'.history = game.history \cup ({game.run.id} \cap Runs)
  BY <1>1 DEF TypeOK, GameType
<1>6. OnlyLiving'
  BY <1>1, <1>2, <1>5, Differ DEF OnlyLiving, Living
<1>7. Ended'
  <2>1. game.run.id \in game'.history \cup {Coop}
    BY <1>3, <1>5 DEF TypeOK, Living
  <2> QED
    BY <1>1, <1>2, <1>3, <1>5, <2>1 DEF Ended, Living, TypeOK
<1>8. MainIsKept'
  BY <1>1, <1>2, <1>5 DEF MainIsKept, TypeOK
<1>9. Accounted'
  BY <1>1, <1>5 DEF Accounted
<1> QED
  BY <1>4, <1>6, <1>7, <1>8, <1>9

LEMMA FinishingKeeps ==
    ASSUME IInv, Finishing
    PROVE IInv'
<1> USE DEF IInv
<1> DEFINE rest == call'.todo
<1>1. CASE Record \/ RecordFails
  <2>1. /\ call.todo \in Recording /\ call.todo \in EndSteps
        /\ call' = [call EXCEPT !.todo = Tail(@)]
        /\ rest = <<>> \/ rest = <<"unlink", "unlink_tmp">>
        /\ rest = <<"unlink", "unlink_tmp">> => call.todo = <<"record", "unlink", "unlink_tmp">>
        /\ call'.doc = call.doc /\ UNCHANGED game /\ faults' \in 0..MaxFaults
    <3>1. /\ Doing("record") /\ call' = [call EXCEPT !.todo = Tail(@)] /\ UNCHANGED game
          /\ faults' = faults \/ (faults < MaxFaults /\ faults' = faults + 1)
      BY <1>1 DEF Record, RecordFails, OnToNext
    <3>2. call.todo \in Recording
      BY <3>1, AtStep
    <3>3. faults' \in 0..MaxFaults
      BY <3>1, LimitsAssumption DEF TypeOK
    <3>4. rest = Tail(call.todo) /\ call'.doc = call.doc
      BY <3>1 DEF TypeOK
    <3> QED
      BY <3>1, <3>2, <3>3, <3>4, Steps, Differ DEF Recording, EndSteps
  <2>2. /\ rest \notin SaveSteps /\ rest \notin Recording /\ rest # <<"unlink_tmp">>
        /\ rest \in EndSteps \cup {<<>>}
        /\ rest \in EndSteps => call.todo \in Removing
    BY <2>1, Differ DEF SaveSteps, EndSteps, Recording, Removing
  <2>3. game.screen = "over" /\ call.doc.id \in past.started \cup {Coop}
        /\ call.doc.id \in game.history \cup {Coop} /\ files.options \subseteq game.history
    BY <2>1 DEF Ended
  <2>4. CASE Record
    <3>1. files' = [files EXCEPT !.options = game.history] /\ UNCHANGED past
      BY <2>4 DEF Record
    <3>2. TypeOK'
      BY <2>1, <2>2, <3>1 DEF TypeOK, GameType
    <3>3. OnlyLiving' /\ Accounted'
      BY <2>1, <2>2, <2>3, <3>1 DEF OnlyLiving, Living, Accounted, TypeOK
    <3>4. Ended'
      <4>1. Coop \notin past.owed
        BY RunsAssumption DEF TypeOK
      <4> QED
        BY <2>1, <2>2, <2>3, <3>1, <4>1 DEF Ended, TypeOK
    <3>5. MainIsKept'
      BY <2>1, <2>2, <3>1 DEF MainIsKept, TypeOK, Removing
    <3> QED
      BY <3>2, <3>3, <3>4, <3>5
  <2>5. CASE RecordFails
    <3>1. past' = [past EXCEPT !.owed = @ \ {call.doc.id}] /\ UNCHANGED files
      BY <2>5 DEF RecordFails
    <3>2. TypeOK'
      BY <2>1, <2>2, <3>1 DEF TypeOK
    <3>3. OnlyLiving' /\ Accounted'
      BY <2>1, <2>2, <2>3, <3>1 DEF OnlyLiving, Living, Accounted, TypeOK
    <3>4. Ended'
      BY <2>1, <2>2, <2>3, <3>1 DEF Ended, TypeOK
    <3>5. MainIsKept'
      BY <2>1, <2>2, <3>1 DEF MainIsKept, TypeOK, Removing
    <3> QED
      BY <3>2, <3>3, <3>4, <3>5
  <2> QED
    BY <1>1, <2>4, <2>5
<1>2. CASE Unlink
  <2>1. /\ call.todo = <<"unlink", "unlink_tmp">> /\ call.todo \in EndSteps /\ call.todo \in Removing
        /\ call' = [call EXCEPT !.todo = <<"unlink_tmp">>] /\ rest = <<"unlink_tmp">>
        /\ call'.doc = call.doc
        /\ files' = [files EXCEPT !.main = Missing] /\ UNCHANGED <<game, faults>>
        /\ past' = [past EXCEPT !.owed = @ \ Others]
    BY <1>2, AtStep, Steps, Differ DEF Unlink, OnToNext, EndSteps, Removing, TypeOK
  <2>2. /\ <<"unlink_tmp">> \in EndSteps /\ <<"unlink_tmp">> \notin SaveSteps
        /\ <<"unlink_tmp">> \notin Recording /\ <<"unlink_tmp">> # <<"unlink", "unlink_tmp">>
    BY Differ DEF EndSteps, Recording
  <2>3. TypeOK'
    BY <2>1, <2>2 DEF TypeOK, Saves
  <2>4. OnlyLiving'
    BY <2>1, <2>2 DEF TypeOK, OnlyLiving, Living, Missing
  <2>5. Ended'
    BY <2>1, <2>2 DEF TypeOK, Ended, Idle
  <2>6. MainIsKept'
    BY <2>1 DEF MainIsKept, TypeOK
  <2>7. Accounted'
    BY <2>1 DEF Accounted, Others, Ended, TypeOK
  <2> QED
    BY <2>3, <2>4, <2>5, <2>6, <2>7
<1>3. CASE UnlinkTmp
  <2>1. /\ call.todo = <<"unlink_tmp">> /\ call.todo \in EndSteps /\ call.todo \in Removing
        /\ call' = [call EXCEPT !.todo = <<>>] /\ rest = <<>>
        /\ files' = [files EXCEPT !.tmp = Missing] /\ game' = ResetCheckpoint(game)
        /\ UNCHANGED faults
        /\ past' = [past EXCEPT !.gone = @ \cup ({call.doc.id} \cap Runs)]
    BY <1>3, AtStep, Steps, Differ DEF UnlinkTmp, OnToNext, EndSteps, Removing, TypeOK
  <2>2. game.screen = "over" /\ files.main = Missing /\ call.doc.id \in past.started \cup {Coop}
    BY <2>1 DEF Ended
  <2>3. Behaves(game, game') /\ game'.screen # "playing"
    BY <2>1, <2>2, CheckpointBehaves DEF TypeOK, Behaves
  <2>4. TypeOK'
    BY <2>1, <2>3 DEF TypeOK, Behaves, Saves
  <2>5. OnlyLiving'
    BY <2>1, <2>2, <2>3, RunsAssumption, Differ DEF TypeOK, OnlyLiving, Living, Missing
  <2>6. Ended'
    <3>1. files'.options = files.options /\ game'.history = game.history /\ game'.screen # "off"
      BY <2>1, <2>3 DEF TypeOK, Behaves
    <3> QED
      BY <2>1, <2>2, <3>1, Differ DEF Ended, EndSteps, Recording
  <2>7. MainIsKept'
    BY <2>1 DEF MainIsKept, TypeOK
  <2>8. Accounted'
    BY <2>1 DEF Accounted, TypeOK
  <2> QED
    BY <2>4, <2>5, <2>6, <2>7, <2>8
<1>4. CASE UnlinkFails
  <2>1. /\ call' = Idle /\ game' = ResetCheckpoint(game) /\ UNCHANGED <<files, past>>
        /\ faults' \in 0..MaxFaults /\ call.todo \in EndSteps
    <3>1. /\ Doing("unlink") \/ Doing("unlink_tmp")
          /\ call' = Idle /\ game' = ResetCheckpoint(game) /\ UNCHANGED <<files, past>>
          /\ faults < MaxFaults /\ faults' = faults + 1
      BY <1>4 DEF UnlinkFails
    <3>2. call.todo \in EndSteps
      BY <3>1, AtStep DEF EndSteps
    <3>3. faults' \in 0..MaxFaults
      BY <3>1, LimitsAssumption DEF TypeOK
    <3> QED
      BY <3>1, <3>2, <3>3
  <2>2. Behaves(game, game') /\ game'.screen # "playing"
    BY <2>1, CheckpointBehaves DEF TypeOK, Behaves, Ended
  <2>3. TypeOK'
    BY <2>1, <2>2, NoRunType DEF TypeOK, Behaves, Idle
  <2>4. OnlyLiving'
    BY <2>1, <2>2 DEF OnlyLiving, Living, Idle, SaveSteps
  <2>5. Ended'
    BY <2>1, <2>2 DEF Ended, Behaves, Idle, EndSteps, Recording
  <2>6. MainIsKept' /\ Accounted'
    BY <2>1 DEF MainIsKept, Accounted, Idle, Removing, EndSteps
  <2> QED
    BY <2>3, <2>4, <2>5, <2>6
<1>5. CASE Return
  <2>1. call' = Idle /\ UNCHANGED <<files, game, faults, past>>
    BY <1>5 DEF Return
  <2>2. TypeOK'
    BY <2>1, NoRunType DEF TypeOK, Idle
  <2>3. OnlyLiving' /\ MainIsKept' /\ Accounted'
    BY <2>1 DEF OnlyLiving, Living, MainIsKept, Accounted, Idle, SaveSteps, Removing, EndSteps
  <2>4. Ended'
    BY <2>1 DEF Ended, Idle, EndSteps, Recording
  <2> QED
    BY <2>2, <2>3, <2>4
<1> QED
  BY <1>1, <1>2, <1>3, <1>4, <1>5 DEF Finishing

-----------------------------------------------------------------------------
(* Recovery and loading *)

\* Recovery keeps a save that is there, and makes up none.
LEMMA RecoveredIs ==
    ASSUME TypeOK
    PROVE /\ Recovered(files) \in [main : Saves, tmp : Saves \cup {Torn}, options : SUBSET Runs]
          /\ Recovered(files).options = files.options
          /\ files.main.is = "saved" => Recovered(files).main = files.main
          /\ Recovered(files).main \in {files.main, files.tmp}
          /\ Recovered(files).tmp \in {files.tmp, Missing}
<1>1. files \in [main : Saves, tmp : Saves \cup {Torn}, options : SUBSET Runs]
  BY DEF TypeOK
<1>2. /\ Missing \in Saves /\ Missing.is = "missing" /\ Torn.is = "torn"
      /\ \A s \in Saves : s = Missing \/ s.is = "saved"
  BY DEF Saves, Missing, Torn, Saved
<1>3. CASE files.tmp.is # "saved"
  BY <1>1, <1>3 DEF Recovered
<1>4. CASE files.tmp.is = "saved" /\ files.main.is = "saved"
  BY <1>1, <1>2, <1>4 DEF Recovered
<1>5. CASE files.tmp.is = "saved" /\ files.main.is # "saved"
  <2>1. files.tmp \in Saves
    BY <1>1, <1>2, <1>5
  <2> QED
    BY <1>1, <1>2, <1>5, <2>1 DEF Recovered
<1> QED
  BY <1>3, <1>4, <1>5

LEMMA RecoveryKeeps ==
    ASSUME IInv, call = Idle, files' = Recovered(files), game' \in GameType,
           game'.history = game.history, game'.screen # "off", game.screen # "off",
           game'.screen = "playing" => game'.run.id \in Living,
           UNCHANGED <<call, faults, past>>
    PROVE IInv'
<1> USE DEF IInv
<1>1. /\ files' \in [main : Saves, tmp : Saves \cup {Torn}, options : SUBSET Runs]
      /\ files'.options = files.options
      /\ files.main.is = "saved" => files'.main = files.main
      /\ files'.main \in {files.main, files.tmp} /\ files'.tmp \in {files.tmp, Missing}
  BY RecoveredIs
<1>2. call.todo \notin SaveSteps \cup EndSteps
  BY Differ DEF Idle
<1>3. TypeOK'
  BY <1>1 DEF TypeOK
<1>4. OnlyLiving'
  BY <1>1, <1>2 DEF OnlyLiving, Living, Missing
<1>5. Ended'
  BY <1>1, <1>2 DEF Ended, EndSteps, Recording
<1>6. MainIsKept'
  <2>1. past.kept # Missing => past.kept.is = "saved"
    BY DEF TypeOK, Saves, Saved
  <2> QED
    BY <1>1, <1>2, <2>1 DEF MainIsKept, Removing
<1>7. Accounted'
  BY <1>1 DEF Accounted
<1> QED
  BY <1>3, <1>4, <1>5, <1>6, <1>7

LEMMA RecoveringKeeps ==
    ASSUME IInv, SaveExists \/ LoadRun
    PROVE IInv'
<1> USE DEF IInv
<1>1. CASE SaveExists
  BY <1>1, RecoveryKeeps DEF SaveExists, At, Free, TypeOK, OnlyLiving
<1>2. CASE LoadRun
  <2> DEFINE run == Recovered(files).main.run
  <2> DEFINE g == [game EXCEPT !.screen = "playing", !.run = run]
  <2>1. /\ call = Idle /\ game.screen # "off" /\ Recovered(files).main.is = "saved"
        /\ files' = Recovered(files) /\ game' = ResetCheckpoint(g)
        /\ UNCHANGED <<call, faults, past>>
    BY <1>2 DEF LoadRun, At, Free
  <2>2. run \in RunType /\ run.id \in Living
    BY <2>1, RecoveredIs DEF Saves, Saved, Missing, Torn, OnlyLiving
  <2>3. g \in GameType /\ g.screen # "off" /\ g.history = game.history /\ g.run = run
    BY <2>2 DEF TypeOK, GameType
  <2>4. Behaves(g, game')
    BY <2>1, <2>3, CheckpointBehaves
  <2> QED
    BY <2>1, <2>2, <2>3, <2>4, RecoveryKeeps DEF Behaves
<1> QED
  BY <1>1, <1>2

-----------------------------------------------------------------------------
(* The screens, play, the exit sheet, the life of the program, the session *)

LEMMA ScreensKeep ==
    ASSUME IInv, Screens
    PROVE IInv'
<1> USE DEF IInv
<1>0. game \in GameType
  BY DEF TypeOK
<1>1. CASE NewRun
  BY <1>0, <1>1, LeaveBehaves, ShowBehaves DEF NewRun, At
<1>2. CASE Back
  BY <1>0, <1>2, LeaveBehaves, ShowBehaves DEF Back, At
<1>3. CASE Again
  <2>1. Free /\ game.screen # "off"
    BY <1>3 DEF Again, At, Free
  <2>2. \E g \in {EndToTitle(game), Leave(game, "select")} : Show(g)
    BY <1>3 DEF Again
  <2> QED
    BY <1>0, <2>1, <2>2, LeaveBehaves, ShutBehaves, ShowBehaves
<1>4. ASSUME NEW r \in Runs, Start(r)
      PROVE IInv'
  <2> DEFINE g == [game EXCEPT !.run = [NoRun EXCEPT !.id = r], !.screen = "playing"]
  <2>1. /\ Free /\ r \notin past.started /\ SaveMemory(g, "stay")
        /\ past' = [past EXCEPT !.started = @ \cup {r}]
    BY <1>4 DEF Start, At
  <2>2. [NoRun EXCEPT !.id = r] \in RunType
    BY NoRunType DEF RunType
  <2>3. g \in GameType /\ g.history = game.history /\ g.screen # "off" /\ g.run.id = r
    BY <1>0, <2>2 DEF GameType, NoRun
  <2>4. /\ past' \in [started : SUBSET Runs, owed : SUBSET Runs, kept : Saves, gone : SUBSET Runs]
        /\ past.started \subseteq past'.started /\ r \in past'.started
        /\ past'.gone = past.gone /\ past'.owed = past.owed /\ past'.kept = past.kept
    BY <2>1 DEF TypeOK
  <2>5. g.run.id \in Living'
    BY <2>1, <2>3, <2>4 DEF Living, OnlyLiving
  <2> QED
    BY <2>1, <2>3, <2>4, <2>5, SaveMemoryKeeps
<1> QED
  BY <1>1, <1>2, <1>3, <1>4 DEF Screens

LEMMA ProgressedRun ==
    ASSUME NEW run \in RunType
    PROVE Progressed(run) \in RunType /\ Progressed(run).id = run.id
BY LimitsAssumption DEF RunType, Progressed, Least

LEMMA PlayKeeps ==
    ASSUME IInv, Play \/ Frame
    PROVE IInv'
<1> USE DEF IInv
<1>0. game \in GameType /\ (game.screen = "playing" => game.run.id \in Living)
  BY DEF TypeOK, OnlyLiving
<1>1. /\ [game EXCEPT !.run = Progressed(@)] \in GameType
      /\ [game EXCEPT !.run = Progressed(@)].run.id = game.run.id
  BY <1>0, ProgressedRun DEF GameType
<1>2. CASE Slay
  <2> DEFINE g == [game EXCEPT !.run = Progressed(@)]
  <2>1. Free /\ game.screen = "playing" /\ Show(RequestCheckpoint(g))
    BY <1>2 DEF Slay, At
  <2>2. Behaves(game, g) /\ Behaves(g, RequestCheckpoint(g))
    BY <1>0, <1>1, <2>1, CheckpointBehaves DEF Behaves, GameType
  <2> QED
    BY <2>1, <2>2, BehavesOn, ShowBehaves
<1>3. CASE Advance
  BY <1>0, <1>1, <1>3, SaveRunKeeps DEF Advance, At, Free, GameType
<1>4. CASE Fall
  <2>1. Behaves(game, [game EXCEPT !.run.down = TRUE])
    BY <1>0, <1>4 DEF Behaves, GameType, RunType, Fall, At
  <2> QED
    BY <1>4, <2>1, ShowBehaves DEF Fall, At
<1>5. CASE Drink
  <2> DEFINE g == [game EXCEPT !.run.down = FALSE]
  <2>1. g \in GameType /\ g.history = game.history /\ g.screen = game.screen
        /\ g.run.id = game.run.id
    BY <1>0 DEF GameType, RunType
  <2> QED
    BY <1>0, <1>5, <2>1, SaveRunKeeps DEF Drink, At, Free
<1>6. CASE Die \/ Win
  BY <1>6, EndRunKeeps DEF Die, Win, At, Free
<1>7. CASE Frame
  <2>1. Free /\ game.screen = "playing"
    BY <1>7 DEF Frame, At
  <2>2. CASE SaveRun(game, "stay")
    BY <1>0, <2>1, <2>2, SaveRunKeeps DEF Free
  <2>3. CASE game.due # 0 /\ Show([game EXCEPT !.due = @ - 1, !.hard = IF @ = 0 THEN 0 ELSE @ - 1])
    <3>1. [game EXCEPT !.due = @ - 1, !.hard = IF @ = 0 THEN 0 ELSE @ - 1] \in GameType
      <4>1. game.due - 1 \in Nat /\ (IF game.hard = 0 THEN 0 ELSE game.hard - 1) \in Nat
        BY <1>0, <2>3 DEF GameType
      <4> QED
        BY <1>0, <4>1 DEF GameType
    <3>2. Behaves(game, [game EXCEPT !.due = @ - 1, !.hard = IF @ = 0 THEN 0 ELSE @ - 1])
      BY <1>0, <2>1, <3>1 DEF Behaves, GameType
    <3> QED
      BY <2>1, <2>3, <3>2, ShowBehaves
  <2> QED
    BY <1>7, <2>2, <2>3 DEF Frame
<1> QED
  BY <1>2, <1>3, <1>4, <1>5, <1>6, <1>7 DEF Play

LEMMA SheetKeeps ==
    ASSUME IInv, Sheet
    PROVE IInv'
<1> USE DEF IInv
<1>0. game \in GameType /\ (game.screen = "playing" => game.run.id \in Living)
  BY DEF TypeOK, OnlyLiving
<1>1. Free /\ game.screen # "off"
  BY DEF Sheet, RequestExit, CancelExit, MainMenu, ConfirmExit, OnSheet, Free
<1>2. /\ Behaves(game, [game EXCEPT !.sheet = TRUE])
      /\ Behaves(game, [game EXCEPT !.sheet = FALSE])
      /\ Behaves(game, [game EXCEPT !.running = FALSE])
  BY <1>0, <1>1 DEF Behaves, GameType
<1>3. Behaves(game, EndToTitle(game)) /\ Behaves(game, [Shut(game) EXCEPT !.running = FALSE])
  <2>1. Behaves(game, EndToTitle(game)) /\ Behaves(game, Shut(game))
    BY <1>0, <1>1, ShutBehaves
  <2>2. Behaves(Shut(game), [Shut(game) EXCEPT !.running = FALSE])
    BY <2>1 DEF Behaves, GameType
  <2> QED
    BY <2>1, <2>2, BehavesOn
<1>4. CASE RequestExit \/ CancelExit
  BY <1>1, <1>2, <1>4, ShowBehaves DEF RequestExit, CancelExit
<1>5. CASE MainMenu
  <2>1. CASE Show(EndToTitle(game))
    BY <1>1, <1>3, <2>1, ShowBehaves
  <2>2. CASE SaveRun(game, "title")
    BY <1>0, <1>1, <2>2, SaveRunKeeps
  <2> QED
    BY <1>5, <2>1, <2>2 DEF MainMenu
<1>6. CASE ConfirmExit
  <2>1. CASE Show([Shut(game) EXCEPT !.running = FALSE]) \/ Show([game EXCEPT !.running = FALSE])
    BY <1>1, <1>2, <1>3, <2>1, ShowBehaves
  <2>2. CASE SaveRun(game, "quit")
    BY <1>0, <1>1, <2>2, SaveRunKeeps
  <2> QED
    BY <1>6, <2>1, <2>2 DEF ConfirmExit
<1> QED
  BY <1>4, <1>5, <1>6 DEF Sheet

LEMMA OffType == Off \in GameType /\ Off.screen = "off"
BY NoRunType DEF Off, GameType

LEMMA LifeKeeps ==
    ASSUME IInv, Life
    PROVE IInv'
<1> USE DEF IInv
<1>0. game \in GameType /\ (game.screen = "playing" => game.run.id \in Living)
  BY DEF TypeOK, OnlyLiving
<1>1. CASE Boot
  <2> DEFINE g == [Off EXCEPT !.screen = "title", !.running = TRUE, !.history = files.options]
  <2>1. /\ game' = g /\ UNCHANGED <<files, call, faults, past>> /\ call = Idle
    BY <1>1 DEF Boot, Show, Ended
  <2>2. g \in GameType /\ g.screen = "title" /\ g.history = files.options
    BY OffType DEF GameType, TypeOK, Off
  <2> QED
    BY <2>1, <2>2, GameOnly
<1>2. CASE LoopEnds
  BY <1>2, OffType, GameOnly DEF LoopEnds, Free, Show
<1>3. CASE Kill
  <2>1. game' = Off /\ call' = Idle /\ UNCHANGED <<files, faults, past>>
    BY <1>3 DEF Kill
  <2>2. call'.todo \notin SaveSteps \cup EndSteps
    BY <2>1, Differ DEF Idle
  <2>3. TypeOK'
    BY <2>1, OffType, NoRunType DEF TypeOK, Idle
  <2>4. OnlyLiving' /\ MainIsKept' /\ Accounted'
    BY <2>1, <2>2, OffType DEF OnlyLiving, Living, MainIsKept, Accounted, Removing
  <2>5. Ended'
    BY <2>1, <2>2, OffType DEF Ended, EndSteps, Recording
  <2> QED
    BY <2>3, <2>4, <2>5
<1>4. CASE Background \/ Terminating
  BY <1>0, <1>4, SaveRunKeeps DEF Background, Terminating, Free
<1>5. CASE BackgroundCoop
  <2>1. Free /\ game.screen # "off" /\ Show([game EXCEPT !.sheet = TRUE])
    BY <1>5 DEF BackgroundCoop, At, Free
  <2>2. Behaves(game, [game EXCEPT !.sheet = TRUE])
    BY <1>0, <2>1 DEF Behaves, GameType
  <2> QED
    BY <2>1, <2>2, ShowBehaves
<1> QED
  BY <1>1, <1>2, <1>3, <1>4, <1>5 DEF Life

LEMMA SessionKeeps ==
    ASSUME IInv, Session
    PROVE IInv'
<1> USE DEF IInv
<1>0. game \in GameType
  BY DEF TypeOK
<1>1. CASE SetUp \/ LeaveLobby
  <2>1. Free /\ game.screen # "off"
    BY <1>1 DEF SetUp, LeaveLobby, At, Free
  <2>2. \E screen \in {"lobby", "title"} : Show([Shut(game) EXCEPT !.screen = screen])
    BY <1>1 DEF SetUp, LeaveLobby
  <2>3. PICK screen \in {"lobby", "title"} : Show([Shut(game) EXCEPT !.screen = screen])
    BY <2>2
  <2>4. Behaves(game, [Shut(game) EXCEPT !.screen = screen])
    BY <1>0, <2>1, <2>3, ShutBehaves DEF Behaves, GameType
  <2> QED
    BY <2>1, <2>3, <2>4, ShowBehaves
<1>2. CASE Connect
  <2>1. Free /\ game.screen # "off" /\ Show([game EXCEPT !.session = TRUE])
    BY <1>2 DEF Connect, At, Free
  <2>2. Behaves(game, [game EXCEPT !.session = TRUE])
    BY <1>0, <2>1 DEF Behaves, GameType
  <2> QED
    BY <2>1, <2>2, ShowBehaves
<1>3. CASE CoopStarts
  <2> DEFINE g == [game EXCEPT !.active = TRUE, !.screen = "playing", !.sheet = FALSE,
                               !.run = [NoRun EXCEPT !.id = Coop]]
  <2>1. Free /\ SaveRun(g, "stay")
    BY <1>3 DEF CoopStarts, Looping
  <2>2. [NoRun EXCEPT !.id = Coop] \in RunType
    BY NoRunType DEF RunType
  <2>3. g \in GameType /\ g.history = game.history /\ g.screen # "off" /\ g.run.id = Coop
    BY <1>0, <2>2 DEF GameType, NoRun
  <2>4. Coop \in Living
    BY DEF Living
  <2> QED
    BY <2>1, <2>3, <2>4, SaveRunKeeps
<1>4. CASE CoopEnds
  BY <1>4, EndRunKeeps DEF CoopEnds, OnSheet, Free
<1>5. CASE SessionEnds
  <2>1. Free /\ game.screen # "off"
    BY <1>5 DEF SessionEnds, Looping, Free
  <2>2. Show(EndToTitle(game)) \/ Show(Shut(game))
    BY <1>5 DEF SessionEnds
  <2> QED
    BY <1>0, <2>1, <2>2, ShutBehaves, ShowBehaves
<1> QED
  BY <1>1, <1>2, <1>3, <1>4, <1>5 DEF Session

-----------------------------------------------------------------------------
(* The theorems *)

LEMMA InitHolds == Init => IInv
<1> SUFFICES ASSUME Init PROVE IInv
  OBVIOUS
<1>1. call = Idle /\ call.todo \notin SaveSteps \cup EndSteps
  BY Differ DEF Init, Idle
<1>2. TypeOK
  BY LimitsAssumption, OffType, NoRunType DEF Init, TypeOK, Idle, Saves
<1>3. OnlyLiving /\ MainIsKept /\ Accounted
  BY <1>1, OffType DEF Init, OnlyLiving, MainIsKept, Accounted, Missing
<1>4. Ended
  BY <1>1, OffType DEF Init, Ended, EndSteps, Recording
<1> QED
  BY <1>2, <1>3, <1>4 DEF IInv

LEMMA StepHolds == IInv /\ [Next]_vars => IInv'
<1> SUFFICES ASSUME IInv, [Next]_vars PROVE IInv'
  OBVIOUS
<1>1. CASE UNCHANGED vars
  BY <1>1 DEF vars, IInv, TypeOK, OnlyLiving, Living, Ended, MainIsKept, Accounted
<1>2. CASE Next
  BY <1>2, SavingKeeps, FinishingKeeps, RecoveringKeeps, ScreensKeep, PlayKeeps, SheetKeeps,
     LifeKeeps, SessionKeeps DEF Next
<1> QED
  BY <1>1, <1>2

\* The files, the memory and the call under way keep their shapes, whatever
\* fails and wherever the program is killed (save_system.py, run_flow.py).
THEOREM TypesHold == Spec => []TypeOK
BY InitHolds, StepHolds, PTL DEF Spec, IInv

\* The last save that returned true is the one the next start offers, whole,
\* until its run ends, whichever system calls fail and between whichever two
\* the program is killed (save_run, recover_interrupted_run_save).
THEOREM SavedIsFoundHolds == Spec => []SavedIsFound
<1>1. IInv => SavedIsFound
  <2> SUFFICES ASSUME IInv, past.kept # Missing PROVE Found = past.kept
    BY DEF SavedIsFound
  <2>1. files.main = past.kept /\ past.kept.is = "saved"
    BY DEF IInv, MainIsKept, TypeOK, Saves, Saved
  <2> QED
    BY <2>1, RecoveredIs DEF IInv, Found
<1> QED
  BY <1>1, InitHolds, StepHolds, PTL DEF Spec

\* A run whose save was removed at its end is never offered again, by no
\* screen, pending checkpoint, session or temporary file (finalize_run).
THEOREM EndedRunGoneHolds == Spec => []EndedRunGone
<1>1. IInv => EndedRunGone
  <2> SUFFICES ASSUME IInv, Found.is = "saved" PROVE Found.run.id \notin past.gone
    BY DEF EndedRunGone
  <2>1. Found.run.id \in Living
    BY RecoveredIs DEF IInv, Found, OnlyLiving
  <2> QED
    BY <2>1, RunsAssumption DEF Living, IInv, TypeOK
<1> QED
  BY <1>1, InitHolds, StepHolds, PTL DEF Spec

\* A run that was ever saved is on the disk, in the record of runs, or has
\* given way to another, unless the record could not be written (save_run,
\* finalize_run, delete_save).
THEOREM NoRunVanishesHolds == Spec => []NoRunVanishes
<1>1. IInv => NoRunVanishes
  <2> SUFFICES ASSUME IInv, NEW r \in past.owed
               PROVE (Found.is = "saved" /\ Found.run.id = r) \/ r \in files.options
    BY DEF NoRunVanishes
  <2> QED
    BY RecoveredIs DEF IInv, Accounted, Found
<1> QED
  BY <1>1, InitHolds, StepHolds, PTL DEF Spec
=============================================================================
