----------------------- MODULE ProfileDocument_proofs -----------------------
(***************************************************************************)
(* ProfileDocument for every set of identities and bodies, every bound and *)
(* every limit on the faults.                                              *)
(*                                                                         *)
(* The inductive invariant has four layers.  Types and Control: which job  *)
(* a call runs and how far it is.  Revisions: a write carries a revision   *)
(* above everything confirmed.  Files, while nothing disturbs the disk:    *)
(* the order of the revisions under the three names in every directory a   *)
(* crash can leave, and where the confirmed document is.  Copies, while    *)
(* nothing failed: two files at least as new as the backup's document.     *)
(***************************************************************************)
EXTENDS ProfileDocument, TLAPS

(* The types, and how far the call in progress is *)

Contents == Docs \cup {Missing, Torn}
Views == [Names -> Contents]

Writing == {"stage", "staged", "retire", "retired", "promote", "promoted"}
Displacing == {"displace", "displaced"}
Stages == Writing \cup Displacing \cup {"idle", "scan", "quarantine", "quarantined", "done"}
\* The stages of each kind of job.
StagesOf(kind) ==
  CASE kind = "none"       -> {"idle"}
    [] kind = "write"      -> Writing \cup Displacing \cup {"done"}
    [] kind = "recover"    -> Writing \cup Displacing \cup {"scan", "done"}
    [] kind = "quarantine" -> {"quarantine", "quarantined", "done"}

\* The names a clear still has to remove.
Lefts == {<<>>, <<"bak">>, <<"tmp", "bak">>, Artifacts}

Jobs ==
  {j \in [stage: Stages, kind: {"none", "write", "recover", "quarantine"}, doc: Contents,
          left: Lefts, removed: {FALSE}, ok: BOOLEAN] :
     j.stage \in StagesOf(j.kind)}

TypeOK ==
  /\ disk \in Views /\ survivors \subseteq Views /\ disk \in survivors
  /\ job \in [Threads -> Jobs]
  /\ faults \in Nat /\ damages \in Nat
  /\ running \in BOOLEAN /\ blocked \in BOOLEAN
  /\ call \in {"none", "boot", "save", "fresh", "replace", "recover", "quarantine"}
  /\ revision \in Nat /\ known \in Nat
  /\ confirmed \in Docs \cup {Missing} /\ before \in Docs \cup {Missing}

\* The job each call runs.
KindOf ==
  CASE call \in {"boot", "recover"}            -> {"recover"}
    [] call \in {"fresh", "replace"}           -> {"write", "none"}
    [] call = "save"                           -> {"write"}
    [] call = "none"                           -> {"none"}
    [] call = "quarantine"                     -> {"quarantine"}

Control ==
  /\ Doing.kind \in KindOf
  /\ Doing.kind = "none" => Doing = NoJob
  /\ ~running => call = "none" /\ ~blocked
  /\ Doing.kind = "write" => Doing.doc \in Docs
  /\ Doing.kind = "recover" /\ Doing.stage \in Writing \cup Displacing => Doing.doc \in Docs
  /\ Doing.kind = "recover" /\ At("main", "done") /\ Doing.ok => Doing.doc # Torn
  /\ Doing.kind = "quarantine" => Doing.doc = Missing
  /\ call \in {"boot", "fresh", "save", "replace"} => ~blocked
  /\ call \in {"recover", "quarantine"} => blocked
  /\ Doing.stage \notin {"done", "quarantine", "quarantined"} => Doing.ok
  /\ Doing.kind = "recover" /\ At("main", "done") /\ ~Doing.ok => Doing.doc = Torn
  /\ Doing.kind = "recover" /\ At("main", "scan") => Doing.doc = Missing

\* What is written is newer than what the program knows and has confirmed.
Revisions ==
  /\ running /\ ~blocked /\ call \in {"none", "save"} => confirmed.rev <= revision
  /\ call \in {"fresh", "replace"} => confirmed = Missing
  /\ Doing.kind = "write" /\ ~At("main", "done") => Doing.doc.rev > confirmed.rev
  /\ Doing.kind = "write" => Doing.doc.rev > revision

\* Two documents differ in revision.
Above(a, b) == Valid(a) /\ Valid(b) => a = b \/ a.rev > b.rev

\* The temporary file is the newest, the backup the oldest.
Ordered(v) ==
  /\ v["primary"] # Torn /\ v["bak"] # Torn
  /\ Above(v["primary"], v["bak"])
  /\ Above(v["tmp"], v["primary"]) /\ Above(v["tmp"], v["bak"])
  /\ Valid(v["tmp"]) => v["tmp"] # v["primary"]

\* Recovery finds c, or what is staged to replace it.
Keeps(v, c) ==
  Valid(c) =>
    \/ v["primary"] = c
    \/ v["bak"] = c /\ (v["primary"] = Missing \/ v["tmp"] = Missing)

\* The directory holds c as its best settled file.
Stands(c) == disk["primary"] = c \/ (disk["primary"] = Missing /\ disk["bak"] = c)

Steady(c) ==
  IF Valid(c) THEN Stands(c) ELSE disk["primary"] = Missing /\ disk["bak"] = Missing

\* Every directory a crash may leave is in order and has what was confirmed.
Sound == \A v \in survivors : Ordered(v) /\ Keeps(v, Confirmed)

\* A crash keeps the primary file unless it is being replaced.
PrimarySettled ==
  Doing.stage \notin {"retired", "promoted", "quarantined"} =>
    \A v \in survivors : v["primary"] = disk["primary"]

\* How far a write has come.
Staging ==
  /\ Doing.stage \notin Displacing
  /\ Doing.stage \in {"staged", "retire", "retired", "promote"} => disk["tmp"] = Doing.doc
  /\ Doing.stage \in {"retired", "promote"} => disk["primary"] = Missing
  /\ At("main", "promoted") => disk["primary"] = Doing.doc /\ disk["tmp"] = Missing
  /\ At("main", "retire") => Valid(disk["primary"])
  /\ Doing.stage \in {"stage", "staged", "retire"} =>
       \A name \in {"primary", "bak"} : Above(Doing.doc, disk[name])
  /\ At("main", "stage") => disk["primary"] # Doing.doc
  /\ At("main", "stage") /\ Doing.kind = "recover" => Recovered(disk) = Doing.doc

\* Where the confirmed document is while the game may write.
Standing ==
  /\ Doing.kind = "recover" /\ Doing.stage \in Writing \ {"promoted"} /\ Valid(confirmed) =>
       Stands(confirmed)
  /\ Doing.kind = "recover" /\ At("main", "done") /\ Doing.ok => Steady(Doing.doc)
  /\ running /\ ~blocked /\ call \in {"none", "save", "fresh", "replace"}
       /\ ~At("main", "promoted") => Steady(Confirmed)

Gone(names) == \A name \in names : disk[name] = Missing

\* What a quarantine has cleared.
Clearing ==
  Doing.kind = "quarantine" =>
    /\ At("main", "done") => Doing.left = <<>>
    /\ At("main", "quarantined") => Doing.left # Artifacts
    /\ Doing.ok => /\ Doing.left = <<"tmp", "bak">> => Gone({"primary"})
                   /\ Doing.left = <<"bak">> => Gone({"primary", "tmp"})
                   /\ Doing.left = <<>> => Gone(Names)

Files == Sound /\ PrimarySettled /\ Staging /\ Standing /\ Clearing

\* No file was damaged, and no directory sync failed.
Undisturbed == damages = 0 /\ ("sync" \in Fallible => faults = 0)

\* Two files of v hold revision r or a later one.
TwoCopies(v, r) ==
  \E m, n \in Names :
    m # n /\ Valid(v[m]) /\ Valid(v[n]) /\ v[m].rev >= r /\ v[n].rev >= r

\* One of these names holds a document as new as the backup.
Copy(names) == \E n \in names : Valid(disk[n]) /\ disk[n].rev >= before.rev

\* Both the primary file and the backup hold revision r or a later one.
Both(r) == \A n \in {"primary", "bak"} : Valid(disk[n]) /\ disk[n].rev >= r

\* Nothing has failed, and a recovery that knows of a backup finds a document.
Whole ==
  /\ Doing.kind = "write" /\ At("main", "done") => Doing.ok
  /\ Valid(before) /\ Doing.kind = "recover" /\ At("main", "done") => Doing.ok
  /\ blocked => ~Valid(before)

\* Where the two copies are while a write or a recovery goes on.
Backed ==
  Valid(before) =>
    /\ Doing.stage \in Writing => Doing.doc.rev >= before.rev
    /\ Doing.stage \in {"stage", "staged", "retire"} => Copy({"primary", "bak"})
    /\ Doing.stage \in {"retired", "promote", "promoted"} => Copy({"bak"})
    /\ Doing.kind = "recover" /\ At("main", "done") => Both(before.rev)
    /\ Doing.kind = "none" /\ running /\ ~blocked => Both(before.rev)
    /\ Doing.kind = "write" /\ Doing.stage \in {"stage", "staged", "retire"} => Both(before.rev)

\* The two copies in every directory a crash may leave.
Doubled ==
  /\ Valid(before) /\ Doing.kind # "quarantine"
       /\ (Doing.kind = "recover" => Doing.stage \in {"scan", "done"}) =>
       \A v \in survivors : TwoCopies(v, before.rev)
  /\ Valid(confirmed) /\ Doing.kind = "write" /\ At("main", "done") =>
       Both(confirmed.rev) /\ \A v \in survivors : TwoCopies(v, confirmed.rev)

Copies == Whole /\ Backed /\ Doubled

\* The inductive invariant.
IInv ==
  /\ TypeOK /\ Control /\ Revisions
  /\ Undisturbed => Files
  /\ damages = 0 /\ faults = 0 => Copies
-----------------------------------------------------------------------------
(* Documents, and what recovery finds among them *)

\* Missing and Torn are no documents, and a document carries a positive revision.
LEMMA DocumentFacts ==
  /\ \A d \in Docs : Valid(d) /\ d.rev \in Nat /\ d.rev >= 1
  /\ \A d, e \in Docs : d.id = e.id
  /\ ~Valid(Missing) /\ ~Valid(Torn) /\ Missing # Torn
  /\ Missing \notin Docs /\ Torn \notin Docs
  /\ Missing.rev = 0
BY DocumentsAssumption, ProfileAssumption DEF Docs, Valid, Missing, Torn

\* A directory maps the three names to contents.
LEMMA ViewFacts ==
  ASSUME NEW v \in Views
  PROVE  /\ DOMAIN v = {"primary", "tmp", "bak"}
         /\ \A name \in Names : v[name] \in Contents
         /\ \A name \in Names : Valid(v[name]) <=> v[name] \in Docs
         /\ \A name \in Names, content \in Contents :
              /\ [v EXCEPT ![name] = content] \in Views
              /\ [v EXCEPT ![name] = content][name] = content
              /\ \A other \in Names \ {name} : [v EXCEPT ![name] = content][other] = v[other]
BY DocumentFacts DEF Views, Names, Contents

\* No two files hold different documents of one revision.
Agree(v) ==
  \A m, n \in Names : Valid(v[m]) /\ Valid(v[n]) /\ v[m].rev = v[n].rev => v[m] = v[n]

\* One round of the loop keeps the best of what it has seen.
LEMMA ConsiderBest ==
  ASSUME NEW v \in Views, Agree(v), NEW best \in Names, NEW name \in Names
  PROVE  LET scan == [best |-> best, conflict |-> FALSE]
             next == IF Valid(v[name]) /\ (Valid(v[best]) => v[name].rev > v[best].rev)
                       THEN name ELSE best
         IN  Consider(v, scan, name) = [best |-> next, conflict |-> FALSE]
<1>1. Valid(v[name]) => v[name] \in Docs
  BY ViewFacts
<1>2. Valid(v[best]) => v[best] \in Docs
  BY ViewFacts
<1>3. Valid(v[name]) /\ Valid(v[best]) /\ v[name].rev = v[best].rev => v[name] = v[best]
  BY DEF Agree
<1>4. Valid(v[name]) /\ Valid(v[best]) => v[best].id = v[name].id
  BY <1>1, <1>2, DocumentFacts
<1> QED
  BY <1>3, <1>4 DEF Consider

\* In any state of the files, the loop ends with one of them.
LEMMA ScanType ==
  ASSUME NEW v
  PROVE  Scan(v).best \in Names /\ Scan(v).conflict \in BOOLEAN
<1> DEFINE Scans == [best: Names, conflict: BOOLEAN]
<1>1. ASSUME NEW scan \in Scans, NEW name \in Names
      PROVE  Consider(v, scan, name) \in Scans
  BY DEF Consider
<1>2. [best |-> "primary", conflict |-> FALSE] \in Scans
  BY DEF Names
<1>3. "primary" \in Names /\ "tmp" \in Names /\ "bak" \in Names
  BY DEF Names
<1> HIDE DEF Scans
<1>4. Scan(v) \in Scans
  BY <1>1, <1>2, <1>3 DEF Scan
<1> QED
  BY <1>4 DEF Scans

\* Recovery returns a document, Missing or Torn.
LEMMA RecoveredType ==
  ASSUME NEW v \in Views
  PROVE  Recovered(v) \in Contents
<1>1. v[Scan(v).best] \in Contents
  BY ScanType, ViewFacts
<1> QED
  BY <1>1 DEF Recovered, Contents

\* The best of three: the highest revision, the first of equals.
LEMMA ScanBest ==
  ASSUME NEW v \in Views, Agree(v)
  PROVE  /\ ~Scan(v).conflict
         /\ Scan(v).best \in Names
         /\ \A name \in Names :
              Valid(v[name]) => /\ Valid(v[Scan(v).best])
                                /\ v[name].rev <= v[Scan(v).best].rev
         /\ Valid(v["primary"]) /\ v[Scan(v).best] = v["primary"] => Scan(v).best = "primary"
         /\ (\A name \in Names : ~Valid(v[name])) => Scan(v).best = "primary"
<1> DEFINE Better(name, best) ==
             IF Valid(v[name]) /\ (Valid(v[best]) => v[name].rev > v[best].rev)
               THEN name ELSE best
           one == Better("primary", "primary")
           two == Better("tmp", one)
           three == Better("bak", two)
<1>1. {"primary", "tmp", "bak"} = Names
  BY DEF Names
<1>2. one = "primary"
  BY <1>1, ViewFacts, DocumentFacts
<1>3. two \in Names /\ three \in Names /\ one \in Names
  BY <1>1
<1>4. Scan(v) = [best |-> three, conflict |-> FALSE]
  <2>1. Consider(v, [best |-> "primary", conflict |-> FALSE], "primary")
          = [best |-> one, conflict |-> FALSE]
    BY <1>1, ConsiderBest
  <2>2. Consider(v, [best |-> one, conflict |-> FALSE], "tmp") = [best |-> two, conflict |-> FALSE]
    BY <1>1, <1>3, ConsiderBest
  <2>3. Consider(v, [best |-> two, conflict |-> FALSE], "bak")
          = [best |-> three, conflict |-> FALSE]
    BY <1>1, <1>3, ConsiderBest
  <2> HIDE DEF one, two, three
  <2> QED
    BY <2>1, <2>2, <2>3 DEF Scan
<1>5. \A name \in Names : Valid(v[name]) => v[name].rev \in Nat
  BY ViewFacts, DocumentFacts
<1>6. \A name \in Names : Valid(v[name]) => Valid(v[three]) /\ v[name].rev <= v[three].rev
  BY <1>1, <1>2, <1>5
<1>7. Valid(v["primary"]) /\ v[three] = v["primary"] => three = "primary"
  BY <1>1, <1>2, <1>5
<1>8. (\A name \in Names : ~Valid(v[name])) => three = "primary"
  BY <1>1, <1>2
<1> HIDE DEF three
<1> QED
  BY <1>3, <1>4, <1>6, <1>7, <1>8

\* An ordered directory never holds two documents of one revision.
LEMMA OrderedAgrees ==
  ASSUME NEW v \in Views, Ordered(v)
  PROVE  Agree(v)
<1>1. \A name \in Names : Valid(v[name]) => v[name].rev \in Nat
  BY ViewFacts, DocumentFacts
<1> QED
  BY <1>1 DEF Ordered, Agree, Above, Names

\* A recovery returns a document if there is one, and none is newer.
LEMMA RecoveredBest ==
  ASSUME NEW v \in Views, Agree(v)
  PROVE  /\ Recovered(v) \in Contents
         /\ \A name \in Names :
              Valid(v[name]) => Valid(Recovered(v)) /\ v[name].rev <= Recovered(v).rev
         /\ Valid(Recovered(v)) => \E name \in Names : Recovered(v) = v[name]
         /\ Valid(Recovered(v)) /\ Recovered(v) = v["primary"] => Scan(v).best = "primary"
         /\ Valid(Recovered(v)) /\ Scan(v).best = "primary" => Recovered(v) = v["primary"]
         /\ (\A name \in Names : v[name] = Missing) => Recovered(v) = Missing
         /\ Recovered(v) = Missing => \A name \in Names : v[name] = Missing
<1>1. \A name \in Names : v[name] \in Contents
  BY ViewFacts
<1>2. CASE Valid(v[Scan(v).best])
  <2>1. Recovered(v) = v[Scan(v).best]
    BY <1>2, ScanBest DEF Recovered
  <2> QED
    BY <1>1, <1>2, <2>1, ScanBest, DocumentFacts
<1>3. CASE ~Valid(v[Scan(v).best])
  <2>1. \A name \in Names : ~Valid(v[name])
    BY <1>3, ScanBest
  <2>2. Recovered(v) = IF \E name \in Names : v[name] = Torn THEN Torn ELSE Missing
    BY <1>3, ScanBest DEF Recovered
  <2> QED
    BY <1>1, <2>1, <2>2, DocumentFacts DEF Contents
<1> QED
  BY <1>2, <1>3

\* In order, the files age from tmp over primary to bak.
LEMMA RecoveredOrdered ==
  ASSUME NEW v \in Views, Ordered(v)
  PROVE  Recovered(v) = IF Valid(v["tmp"]) THEN v["tmp"]
                        ELSE IF Valid(v["primary"]) THEN v["primary"]
                        ELSE IF Valid(v["bak"]) THEN v["bak"]
                        ELSE IF v["tmp"] = Torn THEN Torn ELSE Missing
<1>1. Names = {"primary", "tmp", "bak"}
  BY DEF Names
<1>2. /\ \A name \in Names : v[name] \in Contents
      /\ \A name \in Names : Valid(v[name]) => v[name] \in Docs
  BY ViewFacts
<1>3. Agree(v)
  BY OrderedAgrees
<1>4. CASE \E name \in Names : Valid(v[name])
  <2>1. PICK best \in Names : Recovered(v) = v[best]
    BY <1>3, <1>4, RecoveredBest
  <2>2. Valid(v[best]) /\ \A name \in Names : Valid(v[name]) => v[name].rev <= v[best].rev
    BY <1>3, <1>4, <2>1, RecoveredBest
  <2>3. \A name \in Names : Valid(v[name]) => v[name].rev \in Nat
    BY <1>2, DocumentFacts
  <2> QED
    BY <1>1, <1>4, <2>1, <2>2, <2>3 DEF Ordered, Above
<1>5. CASE \A name \in Names : ~Valid(v[name])
  <2>1. v["primary"] = Missing /\ v["bak"] = Missing /\ v["tmp"] \in {Missing, Torn}
    BY <1>1, <1>2, <1>5, DocumentFacts DEF Ordered, Contents
  <2>2. Recovered(v) = IF \E name \in Names : v[name] = Torn THEN Torn ELSE Missing
    BY <1>3, <1>5, ScanBest DEF Recovered
  <2> QED
    BY <1>1, <1>5, <2>1, <2>2, DocumentFacts
<1> QED
  BY <1>4, <1>5

-----------------------------------------------------------------------------
(* The types *)

\* Writing one name of a directory gives a directory.
LEMMA Rewrites ==
  ASSUME disk \in Views
  PROVE  /\ \A name \in Names, content \in Contents : Replace(name, content) \in Views
         /\ \A from, to \in Names : from # to => Rename(from, to) \in Views
<1>1. Missing \in Contents /\ \A name \in Names : disk[name] \in Contents
  BY ViewFacts DEF Contents
<1> QED
  BY <1>1 DEF Replace, Rename, Views

\* The lists of names a clear still has to remove.
LEMMA LeftFacts ==
  /\ Lefts = {<<>>, <<"bak">>, <<"tmp", "bak">>, <<"primary", "tmp", "bak">>}
  /\ Head(<<"bak">>) = "bak" /\ Tail(<<"bak">>) = <<>>
  /\ Head(<<"tmp", "bak">>) = "tmp" /\ Tail(<<"tmp", "bak">>) = <<"bak">>
  /\ Head(Artifacts) = "primary" /\ Tail(Artifacts) = <<"tmp", "bak">>
  /\ <<>> # <<"bak">> /\ <<>> # <<"tmp", "bak">> /\ <<>> # Artifacts
  /\ <<"bak">> # <<"tmp", "bak">> /\ <<"bak">> # Artifacts /\ <<"tmp", "bak">> # Artifacts
BY DEF Lefts, Artifacts

\* Removing the first of them leaves another such list.
LEMMA LeftShrinks ==
  ASSUME NEW left \in Lefts, left # <<>>
  PROVE  Head(left) \in Names /\ Tail(left) \in Lefts
<1> DEFINE one == <<"bak">>
           two == <<"tmp", "bak">>
<1>1. /\ Head(one) = "bak" /\ Tail(one) = <<>>
      /\ Head(two) = "tmp" /\ Tail(two) = one
      /\ Head(Artifacts) = "primary" /\ Tail(Artifacts) = two
  BY LeftFacts
<1>2. Lefts = {<<>>, one, two, Artifacts}
  BY DEF Lefts
<1> HIDE DEF one, two
<1>3. left = one \/ left = two \/ left = Artifacts
  BY <1>2
<1>4. <<>> \in Lefts /\ one \in Lefts /\ two \in Lefts
  BY <1>2
<1>5. "primary" \in Names /\ "tmp" \in Names /\ "bak" \in Names
  BY DEF Names
<1> QED
  BY <1>1, <1>3, <1>4, <1>5

\* A change to the one job leaves a function over the threads.
LEMMA JobKeeps ==
  ASSUME TypeOK, NEW j \in Jobs, Becoming("main", j)
  PROVE  job' \in [Threads -> Jobs] /\ Doing' = j
BY ProfileAssumption DEF TypeOK, Becoming, Doing

\* The job has a type of its own.
LEMMA DoingType ==
  ASSUME TypeOK
  PROVE  Doing \in Jobs
BY ProfileAssumption DEF TypeOK, Doing

\* The job's record after a step, field by field.
Moves(stage, doc, left, ok) ==
  /\ job' \in [Threads -> Jobs] /\ Doing' \in Jobs
  /\ Doing'.kind = Doing.kind /\ Doing'.stage = stage /\ Doing'.doc = doc
  /\ Doing'.left = left /\ Doing'.ok = ok

\* What changing the stage, the document and the rest of the job means.
LEMMA UpdateMoves ==
  ASSUME TypeOK, NEW stage \in StagesOf(Doing.kind), NEW doc \in Contents, NEW left \in Lefts,
         NEW ok \in BOOLEAN, NEW k,
         k = [Doing EXCEPT !.stage = stage, !.doc = doc, !.left = left, !.ok = ok],
         Becoming("main", k)
  PROVE  Moves(stage, doc, left, ok)
<1> DEFINE Kinds == {"none", "write", "recover", "quarantine"}
           Fields == [stage: Stages, kind: Kinds, doc: Contents, left: Lefts,
                      removed: {FALSE}, ok: BOOLEAN]
<1>1. Doing \in Fields
  BY DoingType DEF Jobs
<1>2. stage \in Stages
  <2>1. \A kind \in Kinds : StagesOf(kind) \subseteq Stages
    BY DEF StagesOf, Stages
  <2>2. Doing.kind \in Kinds
    BY <1>1
  <2> HIDE DEF Kinds
  <2> QED
    BY <2>1, <2>2
<1>3. k \in Fields
  BY <1>1, <1>2
<1>4. k.stage = stage /\ k.doc = doc /\ k.left = left /\ k.ok = ok /\ k.kind = Doing.kind
  BY <1>1
<1>5. k \in Jobs
  BY <1>3, <1>4 DEF Jobs
<1>6. job' \in [Threads -> Jobs] /\ Doing' = k
  BY <1>5, JobKeeps
<1> QED
  BY <1>4, <1>5, <1>6 DEF Moves

\* The fields of the job.
LEMMA DoingFields ==
  ASSUME TypeOK
  PROVE  /\ Doing.kind \in {"none", "write", "recover", "quarantine"}
         /\ Doing.stage \in StagesOf(Doing.kind) /\ Doing.stage \in Stages
         /\ Doing.doc \in Contents /\ Doing.left \in Lefts /\ Doing.ok \in BOOLEAN
         /\ Doing.removed = FALSE
BY DoingType DEF Jobs

\* Going to a stage changes nothing else of the job.
LEMMA GotoMoves ==
  ASSUME TypeOK, NEW stage \in StagesOf(Doing.kind), Goto("main", stage)
  PROVE  Moves(stage, Doing.doc, Doing.left, Doing.ok)
<1> DEFINE k == [Doing EXCEPT !.stage = stage]
<1>1. k = [Doing EXCEPT !.stage = stage, !.doc = Doing.doc, !.left = Doing.left, !.ok = Doing.ok]
  BY DoingType DEF Jobs
<1>2. Becoming("main", k)
  BY DEF Goto, Doing
<1> HIDE DEF k
<1> QED
  BY <1>1, <1>2, DoingFields, UpdateMoves

\* A failure ends the job, unsuccessfully.
LEMMA FailsMoves ==
  ASSUME TypeOK, "done" \in StagesOf(Doing.kind), Fails("main")
  PROVE  Moves("done", IF Doing.kind = "recover" THEN Torn ELSE Doing.doc, Doing.left, FALSE)
<1> DEFINE doc == IF Doing.kind = "recover" THEN Torn ELSE Doing.doc
           k == [Doing EXCEPT !.stage = "done", !.ok = FALSE,
                   !.doc = IF Doing.kind = "recover" THEN Torn ELSE @]
<1>1. k = [Doing EXCEPT !.stage = "done", !.doc = doc, !.left = Doing.left, !.ok = FALSE]
  BY DoingType DEF Jobs
<1>2. doc \in Contents
  BY DoingFields DEF Contents
<1>3. Becoming("main", k)
  BY DEF Fails, Doing
<1> HIDE DEF doc, k
<1>4. Moves("done", doc, Doing.left, FALSE)
  BY <1>1, <1>2, <1>3, DoingFields, UpdateMoves
<1> QED
  BY <1>4 DEF doc

\* Where each stage belongs.
LEMMA KindOfStage ==
  ASSUME TypeOK
  PROVE  /\ Doing.stage = "idle" => Doing.kind = "none"
         /\ Doing.stage = "scan" => Doing.kind = "recover"
         /\ Doing.stage \in Writing \cup Displacing => Doing.kind \in {"write", "recover"}
         /\ Doing.stage \in {"quarantine", "quarantined"} => Doing.kind = "quarantine"
         /\ Doing.stage = "done" => Doing.kind # "none"
         /\ Doing.stage # "remove" /\ Doing.stage # "removed"
         /\ Doing.kind \in {"write", "recover"} =>
              Writing \cup Displacing \cup {"done"} \subseteq StagesOf(Doing.kind)
         /\ Doing.kind = "quarantine" =>
              {"quarantine", "quarantined", "done"} \subseteq StagesOf(Doing.kind)
         /\ Doing.kind = "recover" => "scan" \in StagesOf(Doing.kind)
<1>1. Doing.kind \in {"none", "write", "recover", "quarantine"}
  BY DoingFields
<1>2. Doing.stage \in StagesOf(Doing.kind)
  BY DoingFields
<1> QED
  BY <1>1, <1>2 DEF StagesOf, Writing, Displacing

-----------------------------------------------------------------------------
(* What each step of the job does *)

\* recover() chooses a document, promotes it or finds nothing to do.
LEMMA ChooseMoves ==
  ASSUME TypeOK, Choose("main")
  PROVE  LET found == Recovered(disk)
         IN  /\ Doing.kind = "recover" /\ Doing.stage = "scan"
             /\ Moves(IF ~Valid(found) \/ Scan(disk).best = "primary" THEN "done"
                      ELSE IF disk["primary"] = Torn THEN "displace" ELSE "stage",
                      found, Doing.left, found # Torn)
             /\ found \in Contents
             /\ UNCHANGED <<disk, survivors, faults>>
<1> DEFINE found == Recovered(disk)
           stage == IF ~Valid(found) \/ Scan(disk).best = "primary" THEN "done"
                    ELSE IF disk["primary"] = Torn THEN "displace" ELSE "stage"
<1>1. TypeOK
  OBVIOUS
<1>2. Doing.kind = "recover" /\ Doing.stage = "scan"
  BY <1>1, KindOfStage DEF Choose, At, Doing
<1>3. disk \in Views /\ found \in Contents
  BY <1>1, RecoveredType DEF TypeOK
<1>4. stage \in StagesOf(Doing.kind)
  BY <1>2 DEF StagesOf, Writing, Displacing
<1> HIDE DEF stage
<1> DEFINE k == [Doing EXCEPT !.doc = found, !.ok = found # Torn, !.stage = stage]
<1>5. k = [Doing EXCEPT !.stage = stage, !.doc = found, !.left = Doing.left, !.ok = found # Torn]
  BY <1>1, DoingType DEF Jobs
<1>6. Becoming("main", k)
  BY DEF Choose, Doing, stage
<1> HIDE DEF found, k
<1>7. Moves(stage, found, Doing.left, found # Torn)
  BY <1>1, <1>3, <1>4, <1>5, <1>6, DoingFields, UpdateMoves
<1> QED
  BY <1>2, <1>3, <1>7 DEF Choose, found, stage

\* A step that fails its call ends the job; one that succeeds moves it on.
Failure == /\ Moves("done", IF Doing.kind = "recover" THEN Torn ELSE Doing.doc, Doing.left, FALSE)
           /\ "done" \in StagesOf(Doing.kind)
           /\ faults' = faults + 1

Advance(stage) == Moves(stage, Doing.doc, Doing.left, Doing.ok) /\ faults' = faults

\* The temporary file is written, or the write fails.
LEMMA StageMoves ==
  ASSUME TypeOK, Stage("main")
  PROVE  LET none == Replace("tmp", Missing)
             torn == Replace("tmp", Torn)
         IN  /\ Doing.kind \in {"write", "recover"} /\ Doing.stage = "stage"
             /\ \/ Advance("staged") /\ Becomes(Replace("tmp", Doing.doc), {none, torn})
                \/ Failure /\ \E left \in {disk, none, torn} : Becomes(left, {none, torn})
<1>1. Doing.kind \in {"write", "recover"} /\ Doing.stage = "stage"
  BY KindOfStage DEF Stage, At, Doing, Writing
<1>2. "staged" \in StagesOf(Doing.kind) /\ "done" \in StagesOf(Doing.kind)
  BY <1>1, KindOfStage DEF Writing
<1>3. Goto("main", "staged") => Moves("staged", Doing.doc, Doing.left, Doing.ok)
  BY <1>2, GotoMoves
<1>4. Fails("main") => Moves("done", IF Doing.kind = "recover" THEN Torn ELSE Doing.doc,
                             Doing.left, FALSE)
  BY <1>2, FailsMoves
<1> QED
  BY <1>1, <1>2, <1>3, <1>4 DEF Stage, Fault, NoFault, Failure, Advance, Doing

\* The primary file becomes the backup, or the rename fails.
LEMMA RetireMoves ==
  ASSUME TypeOK, Retire("main")
  PROVE  LET unbacked == Replace("bak", Missing)
         IN  /\ Doing.kind \in {"write", "recover"} /\ Doing.stage = "retire"
             /\ \/ Advance("retired") /\ Becomes(Rename("primary", "bak"), {unbacked})
                \/ /\ Failure
                   /\ \E view \in {disk, unbacked} :
                        \/ Becomes(view, {})
                        \/ Becomes([view EXCEPT !["tmp"] = Missing], {view})
<1>1. Doing.kind \in {"write", "recover"} /\ Doing.stage = "retire"
  BY KindOfStage DEF Retire, At, Doing, Writing
<1>2. "retired" \in StagesOf(Doing.kind) /\ "done" \in StagesOf(Doing.kind)
  BY <1>1, KindOfStage DEF Writing
<1>3. Goto("main", "retired") => Moves("retired", Doing.doc, Doing.left, Doing.ok)
  BY <1>2, GotoMoves
<1>4. Fails("main") => Moves("done", IF Doing.kind = "recover" THEN Torn ELSE Doing.doc,
                             Doing.left, FALSE)
  BY <1>2, FailsMoves
<1> QED
  BY <1>1, <1>2, <1>3, <1>4 DEF Retire, Fault, NoFault, Failure, Advance, Doing

\* The temporary file becomes the primary one, or the rename fails.
LEMMA PromoteMoves ==
  ASSUME TypeOK, Promote("main")
  PROVE  /\ Doing.kind \in {"write", "recover"} /\ Doing.stage = "promote"
         /\ \/ Advance("promoted") /\ Becomes(Rename("tmp", "primary"), {})
            \/ Failure /\ Becomes(disk, {})
<1>1. Doing.kind \in {"write", "recover"} /\ Doing.stage = "promote"
  BY KindOfStage DEF Promote, At, Doing, Writing
<1>2. "promoted" \in StagesOf(Doing.kind) /\ "done" \in StagesOf(Doing.kind)
  BY <1>1, KindOfStage DEF Writing
<1>3. Goto("main", "promoted") => Moves("promoted", Doing.doc, Doing.left, Doing.ok)
  BY <1>2, GotoMoves
<1>4. Fails("main") => Moves("done", IF Doing.kind = "recover" THEN Torn ELSE Doing.doc,
                             Doing.left, FALSE)
  BY <1>2, FailsMoves
<1> QED
  BY <1>1, <1>2, <1>3, <1>4 DEF Promote, Fault, NoFault, Failure, Advance, Doing

\* The branch of a write that drops an invalid primary file.
LEMMA DisplaceMoves ==
  ASSUME TypeOK, Displace("main")
  PROVE  /\ Doing.kind \in {"write", "recover"} /\ Doing.stage = "displace"
         /\ \/ Advance("displaced") /\ Becomes(Replace("primary", Missing), {})
            \/ Failure /\ (DropTmp \/ Becomes(disk, {}))
<1>1. Doing.kind \in {"write", "recover"} /\ Doing.stage = "displace"
  BY KindOfStage DEF Displace, At, Doing, Displacing
<1>2. "displaced" \in StagesOf(Doing.kind) /\ "done" \in StagesOf(Doing.kind)
  BY <1>1, KindOfStage DEF Displacing
<1>3. Goto("main", "displaced") => Moves("displaced", Doing.doc, Doing.left, Doing.ok)
  BY <1>2, GotoMoves
<1>4. Fails("main") => Moves("done", IF Doing.kind = "recover" THEN Torn ELSE Doing.doc,
                             Doing.left, FALSE)
  BY <1>2, FailsMoves
<1> QED
  BY <1>1, <1>2, <1>3, <1>4 DEF Displace, Fault, NoFault, Failure, Advance, Doing

\* A clear renames one name aside, or fails.
LEMMA QuarantineMoves ==
  ASSUME TypeOK, Quarantine("main")
  PROVE  LET file == Head(Doing.left)
         IN  /\ Doing.kind = "quarantine" /\ Doing.stage = "quarantine"
             /\ Doing.left # <<>> /\ file \in Names /\ Tail(Doing.left) \in Lefts
             /\ \/ /\ disk[file] = Missing
                   /\ Moves("quarantine", Doing.doc, Tail(Doing.left), Doing.ok)
                   /\ UNCHANGED <<disk, survivors, faults>>
                \/ /\ Moves("quarantined", Doing.doc, Tail(Doing.left), Doing.ok)
                   /\ Becomes(Replace(file, Missing), {}) /\ faults' = faults
                \/ /\ Moves("quarantine", Doing.doc, Tail(Doing.left), FALSE)
                   /\ Becomes(disk, {}) /\ faults' = faults + 1
<1> DEFINE rest == Tail(Doing.left)
           after == [Doing EXCEPT !.left = Tail(@)]
           moved == [after EXCEPT !.stage = "quarantined"]
           failed == [after EXCEPT !.ok = FALSE]
<1>1. Doing.kind = "quarantine" /\ Doing.stage = "quarantine" /\ Doing.left # <<>>
  BY KindOfStage DEF Quarantine, At, Doing
<1>2. Head(Doing.left) \in Names /\ rest \in Lefts
  BY <1>1, DoingFields, LeftShrinks
<1>3. "quarantine" \in StagesOf(Doing.kind) /\ "quarantined" \in StagesOf(Doing.kind)
  BY <1>1, KindOfStage
<1>4. /\ after = [Doing EXCEPT !.stage = "quarantine", !.doc = Doing.doc, !.left = rest,
                               !.ok = Doing.ok]
      /\ moved = [Doing EXCEPT !.stage = "quarantined", !.doc = Doing.doc, !.left = rest,
                               !.ok = Doing.ok]
      /\ failed = [Doing EXCEPT !.stage = "quarantine", !.doc = Doing.doc, !.left = rest,
                                !.ok = FALSE]
  BY <1>1, DoingType DEF Jobs
<1>5. /\ At("main", "quarantine") /\ job["main"].left # <<>>
      /\ \/ /\ disk[Head(Doing.left)] = Missing
            /\ Becoming("main", after) /\ UNCHANGED <<disk, survivors, faults>>
         \/ /\ Becomes(Replace(Head(Doing.left), Missing), {})
            /\ Becoming("main", moved) /\ NoFault
         \/ /\ Fault("rename") /\ Becomes(disk, {})
            /\ Becoming("main", failed)
  BY DEF Quarantine, Doing
<1> HIDE DEF rest, after, moved, failed
<1>6. Becoming("main", after) => Moves("quarantine", Doing.doc, rest, Doing.ok)
  BY <1>2, <1>3, <1>4, DoingFields, UpdateMoves
<1>7. Becoming("main", moved) => Moves("quarantined", Doing.doc, rest, Doing.ok)
  BY <1>2, <1>3, <1>4, DoingFields, UpdateMoves
<1>8. Becoming("main", failed) => Moves("quarantine", Doing.doc, rest, FALSE)
  BY <1>2, <1>3, <1>4, DoingFields, UpdateMoves
<1> QED
  BY <1>1, <1>2, <1>5, <1>6, <1>7, <1>8 DEF rest, Fault, NoFault

\* A clear whose directory is synced goes on with the next name.
LEMMA ClearedMoves ==
  ASSUME TypeOK, Cleared("main")
  PROVE  /\ Doing.kind = "quarantine" /\ Doing.stage = "quarantine" /\ Doing.left = <<>>
         /\ Moves("done", Doing.doc, Doing.left, Doing.ok)
         /\ UNCHANGED <<disk, survivors, faults>>
<1>1. /\ Doing.stage \in {"remove", "quarantine"} /\ Doing.left = <<>>
      /\ Goto("main", IF Doing.removed THEN "removed" ELSE "done")
      /\ UNCHANGED <<disk, survivors, faults>>
  BY DEF Cleared, Doing
<1>2. Doing.kind = "quarantine" /\ Doing.stage = "quarantine"
  BY <1>1, KindOfStage
<1>3. "done" \in StagesOf(Doing.kind)
  BY <1>2, KindOfStage
<1>4. Goto("main", "done")
  BY <1>1, DoingFields
<1> QED
  BY <1>1, <1>2, <1>3, <1>4, GotoMoves

\* The profile document is quarantined and never unlinked.
LEMMA NothingUnlinked ==
  ASSUME TypeOK
  PROVE  ~Unlink("main")
BY KindOfStage DEF Unlink, At, Doing

\* The stage after a directory sync.
LEMMA AfterSyncIs ==
  /\ Doing.stage = "staged" =>
       AfterSync("main") = IF disk["primary"] = Missing THEN "promote"
                           ELSE IF disk["primary"] = Torn THEN "displace" ELSE "retire"
  /\ Doing.stage = "retired" => AfterSync("main") = "promote"
  /\ Doing.stage = "displaced" =>
       AfterSync("main") = IF Doing.kind = "write" THEN "promote" ELSE "stage"
  /\ Doing.stage = "quarantined" => AfterSync("main") = "quarantine"
  /\ Doing.stage = "promoted" => AfterSync("main") = "done"
BY DEF AfterSync, Doing

\* The directory is synced, or the sync fails.
LEMMA SyncParentMoves ==
  ASSUME TypeOK, SyncParent("main")
  PROVE  /\ \/ /\ Doing.kind \in {"write", "recover"}
               /\ Doing.stage \in {"staged", "retired", "displaced", "promoted"}
            \/ Doing.kind = "quarantine" /\ Doing.stage = "quarantined"
         /\ \/ Settled /\ Advance(AfterSync("main")) /\ AfterSync("main") \in StagesOf(Doing.kind)
            \/ /\ Doing.kind \in {"write", "recover"}
               /\ Fault("sync") /\ Failure
               /\ DropTmp \/ Becomes(disk, {})
            \/ /\ Doing.kind = "quarantine"
               /\ Fault("sync") /\ Becomes(disk, {})
               /\ Moves("quarantine", Doing.doc, Doing.left, FALSE)
<1> DEFINE again == [Doing EXCEPT !.ok = FALSE, !.stage = "quarantine"]
           W == {"staged", "retired", "displaced", "promoted"}
<1>1. \/ Doing.kind \in {"write", "recover"} /\ Doing.stage \in W
      \/ Doing.kind = "quarantine" /\ Doing.stage = "quarantined"
  BY KindOfStage DEF SyncParent, Unsynced, Doing, Writing, Displacing
<1>2. "done" \in StagesOf(Doing.kind) /\ AfterSync("main") \in StagesOf(Doing.kind)
  BY <1>1, KindOfStage DEF AfterSync, Doing, Writing, Displacing
<1>3. Goto("main", AfterSync("main")) => Moves(AfterSync("main"), Doing.doc, Doing.left, Doing.ok)
  BY <1>2, GotoMoves
<1>4. Fails("main") => Moves("done", IF Doing.kind = "recover" THEN Torn ELSE Doing.doc,
                             Doing.left, FALSE)
  BY <1>2, FailsMoves
<1>5. ASSUME Doing.kind = "quarantine", Becoming("main", again)
      PROVE  Moves("quarantine", Doing.doc, Doing.left, FALSE)
  <2>1. again = [Doing EXCEPT !.stage = "quarantine", !.doc = Doing.doc, !.left = Doing.left,
                              !.ok = FALSE]
    BY DoingType DEF Jobs
  <2>2. "quarantine" \in StagesOf(Doing.kind)
    BY <1>5, KindOfStage
  <2> HIDE DEF again
  <2> QED
    BY <1>5, <2>1, <2>2, DoingFields, UpdateMoves
<1>6. CASE Settled /\ NoFault /\ Goto("main", AfterSync("main"))
  BY <1>1, <1>2, <1>3, <1>6 DEF Advance, NoFault
<1>7. CASE /\ Fault("sync") /\ Fails("main") /\ (DropTmp \/ Becomes(disk, {}))
           /\ Doing.stage # "quarantined"
  BY <1>1, <1>2, <1>4, <1>7 DEF Failure, Fault
<1>8. CASE Fault("sync") /\ Becomes(disk, {}) /\ Becoming("main", again)
           /\ Doing.stage = "quarantined"
  BY <1>1, <1>5, <1>8
<1> HIDE DEF again
<1> QED
  BY <1>6, <1>7, <1>8 DEF SyncParent, At, Doing, again

-----------------------------------------------------------------------------
(* Types and control *)

\* Every step of the files leaves directories.
LEMMA BecomesType ==
  ASSUME TypeOK, NEW view \in Views, NEW steps, steps \subseteq Views, Becomes(view, steps)
  PROVE  disk' \in Views /\ survivors' \subseteq Views /\ disk' \in survivors'
BY DEF TypeOK, Becomes

\* So does settling a set of names.
LEMMA SettlesType ==
  ASSUME TypeOK, NEW view \in Views, Becomes(view, {})
  PROVE  disk' \in Views /\ survivors' \subseteq Views /\ disk' \in survivors'
BY DEF TypeOK, Becomes

\* So does dropping the temporary file.
LEMMA DropTmpType ==
  ASSUME TypeOK, DropTmp
  PROVE  disk' \in Views /\ survivors' \subseteq Views /\ disk' \in survivors'
<1>1. disk \in Views /\ Replace("tmp", Missing) \in Views
  BY Rewrites DEF TypeOK, Names, Contents
<1> QED
  BY <1>1, SettlesType DEF DropTmp

\* The job's calls leave files of the right kinds.
LEMMA DiskType ==
  ASSUME TypeOK, JobStep("main")
  PROVE  disk' \in Views /\ survivors' \subseteq Views /\ disk' \in survivors' /\ faults' \in Nat
<1> DEFINE Goal == /\ disk' \in Views /\ survivors' \subseteq Views /\ disk' \in survivors'
                   /\ faults' \in Nat
<1>1. /\ disk \in Views /\ survivors \subseteq Views /\ disk \in survivors
      /\ faults \in Nat /\ faults + 1 \in Nat
  BY DEF TypeOK
<1>2. \A name \in Names : Replace(name, Missing) \in Views /\ Replace(name, Torn) \in Views
                          /\ Replace(name, Doing.doc) \in Views
  BY <1>1, Rewrites, DoingFields DEF Contents
<1>3. "tmp" \in Names /\ "bak" \in Names /\ "primary" \in Names
  BY DEF Names
<1>4. ASSUME UNCHANGED <<disk, survivors, faults>> PROVE Goal
  BY <1>1, <1>4
<1>5. CASE Choose("main")
  BY <1>4, <1>5 DEF Choose
<1>6. CASE Stage("main")
  BY <1>1, <1>2, <1>3, <1>6, StageMoves, BecomesType DEF Advance, Failure
<1>7. CASE Retire("main")
  <2> DEFINE unbacked == Replace("bak", Missing)
             Without(view) == [view EXCEPT !["tmp"] = Missing]
  <2>1. Rename("primary", "bak") \in Views /\ unbacked \in Views
    BY <1>1, <1>2, <1>3, Rewrites
  <2>2. Missing \in Contents
    BY DEF Contents
  <2>3. Without(disk) \in Views /\ Without(unbacked) \in Views
    BY <1>1, <1>3, <2>1, <2>2, ViewFacts
  <2>4. \/ faults' = faults /\ Becomes(Rename("primary", "bak"), {unbacked})
        \/ /\ faults' = faults + 1
           /\ \E view \in {disk, unbacked} : Becomes(view, {}) \/ Becomes(Without(view), {view})
    BY <1>7, RetireMoves DEF Advance, Failure
  <2> HIDE DEF unbacked, Without
  <2> QED
    BY <1>1, <2>1, <2>3, <2>4, BecomesType
<1>8. CASE Promote("main")
  <2>1. Rename("tmp", "primary") \in Views
    BY <1>1, <1>3, Rewrites
  <2> QED
    BY <1>1, <1>8, <2>1, PromoteMoves, SettlesType DEF Advance, Failure
<1>9. CASE Displace("main")
  BY <1>1, <1>2, <1>3, <1>9, DisplaceMoves, SettlesType, DropTmpType DEF Advance, Failure
<1>10. CASE Quarantine("main")
  BY <1>1, <1>2, <1>4, <1>10, QuarantineMoves, SettlesType
<1>11. CASE Cleared("main")
  BY <1>4, <1>11, ClearedMoves
<1>12. CASE SyncParent("main")
  BY <1>1, <1>12, SyncParentMoves, SettlesType, DropTmpType DEF Settled, Advance, Failure, Fault
<1> QED
  BY <1>5, <1>6, <1>7, <1>8, <1>9, <1>10, <1>11, <1>12, NothingUnlinked DEF JobStep

\* Its record keeps its type, and moves on within its kind.
LEMMA JobType ==
  ASSUME TypeOK, JobStep("main")
  PROVE  /\ job' \in [Threads -> Jobs] /\ Doing' \in Jobs
         /\ Doing'.kind = Doing.kind /\ Doing.kind # "none"
BY ChooseMoves, StageMoves, RetireMoves, PromoteMoves, DisplaceMoves, QuarantineMoves,
   ClearedMoves, SyncParentMoves, NothingUnlinked
   DEF JobStep, Moves, Advance, Failure

\* A step of the job keeps the types.
LEMMA StepType ==
  ASSUME TypeOK, Step
  PROVE  TypeOK'
BY DiskType, JobType DEF Step, TypeOK, profileVars

\* A step of the job keeps the control state.
LEMMA StepControl ==
  ASSUME TypeOK, Control, Step
  PROVE  Control'
<1>0. Doing.kind \in {"none", "write", "recover", "quarantine"} /\ Doing.stage \in Stages
  BY DoingFields
<1>1. /\ Doing'.kind = Doing.kind /\ Doing.kind # "none"
      /\ call' = call /\ running' = running /\ blocked' = blocked /\ KindOf' = KindOf
  BY JobType DEF Step, profileVars, KindOf
<1>2. /\ Doing'.kind \in KindOf'
      /\ Doing'.kind = "none" => Doing' = NoJob
      /\ ~running' => call' = "none" /\ ~blocked'
      /\ call' \in {"boot", "fresh", "save", "replace"} => ~blocked'
      /\ call' \in {"recover", "quarantine"} => blocked'
  BY <1>1 DEF Control
<1> DEFINE Rest ==
      /\ Doing'.kind = "write" => Doing'.doc \in Docs
      /\ Doing'.kind = "recover" /\ Doing'.stage \in Writing \cup Displacing => Doing'.doc \in Docs
      /\ Doing'.kind = "recover" /\ Doing'.stage = "done" /\ Doing'.ok => Doing'.doc # Torn
      /\ Doing'.kind = "quarantine" => Doing'.doc = Missing
      /\ Doing'.stage \notin {"done", "quarantine", "quarantined"} => Doing'.ok
      /\ Doing'.kind = "recover" /\ Doing'.stage = "done" /\ ~Doing'.ok => Doing'.doc = Torn
      /\ Doing'.kind = "recover" /\ Doing'.stage = "scan" => Doing'.doc = Missing
<1>3. ASSUME Choose("main") PROVE Rest
  <2>1. ~Valid(Torn) /\ \A d \in Contents : Valid(d) => d \in Docs
    BY DocumentFacts DEF Contents
  <2> QED
    BY <1>3, <2>1, ChooseMoves, DocumentFacts DEF Moves, Control, Writing, Displacing
<1>4. ASSUME Stage("main") PROVE Rest
  BY <1>4, StageMoves, DocumentFacts DEF Moves, Advance, Failure, Control, Writing, Displacing, At
<1>5. ASSUME Retire("main") PROVE Rest
  BY <1>5, RetireMoves, DocumentFacts DEF Moves, Advance, Failure, Control, Writing, Displacing, At
<1>6. ASSUME Promote("main") PROVE Rest
  BY <1>6, PromoteMoves, DocumentFacts DEF Moves, Advance, Failure, Control, Writing, Displacing, At
<1>7. ASSUME Displace("main") PROVE Rest
  BY <1>7, DisplaceMoves, DocumentFacts DEF Moves, Advance, Failure, Control, Writing, Displacing, At
<1>8. ASSUME Quarantine("main") PROVE Rest
  <2>1. /\ Doing'.kind = "quarantine" /\ Doing'.stage \in {"quarantine", "quarantined"}
        /\ Doing'.doc = Doing.doc
    BY <1>8, QuarantineMoves DEF Moves
  <2> QED
    BY <1>1, <2>1 DEF Control, Writing, Displacing
<1>9. ASSUME Cleared("main") PROVE Rest
  BY <1>9, ClearedMoves DEF Moves, Control, At
<1>10. ASSUME SyncParent("main") PROVE Rest
  <2>1. /\ Doing'.kind = Doing.kind
        /\ \/ /\ Doing'.stage = AfterSync("main") /\ Doing'.doc = Doing.doc /\ Doing'.ok = Doing.ok
              /\ Doing.stage \in {"staged", "retired", "displaced", "promoted", "quarantined"}
           \/ /\ Doing.kind # "quarantine" /\ Doing'.stage = "done" /\ ~Doing'.ok
              /\ Doing'.doc = IF Doing.kind = "recover" THEN Torn ELSE Doing.doc
           \/ /\ Doing.kind = "quarantine" /\ Doing'.stage = "quarantine"
              /\ Doing'.doc = Doing.doc
    BY <1>10, SyncParentMoves DEF Moves, Advance, Failure
  <2> QED
    BY <1>0, <2>1, AfterSyncIs, DocumentFacts DEF Control, At, Writing, Displacing, Doing
<1>11. Rest
  BY <1>3, <1>4, <1>5, <1>6, <1>7, <1>8, <1>9, <1>10, NothingUnlinked DEF Step, JobStep
<1> QED
  BY <1>2, <1>11 DEF Control, At, Doing

\* The jobs the calls begin with.
LEMMA FirstJobs ==
  /\ NoJob \in Jobs /\ NoJob.kind = "none" /\ NoJob.stage = "idle" /\ NoJob.doc = Missing
  /\ NoJob.left = <<>> /\ NoJob.ok
  /\ \A doc \in Docs :
       LET j == [NoJob EXCEPT !.stage = "stage", !.kind = "write", !.doc = doc]
       IN  j \in Jobs /\ j.kind = "write" /\ j.stage = "stage" /\ j.doc = doc /\ j.ok
  /\ LET j == [NoJob EXCEPT !.stage = "scan", !.kind = "recover"]
     IN  j \in Jobs /\ j.kind = "recover" /\ j.stage = "scan" /\ j.doc = Missing /\ j.ok
  /\ LET j == [NoJob EXCEPT !.stage = "quarantine", !.kind = "quarantine", !.left = Artifacts]
     IN  /\ j \in Jobs /\ j.kind = "quarantine" /\ j.stage = "quarantine" /\ j.doc = Missing
         /\ j.left = Artifacts /\ j.ok
<1>1. /\ "idle" \in StagesOf("none") /\ "stage" \in StagesOf("write")
      /\ "scan" \in StagesOf("recover") /\ "quarantine" \in StagesOf("quarantine")
  BY DEF StagesOf, Writing
<1>2. {"idle", "stage", "scan", "quarantine"} \subseteq Stages
  BY DEF Stages, Writing
<1>3. <<>> \in Lefts /\ Artifacts \in Lefts /\ Missing \in Contents /\ Docs \subseteq Contents
  BY DEF Lefts, Contents
<1> QED
  BY <1>1, <1>2, <1>3 DEF Jobs, NoJob

\* A write begins with its document.
LEMMA BeginWriteMoves ==
  ASSUME TypeOK, NEW doc \in Docs, BeginWrite("main", doc)
  PROVE  /\ job' \in [Threads -> Jobs] /\ Doing' \in Jobs /\ Doing.kind = "none"
         /\ Doing'.kind = "write" /\ Doing'.stage = "stage" /\ Doing'.doc = doc /\ Doing'.ok
         /\ UNCHANGED <<disk, survivors, faults>>
<1> DEFINE j == [NoJob EXCEPT !.stage = "stage", !.kind = "write", !.doc = doc]
<1>1. j \in Jobs /\ j.kind = "write" /\ j.stage = "stage" /\ j.doc = doc /\ j.ok
  BY FirstJobs
<1>2. Becoming("main", j)
  BY DEF BeginWrite
<1>3. Doing.kind = "none"
  BY KindOfStage DEF BeginWrite, Idle, At, Doing
<1> HIDE DEF j
<1> QED
  BY <1>1, <1>2, <1>3, JobKeeps DEF BeginWrite

\* A recovery begins with a scan.
LEMMA BeginRecoverMoves ==
  ASSUME TypeOK, BeginRecover("main")
  PROVE  /\ job' \in [Threads -> Jobs] /\ Doing' \in Jobs /\ Doing.kind = "none"
         /\ Doing'.kind = "recover" /\ Doing'.stage = "scan" /\ Doing'.doc = Missing /\ Doing'.ok
         /\ UNCHANGED <<disk, survivors, faults>>
<1> DEFINE j == [NoJob EXCEPT !.stage = "scan", !.kind = "recover"]
<1>1. j \in Jobs /\ j.kind = "recover" /\ j.stage = "scan" /\ j.doc = Missing /\ j.ok
  BY FirstJobs
<1>2. Becoming("main", j)
  BY DEF BeginRecover
<1>3. Doing.kind = "none"
  BY KindOfStage DEF BeginRecover, Idle, At, Doing
<1> HIDE DEF j
<1> QED
  BY <1>1, <1>2, <1>3, JobKeeps DEF BeginRecover

\* A clear begins with the primary file.
LEMMA BeginClearMoves ==
  ASSUME TypeOK, BeginClear("main", "quarantine")
  PROVE  /\ job' \in [Threads -> Jobs] /\ Doing' \in Jobs /\ Doing.kind = "none"
         /\ Doing'.kind = "quarantine" /\ Doing'.stage = "quarantine" /\ Doing'.doc = Missing
         /\ Doing'.left = Artifacts /\ Doing'.ok
         /\ UNCHANGED <<disk, survivors, faults>>
<1> DEFINE j == [NoJob EXCEPT !.stage = "quarantine", !.kind = "quarantine", !.left = Artifacts]
<1>1. /\ j \in Jobs /\ j.kind = "quarantine" /\ j.stage = "quarantine" /\ j.doc = Missing
      /\ j.left = Artifacts /\ j.ok
  BY FirstJobs
<1>2. Becoming("main", j)
  BY DEF BeginClear
<1>3. Doing.kind = "none"
  BY KindOfStage DEF BeginClear, Idle, At, Doing
<1> HIDE DEF j
<1> QED
  BY <1>1, <1>2, <1>3, JobKeeps DEF BeginClear

\* A job that is done ends.
LEMMA EndMoves ==
  ASSUME TypeOK, End("main")
  PROVE  /\ job' \in [Threads -> Jobs] /\ Doing' = NoJob
         /\ UNCHANGED <<disk, survivors, faults>>
BY FirstJobs, JobKeeps DEF End

\* What the last call confirmed is a document, or that there is none.
LEMMA ConfirmedIs ==
  ASSUME TypeOK, Control
  PROVE  /\ Confirmed \in Docs \cup {Missing}
         /\ Confirmed = IF Doing.kind = "quarantine" THEN Missing
                        ELSE IF Doing.stage = "done" /\ Doing.ok THEN Doing.doc ELSE confirmed
         /\ Before \in {before, confirmed, Missing}
<1>1. Doing.doc \in Contents /\ Doing.kind \in {"none", "write", "recover", "quarantine"}
      /\ (Doing.stage = "done" => Doing.kind # "none")
  BY DoingFields, KindOfStage
<1>2. Before \in {before, confirmed, Missing}
  BY <1>1 DEF Before, At, Doing
<1> QED
  BY <1>1, <1>2 DEF Confirmed, Control, TypeOK, At, Doing, Contents

\* The call that waits for it goes on.
LEMMA FinishMoves ==
  ASSUME TypeOK, Control, NEW next, Finish(next)
  PROVE  /\ job' \in [Threads -> Jobs] /\ Doing' = NoJob
         /\ UNCHANGED <<disk, survivors, faults, running, damages>>
         /\ confirmed' = Confirmed /\ confirmed' \in Docs \cup {Missing}
         /\ before' = Before /\ before' \in Docs \cup {Missing}
         /\ call' = next
BY EndMoves, ConfirmedIs DEF Finish, TypeOK

\* Types, control and revisions.
Books == TypeOK /\ Control /\ Revisions

\* Revisions are compared as naturals.
LEMMA RevOrder ==
  ASSUME TypeOK
  PROVE  /\ confirmed.rev \in Nat /\ revision \in Nat /\ known \in Nat
         /\ \A d \in Docs : d.rev \in Nat /\ d.rev >= 1
BY DocumentFacts DEF TypeOK

\* Books under each action of the program.
LEMMA WriteBooks ==
  ASSUME Books, NEW seen \in Nat, NEW for, Write(seen, for), for \in {"save", "fresh", "replace"},
         running, ~blocked, for = "save" => call = "none", for # "save" => call = for
  PROVE  Books'
<1> USE DEF Books
<1> DEFINE next == IF seen > revision THEN seen ELSE revision + 1
<1>1. PICK id \in Ids, body \in Bodies :
        next <= MaxRevision /\ BeginWrite("main", [id |-> id, rev |-> next, body |-> body])
  BY DEF Write
<1> DEFINE doc == [id |-> id, rev |-> next, body |-> body]
<1>2. next \in Nat /\ next > revision /\ next >= 1
  BY DEF TypeOK
<1>3. doc \in Docs /\ doc.rev = next
  BY <1>1, <1>2, DocumentsAssumption DEF Docs
<1>4. BeginWrite("main", doc)
  BY <1>1
<1> HIDE DEF doc, next
<1>5. /\ job' \in [Threads -> Jobs] /\ Doing' \in Jobs /\ Doing.kind = "none"
      /\ Doing'.kind = "write" /\ Doing'.stage = "stage" /\ Doing'.doc = doc /\ Doing'.ok
      /\ UNCHANGED <<disk, survivors, faults>>
  BY <1>3, <1>4, BeginWriteMoves
<1>6. /\ known' = seen /\ call' = for
      /\ UNCHANGED <<running, revision, blocked, confirmed, before, damages>>
  BY DEF Write
<1>7. TypeOK'
  BY <1>5, <1>6 DEF TypeOK
<1>8. Control'
  BY <1>3, <1>5, <1>6 DEF Control, KindOf, Writing, At, Doing
<1>9. Revisions'
  <2>1. confirmed.rev < next
    <3>1. CASE for = "save"
      BY <1>2, <3>1, RevOrder DEF Revisions
    <3>2. CASE for # "save"
      BY <1>2, <3>2, DocumentFacts DEF Revisions
    <3> QED
      BY <3>1, <3>2
  <2> QED
    BY <1>2, <1>3, <1>5, <1>6, <2>1 DEF Revisions
<1> QED
  BY <1>7, <1>8, <1>9

LEMMA BootBooks ==
  ASSUME Books, Boot
  PROVE  Books'
<1> USE DEF Books
<1>1. /\ job' \in [Threads -> Jobs] /\ Doing.kind = "none"
      /\ Doing'.kind = "recover" /\ Doing'.stage = "scan" /\ Doing'.doc = Missing /\ Doing'.ok
      /\ UNCHANGED <<disk, survivors, faults>>
  BY BeginRecoverMoves DEF Boot
<1>2. /\ running' = TRUE /\ call' = "boot" /\ blocked' = FALSE
      /\ revision' = 0 /\ known' = 0
      /\ UNCHANGED <<confirmed, before, damages>>
  BY DEF Boot, Adopt
<1>3. TypeOK'
  BY <1>1, <1>2 DEF TypeOK
<1>4. Control'
  BY <1>1, <1>2 DEF Control, KindOf, Writing, Displacing, At, Doing
<1>5. Revisions'
  BY <1>1, <1>2 DEF Revisions
<1> QED
  BY <1>3, <1>4, <1>5

\* When a call has returned, the files are as they were and no job is left.
LEMMA EndBooks ==
  ASSUME Books, NEW next \in {"none", "fresh", "replace"}, Finish(next),
         revision' \in Nat, known' \in Nat, blocked' \in BOOLEAN,
         running, blocked' => next = "none",
         ~blocked' /\ next = "none" => Confirmed.rev <= revision',
         next # "none" => Confirmed = Missing
  PROVE  Books'
<1> USE DEF Books
<1>1. /\ job' \in [Threads -> Jobs] /\ Doing' = NoJob
      /\ UNCHANGED <<disk, survivors, faults, running, damages>>
      /\ confirmed' = Confirmed /\ confirmed' \in Docs \cup {Missing}
      /\ before' \in Docs \cup {Missing} /\ call' = next
  BY FinishMoves
<1>2. Doing'.kind = "none" /\ Doing'.stage = "idle" /\ Doing'.doc = Missing /\ Doing'.ok
  BY <1>1, FirstJobs
<1>3. TypeOK'
  BY <1>1 DEF TypeOK
<1>4. Control'
  BY <1>1, <1>2 DEF Control, KindOf, Writing, Displacing, At, Doing
<1>5. Revisions'
  BY <1>1, <1>2 DEF Revisions
<1> QED
  BY <1>3, <1>4, <1>5

\* What a call that has returned leaves in the job.
LEMMA ReturnedFacts ==
  ASSUME Books, NEW for, Returned(for), for # "none"
  PROVE  /\ Doing.stage = "done" /\ call = for /\ running
         /\ for \in {"boot", "recover"} => Doing.kind = "recover"
         /\ for \in {"fresh", "save", "replace"} => Doing.kind = "write"
         /\ for = "quarantine" => Doing.kind = "quarantine"
         /\ for \in {"recover", "quarantine"} <=> blocked
         /\ Doing.kind = "write" => Doing.doc \in Docs
         /\ Doing.kind = "recover" => Doing.doc \in Contents /\ (Doing.ok <=> Doing.doc # Torn)
         /\ Doing.kind = "quarantine" => Doing.doc = Missing
         /\ Doing.kind # "quarantine" =>
              Confirmed = IF Doing.ok THEN Doing.doc ELSE confirmed
         /\ Doing.kind = "quarantine" => Confirmed = Missing
<1>1. Doing.stage = "done" /\ call = for
  BY DEF Returned, At, Doing
<1>2. Doing.kind # "none" /\ Doing.doc \in Contents
  BY <1>1, KindOfStage, DoingFields DEF Books
<1>3. call \in {"boot", "save", "fresh", "replace", "recover", "quarantine"} /\ Doing.kind \in KindOf
  BY <1>1 DEF Books, TypeOK, Control
<1>4. /\ for \in {"boot", "recover"} => Doing.kind = "recover"
      /\ for \in {"fresh", "save", "replace"} => Doing.kind = "write"
      /\ for = "quarantine" => Doing.kind = "quarantine"
  BY <1>1, <1>2, <1>3 DEF KindOf
<1>5. /\ for \in {"recover", "quarantine"} <=> blocked
      /\ running
      /\ Doing.kind = "write" => Doing.doc \in Docs
      /\ Doing.kind = "recover" => (Doing.ok <=> Doing.doc # Torn)
      /\ Doing.kind = "quarantine" => Doing.doc = Missing
  BY <1>1, <1>3 DEF Books, Control, At, Doing
<1> QED
  BY <1>1, <1>2, <1>4, <1>5, ConfirmedIs DEF Books

LEMMA BootedBooks ==
  ASSUME Books, Booted
  PROVE  Books'
<1>1. /\ Doing.kind = "recover" /\ running /\ ~blocked
      /\ Doing.doc \in Contents /\ (Doing.ok <=> Doing.doc # Torn)
      /\ Confirmed = IF Doing.ok THEN Doing.doc ELSE confirmed
  <2>1. Returned("boot")
    BY DEF Booted
  <2> QED
    BY <2>1, ReturnedFacts
<1>2. CASE Valid(Doing.doc) /\ Adopt(Doing.doc.rev) /\ UNCHANGED blocked /\ Finish("none")
  <2>1. Doing.doc \in Docs /\ Doing.doc # Torn
    BY <1>1, <1>2, DocumentFacts DEF Contents
  <2>2. Doing.doc.rev \in Nat /\ revision' = Doing.doc.rev /\ known' = Doing.doc.rev
    BY <1>2, <2>1, DocumentFacts DEF Adopt
  <2> QED
    BY <1>1, <1>2, <2>1, <2>2, EndBooks DEF Books, TypeOK
<1>3. CASE /\ Doing.doc = Missing /\ UNCHANGED <<revision, known, blocked>>
           /\ Finish("fresh")
  BY <1>1, <1>3, EndBooks, DocumentFacts DEF Books, TypeOK
<1>4. CASE Doing.doc = Torn /\ blocked' = TRUE /\ UNCHANGED <<revision, known>> /\ Finish("none")
  BY <1>1, <1>4, EndBooks DEF Books, TypeOK
<1> QED
  BY <1>2, <1>3, <1>4 DEF Booted

LEMMA WrittenBooks ==
  ASSUME Books, Written
  PROVE  Books'
<1>1. PICK for \in {"fresh", "save", "replace"} : Returned(for)
  BY DEF Written
<1>2. /\ Doing.kind = "write" /\ Doing.doc \in Docs /\ running /\ ~blocked /\ call = for
      /\ Confirmed = IF Doing.ok THEN Doing.doc ELSE confirmed
  BY <1>1, ReturnedFacts
<1>3. /\ IF Doing.ok THEN revision' = Doing.doc.rev /\ known' = Doing.doc.rev
         ELSE revision' = revision /\ known' = known
      /\ blocked' = (call = "replace" /\ ~Doing.ok) /\ Finish("none")
  BY DEF Written, Adopt
<1>4. revision' \in Nat /\ known' \in Nat /\ blocked' \in BOOLEAN
  BY <1>2, <1>3, RevOrder DEF Books
<1>5. ~blocked' => Confirmed.rev <= revision'
  <2>1. CASE Doing.ok
    BY <1>2, <1>3, <2>1, RevOrder DEF Books
  <2>2. CASE ~Doing.ok /\ for = "save"
    BY <1>2, <1>3, <2>2 DEF Books, Revisions
  <2>3. CASE ~Doing.ok /\ for # "save"
    BY <1>1, <1>2, <1>3, <2>3, DocumentFacts, RevOrder DEF Books, Revisions
  <2> QED
    BY <2>1, <2>2, <2>3
<1> QED
  BY <1>2, <1>3, <1>4, <1>5, EndBooks

LEMMA RecoverDocumentsBooks ==
  ASSUME Books, RecoverDocuments
  PROVE  Books'
<1> USE DEF Books
<1>1. /\ job' \in [Threads -> Jobs] /\ Doing.kind = "none"
      /\ Doing'.kind = "recover" /\ Doing'.stage = "scan" /\ Doing'.doc = Missing /\ Doing'.ok
      /\ UNCHANGED <<disk, survivors, faults>>
  BY BeginRecoverMoves DEF RecoverDocuments
<1>2. /\ running /\ blocked /\ call' = "recover"
      /\ UNCHANGED <<running, revision, known, blocked, confirmed, before, damages>>
  BY DEF RecoverDocuments
<1>3. TypeOK'
  BY <1>1, <1>2 DEF TypeOK
<1>4. Control'
  BY <1>1, <1>2 DEF Control, KindOf, Writing, Displacing, At, Doing
<1>5. Revisions'
  BY <1>1, <1>2 DEF Revisions
<1> QED
  BY <1>3, <1>4, <1>5

LEMMA DocumentsRecoveredBooks ==
  ASSUME Books, DocumentsRecovered
  PROVE  Books'
<1>1. Returned("recover") /\ Finish("none")
  BY DEF DocumentsRecovered
<1>2. /\ Doing.kind = "recover" /\ running /\ blocked
      /\ Doing.doc \in Contents /\ (Doing.ok <=> Doing.doc # Torn)
      /\ Confirmed = IF Doing.ok THEN Doing.doc ELSE confirmed
  BY <1>1, ReturnedFacts
<1>3. CASE Valid(Doing.doc)
  <2>1. Doing.doc \in Docs /\ Doing.doc # Torn
    BY <1>2, <1>3, DocumentFacts DEF Contents
  <2>2. /\ Doing.doc.rev \in Nat /\ revision' = Doing.doc.rev /\ known' = Doing.doc.rev
        /\ blocked' = FALSE
    BY <1>3, <2>1, DocumentFacts DEF Adopt, DocumentsRecovered
  <2>3. Confirmed.rev <= revision'
    BY <1>2, <2>1, <2>2
  <2>4. known' \in Nat /\ revision' \in Nat /\ blocked' \in BOOLEAN /\ ~blocked'
    BY <2>2
  <2> QED
    BY <1>1, <1>2, <2>3, <2>4, EndBooks
<1>4. CASE ~Valid(Doing.doc)
  BY <1>1, <1>2, <1>4, EndBooks DEF DocumentsRecovered, Books, TypeOK
<1> QED
  BY <1>3, <1>4

LEMMA QuarantineDocumentsBooks ==
  ASSUME Books, QuarantineDocuments
  PROVE  Books'
<1> USE DEF Books
<1>1. /\ job' \in [Threads -> Jobs] /\ Doing.kind = "none"
      /\ Doing'.kind = "quarantine" /\ Doing'.stage = "quarantine" /\ Doing'.doc = Missing
      /\ Doing'.ok
      /\ UNCHANGED <<disk, survivors, faults>>
  BY BeginClearMoves DEF QuarantineDocuments
<1>2. /\ running /\ blocked /\ call' = "quarantine"
      /\ UNCHANGED <<running, revision, known, blocked, confirmed, before, damages>>
  BY DEF QuarantineDocuments
<1>3. TypeOK'
  BY <1>1, <1>2 DEF TypeOK
<1>4. Control'
  BY <1>1, <1>2 DEF Control, KindOf, Writing, Displacing, At, Doing
<1>5. Revisions'
  BY <1>1, <1>2 DEF Revisions
<1> QED
  BY <1>3, <1>4, <1>5

LEMMA DocumentsQuarantinedBooks ==
  ASSUME Books, DocumentsQuarantined
  PROVE  Books'
<1>1. Returned("quarantine") /\ revision' = revision /\ known' = known
  BY DEF DocumentsQuarantined
<1>2. Doing.kind = "quarantine" /\ running /\ blocked /\ Confirmed = Missing
  BY <1>1, ReturnedFacts
<1>3. CASE Doing.ok
  BY <1>1, <1>2, <1>3, EndBooks, RevOrder DEF DocumentsQuarantined, Books
<1>4. CASE ~Doing.ok
  BY <1>1, <1>2, <1>4, EndBooks, RevOrder DEF DocumentsQuarantined, Books
<1> QED
  BY <1>3, <1>4

LEMMA StopBooks ==
  ASSUME Books, Stop
  PROVE  Books'
<1> USE DEF Books
<1>1. PICK view \in survivors : disk' = view /\ survivors' = {view}
  BY DEF Stop, PowerCut
<1>2. /\ job' = [t \in Threads |-> NoJob] /\ faults' = faults
      /\ running' = FALSE /\ call' = "none" /\ confirmed' = Confirmed /\ before' = Before
      /\ revision' = 0 /\ known' = 0 /\ blocked' = FALSE /\ damages' = damages
  BY DEF Stop, PowerCut, Adopt
<1>3. job' \in [Threads -> Jobs] /\ Doing' = NoJob
  BY <1>2, FirstJobs, ProfileAssumption DEF Doing
<1>4. Doing'.kind = "none" /\ Doing'.stage = "idle" /\ Doing'.doc = Missing /\ Doing'.ok
  BY <1>3, FirstJobs
<1>5. /\ Confirmed \in Docs \cup {Missing}
      /\ Before \in Docs \cup {Missing}
  BY ConfirmedIs DEF TypeOK
<1>6. TypeOK'
  BY <1>1, <1>2, <1>3, <1>5 DEF TypeOK
<1>7. Control'
  BY <1>2, <1>3, <1>4 DEF Control, KindOf, Writing, Displacing, At, Doing
<1>8. Revisions'
  BY <1>2, <1>4 DEF Revisions
<1> QED
  BY <1>6, <1>7, <1>8

LEMMA DamageBooks ==
  ASSUME Books, Damage
  PROVE  Books'
<1> USE DEF Books
<1>1. PICK name \in Names : disk' = Replace(name, Torn) /\ survivors' = {disk'}
  BY DEF Damage
<1>2. /\ damages' = damages + 1 /\ Doing' = Doing
      /\ UNCHANGED <<job, faults, running, call, revision, known, blocked, confirmed, before>>
  BY DEF Damage, Doing
<1>3. disk' \in Views
  BY <1>1, Rewrites DEF TypeOK, Contents
<1>4. TypeOK'
  BY <1>1, <1>2, <1>3 DEF TypeOK
<1>5. Control'
  BY <1>2 DEF Control, KindOf, At
<1>6. Revisions'
  BY <1>2 DEF Revisions, At
<1> QED
  BY <1>4, <1>5, <1>6

LEMMA StepBooks ==
  ASSUME Books, Step
  PROVE  Books'
<1> USE DEF Books
<1>1. /\ Doing'.kind = Doing.kind
      /\ UNCHANGED <<running, call, revision, known, blocked, confirmed, before, damages>>
  BY JobType DEF Step, profileVars
<1>2. Doing.kind = "write" => Doing'.doc = Doing.doc /\ Doing.stage # "done"
  <2>1. ASSUME Doing.kind = "write" PROVE ~Choose("main") /\ ~Quarantine("main") /\ ~Cleared("main")
    BY <2>1, ChooseMoves, QuarantineMoves, ClearedMoves
  <2> QED
    BY <2>1, StageMoves, RetireMoves, PromoteMoves, DisplaceMoves, SyncParentMoves, NothingUnlinked
       DEF Step, JobStep, Moves, Advance, Failure
<1>3. Revisions'
  BY <1>1, <1>2 DEF Revisions, At, Doing
<1> QED
  BY <1>3, StepType, StepControl

\* Types, control and revisions hold whatever files are damaged and calls fail.
LEMMA InitBooks == Init => Books
<1> SUFFICES ASSUME Init PROVE Books
  OBVIOUS
<1>1. /\ disk = [name \in Names |-> Missing] /\ survivors = {disk}
      /\ job = [t \in Threads |-> NoJob] /\ faults = 0
      /\ running = FALSE /\ call = "none" /\ revision = 0 /\ known = 0 /\ blocked = FALSE
      /\ confirmed = Missing /\ before = Missing /\ damages = 0
  BY DEF Init, FileInit
<1>2. Doing = NoJob /\ job \in [Threads -> Jobs]
  BY <1>1, FirstJobs, ProfileAssumption DEF Doing
<1>3. Doing.kind = "none" /\ Doing.stage = "idle" /\ Doing.doc = Missing /\ Doing.ok
  BY <1>2, FirstJobs
<1>4. disk \in Views
  BY <1>1 DEF Views, Contents
<1>5. TypeOK
  BY <1>1, <1>2, <1>4 DEF TypeOK
<1>6. Control
  BY <1>1, <1>2, <1>3 DEF Control, KindOf, Writing, Displacing, At, Doing
<1>7. Revisions
  BY <1>1, <1>3 DEF Revisions
<1> QED
  BY <1>5, <1>6, <1>7 DEF Books

\* Books under every step.
LEMMA NextBooks == Books /\ [Next]_vars => Books'
<1> SUFFICES ASSUME Books, [Next]_vars PROVE Books'
  OBVIOUS
<1>1. CASE WriteFresh
  <2>1. call \in {"fresh", "replace"} /\ Write(known, call)
    BY <1>1 DEF WriteFresh
  <2>2. running /\ ~blocked /\ known \in Nat
    BY <2>1 DEF Books, Control, TypeOK
  <2> QED
    BY <2>1, <2>2, WriteBooks
<1>2. CASE Save
  <2>1. PICK seen \in known..MaxRevision : Write(seen, "save")
    BY <1>2 DEF Save
  <2>2. running /\ ~blocked /\ call = "none" /\ seen \in Nat
    BY <1>2, DocumentsAssumption DEF Save, Books, TypeOK
  <2> QED
    BY <2>1, <2>2, WriteBooks
<1>3. CASE UNCHANGED vars
  BY <1>3 DEF vars, Books, TypeOK, Control, KindOf, Revisions, At, Doing
<1> QED
  BY <1>1, <1>2, <1>3, BootBooks, BootedBooks, WrittenBooks, RecoverDocumentsBooks,
     DocumentsRecoveredBooks, QuarantineDocumentsBooks, DocumentsQuarantinedBooks,
     StopBooks, DamageBooks, StepBooks DEF Next

\* Books hold in every state of every behaviour.
LEMMA BooksHold == Spec => []Books
BY InitBooks, NextBooks, PTL DEF Spec

(* The game never takes a directory that holds a readable profile for an empty
   one: boot starts over only where neither the primary file nor the backup nor
   the temporary one could be read.  Holds however many calls fail, whichever
   files are damaged and wherever the process stops. *)
THEOREM NeverStartedOverHolds == Spec => []NeverStartedOver
<1>1. Books => NeverStartedOver
  BY DEF Books, Revisions, NeverStartedOver, At, Doing
<1> QED
  BY <1>1, BooksHold, PTL

-----------------------------------------------------------------------------
(* The files: in any directory a crash may leave *)

\* The three files, one by one, when one is replaced or renamed.
LEMMA Replaced ==
  ASSUME TypeOK, NEW content
  PROVE  /\ LET v == Replace("tmp", content)
            IN  v["tmp"] = content /\ v["primary"] = disk["primary"] /\ v["bak"] = disk["bak"]
         /\ LET v == Replace("primary", content)
            IN  v["primary"] = content /\ v["tmp"] = disk["tmp"] /\ v["bak"] = disk["bak"]
         /\ LET v == Replace("bak", content)
            IN  v["bak"] = content /\ v["tmp"] = disk["tmp"] /\ v["primary"] = disk["primary"]
         /\ LET v == [Replace("bak", Missing) EXCEPT !["tmp"] = content]
            IN  v["tmp"] = content /\ v["primary"] = disk["primary"] /\ v["bak"] = Missing
         /\ LET v == Rename("primary", "bak")
            IN  v["primary"] = Missing /\ v["bak"] = disk["primary"] /\ v["tmp"] = disk["tmp"]
         /\ LET v == Rename("tmp", "primary")
            IN  v["tmp"] = Missing /\ v["primary"] = disk["tmp"] /\ v["bak"] = disk["bak"]
<1>1. DOMAIN disk = {"primary", "tmp", "bak"} /\ disk = [name \in DOMAIN disk |-> disk[name]]
  BY DEF TypeOK, Views, Names
<1> QED
  BY <1>1 DEF Replace, Rename

\* The three names of the directory as it is.
LEMMA DiskFacts ==
  ASSUME TypeOK
  PROVE  /\ disk["primary"] \in Contents /\ disk["tmp"] \in Contents /\ disk["bak"] \in Contents
         /\ \A name \in Names : disk[name] \in Contents
         /\ \A d \in Contents : Valid(d) <=> d \in Docs
         /\ \A d \in Contents : d \in Docs \/ d = Missing \/ d = Torn
         /\ \A d \in Docs : d.rev \in Nat
         /\ ~Valid(Missing) /\ ~Valid(Torn) /\ Missing # Torn
         /\ Missing \notin Docs /\ Torn \notin Docs
BY ViewFacts, DocumentFacts DEF TypeOK, Names, Contents

\* What stays in order when the files change.
LEMMA OrderedKept ==
  ASSUME NEW v, NEW w, Ordered(v)
  PROVE  /\ w["primary"] = v["primary"] /\ (w["bak"] = v["bak"] \/ w["bak"] = Missing)
              /\ (w["tmp"] = v["tmp"] \/ ~Valid(w["tmp"])) => Ordered(w)
         /\ w["primary"] = Missing /\ w["tmp"] = v["tmp"] /\ w["bak"] = v["bak"] => Ordered(w)
         /\ w["primary"] = v["primary"] /\ w["bak"] = v["bak"]
              /\ Above(w["tmp"], v["primary"]) /\ Above(w["tmp"], v["bak"])
              /\ w["tmp"] # v["primary"] => Ordered(w)
         /\ w["primary"] = Missing /\ w["bak"] = v["primary"] /\ w["tmp"] = v["tmp"] => Ordered(w)
         /\ w["primary"] = v["tmp"] /\ w["bak"] = v["bak"]
              /\ w["tmp"] = Missing /\ v["tmp"] # Torn => Ordered(w)
<1>1. ~Valid(Missing) /\ Missing # Torn
  BY DocumentFacts
<1>2. ASSUME w["primary"] = v["primary"], w["bak"] = v["bak"] \/ w["bak"] = Missing,
             w["tmp"] = v["tmp"] \/ ~Valid(w["tmp"])
      PROVE  Ordered(w)
  BY <1>1, <1>2 DEF Ordered, Above
<1>3. ASSUME w["primary"] = Missing, w["tmp"] = v["tmp"], w["bak"] = v["bak"]
      PROVE  Ordered(w)
  BY <1>1, <1>3 DEF Ordered, Above
<1>4. ASSUME w["primary"] = v["primary"], w["bak"] = v["bak"],
             Above(w["tmp"], v["primary"]), Above(w["tmp"], v["bak"]), w["tmp"] # v["primary"]
      PROVE  Ordered(w)
  BY <1>4 DEF Ordered
<1>5. ASSUME w["primary"] = Missing, w["bak"] = v["primary"], w["tmp"] = v["tmp"]
      PROVE  Ordered(w)
  BY <1>1, <1>5 DEF Ordered, Above
<1>6. ASSUME w["primary"] = v["tmp"], w["bak"] = v["bak"], w["tmp"] = Missing, v["tmp"] # Torn
      PROVE  Ordered(w)
  BY <1>1, <1>6 DEF Ordered, Above
<1> QED
  BY <1>2, <1>3, <1>4, <1>5, <1>6

\* A document that stands is kept whatever becomes of the temporary file.
LEMMA KeepsStanding ==
  ASSUME NEW v, NEW c, Valid(c) => Stands(c)
  PROVE  /\ v["primary"] = disk["primary"] /\ v["bak"] = disk["bak"] => Keeps(v, c)
         /\ v["primary"] = disk["primary"] /\ Valid(disk["primary"]) => Keeps(v, c)
         /\ v["primary"] = Missing /\ v["bak"] = disk["primary"] /\ Valid(disk["primary"]) =>
              Keeps(v, c)
         /\ v["bak"] = disk["bak"] /\ v["tmp"] = Missing /\ disk["primary"] = Missing =>
              Keeps(v, c)
BY DocumentFacts DEF Stands, Keeps

\* Where the confirmed document is while files are written.
LEMMA WritingStands ==
  ASSUME Books, Files, Doing.stage \in Writing, Doing.stage # "promoted"
  PROVE  /\ Doing.kind \in {"write", "recover"} /\ Confirmed = confirmed
         /\ Valid(Confirmed) => Stands(Confirmed)
         /\ Doing.kind = "write" => running /\ ~blocked /\ call \in {"save", "fresh", "replace"}
         /\ Doing.kind = "write" => Steady(Confirmed)
         /\ Doing.kind = "recover" => call \in {"boot", "recover"}
         /\ Doing.doc \in Docs
<1>1. Doing.kind \in {"write", "recover"} /\ Doing.stage # "done"
  BY KindOfStage DEF Books, Writing
<1>2. Confirmed = confirmed
  BY <1>1, ConfirmedIs DEF Books
<1>3. Doing.doc \in Docs
  BY <1>1 DEF Books, Control
<1>4. /\ Doing.kind = "write" => running /\ ~blocked /\ call \in {"save", "fresh", "replace"}
      /\ Doing.kind = "recover" => call \in {"boot", "recover"}
  <2>1. Doing.kind \in KindOf
    BY DEF Books, Control
  <2>2. call \in {"none", "boot", "save", "fresh", "replace", "recover", "quarantine"}
    BY DEF Books, TypeOK
  <2> QED
    BY <1>1, <2>1, <2>2 DEF KindOf, Books, Control
<1>5. Doing.kind = "write" => Steady(Confirmed)
  BY <1>4 DEF Files, Standing, At, Doing
<1>6. Valid(Confirmed) => Stands(Confirmed)
  BY <1>1, <1>2, <1>5 DEF Files, Standing, Steady
<1> QED
  BY <1>1, <1>2, <1>3, <1>4, <1>5, <1>6

\* In a step the rest of the program stands still.
LEMMA StepFacts ==
  ASSUME Books, Step
  PROVE  /\ UNCHANGED <<running, call, revision, known, blocked, confirmed, before, damages>>
         /\ Doing'.kind = Doing.kind
         /\ Confirmed' = IF Doing.kind = "quarantine" THEN Missing
                         ELSE IF Doing'.stage = "done" /\ Doing'.ok THEN Doing'.doc
                         ELSE confirmed
<1>1. /\ UNCHANGED <<running, call, revision, known, blocked, confirmed, before, damages>>
      /\ Doing'.kind = Doing.kind
  BY JobType DEF Step, profileVars, Books
<1>2. Doing'.kind = "quarantine" => Doing'.doc = Missing
  BY StepBooks DEF Books, Control
<1> QED
  BY <1>1, <1>2 DEF Confirmed, At, Doing

\* Files under each step of a write or a recovery.
LEMMA StageFiles ==
  ASSUME Books, Files, Step, Stage("main")
  PROVE  Files'
<1> USE DEF Books
<1> DEFINE none == Replace("tmp", Missing)
           torn == Replace("tmp", Torn)
           full == Replace("tmp", Doing.doc)
<1>1. /\ Doing.kind \in {"write", "recover"} /\ Doing.stage = "stage"
      /\ \/ Advance("staged") /\ Becomes(full, {none, torn})
         \/ Failure /\ \E left \in {disk, none, torn} : Becomes(left, {none, torn})
  BY StageMoves
<1>2. /\ UNCHANGED <<running, call, blocked, confirmed>> /\ Doing'.kind = Doing.kind
      /\ Confirmed' = Confirmed
      /\ Valid(Confirmed) => Stands(Confirmed)
      /\ Doing.doc \in Docs
  BY <1>1, StepFacts, WritingStands DEF Writing, Advance, Failure, Moves
<1>3. \A v \in {none, torn, full} : v["primary"] = disk["primary"] /\ v["bak"] = disk["bak"]
  BY Replaced
<1>4. none["tmp"] = Missing /\ torn["tmp"] = Torn /\ full["tmp"] = Doing.doc
  BY Replaced
<1>5. /\ disk \in survivors /\ disk \in Views /\ Ordered(disk)
      /\ Above(Doing.doc, disk["primary"]) /\ Above(Doing.doc, disk["bak"])
      /\ disk["primary"] # Doing.doc
  BY <1>1 DEF TypeOK, Files, Sound, Staging, At, Doing, Names
<1> HIDE DEF none, torn, full
<1>6. \A v \in {disk, none, torn, full} : Ordered(v) /\ Keeps(v, Confirmed)
  BY <1>2, <1>3, <1>4, <1>5, OrderedKept, KeepsStanding, DocumentFacts
<1>7. disk'["primary"] = disk["primary"] /\ disk'["bak"] = disk["bak"]
  BY <1>1, <1>3 DEF Becomes
<1>8. survivors' \subseteq survivors \cup {disk, none, torn, full}
  BY <1>1 DEF Becomes
<1>9. /\ Doing'.stage = "staged" => Doing'.doc = Doing.doc /\ disk'["tmp"] = Doing.doc
      /\ Doing'.stage \in {"staged", "done"} /\ (Doing'.stage = "done" => ~Doing'.ok)
  BY <1>1, <1>4 DEF Advance, Failure, Moves, Becomes
<1>10. Sound'
  BY <1>2, <1>6, <1>8 DEF Files, Sound
<1>11. PrimarySettled'
  <2>1. \A v \in survivors : v["primary"] = disk["primary"]
    BY <1>1 DEF Files, PrimarySettled, At, Doing
  <2> QED
    BY <1>3, <1>7, <1>8, <2>1 DEF PrimarySettled
<1>12. Staging'
  BY <1>5, <1>7, <1>9 DEF Staging, Displacing, Names, At, Doing
<1>13. Standing'
  <2>1. Doing.kind = "recover" /\ Valid(confirmed) => Stands(confirmed)
    BY <1>1 DEF Files, Standing, Writing, Doing
  <2>2. running /\ ~blocked /\ call \in {"none", "save", "fresh", "replace"} => Steady(Confirmed)
    BY <1>1 DEF Files, Standing, At, Doing
  <2> QED
    BY <1>2, <1>7, <1>9, <2>1, <2>2 DEF Standing, Stands, Steady, At, Doing
<1>14. Clearing'
  BY <1>1, <1>2 DEF Clearing
<1> QED
  BY <1>10, <1>11, <1>12, <1>13, <1>14 DEF Files

LEMMA RetireFiles ==
  ASSUME Books, Files, Step, Retire("main")
  PROVE  Files'
<1> USE DEF Books
<1> DEFINE unbacked == Replace("bak", Missing)
           retired == Rename("primary", "bak")
           alone == [unbacked EXCEPT !["tmp"] = Missing]
           settled == Replace("tmp", Missing)
<1>1. /\ Doing.kind \in {"write", "recover"} /\ Doing.stage = "retire"
      /\ \/ Advance("retired") /\ Becomes(retired, {unbacked})
         \/ /\ Failure
            /\ \E view \in {disk, unbacked} :
                 \/ Becomes(view, {})
                 \/ Becomes([view EXCEPT !["tmp"] = Missing], {view})
  BY RetireMoves
<1>2. /\ UNCHANGED <<running, call, blocked, confirmed>> /\ Doing'.kind = Doing.kind
      /\ Confirmed' = Confirmed
      /\ Valid(Confirmed) => Stands(Confirmed)
      /\ Doing.doc \in Docs
  BY <1>1, StepFacts, WritingStands DEF Writing, Advance, Failure, Moves
<1>3. /\ disk \in survivors /\ Ordered(disk) /\ Valid(disk["primary"])
      /\ disk["tmp"] = Doing.doc
      /\ \A v \in survivors : v["primary"] = disk["primary"]
  BY <1>1 DEF TypeOK, Files, Sound, Staging, PrimarySettled, At, Doing
<1>4. /\ unbacked["primary"] = disk["primary"] /\ unbacked["tmp"] = disk["tmp"]
      /\ unbacked["bak"] = Missing
      /\ alone["primary"] = disk["primary"] /\ alone["tmp"] = Missing /\ alone["bak"] = Missing
      /\ settled["primary"] = disk["primary"] /\ settled["tmp"] = Missing
      /\ settled["bak"] = disk["bak"]
      /\ retired["primary"] = Missing /\ retired["bak"] = disk["primary"]
      /\ retired["tmp"] = disk["tmp"]
  BY Replaced
<1>5. \/ /\ Advance("retired") /\ disk' = retired
         /\ survivors' = survivors \cup {unbacked, retired}
      \/ /\ Failure /\ disk' \in {disk, unbacked, alone, settled}
         /\ survivors' \subseteq survivors \cup {disk, unbacked, alone, settled}
  BY <1>1 DEF Becomes, Replace
<1> HIDE DEF unbacked, retired, alone, settled
<1>6. \A v \in {disk, unbacked, retired, alone, settled} : Ordered(v) /\ Keeps(v, Confirmed)
  BY <1>2, <1>3, <1>4, OrderedKept, KeepsStanding, DocumentFacts
<1>7. Sound'
  BY <1>2, <1>5, <1>6 DEF Files, Sound
<1>8. \/ /\ Doing'.stage = "retired" /\ Doing'.doc = Doing.doc /\ disk' = retired
      \/ /\ Doing'.stage = "done" /\ ~Doing'.ok /\ disk'["primary"] = disk["primary"]
         /\ \A v \in survivors' : v["primary"] = disk["primary"]
  BY <1>3, <1>4, <1>5 DEF Advance, Failure, Moves
<1>9. PrimarySettled'
  BY <1>8 DEF PrimarySettled, At, Doing
<1>10. Staging'
  BY <1>3, <1>4, <1>8 DEF Staging, Displacing, At, Doing
<1>11. Standing'
  <2>1. Doing.kind = "recover" /\ Valid(confirmed) => confirmed = disk["primary"]
    BY <1>1, <1>3, DocumentFacts DEF Files, Standing, Stands, Writing, Doing
  <2>2. running /\ ~blocked /\ call \in {"none", "save", "fresh", "replace"} =>
          Valid(Confirmed) /\ Confirmed = disk["primary"]
    BY <1>1, <1>3, DocumentFacts DEF Files, Standing, Steady, Stands, At, Doing
  <2> QED
    BY <1>2, <1>4, <1>8, <2>1, <2>2 DEF Standing, Stands, Steady, At, Doing
<1>12. Clearing'
  BY <1>1, <1>2 DEF Clearing
<1> QED
  BY <1>7, <1>9, <1>10, <1>11, <1>12 DEF Files

LEMMA PromoteFiles ==
  ASSUME Books, Files, Step, Promote("main")
  PROVE  Files'
<1> USE DEF Books
<1> DEFINE promoted == Rename("tmp", "primary")
<1>1. /\ Doing.kind \in {"write", "recover"} /\ Doing.stage = "promote"
      /\ \/ Advance("promoted") /\ Becomes(promoted, {})
         \/ Failure /\ Becomes(disk, {})
  BY PromoteMoves
<1>2. /\ UNCHANGED <<running, call, blocked, confirmed>> /\ Doing'.kind = Doing.kind
      /\ Confirmed' = Confirmed
      /\ Valid(Confirmed) => Stands(Confirmed)
      /\ Doing.doc \in Docs
  BY <1>1, StepFacts, WritingStands DEF Writing, Advance, Failure, Moves
<1>3. /\ disk \in survivors /\ Ordered(disk) /\ disk["primary"] = Missing
      /\ disk["tmp"] = Doing.doc /\ Doing.doc # Torn
      /\ \A v \in survivors : v["primary"] = disk["primary"]
  BY <1>1, <1>2, DocumentFacts DEF TypeOK, Files, Sound, Staging, PrimarySettled, At, Doing
<1>4. /\ promoted["primary"] = Doing.doc /\ promoted["tmp"] = Missing
      /\ promoted["bak"] = disk["bak"]
  BY <1>3, Replaced
<1> HIDE DEF promoted
<1>5. \A v \in {disk, promoted} : Ordered(v) /\ Keeps(v, Confirmed)
  BY <1>2, <1>3, <1>4, OrderedKept, KeepsStanding
<1>6. \/ /\ Doing'.stage = "promoted" /\ Doing'.doc = Doing.doc /\ disk' = promoted
         /\ survivors' = survivors \cup {promoted}
      \/ /\ Doing'.stage = "done" /\ ~Doing'.ok /\ disk' = disk
         /\ survivors' = survivors \cup {disk}
  BY <1>1 DEF Becomes, Advance, Failure, Moves
<1>7. Sound'
  BY <1>2, <1>5, <1>6 DEF Files, Sound
<1>8. PrimarySettled'
  BY <1>3, <1>6 DEF PrimarySettled, At, Doing
<1>9. Staging'
  BY <1>3, <1>4, <1>6 DEF Staging, Displacing, At, Doing
<1>10. Standing'
  <2>1. running /\ ~blocked /\ call \in {"none", "save", "fresh", "replace"} => Steady(Confirmed)
    BY <1>1 DEF Files, Standing, At, Doing
  <2> QED
    BY <1>2, <1>6, <2>1 DEF Standing, Stands, Steady, Writing, At, Doing
<1>11. Clearing'
  BY <1>1, <1>2 DEF Clearing
<1> QED
  BY <1>7, <1>8, <1>9, <1>10, <1>11 DEF Files

\* A job whose directory is synced.
LEMMA SettledFiles ==
  ASSUME Books, Files, Step, SyncParent("main"), Settled, Advance(AfterSync("main"))
  PROVE  Files'
<1> USE DEF Books
<1>1. /\ \/ /\ Doing.kind \in {"write", "recover"}
            /\ Doing.stage \in {"staged", "retired", "displaced", "promoted"}
         \/ Doing.kind = "quarantine" /\ Doing.stage = "quarantined"
      /\ Doing'.stage = AfterSync("main") /\ Doing'.doc = Doing.doc /\ Doing'.left = Doing.left
      /\ Doing'.ok = Doing.ok
  BY SyncParentMoves DEF Advance, Moves
<1>2. Doing.stage # "displaced"
  BY DEF Files, Staging, Displacing
<1>3. /\ UNCHANGED <<running, call, blocked, confirmed>> /\ Doing'.kind = Doing.kind
      /\ Confirmed' = IF Doing.kind = "quarantine" THEN Missing
                      ELSE IF Doing'.stage = "done" /\ Doing'.ok THEN Doing'.doc
                      ELSE confirmed
  BY StepFacts
<1>4. disk' = disk /\ survivors' = {disk} /\ disk \in survivors /\ Ordered(disk)
      /\ Keeps(disk, Confirmed)
  BY DEF Settled, TypeOK, Files, Sound
<1>5. PrimarySettled'
  BY <1>4 DEF PrimarySettled
<1>6. CASE Doing.kind = "quarantine"
  <2>1. Doing'.stage = "quarantine"
    BY <1>1, <1>6, AfterSyncIs
  <2>2. Sound'
    BY <1>3, <1>4, <1>6, DocumentFacts DEF Sound, Keeps
  <2>3. Staging'
    BY <2>1 DEF Staging, Displacing, At, Doing
  <2>4. Standing'
    <3>1. call = "quarantine"
      BY <1>6 DEF Control, KindOf, TypeOK
    <3> QED
      BY <1>3, <1>6, <3>1 DEF Standing
  <2>5. Clearing'
    BY <1>1, <1>3, <1>4, <1>6, <2>1 DEF Files, Clearing, Gone, At, Doing
  <2> QED
    BY <1>5, <2>2, <2>3, <2>4, <2>5 DEF Files
<1>7. CASE Doing.kind # "quarantine"
  <2>1. Clearing'
    BY <1>3, <1>7 DEF Clearing
  <2>2. /\ Doing.stage \in Writing /\ Doing.doc \in Docs
        /\ Doing.kind = "write" => running /\ ~blocked /\ call \in {"save", "fresh", "replace"}
        /\ Doing.kind = "recover" => call \in {"boot", "recover"}
    BY <1>1, <1>2, <1>7 DEF Writing, Control, KindOf, TypeOK
  <2>3. CASE Doing.stage = "promoted"
    <3>1. disk["primary"] = Doing.doc /\ disk["tmp"] = Missing
      BY <2>3 DEF Files, Staging, At, Doing
    <3>2. Doing'.stage = "done" /\ Doing'.ok /\ Confirmed' = Doing.doc
      BY <1>1, <1>3, <1>7, <2>3, AfterSyncIs DEF Control
    <3>3. Staging'
      BY <3>2 DEF Staging, Displacing, At, Doing
    <3>4. Sound'
      BY <1>4, <3>1, <3>2 DEF Sound, Keeps
    <3>5. Standing'
      BY <1>1, <1>3, <1>4, <2>2, <3>1, <3>2, DocumentFacts
         DEF Standing, Steady, Stands, Writing, At, Doing
    <3> QED
      BY <1>5, <2>1, <3>3, <3>4, <3>5 DEF Files
  <2>4. CASE Doing.stage # "promoted"
    <3>1. /\ Confirmed = confirmed
          /\ Valid(Confirmed) => Stands(Confirmed)
          /\ Doing.kind = "write" => Steady(Confirmed)
      BY <2>2, <2>4, WritingStands
    <3>2. /\ disk["tmp"] = Doing.doc
          /\ Doing.stage = "retired" => disk["primary"] = Missing
          /\ Doing.stage = "staged" =>
               Above(Doing.doc, disk["primary"]) /\ Above(Doing.doc, disk["bak"])
      BY <1>1, <1>2, <1>7, <2>4 DEF Files, Staging, Names, At, Doing
    <3>3. disk["primary"] # Torn /\ (disk["primary"] = Missing \/ Valid(disk["primary"]))
      BY <1>4, DiskFacts DEF Ordered
    <3>4. \/ Doing'.stage = "retire" /\ Valid(disk["primary"]) /\ Doing.stage = "staged"
          \/ Doing'.stage = "promote" /\ disk["primary"] = Missing
      BY <1>1, <1>2, <1>7, <2>4, <3>2, <3>3, AfterSyncIs
    <3>5. Confirmed' = Confirmed
      BY <1>3, <1>7, <3>1, <3>4
    <3>6. Sound'
      BY <1>4, <3>5 DEF Sound
    <3>7. Staging'
      BY <1>1, <1>4, <3>2, <3>4 DEF Staging, Displacing, Names, At, Doing
    <3>8. Standing'
      BY <1>1, <1>3, <1>4, <1>7, <2>2, <3>1, <3>4, <3>5 DEF Standing, Steady, Stands, Writing, At, Doing
    <3> QED
      BY <1>5, <2>1, <3>6, <3>7, <3>8 DEF Files
  <2> QED
    BY <2>3, <2>4
<1> QED
  BY <1>6, <1>7

\* Files under each step of a clear.
LEMMA QuarantineFiles ==
  ASSUME Books, Files, Step, Quarantine("main")
  PROVE  Files'
<1> USE DEF Books
<1> DEFINE file == Head(Doing.left)
           rest == Tail(Doing.left)
           gone == Replace(file, Missing)
<1>1. /\ Doing.kind = "quarantine" /\ Doing.stage = "quarantine"
      /\ Doing.left # <<>> /\ file \in Names /\ rest \in Lefts
      /\ \/ /\ disk[file] = Missing
            /\ Moves("quarantine", Doing.doc, rest, Doing.ok)
            /\ UNCHANGED <<disk, survivors, faults>>
         \/ /\ Moves("quarantined", Doing.doc, rest, Doing.ok)
            /\ Becomes(gone, {}) /\ faults' = faults
         \/ /\ Moves("quarantine", Doing.doc, rest, FALSE)
            /\ Becomes(disk, {}) /\ faults' = faults + 1
  BY QuarantineMoves
<1>2. /\ UNCHANGED <<running, call, blocked, confirmed>> /\ Doing'.kind = "quarantine"
      /\ Confirmed' = Missing
  BY <1>1, StepFacts
<1>3. /\ disk \in survivors /\ Ordered(disk)
      /\ \A v \in survivors : Ordered(v) /\ v["primary"] = disk["primary"]
  BY <1>1 DEF TypeOK, Files, Sound, PrimarySettled, At, Doing
<1>4. /\ \/ Doing.left = Artifacts /\ file = "primary" /\ rest = <<"tmp", "bak">>
         \/ Doing.left = <<"tmp", "bak">> /\ file = "tmp" /\ rest = <<"bak">>
         \/ Doing.left = <<"bak">> /\ file = "bak" /\ rest = <<>>
      /\ rest # Artifacts
  <2>1. Doing.left \in Lefts
    BY DoingFields
  <2> QED
    BY <1>1, <2>1, LeftFacts DEF Lefts
<1>5. /\ gone[file] = Missing /\ \A name \in Names \ {file} : gone[name] = disk[name]
      /\ Ordered(gone)
  <2>1. \/ file = "primary" /\ gone["primary"] = Missing /\ gone["tmp"] = disk["tmp"]
              /\ gone["bak"] = disk["bak"]
        \/ file = "tmp" /\ gone["tmp"] = Missing /\ gone["primary"] = disk["primary"]
              /\ gone["bak"] = disk["bak"]
        \/ file = "bak" /\ gone["bak"] = Missing /\ gone["primary"] = disk["primary"]
              /\ gone["tmp"] = disk["tmp"]
    BY <1>4, Replaced
  <2> HIDE DEF gone, file, rest
  <2>2. Ordered(gone)
    BY <1>3, <2>1, OrderedKept, DocumentFacts
  <2> QED
    BY <2>1, <2>2 DEF Names
<1> HIDE DEF file, rest, gone
<1>6. /\ Doing'.left = rest /\ Doing'.stage \in {"quarantine", "quarantined"}
      /\ Doing'.doc = Doing.doc
      /\ Doing'.stage = "quarantined" \/ (disk' = disk /\ survivors' \subseteq survivors \cup {disk})
      /\ disk' \in {disk, gone} /\ survivors' \subseteq survivors \cup {disk, gone}
      /\ Doing'.ok => Doing.ok /\ disk'[file] = Missing
                      /\ \A name \in Names \ {file} : disk'[name] = disk[name]
  BY <1>1, <1>5 DEF Moves, Becomes
<1>7. Sound'
  BY <1>2, <1>3, <1>5, <1>6, DocumentFacts DEF Sound, Keeps
<1>8. PrimarySettled'
  BY <1>3, <1>6 DEF PrimarySettled, At, Doing
<1>9. Staging'
  BY <1>6 DEF Staging, Displacing, At, Doing
<1>10. Standing'
  <2>1. call = "quarantine"
    BY <1>1 DEF Control, KindOf, TypeOK
  <2> QED
    BY <1>2, <2>1 DEF Standing
<1>11. Clearing'
  <2>1. "primary" \in Names /\ "tmp" \in Names /\ "bak" \in Names
        /\ Names = {"primary", "tmp", "bak"}
    BY DEF Names
  <2>3. ASSUME Doing'.ok, rest = <<"tmp", "bak">> PROVE disk'["primary"] = Missing
    BY <1>4, <1>6, <2>3, LeftFacts
  <2>4. ASSUME Doing'.ok, rest = <<"bak">>
        PROVE disk'["primary"] = Missing /\ disk'["tmp"] = Missing
    <3>1. Doing.left = <<"tmp", "bak">> /\ file = "tmp"
      BY <1>4, <2>4, LeftFacts
    <3>2. disk["primary"] = Missing
      BY <1>1, <1>6, <2>4, <3>1 DEF Files, Clearing, Gone
    <3> QED
      BY <1>6, <2>1, <2>4, <3>1, <3>2
  <2>5. ASSUME Doing'.ok, rest = <<>> PROVE \A name \in Names : disk'[name] = Missing
    <3>1. Doing.left = <<"bak">> /\ file = "bak"
      BY <1>4, <2>5, LeftFacts
    <3>2. disk["primary"] = Missing /\ disk["tmp"] = Missing
      BY <1>1, <1>6, <2>5, <3>1 DEF Files, Clearing, Gone
    <3> QED
      BY <1>6, <2>1, <2>5, <3>1, <3>2
  <2> QED
    BY <1>4, <1>6, <2>3, <2>4, <2>5 DEF Clearing, Gone, At, Doing
<1> QED
  BY <1>7, <1>8, <1>9, <1>10, <1>11 DEF Files

LEMMA ClearedFiles ==
  ASSUME Books, Files, Step, Cleared("main")
  PROVE  Files'
<1> USE DEF Books
<1>1. /\ Doing.kind = "quarantine" /\ Doing.stage = "quarantine" /\ Doing.left = <<>>
      /\ Doing'.stage = "done" /\ Doing'.left = <<>> /\ Doing'.ok = Doing.ok
      /\ disk' = disk /\ survivors' = survivors
  BY ClearedMoves DEF Moves
<1>2. /\ UNCHANGED <<running, call, blocked, confirmed>> /\ Doing'.kind = "quarantine"
      /\ Confirmed' = Missing
  BY <1>1, StepFacts
<1>3. call = "quarantine"
  BY <1>1 DEF Control, KindOf, TypeOK
<1>4. Sound'
  BY <1>1, <1>2, DocumentFacts DEF Files, Sound, Keeps
<1>5. PrimarySettled'
  BY <1>1 DEF Files, PrimarySettled, At, Doing
<1>6. Staging'
  BY <1>1 DEF Staging, Displacing, At, Doing
<1>7. Standing'
  BY <1>2, <1>3 DEF Standing
<1>8. Clearing'
  BY <1>1, <1>2, LeftFacts DEF Files, Clearing, Gone, At, Doing
<1> QED
  BY <1>4, <1>5, <1>6, <1>7, <1>8 DEF Files

\* A recovery chooses among files that are in order.
LEMMA ChooseFiles ==
  ASSUME Books, Files, Step, Choose("main")
  PROVE  Files'
<1> USE DEF Books
<1> DEFINE found == Recovered(disk)
<1>1. /\ Doing.kind = "recover" /\ Doing.stage = "scan"
      /\ Doing'.stage = IF ~Valid(found) \/ Scan(disk).best = "primary" THEN "done"
                        ELSE IF disk["primary"] = Torn THEN "displace" ELSE "stage"
      /\ Doing'.doc = found /\ Doing'.ok = (found # Torn)
      /\ found \in Contents /\ disk' = disk /\ survivors' = survivors
  BY ChooseMoves DEF Moves
<1>2. /\ UNCHANGED <<running, call, blocked, confirmed>> /\ Doing'.kind = "recover"
      /\ Confirmed' = IF Doing'.stage = "done" /\ Doing'.ok THEN found ELSE confirmed
      /\ Confirmed = confirmed /\ call \in {"boot", "recover"}
  BY <1>1, StepFacts, ConfirmedIs DEF Control, KindOf, TypeOK
<1>3. /\ disk \in survivors /\ disk \in Views /\ Ordered(disk) /\ Keeps(disk, confirmed)
      /\ \A v \in survivors : v["primary"] = disk["primary"]
  BY <1>1, <1>2 DEF TypeOK, Files, Sound, PrimarySettled, At, Doing
<1>4. /\ Agree(disk)
      /\ found = IF Valid(disk["tmp"]) THEN disk["tmp"]
                 ELSE IF Valid(disk["primary"]) THEN disk["primary"]
                 ELSE IF Valid(disk["bak"]) THEN disk["bak"]
                 ELSE IF disk["tmp"] = Torn THEN Torn ELSE Missing
  BY <1>3, OrderedAgrees, RecoveredOrdered
<1>5. /\ Valid(found) => (found = disk["primary"] <=> Scan(disk).best = "primary")
      /\ found = Missing => disk["primary"] = Missing /\ disk["bak"] = Missing
      /\ \A name \in Names : Valid(disk[name]) => Valid(found) /\ disk[name].rev <= found.rev
      /\ Valid(found) => \E name \in Names : found = disk[name]
  BY <1>3, <1>4, RecoveredBest DEF Names
<1> HIDE DEF found
<1>6. disk["primary"] # Torn
  BY <1>3 DEF Ordered
<1>7. \/ /\ Doing'.stage = "done" /\ Valid(found) /\ found = disk["primary"] /\ Doing'.ok
         /\ Confirmed' = found
      \/ Doing'.stage = "done" /\ found = Torn /\ ~Doing'.ok /\ Confirmed' = confirmed
      \/ Doing'.stage = "done" /\ found = Missing /\ Doing'.ok /\ Confirmed' = Missing
      \/ Doing'.stage = "stage" /\ Valid(found) /\ found # disk["primary"] /\ Doing'.ok
         /\ Confirmed' = confirmed
  BY <1>1, <1>2, <1>5, <1>6, DocumentFacts DEF Contents
<1>8. Sound'
  BY <1>1, <1>2, <1>3, <1>7, DocumentFacts DEF Files, Sound, Keeps
<1>9. PrimarySettled'
  BY <1>1, <1>3 DEF PrimarySettled
<1>10. Staging'
  <2>1. \A name \in {"primary", "bak"} :
          Valid(found) => Above(found, disk[name])
    <3>1. \A name \in Names : Valid(disk[name]) => disk[name].rev \in Nat
      BY DiskFacts
    <3>2. \A m, n \in Names :
            Valid(disk[m]) /\ Valid(disk[n]) /\ disk[m].rev = disk[n].rev => disk[m] = disk[n]
      BY <1>4 DEF Agree
    <3> QED
      BY <1>5, <3>1, <3>2 DEF Above, Names
  <2>2. (Recovered(disk))' = found
    BY <1>1 DEF found
  <2> QED
    BY <1>1, <1>7, <2>1, <2>2 DEF Staging, Displacing, At, Doing
<1>11. Standing'
  <2>1. Doing'.stage = "stage" /\ Valid(confirmed) => Stands(confirmed)
    BY <1>3, <1>4, <1>6, <1>7, DiskFacts DEF Keeps, Stands
  <2>2. Doing'.stage = "done" /\ Doing'.ok => (Steady(Doing.doc))' 
    BY <1>1, <1>5, <1>7, DocumentFacts DEF Steady, Stands, Doing
  <2> QED
    BY <1>1, <1>2, <1>7, <2>1, <2>2 DEF Standing, Steady, Stands, Writing, At, Doing
<1>12. Clearing'
  BY <1>2 DEF Clearing
<1> QED
  BY <1>8, <1>9, <1>10, <1>11, <1>12 DEF Files

\* While nothing outside disturbs the files, the job keeps them so.
LEMMA StepFiles ==
  ASSUME Books, Undisturbed => Files, Step, Undisturbed'
  PROVE  Files'
<1>1. faults' \in Nat /\ faults \in Nat /\ damages' = damages
  BY StepBooks, StepFacts DEF Books, TypeOK
<1>2. faults' = faults \/ faults' = faults + 1 \/ Fault("sync")
  BY StageMoves, RetireMoves, PromoteMoves, DisplaceMoves, QuarantineMoves, ChooseMoves,
     ClearedMoves, SyncParentMoves, NothingUnlinked
     DEF Books, Step, JobStep, Advance, Failure
<1>3. Fault("sync") => "sync" \in Fallible /\ faults' = faults + 1
  BY DEF Fault
<1>4. Undisturbed /\ ~Fault("sync")
  BY <1>1, <1>2, <1>3 DEF Undisturbed
<1>5. Files
  BY <1>4
<1>6. SyncParent("main") => Settled /\ Advance(AfterSync("main"))
  BY <1>4, SyncParentMoves DEF Books
<1>7. ~Displace("main")
  BY <1>5, DisplaceMoves DEF Books, Files, Staging, Displacing
<1> QED
  BY <1>5, <1>6, <1>7, StageFiles, RetireFiles, PromoteFiles, SettledFiles, QuarantineFiles,
     ClearedFiles, ChooseFiles, NothingUnlinked DEF Books, Step, JobStep

-----------------------------------------------------------------------------
(* The files, as the program calls and returns *)

\* A call begins: the files are as they were, and so is what was confirmed.
LEMMA BeginFiles ==
  ASSUME Books, Files, UNCHANGED <<disk, survivors>>, Confirmed' \in {Confirmed, Missing},
         Doing.stage \notin {"retired", "promoted", "quarantined"},
         Doing'.stage \notin Displacing, Doing'.stage \notin Writing \ {"stage"},
         Staging', Standing', Clearing'
  PROVE  Files'
BY DocumentFacts DEF Files, Sound, PrimarySettled, Keeps, At, Doing

\* Files under the calls that begin and end.
LEMMA WriteFiles ==
  ASSUME Books, Files, NEW seen \in Nat, NEW for, Write(seen, for),
         for \in {"save", "fresh", "replace"},
         running, ~blocked, for = "save" => call = "none", for # "save" => call = for
  PROVE  Files'
<1>1. PICK doc \in Docs : BeginWrite("main", doc) /\ doc.rev > revision
  <2> DEFINE next == IF seen > revision THEN seen ELSE revision + 1
  <2>1. PICK id \in Ids, body \in Bodies :
          next <= MaxRevision /\ BeginWrite("main", [id |-> id, rev |-> next, body |-> body])
    BY DEF Write
  <2>2. next \in Nat /\ next > revision /\ next >= 1
    BY DEF Books, TypeOK
  <2> HIDE DEF next
  <2>3. [id |-> id, rev |-> next, body |-> body] \in Docs
    BY <2>1, <2>2, DocumentsAssumption DEF Docs
  <2> QED
    BY <2>1, <2>2, <2>3
<1>2. /\ Doing.kind = "none"
      /\ Doing'.kind = "write" /\ Doing'.stage = "stage" /\ Doing'.doc = doc /\ Doing'.ok
      /\ UNCHANGED <<disk, survivors, faults>>
  BY <1>1, BeginWriteMoves DEF Books
<1>3. call' = for /\ UNCHANGED <<running, revision, blocked, confirmed, before, damages>>
  BY DEF Write
<1>4. Doing.stage = "idle"
  BY <1>2, KindOfStage DEF Books, Control, NoJob
<1>5. Confirmed = confirmed /\ Confirmed' = confirmed
  BY <1>2, <1>3, <1>4 DEF Confirmed, At, Doing
<1>6. Steady(confirmed) /\ Ordered(disk)
  BY <1>3, <1>4, <1>5 DEF Files, Standing, Sound, Books, TypeOK, At, Doing
<1>7. doc.rev > confirmed.rev
  <2>1. Books'
    BY WriteBooks
  <2> QED
    BY <1>2, <1>3, <2>1 DEF Books, Revisions, At, Doing
<1>8. Staging'
  <2>1. Above(doc, disk["primary"]) /\ Above(doc, disk["bak"]) /\ disk["primary"] # doc
    <3>1. confirmed \in Docs \cup {Missing}
      BY DEF Books, TypeOK
    <3>2. doc # Missing /\ (Valid(confirmed) => confirmed # doc)
      BY <1>7, <3>1, DocumentFacts
    <3> QED
      BY <1>6, <1>7, <3>1, <3>2, DiskFacts DEF Books, Steady, Stands, Ordered, Above
  <2> QED
    BY <1>2, <2>1 DEF Staging, Displacing, At, Doing
<1>9. Standing'
  BY <1>2, <1>5, <1>6 DEF Standing, Steady, Stands, At, Doing
<1>10. Clearing'
  BY <1>2 DEF Clearing
<1> QED
  BY <1>2, <1>4, <1>5, <1>8, <1>9, <1>10, BeginFiles DEF Displacing, Writing

LEMMA BeginRecoverFiles ==
  ASSUME Books, Files, BeginRecover("main"), UNCHANGED confirmed, call' \in {"boot", "recover"}
  PROVE  Files'
<1>1. /\ Doing.kind = "none"
      /\ Doing'.kind = "recover" /\ Doing'.stage = "scan" /\ Doing'.doc = Missing /\ Doing'.ok
      /\ UNCHANGED <<disk, survivors, faults>>
  BY BeginRecoverMoves DEF Books
<1>2. Doing.stage = "idle"
  BY <1>1, KindOfStage DEF Books, Control, NoJob
<1>3. Confirmed = confirmed /\ Confirmed' = confirmed
  BY <1>1, <1>2 DEF Confirmed, At, Doing
<1>4. Staging'
  BY <1>1 DEF Staging, Displacing, At, Doing
<1>5. Standing'
  BY <1>1 DEF Standing, Writing, At, Doing
<1>6. Clearing'
  BY <1>1 DEF Clearing
<1> QED
  BY <1>1, <1>2, <1>3, <1>4, <1>5, <1>6, BeginFiles DEF Displacing, Writing

LEMMA QuarantineDocumentsFiles ==
  ASSUME Books, Files, QuarantineDocuments
  PROVE  Files'
<1>1. /\ Doing.kind = "none"
      /\ Doing'.kind = "quarantine" /\ Doing'.stage = "quarantine" /\ Doing'.left = Artifacts
      /\ Doing'.doc = Missing
      /\ UNCHANGED <<disk, survivors, faults>>
  BY BeginClearMoves DEF Books, QuarantineDocuments
<1>2. Doing.stage = "idle"
  BY <1>1, KindOfStage DEF Books, Control, NoJob
<1>3. Confirmed' = Missing /\ call' = "quarantine"
  BY <1>1 DEF Confirmed, QuarantineDocuments, At, Doing
<1>4. Staging'
  BY <1>1 DEF Staging, Displacing, At, Doing
<1>5. Standing'
  BY <1>1, <1>3 DEF Standing, Writing, At, Doing
<1>6. Clearing'
  BY <1>1, LeftFacts DEF Clearing, At, Doing
<1> QED
  BY <1>1, <1>2, <1>3, <1>4, <1>5, <1>6, BeginFiles DEF Displacing, Writing

LEMMA FinishFiles ==
  ASSUME Books, Files, NEW next, Finish(next), Doing.stage = "done",
         ~blocked' => Steady(Confirmed)
  PROVE  Files'
<1>1. /\ Doing' = NoJob /\ UNCHANGED <<disk, survivors, faults, running, damages>>
      /\ confirmed' = Confirmed
  BY FinishMoves DEF Books
<1>2. Doing'.kind = "none" /\ Doing'.stage = "idle"
  BY <1>1, FirstJobs
<1>3. Confirmed' = Confirmed
  BY <1>1, <1>2 DEF Confirmed, At, Doing
<1>4. Staging'
  BY <1>2 DEF Staging, Displacing, At, Doing
<1>5. Standing'
  BY <1>1, <1>2, <1>3 DEF Standing, Steady, Stands, Writing, At, Doing
<1>6. Clearing'
  BY <1>2 DEF Clearing
<1> QED
  BY <1>1, <1>2, <1>3, <1>4, <1>5, <1>6, BeginFiles DEF Displacing, Writing

LEMMA ReturnedFiles ==
  ASSUME Books, Files,
         Booted \/ Written \/ DocumentsRecovered \/ DocumentsQuarantined
  PROVE  Files'
<1>1. CASE Booted \/ DocumentsRecovered
  <2>1. /\ Doing.kind = "recover" /\ Doing.stage = "done"
        /\ Doing.doc \in Contents /\ (Doing.ok <=> Doing.doc # Torn)
        /\ Confirmed = IF Doing.ok THEN Doing.doc ELSE confirmed
    BY <1>1, ReturnedFacts DEF Booted, DocumentsRecovered
  <2>2. Doing.ok => Steady(Doing.doc)
    BY <2>1 DEF Files, Standing, At, Doing
  <2>3. ~blocked' => Doing.ok
    <3>1. CASE Booted
      BY <2>1, <3>1, DocumentFacts DEF Booted
    <3>2. CASE DocumentsRecovered
      <4>1. blocked
        BY <3>2, ReturnedFacts DEF DocumentsRecovered
      <4> QED
        BY <2>1, <3>2, <4>1, DocumentFacts DEF DocumentsRecovered
    <3> QED
      BY <1>1, <3>1, <3>2
  <2>4. \E next : Finish(next)
    BY <1>1 DEF Booted, DocumentsRecovered
  <2> QED
    BY <2>1, <2>2, <2>3, <2>4, FinishFiles
<1>2. CASE Written
  <2>1. /\ Doing.kind = "write" /\ Doing.stage = "done" /\ running /\ ~blocked
        /\ call \in {"fresh", "save", "replace"}
    BY <1>2, ReturnedFacts DEF Written
  <2>2. Steady(Confirmed)
    BY <2>1 DEF Files, Standing, At, Doing
  <2> QED
    BY <1>2, <2>1, <2>2, FinishFiles DEF Written
<1>3. CASE DocumentsQuarantined
  <2>1. Doing.kind = "quarantine" /\ Doing.stage = "done" /\ Confirmed = Missing /\ blocked
    BY <1>3, ReturnedFacts DEF DocumentsQuarantined
  <2>2. Doing.ok => Steady(Confirmed)
    BY <2>1, DocumentFacts DEF Files, Clearing, Gone, Steady, Names, At, Doing
  <2>3. (\E next : Finish(next)) /\ (~blocked' => Doing.ok)
    BY <1>3, <2>1 DEF DocumentsQuarantined
  <2> QED
    BY <2>1, <2>2, <2>3, FinishFiles
<1> QED
  BY <1>1, <1>2, <1>3

LEMMA StopFiles ==
  ASSUME Books, Files, Stop
  PROVE  Files'
<1>1. PICK view \in survivors : disk' = view /\ survivors' = {view}
  BY DEF Stop, PowerCut
<1>2. /\ job' = [t \in Threads |-> NoJob]
      /\ running' = FALSE /\ confirmed' = Confirmed
  BY DEF Stop, PowerCut
<1>3. Doing' = NoJob
  BY <1>2, ProfileAssumption DEF Doing
<1>4. Doing'.kind = "none" /\ Doing'.stage = "idle"
  BY <1>3, FirstJobs
<1>5. Confirmed' = Confirmed
  BY <1>2, <1>4 DEF Confirmed, At, Doing
<1>6. Sound'
  BY <1>1, <1>5 DEF Files, Sound
<1>7. PrimarySettled'
  BY <1>1 DEF PrimarySettled
<1>8. Staging'
  BY <1>4 DEF Staging, Displacing, At, Doing
<1>9. Standing'
  BY <1>2, <1>4 DEF Standing
<1>10. Clearing'
  BY <1>4 DEF Clearing
<1> QED
  BY <1>6, <1>7, <1>8, <1>9, <1>10 DEF Files

\* The book-keeping, and the files while nothing has disturbed them.
Orderly == Books /\ (Undisturbed => Files)

\* Files in the first state.
LEMMA InitFiles == Init => Files
<1> SUFFICES ASSUME Init PROVE Files
  OBVIOUS
<1>1. /\ disk = [name \in Names |-> Missing] /\ survivors = {disk}
      /\ job = [t \in Threads |-> NoJob] /\ running = FALSE /\ confirmed = Missing
  BY DEF Init, FileInit
<1>2. Doing = NoJob
  BY <1>1, ProfileAssumption DEF Doing
<1>3. Doing.kind = "none" /\ Doing.stage = "idle"
  BY <1>2, FirstJobs
<1>4. Confirmed = Missing
  BY <1>1, <1>3 DEF Confirmed, At, Doing
<1>5. disk["primary"] = Missing /\ disk["tmp"] = Missing /\ disk["bak"] = Missing
  BY <1>1 DEF Names
<1>6. Sound
  BY <1>1, <1>4, <1>5, DocumentFacts DEF Sound, Ordered, Above, Keeps
<1>7. PrimarySettled
  BY <1>1 DEF PrimarySettled
<1>8. Staging
  BY <1>3 DEF Staging, Displacing, At, Doing
<1>9. Standing
  BY <1>1, <1>3 DEF Standing
<1>10. Clearing
  BY <1>3 DEF Clearing
<1> QED
  BY <1>6, <1>7, <1>8, <1>9, <1>10 DEF Files

\* Books and, while nothing disturbs the files, Files under every step.
LEMMA NextOrderly == Orderly /\ [Next]_vars => Orderly'
<1> SUFFICES ASSUME Orderly, [Next]_vars PROVE Orderly'
  OBVIOUS
<1> USE DEF Orderly
<1>1. Books'
  BY NextBooks
<1> SUFFICES ASSUME Undisturbed' PROVE Files'
  BY <1>1
<1>2. CASE Step
  BY <1>2, StepFiles
<1>3. CASE ~Step
  <2>1. ~Damage /\ damages' = damages /\ faults' = faults
    <3>1. Damage => damages' # 0
      BY DEF Damage, Books, TypeOK
    <3> QED
      BY <1>3, <3>1 DEF Next, vars, Undisturbed, Boot, Booted, WriteFresh, Save, Written,
         RecoverDocuments, DocumentsRecovered, QuarantineDocuments, DocumentsQuarantined, Stop,
         Finish, Write, End, BeginWrite, BeginRecover, BeginClear, PowerCut
  <2>2. Files
    BY <2>1 DEF Undisturbed
  <2>3. CASE WriteFresh
    <3>1. call \in {"fresh", "replace"} /\ Write(known, call)
      BY <2>3 DEF WriteFresh
    <3>2. running /\ ~blocked /\ known \in Nat
      BY <3>1 DEF Books, Control, TypeOK
    <3> QED
      BY <2>2, <3>1, <3>2, WriteFiles
  <2>4. CASE Save
    <3>1. PICK seen \in known..MaxRevision : Write(seen, "save")
      BY <2>4 DEF Save
    <3>2. running /\ ~blocked /\ call = "none" /\ seen \in Nat
      BY <2>4, DocumentsAssumption DEF Save, Books, TypeOK
    <3> QED
      BY <2>2, <3>1, <3>2, WriteFiles
  <2>5. CASE Boot \/ RecoverDocuments
    BY <2>2, <2>5, BeginRecoverFiles DEF Boot, RecoverDocuments
  <2>6. CASE UNCHANGED vars
    BY <2>2, <2>6 DEF vars, Files, Sound, PrimarySettled, Staging, Standing, Clearing, Stands,
       Steady, Gone, Confirmed, At, Doing
  <2> QED
    BY <1>3, <2>1, <2>2, <2>3, <2>4, <2>5, <2>6, ReturnedFiles, QuarantineDocumentsFiles,
       StopFiles DEF Next
<1> QED
  BY <1>2, <1>3

(* Until a file is damaged or a directory sync fails, every directory a crash
   can leave is in order: the temporary file newer than the primary one, the
   primary one newer than the backup, and what was confirmed last under one of
   the names recovery reads. *)
THEOREM OrderlyHolds == Spec => []Orderly
<1>1. Init => Orderly
  BY InitBooks, InitFiles DEF Orderly
<1> QED
  BY <1>1, NextOrderly, PTL DEF Spec

-----------------------------------------------------------------------------
(* The register the files implement *)

\* What recovery may find after a crash now.
May == {Recovered(view) : view \in survivors}

\* What is left when the writes that were not confirmed are gone.
Old ==
  IF Confirmed # Missing THEN {Confirmed}
  ELSE {Missing, Torn} \cup {doc \in Docs : \E now \in May :
                               Valid(now) /\ doc.id = now.id /\ doc.rev < now.rev}

Reach == May \cup Old \cup (IF Doing.kind = "write" THEN {Doing.doc} ELSE {})

\* The register speaks of the same documents.
LEMMA RegisterDocuments ==
  Register!Docs = Docs /\ Register!Missing = Missing /\ Register!Torn = Torn
  /\ \A d : Register!Valid(d) <=> Valid(d)
BY DEF Register!Docs, Docs, Register!Missing, Missing, Register!Torn, Torn, Register!Valid, Valid

\* What the register calls reachable.
LEMMA RegisterReachable == Register!Reachable = Reach
<1>1. Register!Held = Old
  BY RegisterDocuments DEF Register!Held, Old, May
<1> QED
  BY <1>1 DEF Register!Reachable, Reach, May

\* Each step of the register, from what it leaves and what may be found after it.
LEMMA RegisterProgresses ==
  ASSUME Doing.kind # "none", Doing'.kind = Doing.kind,
         Doing.stage # "done", Doing'.stage # "done",
         May' \subseteq Reach, May' # {},
         Doing'.doc = Doing.doc \/ (Doing.kind = "recover" /\ Doing'.doc \in May),
         Confirmed' = Confirmed
  PROVE  Register!Progress
<1>1. May' \in (SUBSET Register!Reachable) \ {{}}
  BY RegisterReachable
<1> QED
  BY <1>1, Zenon DEF Register!Progress, Register!Choice, May

LEMMA RegisterFails ==
  ASSUME Doing.kind # "none", Doing'.kind = Doing.kind,
         Doing.stage # "done", Doing'.stage = "done", Doing'.ok = FALSE,
         May' \subseteq Reach, May' # {},
         Doing'.doc \in {Doing.doc, Torn},
         Confirmed' = Confirmed
  PROVE  Register!Fail
<1>1. May' \in (SUBSET Register!Reachable) \ {{}}
  BY RegisterReachable
<1> QED
  BY <1>1, RegisterDocuments, Zenon DEF Register!Fail, May

LEMMA RegisterSucceeds ==
  ASSUME Doing.kind # "none", Doing'.kind = Doing.kind,
         Doing.stage # "done", Doing'.stage = "done", Doing'.ok = TRUE,
         Doing'.doc = Doing.doc \/ (Doing.kind = "recover" /\ Doing'.doc \in May),
         Doing.kind = "recover" => Doing'.doc \in May,
         May' = {Doing'.doc} \/ (Doing.kind # "write" /\ Doing'.doc \in May /\ May' = May),
         Confirmed' = Doing'.doc
  PROVE  Register!Succeed
BY DEF Register!Succeed, Register!Choice, May

LEMMA RegisterReturns ==
  ASSUME Doing.stage = "done", Doing' = NoJob, survivors' = survivors, Confirmed' = Confirmed
  PROVE  Register!Return
<1>1. Doing'.kind = "none" /\ Doing'.doc = Missing /\ Doing'.stage = "idle"
  BY FirstJobs
<1> QED
  BY <1>1, RegisterDocuments DEF Register!Return

LEMMA RegisterStops ==
  ASSUME NEW view \in survivors, survivors' = {view}, Doing' = NoJob, Confirmed' = Confirmed
  PROVE  Register!Stop
<1>1. Doing'.kind = "none" /\ Doing'.doc = Missing /\ Doing'.stage = "idle"
  BY FirstJobs
<1> QED
  BY <1>1, RegisterDocuments DEF Register!Stop

LEMMA RegisterCalls ==
  ASSUME Doing.kind = "none", Doing.stage # "done", Doing'.stage # "done",
         survivors' = survivors,
         \/ Doing'.kind = "write" /\ Doing'.doc \in Docs /\ Confirmed' = Confirmed
         \/ Doing'.kind = "recover" /\ Doing'.doc = Missing /\ Confirmed' = Confirmed
         \/ Doing'.kind = "quarantine" /\ Doing'.doc = Missing /\ Confirmed' = Missing
  PROVE  Register!Call
BY RegisterDocuments DEF Register!Call

\* What a recovery finds now is one of the things it may find.
LEMMA MayFacts ==
  ASSUME Books, Files
  PROVE  /\ Recovered(disk) \in May /\ May \subseteq Reach
         /\ Confirmed # Missing <=> Valid(Confirmed)
         /\ Valid(Confirmed) => Confirmed \in Reach
         /\ Confirmed = Missing => Missing \in Reach /\ Torn \in Reach
         /\ \A d \in Docs, now \in May :
              Confirmed = Missing /\ now \in Docs /\ d.rev < now.rev => d \in Reach
         /\ Doing.kind = "write" => Doing.doc \in Reach
<1>1. Confirmed \in Docs \cup {Missing}
  BY ConfirmedIs DEF Books
<1>2. disk \in survivors
  BY DEF Books, TypeOK
<1> QED
  BY <1>1, <1>2, DocumentFacts DEF May, Reach, Old

\* A change of the directory changes what may be found by what it passes through.
LEMMA MayBecomes ==
  ASSUME NEW S, survivors' \subseteq survivors \cup S, survivors' # {},
         May \subseteq Reach, \A v \in S : Recovered(v) \in Reach
  PROVE  May' \subseteq Reach /\ May' # {}
BY DEF May

\* A temporary file of the best revision is what recovery finds.
LEMMA RecoveredTmp ==
  ASSUME NEW v \in Views, Ordered(v), Valid(v["tmp"])
  PROVE  Recovered(v) = v["tmp"]
BY RecoveredOrdered

\* Without the temporary file, what was confirmed comes back, or something older
\* than what is being written.
LEMMA Underneath ==
  ASSUME Books, Files, Doing.stage \in {"stage", "staged", "retire"},
         NEW v \in Views, Ordered(v), v["primary"] = disk["primary"],
         v["bak"] = disk["bak"] \/ (v["bak"] = Missing /\ Valid(disk["primary"])),
         ~Valid(v["tmp"])
  PROVE  Recovered(v) \in Reach
<1>1. Doing.stage \in Writing /\ Doing.stage # "promoted"
  BY DEF Writing
<1>2. /\ Doing.kind \in {"write", "recover"} /\ Doing.doc \in Docs
      /\ Valid(Confirmed) => Stands(Confirmed)
      /\ Doing.kind = "write" => Steady(Confirmed)
  BY <1>1, WritingStands
<1>3. Above(Doing.doc, disk["primary"]) /\ Above(Doing.doc, disk["bak"])
  BY DEF Files, Staging, Names, At, Doing
<1>4. v["tmp"] \in Contents /\ v["primary"] \in Contents /\ v["bak"] \in Contents
  BY ViewFacts DEF Names
<1>5. Recovered(v) = IF Valid(v["primary"]) THEN v["primary"]
                     ELSE IF Valid(v["bak"]) THEN v["bak"]
                     ELSE IF v["tmp"] = Torn THEN Torn ELSE Missing
  BY RecoveredOrdered
<1>6. CASE Valid(Confirmed)
  <2>1. Confirmed \in Reach /\ ~Valid(Missing)
    BY <1>6, MayFacts, DocumentFacts
  <2>2. Recovered(v) = Confirmed
    BY <1>2, <1>5, <1>6, <2>1 DEF Stands
  <2> QED
    BY <2>1, <2>2
<1>7. CASE ~Valid(Confirmed) /\ Doing.kind = "write"
  BY <1>2, <1>4, <1>5, <1>7, MayFacts, DiskFacts DEF Books, Steady
<1>8. CASE ~Valid(Confirmed) /\ Doing.kind = "recover"
  <2>1. Doing.doc \in May
    <3>1. CASE Doing.stage = "stage"
      BY <1>8, <3>1, MayFacts DEF Files, Staging, At, Doing
    <3>2. CASE Doing.stage # "stage"
      <4>1. disk["tmp"] = Doing.doc /\ disk \in Views /\ Ordered(disk)
        BY <3>2 DEF Files, Staging, Sound, Books, TypeOK, At, Doing
      <4> QED
        BY <1>2, <4>1, RecoveredTmp, MayFacts, DocumentFacts
    <3> QED
      BY <3>1, <3>2
  <2>2. Recovered(v) \in {disk["primary"], disk["bak"], Missing, Torn}
    BY <1>5, DocumentFacts
  <2>3. ASSUME NEW d \in {disk["primary"], disk["bak"]}, Valid(d)
        PROVE  d \in Reach
    <3>1. d \in Docs /\ Valid(Doing.doc)
      BY <1>2, <2>3, DiskFacts, DocumentFacts DEF Books
    <3>2. Doing.doc = d \/ Doing.doc.rev > d.rev
      BY <1>3, <2>3, <3>1 DEF Above
    <3>3. CASE Doing.doc = d
      BY <2>1, <3>3, MayFacts
    <3>4. CASE Doing.doc.rev > d.rev
      <4>1. d.rev < Doing.doc.rev
        BY <1>2, <3>1, <3>4, DocumentFacts
      <4> QED
        BY <1>2, <1>8, <2>1, <3>1, <4>1, MayFacts
    <3> QED
      BY <3>2, <3>3, <3>4
  <2>4. Valid(Recovered(v)) \/ Recovered(v) \in {Missing, Torn}
    BY <1>5, DocumentFacts
  <2> QED
    BY <1>8, <2>2, <2>3, <2>4, MayFacts, DocumentFacts
<1> QED
  BY <1>2, <1>6, <1>7, <1>8

\* Each step of the files as a step of the register.
LEMMA ChooseRegister ==
  ASSUME Books, Files, Step, Choose("main")
  PROVE  Register!Progress \/ Register!Succeed \/ Register!Fail
<1> DEFINE found == Recovered(disk)
<1>1. /\ Doing.kind = "recover" /\ Doing.stage = "scan"
      /\ Doing'.kind = "recover"
      /\ Doing'.stage \in {"done", "displace", "stage"}
      /\ Doing'.doc = found /\ Doing'.ok = (found # Torn) /\ survivors' = survivors
  BY ChooseMoves DEF Moves, Books
<1>2. /\ Confirmed' = IF Doing'.stage = "done" /\ Doing'.ok THEN found ELSE Confirmed
  BY <1>1, StepFacts, ConfirmedIs DEF Books
<1>3. May' = May
  BY <1>1 DEF May
<1>4. found \in May /\ May \subseteq Reach /\ May # {}
  BY MayFacts
<1> HIDE DEF found
<1>5. CASE Doing'.stage # "done"
  BY <1>1, <1>2, <1>3, <1>4, <1>5, RegisterProgresses
<1>6. CASE Doing'.stage = "done" /\ found # Torn
  BY <1>1, <1>2, <1>3, <1>4, <1>6, RegisterSucceeds
<1>7. CASE Doing'.stage = "done" /\ found = Torn
  BY <1>1, <1>2, <1>3, <1>4, <1>7, RegisterFails
<1> QED
  BY <1>5, <1>6, <1>7

\* A call that changes the directory, and goes on or fails.
LEMMA WritingRegister ==
  ASSUME Books, Files, Step, Doing.stage \in Writing, Doing.stage # "promoted",
         \/ Doing'.stage \in Writing /\ Doing'.doc = Doing.doc
         \/ Doing'.stage = "done" /\ Doing'.ok = FALSE /\ Doing'.doc \in {Doing.doc, Torn},
         NEW S, survivors' \subseteq survivors \cup S, survivors' # {},
         \A v \in S : Recovered(v) \in Reach
  PROVE  Register!Progress \/ Register!Fail
<1>1. May' \subseteq Reach /\ May' # {}
  BY MayBecomes, MayFacts
<1>2. /\ Doing.kind # "none" /\ Doing'.kind = Doing.kind /\ Doing.stage # "done"
      /\ Confirmed = confirmed /\ Doing.kind # "quarantine"
  BY WritingStands, StepFacts DEF Writing
<1>3. Confirmed' = Confirmed
  BY <1>2, StepFacts DEF Writing
<1>4. CASE Doing'.stage \in Writing /\ Doing'.doc = Doing.doc
  <2>1. Doing'.stage # "done"
    BY <1>4 DEF Writing
  <2> QED
    BY <1>1, <1>2, <1>3, <1>4, <2>1, RegisterProgresses
<1>5. CASE Doing'.stage = "done" /\ Doing'.ok = FALSE /\ Doing'.doc \in {Doing.doc, Torn}
  BY <1>1, <1>2, <1>3, <1>5, RegisterFails
<1> QED
  BY <1>4, <1>5

LEMMA StageRegister ==
  ASSUME Books, Files, Step, Stage("main")
  PROVE  Register!Progress \/ Register!Fail
<1> DEFINE none == Replace("tmp", Missing)
           torn == Replace("tmp", Torn)
           full == Replace("tmp", Doing.doc)
<1>1. /\ Doing.stage = "stage"
      /\ \/ /\ Doing'.stage = "staged" /\ Doing'.doc = Doing.doc
            /\ Becomes(full, {none, torn})
         \/ /\ Doing'.stage = "done" /\ Doing'.ok = FALSE /\ Doing'.doc \in {Doing.doc, Torn}
            /\ \E left \in {disk, none, torn} : Becomes(left, {none, torn})
  BY StageMoves DEF Books, Advance, Failure, Moves
<1>2. disk \in survivors /\ disk \in Views /\ Ordered(disk)
  BY DEF Books, TypeOK, Files, Sound
<1>3. Doing.doc \in Docs /\ Doing.doc \in Contents /\ Missing \in Contents /\ Torn \in Contents
  BY <1>1, WritingStands DEF Writing, Contents
<1>4. none \in Views /\ torn \in Views /\ full \in Views
  BY <1>2, <1>3, Rewrites DEF Names
<1>5. \A v \in {none, torn, full} : v["primary"] = disk["primary"] /\ v["bak"] = disk["bak"]
  BY Replaced DEF Books
<1>6. none["tmp"] = Missing /\ torn["tmp"] = Torn /\ full["tmp"] = Doing.doc
  BY Replaced DEF Books
<1>7. survivors' \subseteq survivors \cup {disk, none, torn, full} /\ survivors' # {}
  BY <1>1 DEF Becomes
<1> HIDE DEF none, torn, full
<1>8. \A v \in {none, torn, full} : Ordered(v)
  <2>1. Above(Doing.doc, disk["primary"]) /\ Above(Doing.doc, disk["bak"])
        /\ disk["primary"] # Doing.doc
    BY <1>1 DEF Files, Staging, Names, At, Doing
  <2> QED
    BY <1>2, <1>5, <1>6, <2>1, OrderedKept, DocumentFacts
<1>9. Recovered(none) \in Reach /\ Recovered(torn) \in Reach
  BY <1>1, <1>4, <1>5, <1>6, <1>8, Underneath, DocumentFacts
<1>10. Recovered(disk) \in Reach
  BY MayFacts
<1>11. Recovered(full) \in Reach
  <2>1. Recovered(full) = Doing.doc
    BY <1>3, <1>4, <1>6, <1>8, RecoveredTmp, DocumentFacts
  <2>2. CASE Doing.kind = "write"
    BY <2>1, <2>2, MayFacts
  <2>3. CASE Doing.kind = "recover"
    BY <1>1, <2>1, <2>3, MayFacts DEF Files, Staging, At, Doing
  <2> QED
    BY <1>1, <2>2, <2>3, WritingStands DEF Writing
<1>12. \A v \in {disk, none, torn, full} : Recovered(v) \in Reach
  BY <1>9, <1>10, <1>11
<1> QED
  BY <1>1, <1>7, <1>12, WritingRegister DEF Writing

LEMMA RetireRegister ==
  ASSUME Books, Files, Step, Retire("main")
  PROVE  Register!Progress \/ Register!Fail
<1> DEFINE unbacked == Replace("bak", Missing)
           retired == Rename("primary", "bak")
           alone == [unbacked EXCEPT !["tmp"] = Missing]
           settled == Replace("tmp", Missing)
<1>1. /\ Doing.stage = "retire"
      /\ \/ /\ Doing'.stage = "retired" /\ Doing'.doc = Doing.doc
            /\ Becomes(retired, {unbacked})
         \/ /\ Doing'.stage = "done" /\ Doing'.ok = FALSE /\ Doing'.doc \in {Doing.doc, Torn}
            /\ \E view \in {disk, unbacked} :
                 \/ Becomes(view, {})
                 \/ Becomes([view EXCEPT !["tmp"] = Missing], {view})
  BY RetireMoves DEF Books, Advance, Failure, Moves
<1>2. /\ disk \in survivors /\ disk \in Views /\ Ordered(disk) /\ Valid(disk["primary"])
      /\ disk["tmp"] = Doing.doc
  BY <1>1 DEF Books, TypeOK, Files, Sound, Staging, At, Doing
<1>3. Valid(Doing.doc) /\ Missing \in Contents
  BY <1>1, WritingStands, DocumentFacts DEF Writing, Contents
<1>4. unbacked \in Views /\ retired \in Views /\ settled \in Views
  BY <1>2, <1>3, Rewrites DEF Names
<1>5. alone \in Views
  BY <1>3, <1>4, ViewFacts DEF Names
<1>6. /\ unbacked["primary"] = disk["primary"] /\ unbacked["tmp"] = disk["tmp"]
      /\ unbacked["bak"] = Missing
      /\ alone["primary"] = disk["primary"] /\ alone["tmp"] = Missing /\ alone["bak"] = Missing
      /\ settled["primary"] = disk["primary"] /\ settled["tmp"] = Missing
      /\ settled["bak"] = disk["bak"]
      /\ retired["primary"] = Missing /\ retired["bak"] = disk["primary"]
      /\ retired["tmp"] = disk["tmp"]
  BY Replaced DEF Books
<1>7. /\ survivors' \subseteq survivors \cup {disk, unbacked, retired, alone, settled}
      /\ survivors' # {}
  BY <1>1 DEF Becomes, Replace
<1> HIDE DEF unbacked, retired, alone, settled
<1>8. \A v \in {unbacked, retired, alone, settled} : Ordered(v)
  BY <1>2, <1>6, OrderedKept, DocumentFacts
<1>9. \A v \in {disk, unbacked, retired} : Recovered(v) = Doing.doc
  BY <1>2, <1>3, <1>4, <1>6, <1>8, RecoveredTmp
<1>10. Recovered(alone) \in Reach /\ Recovered(settled) \in Reach
  BY <1>1, <1>2, <1>4, <1>5, <1>6, <1>8, Underneath, DocumentFacts
<1>11. \A v \in {disk, unbacked, retired, alone, settled} : Recovered(v) \in Reach
  BY <1>9, <1>10, MayFacts
<1> QED
  BY <1>1, <1>7, <1>11, WritingRegister DEF Writing

LEMMA PromoteRegister ==
  ASSUME Books, Files, Step, Promote("main")
  PROVE  Register!Progress \/ Register!Fail
<1> DEFINE promoted == Rename("tmp", "primary")
<1>1. /\ Doing.stage = "promote"
      /\ \/ /\ Doing'.stage = "promoted" /\ Doing'.doc = Doing.doc
            /\ Becomes(promoted, {})
         \/ /\ Doing'.stage = "done" /\ Doing'.ok = FALSE /\ Doing'.doc \in {Doing.doc, Torn}
            /\ Becomes(disk, {})
  BY PromoteMoves DEF Books, Advance, Failure, Moves
<1>2. /\ disk \in survivors /\ disk \in Views /\ Ordered(disk) /\ disk["primary"] = Missing
      /\ disk["tmp"] = Doing.doc
  BY <1>1 DEF Books, TypeOK, Files, Sound, Staging, At, Doing
<1>3. Valid(Doing.doc) /\ Doing.doc # Torn
  BY <1>1, WritingStands, DocumentFacts DEF Writing
<1>4. promoted \in Views
  BY <1>2, Rewrites DEF Names
<1>5. /\ promoted["primary"] = Doing.doc /\ promoted["tmp"] = Missing
      /\ promoted["bak"] = disk["bak"]
  BY <1>2, Replaced DEF Books
<1>6. survivors' \subseteq survivors \cup {disk, promoted} /\ survivors' # {}
  BY <1>1 DEF Becomes
<1> HIDE DEF promoted
<1>7. Ordered(promoted)
  BY <1>2, <1>3, <1>5, OrderedKept
<1>8. Recovered(promoted) = Doing.doc /\ Recovered(disk) = Doing.doc
  BY <1>2, <1>3, <1>4, <1>5, <1>7, RecoveredOrdered, DocumentFacts
<1>9. \A v \in {disk, promoted} : Recovered(v) \in Reach
  BY <1>8, MayFacts
<1> QED
  BY <1>1, <1>6, <1>9, WritingRegister DEF Writing

LEMMA SettledRegister ==
  ASSUME Books, Files, Step, SyncParent("main"), Settled, Advance(AfterSync("main"))
  PROVE  Register!Progress \/ Register!Succeed
<1>1. /\ \/ /\ Doing.kind \in {"write", "recover"}
            /\ Doing.stage \in {"staged", "retired", "displaced", "promoted"}
         \/ Doing.kind = "quarantine" /\ Doing.stage = "quarantined"
      /\ Doing'.kind = Doing.kind
      /\ Doing'.stage = AfterSync("main") /\ Doing'.doc = Doing.doc /\ Doing'.ok = Doing.ok
  BY SyncParentMoves DEF Books, Advance, Moves
<1>2. disk' = disk /\ survivors' = {disk} /\ disk \in Views /\ Ordered(disk)
  BY DEF Settled, Books, TypeOK, Files, Sound
<1>3. May' = {Recovered(disk)} /\ Recovered(disk) \in May /\ May \subseteq Reach
  BY <1>2, MayFacts DEF May
<1>4. Confirmed' = IF Doing.kind = "quarantine" THEN Missing
                   ELSE IF Doing'.stage = "done" /\ Doing'.ok THEN Doing'.doc
                   ELSE confirmed
  BY StepFacts
<1>5. Confirmed = IF Doing.kind = "quarantine" THEN Missing ELSE confirmed
  BY <1>1, ConfirmedIs DEF Books
<1>6. CASE Doing.stage = "promoted"
  <2>1. /\ disk["primary"] = Doing.doc /\ disk["tmp"] = Missing
        /\ Doing.doc \in Docs /\ Doing.ok = TRUE
    BY <1>1, <1>6, DoingFields DEF Files, Staging, Books, Control, Writing, At, Doing
  <2>2. Recovered(disk) = Doing.doc
    BY <1>2, <2>1, RecoveredOrdered, DocumentFacts
  <2>3. Doing'.stage = "done"
    BY <1>1, <1>6, AfterSyncIs
  <2> QED
    BY <1>1, <1>3, <1>4, <1>6, <2>1, <2>2, <2>3, RegisterSucceeds
<1>7. CASE Doing.stage # "promoted"
  <2>1. Doing.stage # "done" /\ Doing'.stage # "done"
    BY <1>1, <1>7, AfterSyncIs
  <2>2. Confirmed' = Confirmed
    BY <1>4, <1>5, <2>1
  <2>3. May' \subseteq Reach /\ May' # {} /\ Doing.kind # "none"
    BY <1>1, <1>3
  <2> QED
    BY <1>1, <2>1, <2>2, <2>3, RegisterProgresses
<1> QED
  BY <1>6, <1>7

LEMMA QuarantineRegister ==
  ASSUME Books, Files, Step, Quarantine("main")
  PROVE  Register!Progress
<1> DEFINE file == Head(Doing.left)
           gone == Replace(file, Missing)
<1>1. /\ Doing.kind = "quarantine" /\ Doing.stage = "quarantine" /\ file \in Names
      /\ Doing'.kind = Doing.kind /\ Doing'.stage # "done" /\ Doing'.doc = Doing.doc
      /\ survivors' \subseteq survivors \cup {disk, gone} /\ survivors' # {}
  <2>1. survivors # {}
    BY DEF Books, TypeOK
  <2> QED
    BY <2>1, QuarantineMoves DEF Moves, Becomes, Books
<1>2. Confirmed = Missing /\ Confirmed' = Missing
  BY <1>1, ConfirmedIs, StepFacts DEF Books
<1>3. disk \in Views /\ Ordered(disk) /\ Missing \in Contents
  BY DEF Books, TypeOK, Files, Sound, Contents
<1>4. gone \in Views /\ gone[file] = Missing /\ \A name \in Names \ {file} : gone[name] = disk[name]
  BY <1>1, <1>3, ViewFacts, Rewrites DEF Replace
<1> HIDE DEF file, gone
<1>5. Agree(disk)
  BY <1>3, OrderedAgrees
<1>6. Agree(gone)
  BY <1>4, <1>5, DocumentFacts DEF Agree
<1>7. Recovered(gone) \in Reach
  <2>1. CASE Valid(Recovered(gone))
    <3>1. PICK name \in Names : Recovered(gone) = gone[name]
      BY <1>4, <1>6, <2>1, RecoveredBest
    <3>2. gone[name] = disk[name] /\ Valid(disk[name])
      BY <1>1, <1>4, <2>1, <3>1, DocumentFacts
    <3>3. Valid(Recovered(disk)) /\ disk[name].rev <= Recovered(disk).rev
      BY <1>3, <1>5, <3>2, RecoveredBest
    <3>4. PICK other \in Names : Recovered(disk) = disk[other]
      BY <1>3, <1>5, <3>3, RecoveredBest
    <3>5. disk[name] \in Docs /\ disk[other] \in Docs
      BY <3>2, <3>3, <3>4, DiskFacts DEF Books
    <3>6. disk[name].rev = disk[other].rev => disk[name] = disk[other]
      BY <1>5, <3>2, <3>3, <3>4 DEF Agree
    <3>7. disk[name].rev \in Nat /\ disk[other].rev \in Nat
      BY <3>5, DocumentFacts
    <3>8. Recovered(disk) \in May /\ May \subseteq Reach
      BY MayFacts
    <3>9. CASE disk[name].rev = disk[other].rev
      BY <3>1, <3>2, <3>4, <3>6, <3>8, <3>9
    <3>10. CASE disk[name].rev < disk[other].rev
      BY <1>2, <3>1, <3>2, <3>4, <3>5, <3>8, <3>10, MayFacts
    <3> QED
      BY <3>3, <3>4, <3>7, <3>9, <3>10
  <2>2. CASE ~Valid(Recovered(gone))
    <3>1. Recovered(gone) \in {Missing, Torn}
      BY <1>4, <2>2, RecoveredType, DocumentFacts DEF Contents
    <3> QED
      BY <1>2, <3>1, MayFacts
  <2> QED
    BY <2>1, <2>2
<1>8. May' \subseteq Reach /\ May' # {}
  <2>1. \A v \in {disk, gone} : Recovered(v) \in Reach
    BY <1>7, MayFacts
  <2> QED
    BY <1>1, <2>1, MayBecomes, MayFacts
<1> QED
  BY <1>1, <1>2, <1>8, RegisterProgresses

LEMMA ClearedRegister ==
  ASSUME Books, Files, Step, Cleared("main")
  PROVE  Register!Succeed \/ Register!Fail
<1>1. /\ Doing.kind = "quarantine" /\ Doing.stage = "quarantine" /\ Doing.left = <<>>
      /\ Doing'.kind = Doing.kind /\ Doing'.stage = "done" /\ Doing'.ok = Doing.ok
      /\ Doing'.doc = Doing.doc /\ survivors' = survivors /\ Doing.ok \in BOOLEAN
      /\ Doing.doc = Missing
  BY ClearedMoves, DoingFields DEF Moves, Books, Control
<1>2. Confirmed = Missing /\ Confirmed' = Missing
  BY <1>1, ConfirmedIs, StepFacts DEF Books
<1>3. May' = May /\ May \subseteq Reach /\ Recovered(disk) \in May
  BY <1>1, MayFacts DEF May
<1>4. CASE Doing.ok
  <2>1. \A name \in Names : disk[name] = Missing
    BY <1>1, <1>4 DEF Files, Clearing, Gone
  <2>2. disk \in Views /\ Agree(disk)
    BY OrderedAgrees DEF Books, TypeOK, Files, Sound
  <2>3. Recovered(disk) = Missing
    BY <2>1, <2>2, RecoveredBest
  <2> QED
    BY <1>1, <1>2, <1>3, <1>4, <2>3, RegisterSucceeds
<1>5. CASE ~Doing.ok
  <2>1. May' \subseteq Reach /\ May' # {}
    BY <1>3
  <2> QED
    BY <1>1, <1>2, <1>5, <2>1, RegisterFails
<1> QED
  BY <1>4, <1>5

\* The program's own steps begin calls, take their results, or stop.
LEMMA ProgramRegister ==
  ASSUME Books, Next, ~Step, ~Damage
  PROVE  Register!Call \/ Register!Return \/ Register!Stop
<1>1. CASE WriteFresh \/ Save
  <2>1. PICK seen, for : seen \in Nat /\ Write(seen, for)
    <3>1. known \in Nat
      BY DEF Books, TypeOK
    <3> QED
      BY <1>1, <3>1, DocumentsAssumption DEF WriteFresh, Save
  <2>2. PICK doc \in Docs : BeginWrite("main", doc)
    <3> DEFINE next == IF seen > revision THEN seen ELSE revision + 1
    <3>1. PICK id \in Ids, body \in Bodies :
            next <= MaxRevision /\ BeginWrite("main", [id |-> id, rev |-> next, body |-> body])
      BY <2>1 DEF Write
    <3>2. next \in Nat /\ next >= 1
      BY <2>1 DEF Books, TypeOK
    <3> HIDE DEF next
    <3>3. [id |-> id, rev |-> next, body |-> body] \in Docs
      BY <3>1, <3>2, DocumentsAssumption DEF Docs
    <3> QED
      BY <3>1, <3>3
  <2>3. /\ Doing.kind = "none" /\ Doing'.kind = "write" /\ Doing'.stage = "stage"
        /\ Doing'.doc = doc /\ survivors' = survivors
    BY <2>2, BeginWriteMoves DEF Books
  <2>4. Doing.stage = "idle"
    BY <2>3, KindOfStage DEF Books, Control, NoJob
  <2>5. Confirmed' = Confirmed
    BY <2>1, <2>3, <2>4 DEF Confirmed, Write, At, Doing
  <2> QED
    BY <2>2, <2>3, <2>4, <2>5, RegisterCalls
<1>2. CASE Boot \/ RecoverDocuments
  <2>1. BeginRecover("main") /\ confirmed' = confirmed
    BY <1>2 DEF Boot, RecoverDocuments
  <2>2. /\ Doing.kind = "none" /\ Doing'.kind = "recover" /\ Doing'.stage = "scan"
        /\ Doing'.doc = Missing /\ survivors' = survivors
    BY <2>1, BeginRecoverMoves DEF Books
  <2>3. Doing.stage = "idle"
    BY <2>2, KindOfStage DEF Books, Control, NoJob
  <2>4. Confirmed' = Confirmed
    BY <2>1, <2>2, <2>3 DEF Confirmed, At, Doing
  <2> QED
    BY <2>2, <2>3, <2>4, RegisterCalls
<1>3. CASE QuarantineDocuments
  <2>1. /\ Doing.kind = "none" /\ Doing'.kind = "quarantine" /\ Doing'.stage = "quarantine"
        /\ Doing'.doc = Missing /\ survivors' = survivors
    BY <1>3, BeginClearMoves DEF Books, QuarantineDocuments
  <2>2. Doing.stage = "idle"
    BY <2>1, KindOfStage DEF Books, Control, NoJob
  <2>3. Confirmed' = Missing
    BY <2>1 DEF Confirmed, At, Doing
  <2> QED
    BY <2>1, <2>2, <2>3, RegisterCalls
<1>4. CASE Booted \/ Written \/ DocumentsRecovered \/ DocumentsQuarantined
  <2>1. Doing.stage = "done"
    BY <1>4 DEF Booted, Written, DocumentsRecovered, DocumentsQuarantined, Returned, At, Doing
  <2>2. PICK next : Finish(next)
    BY <1>4 DEF Booted, Written, DocumentsRecovered, DocumentsQuarantined
  <2>3. Doing' = NoJob /\ survivors' = survivors /\ confirmed' = Confirmed
    BY <2>2, FinishMoves DEF Books
  <2>4. Confirmed' = Confirmed
    BY <2>3, FirstJobs DEF Confirmed, At, Doing
  <2> QED
    BY <2>1, <2>3, <2>4, RegisterReturns
<1>5. CASE Stop
  <2>1. PICK view \in survivors : survivors' = {view}
    BY <1>5 DEF Stop, PowerCut
  <2>2. Doing' = NoJob /\ confirmed' = Confirmed
    BY <1>5, ProfileAssumption DEF Stop, PowerCut, Doing
  <2>3. Confirmed' = Confirmed
    BY <2>2, FirstJobs DEF Confirmed, At, Doing
  <2> QED
    BY <2>1, <2>2, <2>3, RegisterStops
<1> QED
  BY <1>1, <1>2, <1>3, <1>4, <1>5 DEF Next

\* Every step of the files is a step of the register, or changes nothing of it.
LEMMA NextRegister ==
  ASSUME "sync" \notin Fallible, Orderly, [Next]_vars
  PROVE  [Register!RegisterNext]_(Register!registerVars)
<1> USE DEF Orderly
<1>1. CASE UNCHANGED vars
  BY <1>1 DEF vars, Register!registerVars, Confirmed, At, Doing
<1>2. CASE Next /\ damages' > 0
  BY <1>2 DEF Register!RegisterNext, Register!Damage
<1>3. CASE Next /\ ~(damages' > 0)
  <2>1. damages' = 0 /\ damages = 0 /\ ~Damage
    <3>1. damages \in Nat /\ damages' \in Nat
      BY NextBooks DEF Books, TypeOK
    <3>2. Damage => damages' = damages + 1
      BY DEF Damage
    <3>3. ~Damage => damages' = damages
      BY <1>3 DEF Next, Boot, Booted, WriteFresh, Save, Written, RecoverDocuments,
         DocumentsRecovered, QuarantineDocuments, DocumentsQuarantined, Stop, Finish, Write,
         Step, profileVars
    <3> QED
      BY <1>3, <3>1, <3>2, <3>3
  <2>2. Files
    BY <2>1 DEF Undisturbed
  <2>3. CASE Step
    <3>1. SyncParent("main") => Settled /\ Advance(AfterSync("main"))
      BY SyncParentMoves DEF Books, Fault
    <3>2. ~Displace("main")
      BY <2>2, DisplaceMoves DEF Books, Files, Staging, Displacing
    <3>3. Register!Progress \/ Register!Succeed \/ Register!Fail
      BY <2>2, <2>3, <3>1, <3>2, ChooseRegister, StageRegister, RetireRegister, PromoteRegister,
         SettledRegister, QuarantineRegister, ClearedRegister, NothingUnlinked
         DEF Step, JobStep, Books
    <3> QED
      BY <2>1, <3>3 DEF Register!RegisterNext
  <2>4. CASE ~Step
    <3>1. Register!Call \/ Register!Return \/ Register!Stop
      BY <1>3, <2>1, <2>4, ProgramRegister
    <3> QED
      BY <2>1, <3>1 DEF Register!RegisterNext
  <2> QED
    BY <2>3, <2>4
<1> QED
  BY <1>1, <1>2, <1>3

\* The first state as the first state of the register.
LEMMA InitRegister == Init => Register!RegisterInit
<1> SUFFICES ASSUME Init PROVE Register!RegisterInit
  OBVIOUS
<1>1. disk = [name \in Names |-> Missing] /\ survivors = {disk} /\ damages = 0
      /\ job = [t \in Threads |-> NoJob] /\ confirmed = Missing
  BY DEF Init, FileInit
<1>2. Doing = NoJob /\ disk \in Views
  BY <1>1, ProfileAssumption DEF Doing, Views, Contents
<1>3. Doing.kind = "none" /\ Doing.stage = "idle" /\ Doing.doc = Missing
  BY <1>2, FirstJobs
<1>4. Confirmed = Missing
  BY <1>1, <1>3 DEF Confirmed, At, Doing
<1>5. Agree(disk) /\ \A name \in Names : disk[name] = Missing
  BY <1>1, DocumentFacts DEF Agree
<1>6. Recovered(disk) = Missing
  BY <1>2, <1>5, RecoveredBest
<1>7. May = {Missing}
  BY <1>1, <1>6 DEF May
<1> QED
  BY <1>1, <1>3, <1>4, <1>7, RegisterDocuments DEF Register!RegisterInit, May

(* A profile document on disk is one register: a crash at any step of
   durable-file's write, rename, sync and recovery leaves the document that was
   confirmed last or one that a call under way was writing, and a call that
   returned success is never undone.  Directory syncs must not fail: after a
   sync that failed a retry reuses the revision that is already on disk, and
   TLC finds a conflict.  Writes and renames may fail. *)
THEOREM ImplementsRegisterHolds ==
  ASSUME "sync" \notin Fallible
  PROVE  Spec => ImplementsRegister
<1>1. Init => Register!RegisterInit
  BY InitRegister
<1>2. Orderly /\ [Next]_vars => [Register!RegisterNext]_(Register!registerVars)
  BY NextRegister
<1>3. Spec => []Orderly
  BY OrderlyHolds
<1>4. Spec => Register!RegisterSpec
  BY <1>1, <1>2, <1>3, PTL DEF Spec, Register!RegisterSpec
<1> QED
  BY <1>4 DEF ImplementsRegister

-----------------------------------------------------------------------------
(* The two copies *)

\* Of two copies in order, one is under the other names.
LEMMA TwoFacts ==
  ASSUME NEW v \in Views, NEW r \in Nat, TwoCopies(v, r)
  PROVE  /\ \A name \in Names : \E n \in Names \ {name} : Valid(v[n]) /\ v[n].rev >= r
         /\ \A n \in Names : Valid(v[n]) => v[n].rev \in Nat
BY ViewFacts, DocumentFacts DEF TwoCopies

\* Two copies are two of the three names.
LEMMA CopyPairs ==
  ASSUME NEW v, NEW r
  PROVE  /\ Valid(v["primary"]) /\ v["primary"].rev >= r /\ Valid(v["bak"]) /\ v["bak"].rev >= r =>
              TwoCopies(v, r)
         /\ Valid(v["primary"]) /\ v["primary"].rev >= r /\ Valid(v["tmp"]) /\ v["tmp"].rev >= r =>
              TwoCopies(v, r)
         /\ Valid(v["bak"]) /\ v["bak"].rev >= r /\ Valid(v["tmp"]) /\ v["tmp"].rev >= r =>
              TwoCopies(v, r)
BY DEF TwoCopies, Names

\* Any one of the files may be lost, and a recovery finds the other copy.
LEMMA OneLost ==
  ASSUME NEW v \in Views, Ordered(v), NEW r \in Nat, TwoCopies(v, r), NEW name \in Names
  PROVE  LET found == Recovered([v EXCEPT ![name] = Torn])
         IN  Valid(found) /\ found.rev >= r
<1> DEFINE w == [v EXCEPT ![name] = Torn]
<1>1. /\ w \in Views /\ w[name] = Torn
      /\ \A n \in Names \ {name} : w[n] = v[n]
  BY ViewFacts DEF Contents
<1> HIDE DEF w
<1>2. Agree(w)
  BY <1>1, OrderedAgrees, DocumentFacts DEF Agree
<1>3. PICK n \in Names \ {name} : Valid(v[n]) /\ v[n].rev >= r
  BY TwoFacts
<1>4. Valid(w[n]) /\ w[n].rev >= r
  BY <1>1, <1>3
<1>5. Valid(Recovered(w)) /\ w[n].rev <= Recovered(w).rev /\ Recovered(w) \in Contents
  BY <1>1, <1>2, <1>4, RecoveredBest
<1>6. Recovered(w).rev \in Nat /\ w[n].rev \in Nat
  BY <1>1, <1>3, <1>5, ViewFacts, DocumentFacts DEF Contents
<1> QED
  BY <1>4, <1>5, <1>6 DEF w

\* The assumptions of the lemmas below: nothing damaged, nothing failed.
Clean == Books /\ Files /\ Copies /\ faults = 0 /\ damages = 0

\* The confirmed documents carry revisions.
LEMMA BeforeRev ==
  ASSUME Books
  PROVE  before.rev \in Nat /\ confirmed.rev \in Nat
         /\ (Valid(before) => before \in Docs) /\ (Valid(confirmed) => confirmed \in Docs)
BY DocumentFacts DEF Books, TypeOK

\* Copies under each step of a write or a recovery.
LEMMA ChooseCopies ==
  ASSUME Clean, Step, Choose("main")
  PROVE  Copies'
<1> USE DEF Clean
<1> DEFINE found == Recovered(disk)
<1>1. /\ Doing.kind = "recover" /\ Doing.stage = "scan" /\ Doing'.kind = "recover"
      /\ Doing'.stage = IF ~Valid(found) \/ Scan(disk).best = "primary" THEN "done"
                        ELSE IF disk["primary"] = Torn THEN "displace" ELSE "stage"
      /\ Doing'.doc = found /\ Doing'.ok = (found # Torn)
      /\ found \in Contents /\ disk' = disk /\ survivors' = survivors
  BY ChooseMoves DEF Moves, Books
<1>2. UNCHANGED <<running, blocked, confirmed, before>>
  BY StepFacts
<1>3. disk \in survivors /\ disk \in Views /\ Ordered(disk) /\ Agree(disk)
  BY OrderedAgrees DEF Books, TypeOK, Files, Sound
<1>4. /\ \A name \in Names : Valid(disk[name]) => Valid(found) /\ disk[name].rev <= found.rev
      /\ Valid(found) /\ Scan(disk).best = "primary" => found = disk["primary"]
  BY <1>3, RecoveredBest
<1>5. disk["primary"] # Torn
  BY <1>3 DEF Ordered
<1> HIDE DEF found
<1>6. ASSUME Valid(before)
      PROVE  /\ Valid(found) /\ found.rev >= before.rev
             /\ Copy({"primary", "bak"})
             /\ Doing'.stage = "done" => Both(before.rev)
             /\ \A v \in survivors : TwoCopies(v, before.rev)
  <2>1. \A v \in survivors : TwoCopies(v, before.rev)
    BY <1>1, <1>6 DEF Copies, Doubled
  <2>2. /\ \A name \in Names : \E n \in Names \ {name} : Valid(disk[n]) /\ disk[n].rev >= before.rev
        /\ \A n \in Names : Valid(disk[n]) => disk[n].rev \in Nat
    BY <1>3, <2>1, TwoFacts, BeforeRev
  <2>3. Valid(found) /\ found.rev >= before.rev
    <3>1. PICK n \in Names : Valid(disk[n]) /\ disk[n].rev >= before.rev
      BY <2>2 DEF Names
    <3>2. Valid(found) /\ disk[n].rev <= found.rev
      BY <1>4, <3>1
    <3>3. found.rev \in Nat /\ disk[n].rev \in Nat /\ before.rev \in Nat
      BY <1>1, <2>2, <3>1, <3>2, BeforeRev, DocumentFacts DEF Contents
    <3> QED
      BY <3>1, <3>2, <3>3
  <2>4. Copy({"primary", "bak"})
    BY <2>2 DEF Copy, Names
  <2>5. ASSUME Doing'.stage = "done" PROVE Both(before.rev)
    <3>1. found = disk["primary"]
      BY <1>1, <1>4, <1>5, <2>3, <2>5
    <3>2. ~Valid(disk["tmp"])
      <4>1. SUFFICES ASSUME Valid(disk["tmp"]) PROVE FALSE
        OBVIOUS
      <4>2. disk["tmp"].rev > disk["primary"].rev
        BY <1>3, <2>3, <3>1, <4>1 DEF Ordered, Above
      <4>3. disk["tmp"].rev <= disk["primary"].rev
        BY <1>4, <3>1, <4>1 DEF Names
      <4>4. disk["tmp"].rev \in Nat /\ disk["primary"].rev \in Nat
        BY <2>2, <2>3, <3>1, <4>1 DEF Names
      <4> QED
        BY <4>2, <4>3, <4>4
    <3> QED
      BY <2>2, <3>2 DEF Both, Names
  <2> QED
    BY <2>1, <2>3, <2>4, <2>5
<1>7. Whole'
  BY <1>1, <1>2, <1>6, DocumentFacts DEF Copies, Whole, At, Doing
<1>8. Backed'
  <2>1. (Copy({"primary", "bak"}))' = Copy({"primary", "bak"})
    BY <1>1, <1>2 DEF Copy
  <2>2. (Both(before.rev))' = Both(before.rev)
    BY <1>1, <1>2 DEF Both
  <2> QED
    BY <1>1, <1>2, <1>5, <1>6, <2>1, <2>2 DEF Backed, Writing, At, Doing
<1>9. Doubled'
  BY <1>1, <1>2, <1>6 DEF Doubled
<1> QED
  BY <1>7, <1>8, <1>9 DEF Copies

\* The steps of a write or a recovery that change the files.
LEMMA WritingFacts ==
  ASSUME Clean, Step, Doing.stage \in Writing
  PROVE  /\ Doing.kind \in {"write", "recover"} /\ Doing'.kind = Doing.kind
         /\ UNCHANGED <<running, blocked, confirmed, before>>
         /\ Doing.doc \in Docs
         /\ disk \in survivors /\ Ordered(disk)
         /\ Valid(before) => /\ Doing.doc.rev >= before.rev
                             /\ Doing.stage \in {"stage", "staged", "retire"} =>
                                  Copy({"primary", "bak"})
                             /\ Doing.stage \in {"retired", "promote", "promoted"} => Copy({"bak"})
                             /\ Doing.kind = "write" /\ Doing.stage \in {"stage", "staged", "retire"} =>
                                  Both(before.rev)
                             /\ Doing.kind = "write" => \A v \in survivors : TwoCopies(v, before.rev)
<1>1. Doing.kind \in {"write", "recover"}
  BY KindOfStage DEF Clean, Books
<1>2. Doing.doc \in Docs
  BY <1>1 DEF Clean, Books, Control
<1> QED
  BY <1>1, <1>2, StepFacts DEF Clean, Books, TypeOK, Files, Sound, Copies, Backed, Doubled

\* A step that goes on writing, with the copies where the next stage wants them.
LEMMA WritingCopies ==
  ASSUME Clean, Step, Doing.stage \in Writing, Doing'.stage \in Writing,
         Doing'.doc = Doing.doc,
         Valid(before) /\ Doing'.stage \in {"stage", "staged", "retire"} =>
           /\ (Copy({"primary", "bak"}))'
           /\ Doing.kind = "write" => (Both(before.rev))',
         Valid(before) /\ Doing'.stage \in {"retired", "promote", "promoted"} => (Copy({"bak"}))',
         Valid(before) /\ Doing.kind = "write" => \A v \in survivors' : TwoCopies(v, before.rev)
  PROVE  Copies'
<1>1. /\ Doing.kind \in {"write", "recover"} /\ Doing'.kind = Doing.kind
      /\ UNCHANGED <<running, blocked, confirmed, before>>
      /\ Valid(before) => Doing.doc.rev >= before.rev
  BY WritingFacts
<1>2. Doing'.stage # "done" /\ Doing'.stage # "scan"
  BY DEF Writing
<1>3. Whole'
  BY <1>1, <1>2 DEF Clean, Copies, Whole, At, Doing
<1>4. Backed'
  BY <1>1, <1>2 DEF Backed, At, Doing
<1>5. Doubled'
  BY <1>1, <1>2 DEF Doubled, At, Doing
<1> QED
  BY <1>3, <1>4, <1>5 DEF Copies

LEMMA StageCopies ==
  ASSUME Clean, Step, Stage("main"), faults' = 0
  PROVE  Copies'
<1> DEFINE none == Replace("tmp", Missing)
           torn == Replace("tmp", Torn)
           full == Replace("tmp", Doing.doc)
<1>1. /\ Doing.stage = "stage"
      /\ Doing'.stage = "staged" /\ Doing'.doc = Doing.doc /\ Becomes(full, {none, torn})
  BY StageMoves DEF Clean, Books, Advance, Failure, Moves
<1>2. /\ disk' = full /\ survivors' = survivors \cup {none, torn, full}
      /\ \A v \in {none, torn, full} : v["primary"] = disk["primary"] /\ v["bak"] = disk["bak"]
  BY <1>1, Replaced DEF Clean, Books, Becomes
<1> HIDE DEF none, torn, full
<1>3. Doing.stage \in Writing /\ Doing'.stage \in Writing
  BY <1>1 DEF Writing
<1>4. UNCHANGED before
  BY <1>3, WritingFacts
<1>5. ASSUME Valid(before) PROVE (Copy({"primary", "bak"}))'
  BY <1>1, <1>2, <1>3, <1>4, <1>5, WritingFacts DEF Copy
<1>6. ASSUME Valid(before), Doing.kind = "write"
      PROVE  (Both(before.rev))' /\ \A v \in survivors' : TwoCopies(v, before.rev)
  <2>1. Both(before.rev) /\ \A v \in survivors : TwoCopies(v, before.rev)
    BY <1>1, <1>3, <1>6, WritingFacts
  <2>2. \A v \in {none, torn, full} : TwoCopies(v, before.rev)
    BY <1>2, <2>1, CopyPairs DEF Both
  <2> QED
    BY <1>2, <1>4, <2>1, <2>2 DEF Both
<1> QED
  BY <1>1, <1>3, <1>5, <1>6, WritingCopies

LEMMA RetireCopies ==
  ASSUME Clean, Step, Retire("main"), faults' = 0
  PROVE  Copies'
<1> DEFINE unbacked == Replace("bak", Missing)
           retired == Rename("primary", "bak")
<1>1. /\ Doing.stage = "retire"
      /\ Doing'.stage = "retired" /\ Doing'.doc = Doing.doc /\ Becomes(retired, {unbacked})
  BY RetireMoves DEF Clean, Books, Advance, Failure, Moves
<1>2. /\ disk' = retired /\ survivors' = survivors \cup {unbacked, retired}
      /\ unbacked["primary"] = disk["primary"] /\ unbacked["tmp"] = disk["tmp"]
      /\ retired["bak"] = disk["primary"] /\ retired["tmp"] = disk["tmp"]
  BY <1>1, Replaced DEF Clean, Books, Becomes
<1> HIDE DEF unbacked, retired
<1>3. Doing.stage \in Writing /\ Doing'.stage \in Writing
  BY <1>1 DEF Writing
<1>4. /\ UNCHANGED before /\ Doing.doc \in Docs /\ Ordered(disk)
      /\ disk["tmp"] = Doing.doc /\ Valid(disk["primary"])
  BY <1>1, <1>3, WritingFacts DEF Clean, Files, Staging, At, Doing
<1>5. ASSUME Valid(before)
      PROVE  disk["primary"].rev >= before.rev
  <2>1. Copy({"primary", "bak"})
    BY <1>1, <1>3, <1>5, WritingFacts
  <2>2. disk["primary"].rev \in Nat /\ before.rev \in Nat
        /\ (Valid(disk["bak"]) => disk["bak"].rev \in Nat)
    BY <1>4, DiskFacts, BeforeRev DEF Clean, Books
  <2> QED
    BY <1>4, <2>1, <2>2 DEF Copy, Ordered, Above
<1>6. ASSUME Valid(before) PROVE (Copy({"bak"}))'
  BY <1>2, <1>4, <1>5, <1>6 DEF Copy
<1>7. ASSUME Valid(before), Doing.kind = "write"
      PROVE  \A v \in survivors' : TwoCopies(v, before.rev)
  <2>1. Doing.doc.rev >= before.rev /\ \A v \in survivors : TwoCopies(v, before.rev)
    BY <1>1, <1>3, <1>7, WritingFacts
  <2>2. TwoCopies(unbacked, before.rev) /\ TwoCopies(retired, before.rev)
    BY <1>2, <1>4, <1>5, <1>7, <2>1, CopyPairs, DocumentFacts
  <2> QED
    BY <1>2, <2>1, <2>2
<1> QED
  BY <1>1, <1>3, <1>6, <1>7, WritingCopies

LEMMA PromoteCopies ==
  ASSUME Clean, Step, Promote("main"), faults' = 0
  PROVE  Copies'
<1> DEFINE promoted == Rename("tmp", "primary")
<1>1. /\ Doing.stage = "promote"
      /\ Doing'.stage = "promoted" /\ Doing'.doc = Doing.doc /\ Becomes(promoted, {})
  BY PromoteMoves DEF Clean, Books, Advance, Failure, Moves
<1>2. /\ disk' = promoted /\ survivors' = survivors \cup {promoted}
      /\ promoted["primary"] = disk["tmp"] /\ promoted["bak"] = disk["bak"]
  BY <1>1, Replaced DEF Clean, Books, Becomes
<1> HIDE DEF promoted
<1>3. Doing.stage \in Writing /\ Doing'.stage \in Writing
  BY <1>1 DEF Writing
<1>4. UNCHANGED before /\ Doing.doc \in Docs /\ disk["tmp"] = Doing.doc
  BY <1>1, <1>3, WritingFacts DEF Clean, Files, Staging, At, Doing
<1>5. Valid(before) => Copy({"bak"}) /\ Doing.doc.rev >= before.rev
  BY <1>1, <1>3, WritingFacts
<1>6. ASSUME Valid(before) PROVE (Copy({"bak"}))'
  BY <1>2, <1>4, <1>5, <1>6 DEF Copy
<1>7. ASSUME Valid(before), Doing.kind = "write"
      PROVE  \A v \in survivors' : TwoCopies(v, before.rev)
  <2>1. TwoCopies(promoted, before.rev)
    BY <1>2, <1>4, <1>5, <1>7, CopyPairs, DocumentFacts DEF Copy
  <2> QED
    BY <1>2, <1>3, <1>7, <2>1, WritingFacts
<1> QED
  BY <1>1, <1>3, <1>6, <1>7, WritingCopies

\* Copies under the steps of a clear.
LEMMA ClearingCopies ==
  ASSUME Clean, Step, Doing.kind = "quarantine"
  PROVE  Copies'
<1>1. Doing'.kind = "quarantine" /\ UNCHANGED <<running, blocked, confirmed, before>>
  BY StepFacts DEF Clean
<1>2. blocked /\ ~Valid(before)
  <2>1. call = "quarantine"
    BY DEF Clean, Books, Control, KindOf, TypeOK
  <2> QED
    BY <2>1 DEF Clean, Books, Control, Copies, Whole
<1> QED
  BY <1>1, <1>2 DEF Copies, Whole, Backed, Doubled

\* Copies when the directory is synced.
LEMMA SettledCopies ==
  ASSUME Clean, Step, SyncParent("main"), Settled, Advance(AfterSync("main")), Files'
  PROVE  Copies'
<1>1. /\ \/ /\ Doing.kind \in {"write", "recover"}
            /\ Doing.stage \in {"staged", "retired", "displaced", "promoted"}
         \/ Doing.kind = "quarantine" /\ Doing.stage = "quarantined"
      /\ Doing'.stage = AfterSync("main") /\ Doing'.doc = Doing.doc /\ Doing'.ok = Doing.ok
      /\ Doing'.kind = Doing.kind
  BY SyncParentMoves DEF Advance, Moves, Clean, Books
<1>2. UNCHANGED <<running, blocked, confirmed, before>>
  BY StepFacts DEF Clean
<1>3. disk' = disk /\ survivors' = {disk} /\ disk \in survivors
  BY DEF Settled, Clean, Books, TypeOK
<1>4. CASE Doing.kind = "quarantine"
  BY <1>4, ClearingCopies
<1>5. CASE Doing.kind # "quarantine" /\ Doing.stage # "promoted"
  <2>1. Doing.stage \in {"staged", "retired"} /\ Doing.stage \in Writing
    BY <1>1, <1>5 DEF Clean, Files, Staging, Displacing, Writing
  <2>2. Doing'.stage \notin Displacing
    BY DEF Files, Staging
  <2>3. /\ Doing'.stage \in {"promote", "retire"}
        /\ Doing.stage = "staged" /\ Doing'.stage = "promote" => disk["primary"] = Missing
        /\ Doing'.stage = "retire" => Doing.stage = "staged"
    BY <1>1, <2>1, <2>2, AfterSyncIs DEF Displacing
  <2>4. ASSUME Valid(before), Doing'.stage = "promote" PROVE (Copy({"bak"}))'
    BY <1>2, <1>3, <2>1, <2>3, <2>4, WritingFacts, DocumentFacts DEF Copy
  <2>5. ASSUME Valid(before), Doing'.stage = "retire"
        PROVE  (Copy({"primary", "bak"}))' /\ (Doing.kind = "write" => (Both(before.rev))')
    BY <1>2, <1>3, <2>1, <2>3, <2>5, WritingFacts DEF Copy, Both
  <2>6. ASSUME Valid(before), Doing.kind = "write"
        PROVE  \A v \in survivors' : TwoCopies(v, before.rev)
    BY <1>3, <2>1, <2>6, WritingFacts
  <2>7. Doing'.stage \in Writing
    BY <2>3 DEF Writing
  <2> QED
    BY <1>1, <2>1, <2>3, <2>4, <2>5, <2>6, <2>7, WritingCopies
<1>6. CASE Doing.kind # "quarantine" /\ Doing.stage = "promoted"
  <2>1. Doing.stage \in Writing
    BY <1>6 DEF Writing
  <2>2. /\ disk["primary"] = Doing.doc /\ Doing.doc \in Docs /\ Ordered(disk)
        /\ Valid(before) => Doing.doc.rev >= before.rev /\ Copy({"bak"})
    BY <1>6, <2>1, WritingFacts DEF Clean, Files, Staging, At, Doing
  <2>3. Doing'.stage = "done" /\ Doing'.ok
    BY <1>1, <1>6, AfterSyncIs DEF Clean, Books, Control
  <2>4. ASSUME Valid(before) PROVE Both(before.rev) /\ TwoCopies(disk, before.rev)
    BY <2>2, <2>4, CopyPairs, DocumentFacts DEF Both, Copy
  <2>5. ASSUME Valid(confirmed), Doing.kind = "write"
        PROVE  Both(confirmed.rev) /\ TwoCopies(disk, confirmed.rev)
    <3>1. Confirmed = confirmed
      BY <1>6, <2>5, ConfirmedIs DEF Clean, Books
    <3>2. Doing.doc.rev > confirmed.rev
      BY <1>6, <2>5 DEF Clean, Books, Revisions, At, Doing
    <3>3. Keeps(disk, confirmed)
      BY <1>3, <3>1 DEF Clean, Files, Sound
    <3>4. confirmed.rev \in Nat /\ Doing.doc.rev \in Nat
      BY <2>2, BeforeRev, DocumentFacts DEF Clean
    <3>5. disk["bak"] = confirmed
      BY <2>2, <2>5, <3>2, <3>3, <3>4 DEF Keeps
    <3> QED
      BY <2>2, <2>5, <3>2, <3>4, <3>5, CopyPairs, DocumentFacts DEF Both
  <2>6. Whole'
    BY <1>1, <1>2, <2>3 DEF Clean, Copies, Whole, At, Doing
  <2>7. Backed'
    BY <1>1, <1>2, <1>3, <1>6, <2>3, <2>4 DEF Backed, Both, Writing, At, Doing
  <2>8. Doubled'
    BY <1>1, <1>2, <1>3, <2>4, <2>5 DEF Doubled, Both, At, Doing
  <2> QED
    BY <2>6, <2>7, <2>8 DEF Copies
<1> QED
  BY <1>4, <1>5, <1>6

\* Copies under a step of the job.
LEMMA StepCopies ==
  ASSUME Clean, Step, faults' = 0
  PROVE  Copies'
<1>1. ~Fault("sync")
  BY DEF Clean, Books, TypeOK, Fault
<1>2. SyncParent("main") => Settled /\ Advance(AfterSync("main"))
  BY <1>1, SyncParentMoves DEF Clean, Books
<1>3. ~Displace("main")
  BY DisplaceMoves DEF Clean, Books, Files, Staging, Displacing
<1>4. Quarantine("main") \/ Cleared("main") => Doing.kind = "quarantine"
  BY QuarantineMoves, ClearedMoves DEF Clean, Books
<1>5. SyncParent("main") => Files'
  BY <1>2, SettledFiles DEF Clean
<1> QED
  BY <1>2, <1>3, <1>4, <1>5, ChooseCopies, StageCopies, RetireCopies, PromoteCopies,
     SettledCopies, ClearingCopies, NothingUnlinked DEF Clean, Books, Step, JobStep

\* A call begins.
LEMMA BeginCopies ==
  ASSUME Clean, UNCHANGED <<disk, survivors, confirmed, before>>, Doing.kind = "none",
         \/ Doing'.kind = "write" /\ Doing'.stage = "stage" /\ running /\ ~blocked /\ ~blocked'
            /\ Doing'.doc \in Docs /\ (Valid(before) => Doing'.doc.rev > disk["primary"].rev)
         \/ Doing'.kind = "recover" /\ Doing'.stage = "scan" /\ (blocked' => blocked)
         \/ Doing'.kind = "quarantine" /\ Doing'.stage = "quarantine" /\ blocked
  PROVE  Copies'
<1> USE DEF Clean, Copies
<1>1. Whole'
  BY DEF Whole, At, Doing
<1>2. Backed'
  <2>1. CASE Doing'.kind = "write"
    <3>1. Valid(before) => Both(before.rev)
      BY <2>1 DEF Backed
    <3>2. Valid(before) => Doing'.doc.rev >= before.rev
      BY <2>1, <3>1, BeforeRev, DiskFacts, DocumentFacts DEF Books, Both
    <3>3. (Both(before.rev))' = Both(before.rev)
      BY DEF Both
    <3>4. Valid(before) => (Copy({"primary", "bak"}))'
      BY <3>1 DEF Both, Copy
    <3> QED
      BY <2>1, <3>1, <3>2, <3>3, <3>4 DEF Backed, Writing, At, Doing
  <2>2. CASE Doing'.kind = "recover"
    BY <2>2 DEF Backed, Writing, At, Doing
  <2>3. CASE Doing'.kind = "quarantine"
    BY <2>3 DEF Backed, Writing, At, Doing
  <2> QED
    BY <2>1, <2>2, <2>3
<1>3. Doubled'
  BY DEF Doubled, Both, At, Doing
<1> QED
  BY <1>1, <1>2, <1>3

\* Copies when a save, a fresh start or a replacement begins its write.
LEMMA WriteBegins ==
  ASSUME Clean, NEW seen \in Nat, NEW for, Write(seen, for),
         for \in {"save", "fresh", "replace"},
         running, ~blocked, for = "save" => call = "none", for # "save" => call = for
  PROVE  Copies'
<1> DEFINE next == IF seen > revision THEN seen ELSE revision + 1
<1>1. PICK id \in Ids, body \in Bodies :
        next <= MaxRevision /\ BeginWrite("main", [id |-> id, rev |-> next, body |-> body])
  BY DEF Write
<1>2. next \in Nat /\ next > revision /\ next >= 1
  BY DEF Clean, Books, TypeOK
<1> HIDE DEF next
<1>3. PICK doc \in Docs : BeginWrite("main", doc)
  BY <1>1, <1>2, DocumentsAssumption DEF Docs
<1>4. /\ Doing.kind = "none" /\ Doing'.kind = "write" /\ Doing'.stage = "stage"
      /\ Doing'.doc = doc /\ UNCHANGED <<disk, survivors>>
  BY <1>3, BeginWriteMoves DEF Clean, Books
<1>5. UNCHANGED <<running, blocked, confirmed, before>>
  BY DEF Write
<1>6. ASSUME Valid(before) PROVE doc.rev > disk["primary"].rev
  <2>1. Books'
    BY WriteBooks DEF Clean
  <2>2. doc.rev > confirmed.rev
    BY <1>4, <1>5, <2>1 DEF Books, Revisions, At, Doing
  <2>3. Both(before.rev)
    BY <1>4, <1>6 DEF Clean, Copies, Backed
  <2>4. Doing.stage = "idle"
    BY <1>4, KindOfStage DEF Clean, Books, Control, NoJob
  <2>5. Confirmed = confirmed
    BY <1>4, <2>4 DEF Confirmed, At, Doing
  <2>6. Steady(confirmed)
    BY <1>4, <2>4, <2>5 DEF Clean, Files, Standing, At, Doing
  <2>7. disk["primary"] = confirmed
    BY <2>3, <2>6, DocumentFacts DEF Both, Steady, Stands
  <2> QED
    BY <2>2, <2>7
<1> QED
  BY <1>3, <1>4, <1>5, <1>6, BeginCopies

\* A call ends.  The write before it is what the backup answers for.
LEMMA FinishCopies ==
  ASSUME Clean, NEW next, Finish(next), Doing.stage = "done",
         Doing.kind \in {"write", "recover", "quarantine"},
         blocked' => blocked \/ (Doing.kind = "recover" /\ ~Doing.ok)
                     \/ (Doing.kind = "write" /\ ~Doing.ok)
  PROVE  Copies'
<1> USE DEF Clean, Copies
<1>1. /\ Doing' = NoJob /\ UNCHANGED <<disk, survivors, faults, running, damages>>
      /\ before' = Before
  BY FinishMoves DEF Books
<1>2. Doing'.kind = "none" /\ Doing'.stage = "idle"
  BY <1>1, FirstJobs
<1>3. /\ Doing.kind = "write" => Doing.ok /\ before' = confirmed /\ ~blocked
      /\ Doing.kind = "recover" => before' = IF Doing.ok THEN before ELSE Missing
      /\ Doing.kind = "quarantine" => ~Valid(before') /\ blocked
  <2>1. Doing.kind = "write" => Doing.ok
    BY DEF Whole, At, Doing
  <2>2. /\ Doing.kind = "quarantine" => blocked
        /\ Doing.kind = "write" => ~blocked
    <3>1. call \in {"none", "boot", "save", "fresh", "replace", "recover", "quarantine"}
          /\ Doing.kind \in KindOf
      BY DEF Books, TypeOK, Control
    <3>2. /\ Doing.kind = "quarantine" => call = "quarantine"
          /\ Doing.kind = "write" => call \in {"save", "fresh", "replace"}
      BY <3>1 DEF KindOf
    <3> QED
      BY <3>2 DEF Books, Control
  <2>3. Doing.kind = "quarantine" => ~Valid(before)
    BY <2>2 DEF Whole
  <2> QED
    BY <1>1, <2>1, <2>2, <2>3, DocumentFacts DEF Before, At, Doing
<1>4. Valid(before') => Both(before'.rev) /\ \A v \in survivors : TwoCopies(v, before'.rev)
  <2>1. CASE Doing.kind = "write"
    BY <1>3, <2>1 DEF Doubled, At, Doing
  <2>2. CASE Doing.kind = "recover"
    BY <1>3, <2>2, DocumentFacts DEF Backed, Doubled, At, Doing
  <2> QED
    BY <1>3, <2>1, <2>2
<1>5. Whole'
  BY <1>1, <1>2, <1>3, DocumentFacts DEF Whole, At, Doing
<1>6. Backed'
  BY <1>1, <1>2, <1>4 DEF Backed, Both, Writing, At, Doing
<1>7. Doubled'
  BY <1>1, <1>2, <1>4 DEF Doubled, Both, At, Doing
<1> QED
  BY <1>5, <1>6, <1>7

\* Copies when a call returns.
LEMMA ReturnedCopies ==
  ASSUME Clean, Booted \/ Written \/ DocumentsRecovered \/ DocumentsQuarantined
  PROVE  Copies'
<1>1. Doing.stage = "done" /\ \E next : Finish(next)
  BY DEF Booted, Written, DocumentsRecovered, DocumentsQuarantined, Returned, At, Doing
<1>2. CASE Booted
  <2>1. Doing.kind = "recover" /\ (Doing.ok <=> Doing.doc # Torn)
    BY <1>2, ReturnedFacts DEF Booted, Clean
  <2>2. blocked' => blocked \/ ~Doing.ok
    BY <1>2, <2>1 DEF Booted
  <2> QED
    BY <1>1, <2>1, <2>2, FinishCopies
<1>3. CASE Written
  <2>1. Doing.kind = "write"
    BY <1>3, ReturnedFacts DEF Written, Clean
  <2>2. blocked' => ~Doing.ok
    BY <1>3 DEF Written
  <2> QED
    BY <1>1, <2>1, <2>2, FinishCopies
<1>4. CASE DocumentsRecovered
  <2>1. Doing.kind = "recover"
    BY <1>4, ReturnedFacts DEF DocumentsRecovered, Clean
  <2>2. blocked' => blocked
    BY <1>4 DEF DocumentsRecovered
  <2> QED
    BY <1>1, <2>1, <2>2, FinishCopies
<1>5. CASE DocumentsQuarantined
  <2>1. Doing.kind = "quarantine"
    BY <1>5, ReturnedFacts DEF DocumentsQuarantined, Clean
  <2>2. blocked' => blocked
    BY <1>5 DEF DocumentsQuarantined
  <2> QED
    BY <1>1, <2>1, <2>2, FinishCopies
<1> QED
  BY <1>2, <1>3, <1>4, <1>5

\* Copies when the process stops or the power is cut.
LEMMA StopCopies ==
  ASSUME Clean, Stop
  PROVE  Copies'
<1> USE DEF Clean, Copies
<1>1. PICK view \in survivors : disk' = view /\ survivors' = {view}
  BY DEF Stop, PowerCut
<1>2. running' = FALSE /\ before' = Before /\ blocked' = FALSE /\ Doing' = NoJob
  BY ProfileAssumption DEF Stop, PowerCut, Doing
<1>3. Doing'.kind = "none" /\ Doing'.stage = "idle"
  BY <1>2, FirstJobs
<1>4. Valid(before') => TwoCopies(view, before'.rev)
  <2>1. Doing.kind \in {"none", "write", "recover", "quarantine"} /\ Doing.stage \in Stages
    BY DoingFields DEF Books
  <2>2. Doing.kind = "quarantine" => ~Valid(before) /\ before' \in {before, Missing}
    <3>1. Doing.kind = "quarantine" => call = "quarantine"
      BY DEF Books, TypeOK, Control, KindOf
    <3> QED
      BY <1>2, <3>1 DEF Books, Control, Whole, Before, At, Doing
  <2>3. Doing.kind = "none" => before' = before
    <3>1. Doing.kind = "none" => Doing.stage = "idle"
      BY FirstJobs DEF Books, Control
    <3> QED
      BY <1>2, <3>1 DEF Before, At, Doing
  <2>4. Doing.kind = "recover" =>
          (before' = before /\ Doing.stage \in {"scan", "done"}) \/ before' = Missing
    BY <1>2 DEF Before, At, Doing
  <2>5. Doing.kind = "write" =>
          IF Doing.stage = "done" THEN before' = confirmed ELSE before' = before
    BY <1>2 DEF Before, Whole, At, Doing
  <2> QED
    BY <1>1, <2>1, <2>2, <2>3, <2>4, <2>5, DocumentFacts DEF Doubled, At, Doing
<1>5. Whole'
  BY <1>2, <1>3 DEF Whole, At, Doing
<1>6. Backed'
  BY <1>2, <1>3 DEF Backed, Writing, At, Doing
<1>7. Doubled'
  BY <1>1, <1>3, <1>4 DEF Doubled, At, Doing
<1> QED
  BY <1>5, <1>6, <1>7

\* The whole invariant.
LEMMA InitIInv == Init => IInv
<1> SUFFICES ASSUME Init PROVE IInv
  OBVIOUS
<1>1. Books /\ Files
  BY InitBooks, InitFiles
<1>2. before = Missing /\ confirmed = Missing /\ blocked = FALSE /\ Doing = NoJob
  BY ProfileAssumption DEF Init, FileInit, Doing
<1>3. Copies
  BY <1>2, FirstJobs, DocumentFacts DEF Copies, Whole, Backed, Doubled, At, Doing
<1> QED
  BY <1>1, <1>3 DEF IInv, Books

\* The whole invariant under every step.
LEMMA NextIInv == IInv /\ [Next]_vars => IInv'
<1> SUFFICES ASSUME IInv, [Next]_vars PROVE IInv'
  OBVIOUS
<1>1. Orderly
  BY DEF IInv, Orderly, Books
<1>2. Orderly'
  BY <1>1, NextOrderly
<1> SUFFICES ASSUME damages' = 0, faults' = 0 PROVE Copies'
  BY <1>2 DEF IInv, Orderly, Books
<1>3. damages = 0 /\ faults = 0 /\ ~Damage
  <2>1. damages \in Nat /\ faults \in Nat
    BY <1>1 DEF Orderly, Books, TypeOK
  <2>2. Step => damages' = damages /\ faults' \in {faults, faults + 1}
    BY <1>1, StepFacts, StageMoves, RetireMoves, PromoteMoves, DisplaceMoves, QuarantineMoves,
       ChooseMoves, ClearedMoves, SyncParentMoves, NothingUnlinked
       DEF Orderly, Books, Step, JobStep, Advance, Failure, Fault
  <2>3. Damage => damages' = damages + 1 /\ faults' = faults
    BY DEF Damage
  <2>4. ~Step /\ ~Damage => damages' = damages /\ faults' = faults
    BY DEF Next, vars, Boot, Booted, WriteFresh, Save, Written,
       RecoverDocuments, DocumentsRecovered, QuarantineDocuments, DocumentsQuarantined, Stop,
       Finish, Write, End, BeginWrite, BeginRecover, BeginClear, PowerCut
  <2> QED
    BY <2>1, <2>2, <2>3, <2>4
<1>4. Clean
  BY <1>1, <1>3 DEF Clean, Orderly, IInv, Undisturbed
<1>5. CASE Step
  BY <1>4, <1>5, StepCopies
<1>6. CASE WriteFresh
  <2>1. call \in {"fresh", "replace"} /\ Write(known, call)
    BY <1>6 DEF WriteFresh
  <2>2. running /\ ~blocked /\ known \in Nat
    BY <1>4, <2>1 DEF Clean, Books, Control, TypeOK
  <2> QED
    BY <1>4, <2>1, <2>2, WriteBegins
<1>7. CASE Save
  <2>1. PICK seen \in known..MaxRevision : Write(seen, "save")
    BY <1>7 DEF Save
  <2>2. running /\ ~blocked /\ call = "none" /\ seen \in Nat
    BY <1>4, <1>7, DocumentsAssumption DEF Save, Clean, Books, TypeOK
  <2> QED
    BY <1>4, <2>1, <2>2, WriteBegins
<1>8. CASE Boot \/ RecoverDocuments
  <2>1. /\ Doing.kind = "none" /\ Doing'.kind = "recover" /\ Doing'.stage = "scan"
        /\ UNCHANGED <<disk, survivors, confirmed, before>> /\ (blocked' => blocked)
    BY <1>4, <1>8, BeginRecoverMoves DEF Boot, RecoverDocuments, Clean, Books
  <2> QED
    BY <1>4, <2>1, BeginCopies
<1>9. CASE QuarantineDocuments
  <2>1. /\ Doing.kind = "none" /\ Doing'.kind = "quarantine" /\ Doing'.stage = "quarantine"
        /\ UNCHANGED <<disk, survivors, confirmed, before>> /\ blocked
    BY <1>4, <1>9, BeginClearMoves DEF QuarantineDocuments, Clean, Books
  <2> QED
    BY <1>4, <2>1, BeginCopies
<1>10. CASE UNCHANGED vars
  BY <1>4, <1>10 DEF vars, Clean, Copies, Whole, Backed, Doubled, Both, Copy, At, Doing
<1> QED
  BY <1>3, <1>4, <1>5, <1>6, <1>7, <1>8, <1>9, <1>10, ReturnedCopies, StopCopies DEF Next

(* While nothing failed and nothing was damaged so far, the file of any one
   name may be torn, in any directory a crash can leave, and recovery still
   finds a document no older than the one confirmed before the last: the
   backup that durable-file keeps beside the primary file. *)
THEOREM LastKnownGoodHolds == Spec => []LastKnownGood
<1>1. IInv => LastKnownGood
  <2> SUFFICES ASSUME IInv, running, call \in {"none", "save"}, ~blocked,
                      damages = 0, faults = 0, Valid(before),
                      NEW view \in survivors, NEW name \in Names
               PROVE  LET found == Recovered([view EXCEPT ![name] = Torn])
                      IN  Valid(found) /\ found.rev >= before.rev
    BY DEF LastKnownGood
  <2>1. Books /\ Files /\ Copies
    BY DEF IInv, Books, Undisturbed
  <2>2. Doing.kind \in {"none", "write"}
    BY <2>1 DEF Books, Control, KindOf
  <2>3. TwoCopies(view, before.rev)
    BY <2>1, <2>2 DEF Copies, Doubled
  <2>4. view \in Views /\ Ordered(view) /\ before.rev \in Nat
    BY <2>1, BeforeRev DEF Books, TypeOK, Files, Sound
  <2> QED
    BY <2>3, <2>4, OneLost
<1> QED
  BY <1>1, InitIInv, NextIInv, PTL DEF Spec

=============================================================================
