----------------------------- MODULE SaveRegister -----------------------------
(***************************************************************************)
(* What durable storage promises its callers, whatever happens in between: *)
(* a register of one document.  may is the set of values a recovery might  *)
(* find if the program stopped now.  A write that is confirmed leaves the  *)
(* new document as the only possibility; one that is interrupted or fails  *)
(* leaves the old one or the new one, and where there was none perhaps the *)
(* remains of a first; nothing else can appear.                            *)
(* An interrupted recovery may lose a write that was never confirmed, but  *)
(* no confirmed one.  A removal that succeeds is final; an interrupted one *)
(* may bring back an older revision of what it removes.                    *)
(* All of this holds until something outside damages a file.               *)
(***************************************************************************)
EXTENDS SaveDocuments

VARIABLES
  may,        \* the values a recovery might return
  confirmed,  \* the outcome of the last call that succeeded
  task,       \* the call in progress: none, write, recover, remove, quarantine
  value,      \* the document it writes, or the one it found
  outcome,    \* "none" until the call returns, then "ok" or "failed"
  damaged     \* a file has become unreadable by no doing of the program

registerVars == <<may, confirmed, task, value, outcome, damaged>>

RegisterInit ==
  /\ may = {Missing} /\ confirmed = Missing
  /\ task = "none" /\ value = Missing /\ outcome = "none"
  /\ damaged = FALSE

\* What is left when the writes that were not confirmed are gone.  Where no
\* document is confirmed that may be the remains of one, or an older revision.
Held ==
  IF confirmed # Missing THEN {confirmed}
  ELSE {Missing, Torn} \cup {doc \in Docs : \E now \in may :
                               Valid(now) /\ doc.id = now.id /\ doc.rev < now.rev}

\* What a recovery may find once the call has begun.
Reachable == may \cup Held \cup (IF task = "write" THEN {value} ELSE {})

Call ==
  /\ task = "none"
  /\ \/ \E doc \in Docs : task' = "write" /\ value' = doc
     \/ task' \in {"recover", "remove", "quarantine"} /\ value' = Missing
  /\ confirmed' = IF task' \in {"remove", "quarantine"} THEN Missing ELSE confirmed
  /\ UNCHANGED <<may, outcome>>

\* A recovery returns something that may be there.
Choice == value' = value \/ (task = "recover" /\ value' \in may)

\* The call changes what a recovery would find.
Progress ==
  /\ task # "none" /\ outcome = "none"
  /\ may' \in (SUBSET Reachable) \ {{}}
  /\ Choice
  /\ UNCHANGED <<confirmed, task, outcome>>

\* Success settles the register, unless the call only looked.
Succeed ==
  /\ task # "none" /\ outcome = "none"
  /\ Choice /\ (task = "recover" => value' \in may)
  /\ may' = {value'} \/ (task # "write" /\ value' \in may /\ may' = may)
  /\ confirmed' = value'
  /\ outcome' = "ok"
  /\ UNCHANGED task

Fail ==
  /\ task # "none" /\ outcome = "none"
  /\ may' \in (SUBSET Reachable) \ {{}}
  /\ outcome' = "failed"
  /\ value' \in {value, Torn}
  /\ UNCHANGED <<confirmed, task>>

Return ==
  /\ outcome # "none"
  /\ task' = "none" /\ value' = Missing /\ outcome' = "none"
  /\ UNCHANGED <<may, confirmed>>

Stop ==
  /\ \E found \in may : may' = {found}
  /\ UNCHANGED confirmed
  /\ task' = "none" /\ value' = Missing /\ outcome' = "none"

\* The environment's step, after which nothing is promised any more.
Damage == damaged'

RegisterNext ==
  \/ Damage
  \/ ~damaged' /\ (Call \/ Progress \/ Succeed \/ Fail \/ Return \/ Stop)

RegisterSpec == RegisterInit /\ [][RegisterNext]_registerVars

=============================================================================
