---------------------------- MODULE SaveDocuments ----------------------------
(***************************************************************************)
(* What a save file can hold, as far as storage and recovery look at it:   *)
(* the envelope's identity and revision (persistence_document_probe in     *)
(* src/src/persistence.odin), and a body they only compare.                *)
(***************************************************************************)
EXTENDS Naturals

CONSTANTS
  Ids,          \* identities: the profile's id, the run_id of a run
  NoId,         \* the identity of what is no document
  Bodies,       \* payloads
  MaxRevision   \* bound on the revisions one behaviour writes

ASSUME DocumentsAssumption == NoId \notin Ids /\ MaxRevision \in Nat

Docs == [id: Ids, rev: 1..MaxRevision, body: Bodies]

\* No file, and a file that does not parse or fails its checksum.
Missing == [id |-> NoId, rev |-> 0]
Torn    == [id |-> NoId, rev |-> 1]

Valid(content) == content.id # NoId

=============================================================================
