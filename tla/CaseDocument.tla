---------------------------- MODULE CaseDocument ----------------------------
(***************************************************************************)
(* One stored case: the document every handler of the verification loop    *)
(* reads, changes and writes back under the store's optimistic lock.       *)
(*                                                                         *)
(* A handler calls get_case, works on its own deep copy, and ends in       *)
(* put_case(copy, expected_version).  The stored _version rises with every *)
(* write, so "the version I read is still the stored one" is the same      *)
(* statement as "nobody has written since I read".  The model keeps the    *)
(* second form: `fresh` is the set of calls whose copy is still current.   *)
(* That needs no counter, and it is exact as long as every writer passes   *)
(* expected_version, which all the writers of this loop do.                *)
(***************************************************************************)
EXTENDS Naturals, Sequences, FiniteSets

CONSTANTS
  Calls,      \* request handlers that may be running at once
  Approvals,  \* approval ids (verification.approvals)
  Requests,   \* request ids (verification.requests)
  DocTypes,   \* the documents the origin finding of the case asks for
  NoDoc,      \* "this call holds no copy of the case"
  NoState,    \* resume_state = None
  NoEval,     \* no evaluation on record
  NoMessage   \* message_id = None

VARIABLES
  doc,        \* the stored case
  snap,       \* [Calls -> the copy each call took at its last get_case]
  fresh       \* calls whose copy carries the stored _version

docVars == <<doc, snap, fresh>>

-----------------------------------------------------------------------------
(* What the loop reads and writes of a case.                               *)

Reviewable  == {"PENDING_HUMAN", "HELD_FOR_REVIEW", "ESCALATED"}
Executed    == {"RELEASED_BY_HUMAN", "BLOCKED_BY_HUMAN"}
InExecution == {"EXECUTING", "EXECUTION_FAILED"} \cup Executed
CaseStates  == Reviewable \cup InExecution \cup {"AWAITING_EVIDENCE", "APPROVED"}

Actions      == {"release", "block"}
OpenStatuses == {"OPEN", "SENT"}

\* A request for documents; "NONE" is a request nobody has made yet.  `seq` is
\* link_seq, `received` the document types whose slot a usable copy has filled.
RequestRec == [status   : {"NONE", "RECEIVED", "CANCELLED"} \cup OpenStatuses,
               seq      : Nat,
               wanted   : SUBSET DocTypes,
               received : SUBSET DocTypes]

NoRequest == [status |-> "NONE", seq |-> 0, wanted |-> {}, received |-> {}]

\* An approval; "NONE" is one nobody has given yet, `waiver` marks an exception.
ApprovalRec == [status  : {"NONE", "VALID", "CLAIMING", "EXECUTED", "SUPERSEDED"},
                action  : Actions,
                version : Nat,
                waiver  : BOOLEAN]

NoApprovalYet == [status |-> "NONE", action |-> "block", version |-> 0, waiver |-> FALSE]

ExecutionRec == [approval : Approvals,
                 status   : {"claiming", "sent", "send_failed", "send_unknown", "denied"},
                 message  : Nat \cup {NoMessage},
                 pending  : BOOLEAN]

\* `usable` of a document says that usable_document() holds of it.
DocumentRec == [request : Requests, type : DocTypes, version : Nat, usable : BOOLEAN]

\* Only the newest evaluation is kept.  Evaluations are appended at the current
\* evidence version and that version never falls, so the newest one is the only
\* one that can carry the current version.
EvaluationRec == [version : Nat, status : {"missing", "provided", "contradicted"}]

CaseDoc == [state        : CaseStates,
            version      : Nat,
            resume       : CaseStates \cup {NoState},
            requests     : [Requests -> RequestRec],
            documents    : SUBSET DocumentRec,
            evaluation   : EvaluationRec \cup {NoEval},
            approvals    : [Approvals -> ApprovalRec],
            executions   : Seq(ExecutionRec),
            auditPending : BOOLEAN]

open_requests(d) == {r \in Requests : d.requests[r].status \in OpenStatuses}

-----------------------------------------------------------------------------
(* get_case and put_case(expected_version).                                *)

Holds(c) == snap[c] # NoDoc

Get(c) == /\ snap'  = [snap EXCEPT ![c] = doc]
          /\ fresh' = fresh \cup {c}
          /\ UNCHANGED doc

\* Mutant: the version is not compared.
PutUnlocked(c, new) == /\ doc'   = new
                       /\ snap'  = [snap EXCEPT ![c] = NoDoc]
                       /\ fresh' = {}

\* The write goes through only when nobody has written since the read.  It
\* makes every copy stale, the writer's own included.
Put(c, new) == /\ c \in fresh
               /\ doc'   = new
               /\ snap'  = [snap EXCEPT ![c] = NoDoc]
               /\ fresh' = {}

\* The handler ends without writing: a refusal, a 409 or a killed process.
Drop(c) == /\ snap'  = [snap EXCEPT ![c] = NoDoc]
           /\ fresh' = fresh \ {c}
           /\ UNCHANGED doc

DocTypeOK == /\ doc \in CaseDoc
             /\ snap \in [Calls -> CaseDoc \cup {NoDoc}]
             /\ fresh \subseteq Calls

\* What the version stands for: a copy that may still be written back is the stored
\* case.  Get, Put and Drop keep it by their definitions; the proofs cite it.
FreshCopyIsCurrent == \A c \in fresh : snap[c] = doc

=============================================================================
