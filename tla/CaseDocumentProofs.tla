------------------------- MODULE CaseDocumentProofs -------------------------
(***************************************************************************)
(* What get_case, put_case and the end of a call do to the stored case and *)
(* to the copies.  Every module that works on the case cites these facts   *)
(* and never looks inside Get, Put and Drop again.                         *)
(***************************************************************************)
EXTENDS CaseDocument, TLAPS

\* The stored case and the copies have their types, and a copy that may still be
\* written back is the stored case.
DocInv == DocTypeOK /\ FreshCopyIsCurrent

\* Reading gives the reader a current copy and disturbs nobody.
LEMMA GetKeepsDocInv ==
  ASSUME NEW c \in Calls, DocInv, Get(c)
  PROVE  DocInv'
BY DEF DocInv, DocTypeOK, FreshCopyIsCurrent, Get

\* Writing a well-typed case makes every copy stale.
LEMMA PutKeepsDocInv ==
  ASSUME NEW c \in Calls, NEW new \in CaseDoc, DocInv, Put(c, new)
  PROVE  DocInv'
BY DEF DocInv, DocTypeOK, FreshCopyIsCurrent, Put

\* A call that ends without writing disturbs nobody.
LEMMA DropKeepsDocInv ==
  ASSUME NEW c \in Calls, DocInv, Drop(c)
  PROVE  DocInv'
BY DEF DocInv, DocTypeOK, FreshCopyIsCurrent, Drop

\* Whoever may write holds the stored case.
LEMMA WriterHoldsDoc ==
  ASSUME NEW c \in Calls, NEW new, DocInv, Put(c, new)
  PROVE  snap[c] = doc /\ doc' = new /\ doc \in CaseDoc
BY DEF DocInv, DocTypeOK, FreshCopyIsCurrent, Put

=============================================================================
