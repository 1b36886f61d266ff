--------------------------- MODULE MCCasePipeline ---------------------------
(* Small instances of CasePipeline for TLC.                                    *)
EXTENDS CasePipeline

\* Two scenes for one run: in the first a delivery opens the case, a drain claims it
\* and a person reviews it; in the second an upload opens it and a tick claims it.
\* Whoever has no part in a scene has been and gone, and in the second what may fail
\* has failed before.
CONSTANTS d1, d2, e1, u1, r1

Scenes == {[cast |-> {d1, e1, r1}, faults |-> 0], [cast |-> {d2, u1}, faults |-> MaxFaults]}

ScenesInit == \E scene \in Scenes :
  /\ stored  = NoCase
  /\ audit   = {}
  /\ pc      = [h \in Handlers |-> IF h \in scene.cast THEN "idle" ELSE "done"]
  /\ copy    = [h \in Handlers |-> NoCase]
  /\ pack    = [h \in Handlers |-> NoPack]
  /\ faults  = scene.faults
  /\ reviews = 0
  /\ flags   = {}
  /\ ahead   = 0

ScenesSpec == ScenesInit /\ [][Next]_vars

-----------------------------------------------------------------------------
\* The view.  Where nothing is uploaded the version only rises once the case is open,
\* so of a copy it matters whether it is current and, when it is not, only how far the
\* transition that works on it will go.  No guard reads an audit row: rows no property
\* names make no difference.
CopySeen(h) == CASE copy[h] = NoCase             -> "none"
                 [] copy[h] # NoCase /\ ~Current(h) -> copy[h].state
                 [] OTHER                        -> [copy[h] EXCEPT !.version = 0]

RowsSeen == {r \in audit : r.action \in Witnessed /\ r.outcome # "HELD_FOR_REVIEW"}

Seen == IF pc[e1] = "done"
        THEN <<stored, RowsSeen, pc, copy, pack, faults, reviews, flags>>
        ELSE <<IF Exists THEN [stored EXCEPT !.version = 0] ELSE NoCase, RowsSeen,
               pc, [h \in Handlers |-> CopySeen(h)], pack, faults, reviews>>

=============================================================================
