---------------------------- MODULE LoginThrottle ----------------------------
(***************************************************************************)
(* The shared sign-in counter: POST /internal/login-throttle (app.py) and  *)
(* hit_rate_limit of the two stores (store.py).  One attempt names one     *)
(* counter per account and one per source, and every console instance      *)
(* spends the same allowance.  MemoryStore keeps a sliding window under a  *)
(* lock; FirestoreStore increments a document of a fixed window and reads  *)
(* it back, with no lock between the two.                                  *)
(***************************************************************************)
EXTENDS Integers, FiniteSets

CONSTANTS
    Attempts,    \* sign-in attempts
    Buckets,        \* counters: an account or a source address
    Order,       \* the place of a counter in the list of checks of a request
    Tries,    \* the sets of counters a request may name
    Limit,       \* attempts a counter admits in one window
    Span,      \* window_seconds
    MaxClock,     \* bound: the clock stops here
    Backends     \* which stores are considered: "memory", "firestore"

ASSUME ThrottleAssumption ==
    /\ Limit \in [Buckets -> Nat \ {0}]
    /\ Order \in [Buckets -> Nat]
    /\ Tries \subseteq SUBSET Buckets \ {{}}
    /\ Span \in Nat \ {0}
    /\ MaxClock \in Nat
    /\ Backends \subseteq {"memory", "firestore"}

VARIABLES
    backend,     \* the store behind get_store()
    instant,         \* time.time(), in whole seconds
    count,       \* Firestore: the document of a counter in a window
    hit,         \* what became of an attempt's check of a counter
    asked,       \* the counters an attempt's request names
    ruling      \* what the console made of the answer

throttleVars == <<backend, instant, count, hit, asked, ruling>>

Slots == 0 .. MaxClock
NoHit == [stage |-> "none", at |-> 0, rank |-> 0]
Stages == {"none", "dated", "counted", "admitted", "refused"}
Hits == [stage : Stages, at : 0 .. MaxClock, rank : Nat]

\* The fixed window a moment belongs to.
slot(t) == t \div Span

ThrottleTypeOK ==
    /\ backend \in Backends
    /\ instant \in 0 .. MaxClock
    /\ count \in [Buckets -> [Slots -> Nat]]
    /\ hit \in [Attempts -> [Buckets -> Hits]]
    /\ asked \in [Attempts -> SUBSET Buckets]
    /\ ruling \in [Attempts -> {"none", "waiting", "allowed", "limited", "unavailable"}]

ThrottleInit ==
    /\ backend \in Backends
    /\ instant = 0
    /\ count = [k \in Buckets |-> [w \in Slots |-> 0]]
    /\ hit = [a \in Attempts |-> [k \in Buckets |-> NoHit]]
    /\ asked = [a \in Attempts |-> {}]
    /\ ruling = [a \in Attempts |-> "none"]

\* The console asks about the counters of one attempt.
Ask(a, keys) ==
    /\ ruling[a] = "none"
    /\ asked' = [asked EXCEPT ![a] = keys]
    /\ ruling' = [ruling EXCEPT ![a] = "waiting"]
    /\ UNCHANGED <<backend, instant, count, hit>>

\* The checks of one request are counted in the order of its list, all of
\* them: a refusal by the first does not spare the second.
Done(a, k) == hit[a][k].stage \in {"admitted", "refused"}
NextCheck(a, k) ==
    /\ k \in asked[a]
    /\ hit[a][k].stage = "none"
    /\ \A j \in asked[a] : Order[j] < Order[k] => Done(a, j)

Mark(a, k, h) == hit' = [hit EXCEPT ![a][k] = h]

\* Mutant: an attempt exactly one window old still counts.
stamps_inclusive(k, t) ==
    {a \in Attempts : hit[a][k].stage = "admitted" /\ hit[a][k].at >= t - Span}

\* The attempts MemoryStore remembers for a counter at moment t.
stamps(k, t) ==
    {a \in Attempts : hit[a][k].stage = "admitted" /\ hit[a][k].at > t - Span}

HitMemory(a, k) ==
    /\ backend = "memory"
    /\ NextCheck(a, k)
    /\ LET limited == Cardinality(stamps(k, instant)) >= Limit[k]
       IN  Mark(a, k, [stage |-> IF limited THEN "refused" ELSE "admitted",
                       at |-> instant, rank |-> 0])
    /\ UNCHANGED <<backend, instant, count, asked, ruling>>

\* Firestore: the window is chosen first, then counted, then read back.
ChooseWindow(a, k) ==
    /\ backend = "firestore"
    /\ NextCheck(a, k)
    /\ Mark(a, k, [stage |-> "dated", at |-> instant, rank |-> 0])
    /\ UNCHANGED <<backend, instant, count, asked, ruling>>

Increment(a, k) ==
    /\ hit[a][k].stage = "dated"
    /\ LET w == slot(hit[a][k].at)
       IN  /\ count' = [count EXCEPT ![k][w] = @ + 1]
           /\ Mark(a, k, [hit[a][k] EXCEPT !.stage = "counted", !.rank = count[k][w] + 1])
    /\ UNCHANGED <<backend, instant, asked, ruling>>

\* Mutant: an attempt is compared without itself.
overLimit_before(k, seen) == seen > Limit[k] + 1

overLimit(k, seen) == seen > Limit[k]

ReadBack(a, k) ==
    /\ hit[a][k].stage = "counted"
    /\ LET seen == count[k][slot(hit[a][k].at)]
       IN  Mark(a, k, [hit[a][k] EXCEPT !.stage = IF overLimit(k, seen) THEN "refused"
                                                                       ELSE "admitted"])
    /\ UNCHANGED <<backend, instant, count, asked, ruling>>

\* Mutant: the answer is given after the first check.
Counted_first(a) == \E k \in asked[a] : Done(a, k)

Counted(a) == \A k \in asked[a] : Done(a, k)
limitedBy(a) == {k \in asked[a] : hit[a][k].stage = "refused"}

\* The route answers; the console acts on it unless it has stopped waiting.
Answer(a) ==
    /\ ruling[a] = "waiting"
    /\ Counted(a)
    /\ ruling' = [ruling EXCEPT ![a] = IF limitedBy(a) = {} THEN "allowed" ELSE "limited"]
    /\ UNCHANGED <<backend, instant, count, hit, asked>>

\* Three seconds passed: the attempt is refused, and the counting goes on.
GiveUp(a) ==
    /\ ruling[a] = "waiting"
    /\ ruling' = [ruling EXCEPT ![a] = "unavailable"]
    /\ UNCHANGED <<backend, instant, count, hit, asked>>

ClockTick ==
    /\ instant < MaxClock
    /\ instant' = instant + 1
    /\ UNCHANGED <<backend, count, hit, asked, ruling>>

ThrottleNext ==
    \/ \E a \in Attempts :
        \/ \E keys \in Tries : Ask(a, keys)
        \/ \E k \in Buckets : HitMemory(a, k)
        \/ \E k \in Buckets : ChooseWindow(a, k)
        \/ \E k \in Buckets : Increment(a, k)
        \/ \E k \in Buckets : ReadBack(a, k)
        \/ Answer(a)
        \/ GiveUp(a)
    \/ ClockTick

ThrottleSpec == ThrottleInit /\ [][ThrottleNext]_throttleVars

-----------------------------------------------------------------------------
AdmittedIn(k, from, to) ==
    {a \in Attempts : /\ hit[a][k].stage = "admitted"
                      /\ hit[a][k].at \in from .. to}

\* A counter never lets more than its limit through: in any span of window
\* length in memory, in any fixed window on Firestore whatever increments and
\* reads of other instances fall between its own (store.py:1187-1192).
AdmittedWithinLimit ==
    \A k \in Buckets, t \in 0 .. MaxClock :
        /\ backend = "memory" =>
              Cardinality(AdmittedIn(k, t - Span + 1, t)) <= Limit[k]
        /\ backend = "firestore" =>
              Cardinality(AdmittedIn(k, slot(t) * Span, slot(t) * Span + Span - 1))
                  <= Limit[k]

\* Nobody is kept out by their own refusals: a refused attempt had at least
\* the limit's worth of attempts counted before the answer, admitted ones in
\* memory, any on Firestore, and none of them older than a window.
RefusedOnlyWhenFull ==
    \A a \in Attempts, k \in Buckets : hit[a][k].stage = "refused" =>
        LET t == hit[a][k].at
            others == IF backend = "memory"
                      THEN AdmittedIn(k, t - Span + 1, t)
                      ELSE {b \in Attempts \ {a} : /\ hit[b][k].rank > 0
                                                   /\ slot(hit[b][k].at) = slot(t)}
        IN  Cardinality(others) >= Limit[k]

\* A sign-in goes ahead only when every counter it named admitted it: an
\* answer that came too late, and a counter not asked, let nobody in.
AllowedMeansAdmitted ==
    \A a \in Attempts : ruling[a] = "allowed" =>
        /\ asked[a] # {}
        /\ \A k \in asked[a] : hit[a][k].stage = "admitted"

=============================================================================
