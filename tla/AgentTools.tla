---------------------------- MODULE AgentTools ----------------------------
(***************************************************************************)
(* The agents that look outside the case: compliance_agent, which searches *)
(* the counterparties through tavily_client's cache before it asks its     *)
(* model, zero_day_agent and debate_agent, which let the model call tools  *)
(* round after round, and what orchestrator does with a debate's verdict.  *)
(*                                                                         *)
(* Tavily and the models are external: a search may fail in any of the     *)
(* ways that count as failed, and a model may answer anything.  What the   *)
(* press has on a counterparty can appear at any time.                     *)
(***************************************************************************)
EXTENDS Naturals, Sequences, FiniteSets

CONSTANTS
  Names,        \* counterparties
  Dossiers,
  Named,        \* [Cases -> the names its record states, in the order searched]
  Gated,        \* cases should_screen admits to the zero-day search
  Disputed,     \* cases whose score the floor disputes by a wide margin
  CACHE_MAX_ENTRIES,
  MAX_TOOL_ROUNDS,   \* of the zero-day search
  max_tool_rounds,   \* of a debate
  Searches,     \* sequences of tool calls the zero-day model may make at once
  Motions       \* sequences of tool calls the auditor may make at once

ASSUME ToolConstants ==
  /\ Named \in [Dossiers -> Seq(Names)] /\ Gated \subseteq Dossiers /\ Disputed \subseteq Dossiers
  /\ CACHE_MAX_ENTRIES \in Nat \ {0} /\ MAX_TOOL_ROUNDS \in Nat \ {0}
  /\ max_tool_rounds \in Nat \ {0}

VARIABLES
  press,     \* names with adverse coverage
  remembered,      \* tavily_client._CACHE: the entries, the one that expires first at the head
  at,        \* [Cases -> where the case is]
  look,      \* [Cases -> the lookups of screen_shipment]
  zero_day,  \* [Cases -> the conversation of screen_zero_day]
  debate,    \* [Cases -> the conversation of conduct_debate]
  case,      \* [Cases -> what is put on the case]
  spent      \* [Cases -> compliance searches the API answered: history]

agentsVars == <<press, remembered, at, look, zero_day, debate, case, spent>>

FAILED_STATUSES   == {"failed", "not_attempted"}
BILLABLE_STATUSES == {"ok"}

NoLook  == [todo |-> <<>>, statuses |-> <<>>, results |-> FALSE, hits |-> 0,
            billable |-> 0, told |-> "nothing yet"]
NoTalk  == [round |-> 0, calls |-> <<>>, searches |-> {}]
NoTrial == [round |-> 0, calls |-> <<>>, unanswered |-> FALSE]

AgentsInit ==
  /\ press \in SUBSET Names
  /\ remembered = <<>>
  /\ at = [c \in Dossiers |-> "lookup"]
  /\ look = [c \in Dossiers |-> [NoLook EXCEPT !.todo = Named[c]]]
  /\ zero_day = [c \in Dossiers |-> NoTalk]
  /\ debate = [c \in Dossiers |-> NoTrial]
  /\ case = [c \in Dossiers |-> [verdict |-> "none", searched |-> FALSE,
                              risk |-> 1, escalated |-> FALSE]]
  /\ spent = [c \in Dossiers |-> 0]

\* A counterparty comes into the news.
Breaks(n) == /\ n \notin press
             /\ press' = press \cup {n}
             /\ UNCHANGED <<remembered, at, look, zero_day, debate, case, spent>>

-----------------------------------------------------------------------------
(* tavily_client, and the lookups of screen_shipment                       *)

entry(n) == SelectSeq(remembered, LAMBDA e : e.name = n)
without(n) == SelectSeq(remembered, LAMBDA e : e.name # n)

\* _cache_put: only what was answered is stored; a full cache lets its first entry go.
saved(n, found) ==
  LET room == IF Len(remembered) >= CACHE_MAX_ENTRIES THEN Tail(remembered) ELSE remembered
  IN  SelectSeq(room, LAMBDA e : e.name # n) \o <<[name |-> n, found |-> found]>>

\* Mutant: a search served from the cache is billed.
billed_always(status, hit) == IF status \in BILLABLE_STATUSES THEN 1 ELSE 0

\* Only a request that reached the API costs a credit.
billed(status, hit) == IF ~hit /\ status \in BILLABLE_STATUSES THEN 1 ELSE 0

Looked(c, found, status, hit) ==
  look' = [look EXCEPT ![c].todo     = Tail(@),
                       ![c].statuses = Append(@, status),
                       ![c].results  = @ \/ found,
                       ![c].hits     = @ + (IF hit THEN 1 ELSE 0),
                       ![c].billable = @ + billed(status, hit)]

Looking(c) == at[c] = "lookup" /\ look[c].todo # <<>>
Next1(c)   == Head(look[c].todo)

\* search_cached finds an entry, within its time.
LookupHit(c) ==
  /\ Looking(c) /\ entry(Next1(c)) # <<>>
  /\ Looked(c, entry(Next1(c))[1].found, "ok", TRUE)
  /\ UNCHANGED <<press, remembered, at, zero_day, debate, case, spent>>

\* It finds none, or one whose time is up and which it drops, and asks: every other
\* search may run before the answer is in.
LookupMiss(c) ==
  /\ Looking(c)
  /\ remembered' = without(Next1(c))
  /\ at' = [at EXCEPT ![c] = "asked"]
  /\ UNCHANGED <<press, look, zero_day, debate, case, spent>>

LookupAnswered(c) ==
  /\ at[c] = "asked"
  /\ LET found == Next1(c) \in press
     IN  /\ remembered' = saved(Next1(c), found)
         /\ Looked(c, found, "ok", FALSE)
  /\ spent' = [spent EXCEPT ![c] = @ + 1]
  /\ at' = [at EXCEPT ![c] = "lookup"]
  /\ UNCHANGED <<press, zero_day, debate, case>>

\* No key, a timeout, a refusal, a reply that does not decode.
LookupFailed(c) ==
  /\ at[c] = "asked"
  /\ Looked(c, FALSE, "failed", FALSE)
  /\ at' = [at EXCEPT ![c] = "lookup"]
  /\ UNCHANGED <<press, remembered, zero_day, debate, case, spent>>

\* Mutant: the status of the first lookup stands for both.
search_status_first(c) ==
  IF look[c].statuses = <<>> THEN "not_attempted" ELSE look[c].statuses[1]

\* The worst status wins.
search_status(c) ==
  LET statuses == look[c].statuses
      failed == {i \in DOMAIN statuses : statuses[i] \in FAILED_STATUSES}
      first == CHOOSE i \in failed : \A j \in failed : i <= j
  IN  IF statuses = <<>> THEN "not_attempted"
      ELSE IF failed # {} THEN statuses[first] ELSE statuses[1]

\* format_findings: what the prompt says of the searches.
format_findings(results, status) ==
  IF status = "not_attempted" THEN "no search was attempted"
  ELSE IF status \in FAILED_STATUSES THEN "the search is incomplete"
  ELSE IF results THEN "findings" ELSE "the search found nothing"

\* Where the case goes once compliance has its findings, or the zero-day search is done.
afterScreening(c) == IF c \in Disputed THEN "auditing" ELSE "done"

\* The prompt is written; what it was written from is let go.
Screen(c) ==
  /\ at[c] = "lookup" /\ look[c].todo = <<>>
  /\ look' = [look EXCEPT ![c] =
       [NoLook EXCEPT !.told = format_findings(look[c].results, search_status(c))]]
  /\ at' = [at EXCEPT ![c] = IF c \in Gated THEN "screening" ELSE afterScreening(c)]
  /\ spent' = [spent EXCEPT ![c] = 0]
  /\ UNCHANGED <<press, remembered, zero_day, debate, case>>

-----------------------------------------------------------------------------
(* screen_zero_day                                                         *)

\* What a verdict may say: "text" is neither true nor false and counts as given.
Said == {"yes", "no", "text", "missing"}
NoText == [risk_found |-> "missing", searched |-> "missing", text |-> FALSE]
Verdicts == [risk_found : {"yes", "no", "missing"}, searched : Said, text : {TRUE}] \cup {NoText}

ran(c) == \E s \in zero_day[c].searches : s.status = "ok"

\* Mutant: the model is believed.
corrected_never(c, said) == said

\* A verdict that claims a search none of which ran is corrected.
corrected(c, said) == IF said # "missing" /\ ~ran(c) THEN "no" ELSE said

\* interpret, on the corrected verdict.
Interpreted(c, v) ==
  LET searched == corrected(c, v.searched)
      usable == v.text /\ v.risk_found \in {"yes", "no"} /\ searched \in {"yes", "no"}
  IN  case' = [case EXCEPT
        ![c].verdict  = IF ~usable THEN "unknown"
                        ELSE IF v.risk_found = "yes" THEN "risk_found" ELSE "no_risk_found",
        ![c].searched = IF usable THEN searched = "yes" ELSE ran(c)]

\* The screening is over; the conversation is let go.
ZeroDayOver(c) == /\ zero_day' = [zero_day EXCEPT ![c] = NoTalk]
                  /\ at' = [at EXCEPT ![c] = afterScreening(c)]

\* The model answers without a call: a text ends the rounds, none asks for a verdict.
ZeroDaySays(c) ==
  /\ at[c] = "screening"
  /\ \E v \in Verdicts :
       \/ /\ v.text
          /\ Interpreted(c, v)
          /\ ZeroDayOver(c)
       \/ /\ ~v.text
          /\ at' = [at EXCEPT ![c] = "forcing"]
          /\ UNCHANGED <<case, zero_day>>
  /\ UNCHANGED <<press, remembered, look, debate, spent>>

\* The model calls tools.
ZeroDayCalls(c) ==
  /\ at[c] = "screening"
  /\ \E calls \in Searches : zero_day' = [zero_day EXCEPT ![c].calls = calls]
  /\ at' = [at EXCEPT ![c] = "searching"]
  /\ UNCHANGED <<press, remembered, look, debate, case, spent>>

\* Mutant: the tools are offered for ever.
nextRound_always(c) == "screening"

\* The round is over: while one is left the model is asked again.
nextRound(c) == IF zero_day[c].round < MAX_TOOL_ROUNDS THEN "screening" ELSE "forcing"

Ran(c, search) ==
  LET last == Len(zero_day[c].calls) = 1
  IN  /\ zero_day' = [zero_day EXCEPT
           ![c].calls    = Tail(@),
           ![c].round    = IF last /\ @ < MAX_TOOL_ROUNDS THEN @ + 1 ELSE @,
           ![c].searches = @ \cup search]
      /\ at' = [at EXCEPT ![c] = IF last THEN nextRound(c) ELSE "searching"]

\* Mutant: the news is taken from the cache.
news_kept(n) == IF entry(n) # <<>> THEN entry(n)[1].found ELSE n \in press

\* What a search that is not cached returns.
news(n) == n \in press

\* _run_tool: a search of the news; arguments that do not parse make an empty query.
ZeroDayTool(c) ==
  /\ at[c] = "searching"
  /\ LET call == Head(zero_day[c].calls)
     IN  IF call \in Names
         THEN \/ Ran(c, {[name |-> call, status |-> "ok", found |-> news(call)]})
              \/ Ran(c, {[name |-> call, status |-> "failed", found |-> FALSE]})
         ELSE Ran(c, {})
  /\ UNCHANGED <<press, remembered, look, debate, case, spent>>

\* The rounds are used up, or no text came: a verdict is asked for without the tools.
ZeroDayForced(c) ==
  /\ at[c] = "forcing"
  /\ \E v \in Verdicts : Interpreted(c, v)
  /\ ZeroDayOver(c)
  /\ UNCHANGED <<press, remembered, look, debate, spent>>

\* A model call raises: the screening is recorded as one that did not happen.
ZeroDayFails(c) ==
  /\ at[c] \in {"screening", "forcing"}
  /\ case' = [case EXCEPT ![c].verdict = "unknown", ![c].searched = FALSE]
  /\ ZeroDayOver(c)
  /\ UNCHANGED <<press, remembered, look, debate, spent>>

-----------------------------------------------------------------------------
(* conduct_debate                                                          *)

\* A verdict call that parses to something; `timid` disagrees below the threshold.
Judgements == {"confirm", "disagree", "timid"}
Forced == [verdict |-> "CONFIRM", forced |-> TRUE, adjusted |-> 0]
Rendered(call, score) ==
  [verdict |-> IF call = "confirm" THEN "CONFIRM" ELSE call, forced |-> FALSE, adjusted |-> score]

\* Mutant: a verdict the code filled in counts like one the model gave.
escalates_forced(v) == v.verdict = "disagree" \/ v.forced

\* debate_escalation: only a confident DISAGREE of the model's own.
escalates(v) == ~v.forced /\ v.verdict = "disagree"

\* Mutant: the auditor's score replaces the one the case had.
raised_to(before, proposed) == proposed

\* The auditor's number never takes a case below the risk it carried.
raised(before, proposed) == IF proposed > before THEN proposed ELSE before

\* _apply_debate_verdict, and the end of the debate; the conversation is let go.
Concluded(c, v) ==
  /\ case' = IF escalates(v)
             THEN [case EXCEPT ![c].escalated = TRUE, ![c].risk = raised(@, v.adjusted)]
             ELSE case
  /\ debate' = [debate EXCEPT ![c] = NoTrial]
  /\ at' = [at EXCEPT ![c] = "done"]

\* The auditor answers without a call: a default is filled in.
AuditorSays(c) ==
  /\ at[c] = "auditing"
  /\ Concluded(c, Forced)
  /\ UNCHANGED <<press, remembered, look, zero_day, spent>>

AuditorCalls(c) ==
  /\ at[c] = "auditing"
  /\ \E calls \in Motions : debate' = [debate EXCEPT ![c].calls = calls]
  /\ at' = [at EXCEPT ![c] = "trying"]
  /\ UNCHANGED <<press, remembered, look, zero_day, case, spent>>

\* The round is over without a verdict: the next one, or a default.
RoundOver(c) == /\ at' = [at EXCEPT ![c] = IF debate[c].round < max_tool_rounds
                                           THEN "auditing" ELSE "defaulting"]
                /\ UNCHANGED case

round_after(c) == IF debate[c].round < max_tool_rounds THEN debate[c].round + 1
                                                       ELSE debate[c].round

\* One call of the auditor.  A verdict ends the calls of its message; one without
\* arguments ends them too, unanswered, and is no verdict.
AuditorTool(c) ==
  /\ at[c] = "trying"
  /\ LET call == Head(debate[c].calls)
         last == Len(debate[c].calls) = 1
     IN  \/ /\ call \in Judgements
            /\ \E score \in 0..2 : Concluded(c, Rendered(call, score))
         \/ /\ call = "empty"
            /\ debate' = [debate EXCEPT ![c] = [round      |-> round_after(c),
                                                 calls      |-> <<>>,
                                                 unanswered |-> TRUE]]
            /\ RoundOver(c)
         \/ /\ call \in {"garbled", "search_tavily", "request_nano_reevaluation"}
            /\ debate' = [debate EXCEPT ![c].calls = Tail(@),
                                         ![c].round = IF last THEN round_after(c) ELSE @]
            /\ IF last THEN RoundOver(c) ELSE UNCHANGED <<at, case>>
  /\ UNCHANGED <<press, remembered, look, zero_day, spent>>

\* The rounds are used up.
AuditorForced(c) ==
  /\ at[c] = "defaulting"
  /\ Concluded(c, Forced)
  /\ UNCHANGED <<press, remembered, look, zero_day, spent>>

\* A model call raises: the debate is logged and the case goes on without it.
AuditorFails(c) ==
  /\ at[c] = "auditing"
  /\ at' = [at EXCEPT ![c] = "done"]
  /\ debate' = [debate EXCEPT ![c] = NoTrial]
  /\ UNCHANGED <<press, remembered, look, zero_day, case, spent>>

-----------------------------------------------------------------------------

Handle(c) ==
  \/ LookupHit(c) \/ LookupMiss(c) \/ LookupAnswered(c) \/ LookupFailed(c) \/ Screen(c)
  \/ ZeroDaySays(c) \/ ZeroDayCalls(c) \/ ZeroDayTool(c) \/ ZeroDayForced(c) \/ ZeroDayFails(c)
  \/ AuditorSays(c) \/ AuditorCalls(c) \/ AuditorTool(c) \/ AuditorForced(c) \/ AuditorFails(c)

AgentsNext == (\E c \in Dossiers : Handle(c)) \/ (\E n \in Names : Breaks(n))

\* A handler that has begun is run on: every search and every model call has a timeout.
AgentsSpec == AgentsInit /\ [][AgentsNext]_agentsVars /\ \A c \in Dossiers : WF_agentsVars(Handle(c))

-----------------------------------------------------------------------------
(* Properties                                                              *)

\* The prompt says that the search found nothing only when every counterparty on the
\* record was searched, and none of those searches had failed.
NothingFoundIsTrue ==
  [][\A c \in Dossiers :
       look'[c].told = "the search found nothing" /\ look[c].told = "nothing yet" =>
         /\ Len(look[c].statuses) = Len(Named[c]) /\ Named[c] # <<>>
         /\ \A i \in 1..Len(look[c].statuses) : look[c].statuses[i] = "ok"]_agentsVars

\* A zero-day verdict that stands as searched rests on a search of its own that ran.
SearchedIsTrue ==
  [][\A c \in Dossiers : case'[c].searched /\ ~case[c].searched
       => \E s \in zero_day[c].searches : s.status = "ok"]_agentsVars

\* "reusing a stale search would defeat it": coverage that was out before the zero-day
\* search of a name is in what that search returns, whatever compliance had kept.
ZeroDayIsLive ==
  [][\A c \in Dossiers : \A s \in zero_day'[c].searches \ zero_day[c].searches :
       s.status = "ok" /\ s.name \in press => s.found]_agentsVars

\* The credits on the case are the requests the search API answered for compliance: a
\* failed request and one served from the cache cost nothing.
BilledIsSpent ==
  \A c \in Dossiers : look[c].billable = spent[c]

\* A debate moves a case one way: only a DISAGREE the auditor gave itself escalates, and
\* no verdict takes the case below the risk it carried.
OnlyAJudgementMoves ==
  [][\A c \in Dossiers : case'[c].escalated # case[c].escalated \/ case'[c].risk # case[c].risk
       => /\ at[c] = "trying" /\ Head(debate[c].calls) = "disagree"
          /\ case'[c].risk >= case[c].risk]_agentsVars

\* Whatever the models answer, the conversations come to an end.
ConversationsEnd == <>(\A c \in Dossiers : at[c] = "done")

\* "an assistant message carrying tool_calls with no matching role:"tool" reply ... is a
\* malformed conversation": the auditor is never asked again over one.
EveryCallIsAnswered == \A c \in Dossiers : at[c] = "auditing" => ~debate[c].unanswered

=============================================================================
