------------------------------- MODULE MCModels -------------------------------
(* What the models cost and what their answers may do: the spend control       *)
(* (Spend) and the tools of the agents (AgentTools), each in a small instance. *)
(* They share no state, so a behaviour is about one of them, its side, and the *)
(* other stays as it began.                                                    *)
EXTENDS Spend, AgentTools, TLC

VARIABLE side

-----------------------------------------------------------------------------
(* Spend: two tenants with a case each and two processes; acme's case is       *)
(* opened by an upload, globex's has been scored.                              *)

Home   == "acme_case" :> "acme" @@ "globex_case" :> "globex"
First  == {"acme_case" :> state @@ "globex_case" :> "HELD_FOR_REVIEW" : state \in {"ABSENT", "INGESTED"}}
Placed == "h1" :> "p1" @@ "h2" :> "p2"

-----------------------------------------------------------------------------
(* The tools: two counterparties.  One case states both and goes through every *)
(* agent; one that arrives beside it states the second and only has it looked  *)
(* up; one states none.                                                        *)

NamedBy == "through" :> <<"alfa", "bravo">> @@ "beside" :> <<"bravo">> @@ "blank" :> <<>>

SearchCalls == {<<"bravo", "alfa">>, <<"garbled", "bravo">>}
AuditCalls  == {<<"garbled">>, <<"empty">>, <<"confirm">>, <<"timid">>,
                <<"search_tavily", "disagree">>, <<"empty", "disagree">>}

-----------------------------------------------------------------------------
(* Side by side.                                                               *)

modelsVars == <<spendVars, agentsVars, side>>

ModelsInit ==
  /\ side \in {"spend", "agents"}
  /\ SpendInit /\ AgentsInit
  /\ side # "agents" => press = {}

Spends(step) == side = "spend" /\ step /\ UNCHANGED <<agentsVars, side>>

ModelsNext ==
  \/ side = "spend" /\ SpendNext /\ UNCHANGED <<agentsVars, side>>
  \/ side = "agents" /\ AgentsNext /\ UNCHANGED <<spendVars, side>>

\* The fairness of SpendSpec, on its side.
ModelsSpec ==
  /\ ModelsInit /\ [][ModelsNext]_modelsVars
  /\ \A h \in Handlers : WF_modelsVars(Spends(Proceed(h))) /\ WF_modelsVars(Spends(Advance(h)))

\* EveryCaseComesToRest, of the behaviours that are about spending.
SpendComesToRest == side = "spend" => EveryCaseComesToRest
===============================================================================
