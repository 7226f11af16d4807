------------------------------- MODULE Dialogue -------------------------------
(***************************************************************************)
(* llm-service: the turns of one chat user. A turn resolves its agent with *)
(* agent-service, asks rag-service for a strict answer, and lets the model *)
(* call tools, the CRM or calendar of CrmTokens among them, until it       *)
(* answers. The answer is recorded, scored in the background by LeadScore, *)
(* and the owner is alerted when an operator is asked for.                 *)
(***************************************************************************)
EXTENDS CrmTokens, LeadScore, AgentConfig, Sequences

CONSTANTS
    Turns,        \* messages that llm-service is asked to process
    Requests,     \* requests of the owner to an integration
    MaxIter,      \* MaxToolIterations
    MaxCalls,     \* tool calls in one answer of the model
    Everything    \* no allowlist

ASSUME DialogueAssumption ==
    /\ Callers = Turns \cup Requests /\ Turns \cap Requests = {}
    /\ Scorers = Turns
    /\ MaxIter \in Nat \ {0} /\ MaxCalls \in Nat \ {0}

VARIABLES
    turn,         \* where each turn is
    chat,         \* the chat_messages of the user
    gaps          \* history: turns whose messages were not stored or cleared

dialogueVars == <<turn, chat, gaps>>
vars == <<crmVars, scoreVars, agentVars, dialogueVars>>

Tools == {"call_operator", "save_contact_info", "crm", "webhook"}

\* out is the answer or the mode of the decision; back says that the decision
\* came from the JSON fallback; alerts counts the AGENT_STUCK pushes.
Turn == [pc : {"idle", "agent", "tools", "rag", "answer", "ask", "calls", "crm",
               "decide", "fallback", "done"},
         kind : {"chat", "social"}, consent : {"none", "on", "off"},
         agent : Agents \cup {NoAgent}, allow : {Everything, {}} \cup SUBSET ToolIds,
         offered : SUBSET Tools, round : Nat, left : Nat, operator : BOOLEAN,
         alerts : Nat, back : BOOLEAN,
         out : {"", "answer", "limit", "error", "draft", "auto_reply", "escalate", "other"}]

TypeOK ==
    /\ CrmTypeOK /\ ScoreTypeOK /\ AgentTypeOK
    /\ turn \in [Turns -> Turn]
    /\ \A i \in DOMAIN chat : chat[i] \in [of : Turns, role : {"user", "assistant"}]
    /\ gaps \subseteq Turns

Init ==
    /\ CrmInit /\ ScoreInit /\ AgentInit
    /\ turn = [t \in Turns |->
          [pc |-> "idle", kind |-> "chat", consent |-> "none", agent |-> NoAgent,
           allow |-> {}, offered |-> {}, round |-> 0, left |-> 0, operator |-> FALSE,
           alerts |-> 0, back |-> FALSE, out |-> ""]]
    /\ chat = <<>>
    /\ gaps = {}

Go(t, pc) == turn' = [turn EXCEPT ![t].pc = pc]
End(t, out) == turn' = [turn EXCEPT ![t].pc = "done", ![t].out = out]

-----------------------------------------------------------------------------
(* The agent of a turn. A failing call of agent-service leaves defaults.   *)

\* POST /chat and POST /social/vk; an empty message answers 400.
Chat(t) ==
    /\ turn[t].pc = "idle"
    /\ \E pinned \in Stored \cup {NoAgent} :
         turn' = [turn EXCEPT ![t].pc = "agent", ![t].agent = pinned]
    /\ UNCHANGED <<crmVars, scoreVars, agentVars, chat, gaps>>

ProcessVK(t) ==
    /\ turn[t].pc = "idle"
    /\ \E c \in {"none", "on", "off"} :
         turn' = [turn EXCEPT ![t].pc = "agent", ![t].kind = "social", ![t].consent = c]
    /\ UNCHANGED <<crmVars, scoreVars, agentVars, chat, gaps>>

Platform(t) == IF turn[t].kind = "social" THEN "vk" ELSE "web"

\* The agents a turn may run with: the pinned one if it exists; of several
\* active ones whichever the router names; or else the default.
RouteAgent(t) ==
    LET active == ActiveAgents(Platform(t))
    IN  IF turn[t].agent # NoAgent THEN GetAgentByID(turn[t].agent)
        ELSE {GetDefaultAgent(Platform(t))} \cup (IF Cardinality(active) > 1 THEN active ELSE {})

Resolved(t, a, allow) ==
    turn' = [turn EXCEPT ![t].agent = a, ![t].allow = allow, ![t].pc = "rag"]

ResolveAgent(t) ==
    /\ turn[t].pc = "agent"
    /\ \/ \E a \in RouteAgent(t) \ {NoAgent} :
            turn' = [turn EXCEPT ![t].agent = a, ![t].pc = "tools"]
       \/ /\ MayFail \/ RouteAgent(t) \subseteq {NoAgent}
          /\ Resolved(t, NoAgent, Everything)
    /\ UNCHANGED <<crmVars, scoreVars, agentVars, chat, gaps>>

CoreBuiltins == {"builtin-save-contact", "builtin-call-operator"}

\* An agent without tools, or deleted meanwhile, gets the core ones.
ResolveTools(t) ==
    /\ turn[t].pc = "tools"
    /\ LET ids == GetAgentTools(turn[t].agent)
       IN  Resolved(t, turn[t].agent, IF ids = {} THEN CoreBuiltins ELSE ids)
           \/ (MayFail /\ Resolved(t, turn[t].agent, Everything))
    /\ UNCHANGED <<crmVars, scoreVars, agentVars, chat, gaps>>

\* The tools of the registry. The CRM ones need an integration, the webhooks a
\* readable table; call_operator needs its id on the list, like the others.
GetTools(allow) ==
    LET allowed(id) == allow = Everything \/ id \in allow
    IN  {tool \in Tools :
           CASE tool = "call_operator"     -> allowed("builtin-call-operator")
             [] tool = "save_contact_info" -> allowed("builtin-save-contact")
             [] tool = "crm"               -> row # NoOne /\ allowed("builtin-amocrm-create-lead")
             [] tool = "webhook"           -> allowed("webhook")}

-----------------------------------------------------------------------------
(* The messages of the chat. Errors of the INSERT are ignored.             *)

AppendMessage(t, role) ==
    \/ chat' = Append(chat, [of |-> t, role |-> role]) /\ UNCHANGED gaps
    \/ MayFail /\ gaps' = gaps \cup {t} /\ UNCHANGED chat

\* Once per instance, like an edit of the agents.
ClearHistory ==
    /\ edits < MaxEdits
    /\ edits' = edits + 1
    /\ chat' = <<>>
    /\ gaps' = {t \in Turns : turn[t].pc # "idle"}
    /\ UNCHANGED <<crmVars, scoreVars, agents, turn>>

\* External: what rag-service finds for a message, a strict answer among it or
\* not; a search that fails finds nothing.
searchRAG == {{}, {"context"}, {"context", "strict"}}
findStrictQAAnswer(results) == "strict" \in results

\* Mutant: a strict answer is stored without its question.
PrepareMutant(t) ==
    /\ turn[t].pc = "rag"
    /\ turn[t].kind = "chat"
    /\ \E results \in searchRAG :
         IF findStrictQAAnswer(results)
         THEN Go(t, "answer") /\ UNCHANGED <<chat, gaps>>
         ELSE /\ AppendMessage(t, "user")
              /\ turn' = [turn EXCEPT ![t].pc = "ask", ![t].offered = GetTools(turn[t].allow)]
    /\ UNCHANGED <<crmVars, scoreVars, agentVars>>

\* A strict answer of the knowledge base ends a turn without the model.
Prepare(t) ==
    /\ turn[t].pc = "rag"
    /\ turn[t].kind = "chat"
    /\ AppendMessage(t, "user")
    /\ \E results \in searchRAG :
         IF findStrictQAAnswer(results)
         THEN Go(t, "answer")
         ELSE turn' = [turn EXCEPT ![t].pc = "ask", ![t].offered = GetTools(turn[t].allow),
                                   ![t].allow = {}]
    /\ UNCHANGED <<crmVars, scoreVars, agentVars>>

\* The answer is stored and the message scored in the background.
Answer(t) ==
    /\ turn[t].pc = "answer"
    /\ AppendMessage(t, "assistant")
    /\ ScoreAsync(t)
    /\ End(t, "answer")
    /\ UNCHANGED <<crmVars, agentVars>>

-----------------------------------------------------------------------------
(* The tool loop.                                                          *)

\* External: the model answers, or calls some of the tools it was offered, or
\* sends no choices.
Complete(t) ==
    /\ turn[t].pc = "ask"
    /\ \/ turn[t].round < MaxIter /\ Go(t, "answer")
       \/ /\ turn[t].round < MaxIter /\ turn[t].offered # {}
          /\ \E n \in 1..MaxCalls :
               turn' = [turn EXCEPT ![t].pc = "calls", ![t].left = n, ![t].round = @ + 1]
       \/ turn[t].round < MaxIter /\ MayFail /\ End(t, "error")
       \/ End(t, "limit")
    /\ UNCHANGED <<crmVars, scoreVars, agentVars, chat, gaps>>

Calls(t, tool) == turn[t].pc = "calls" /\ turn[t].left > 0 /\ tool \in turn[t].offered

\* A contact or a webhook fails or not: the model is told either way. Asking for
\* an operator only marks the turn.
HandleSaveContact(t)  == Calls(t, "save_contact_info") /\ turn' = [turn EXCEPT ![t].left = @ - 1]
executeHTTPWebhook(t) == Calls(t, "webhook") /\ turn' = [turn EXCEPT ![t].left = @ - 1]
CallOperator(t) ==
    Calls(t, "call_operator") /\ turn' = [turn EXCEPT ![t].left = @ - 1, ![t].operator = TRUE]

Execute(t) ==
    /\ \/ /\ HandleSaveContact(t) \/ executeHTTPWebhook(t) \/ CallOperator(t)
          /\ UNCHANGED crmVars
       \/ Calls(t, "crm") /\ (CrmCall(t) \/ CalendarCall(t)) /\ Go(t, "crm")
    /\ UNCHANGED <<scoreVars, agentVars, chat, gaps>>

\* The result of the call is handed to the model.
ToToolMessage(t) ==
    /\ turn[t].pc = "crm" /\ call[t].pc = "done"
    /\ turn' = [turn EXCEPT ![t].pc = "calls", ![t].left = @ - 1]
    /\ call' = [call EXCEPT ![t] = Idle]
    /\ UNCHANGED <<crm, row, cache, live, issued, now, back, raced, lost,
                   scoreVars, agentVars, chat, gaps>>

\* The push to the owner is sent in the background, whatever comes of it.
Alert(n, wanted) == IF wanted THEN n + 1 ELSE n

\* Mutant: the alert waits for the answer of the model.
NextRoundMutant(t) ==
    /\ turn[t].pc = "calls" /\ turn[t].left = 0
    /\ turn' = [turn EXCEPT ![t].pc = "ask",
                            ![t].alerts = Alert(@, turn[t].operator /\ turn[t].round < MaxIter)]
    /\ UNCHANGED <<crmVars, scoreVars, agentVars, chat, gaps>>

\* After every round from the first call_operator on, the owner is alerted.
NextRound(t) ==
    /\ turn[t].pc = "calls" /\ turn[t].left = 0
    /\ turn' = [turn EXCEPT ![t].pc = "ask",
                            ![t].alerts = Alert(@, turn[t].operator)]
    /\ UNCHANGED <<crmVars, scoreVars, agentVars, chat, gaps>>

-----------------------------------------------------------------------------
(* The decision about a VK message.                                        *)

\* Without consent a reply waits as a draft; no context counts as consent.
Downgrade(t, mode) ==
    IF mode = "auto_reply" /\ turn[t].consent = "off" THEN "draft" ELSE mode

\* Any other mode the model makes up passes as well.
Modes == {"draft", "auto_reply", "escalate", "other"}

\* A text of the model: a decision with a mode, or none that can be read.
parseVKDecisionContent(content) == IF content \in Modes THEN {content} ELSE {}

StrictDecision(t) ==
    /\ turn[t].pc = "rag" /\ turn[t].kind = "social"
    /\ \E results \in searchRAG :
         IF findStrictQAAnswer(results)
         THEN ScoreAsync(t) /\ End(t, Downgrade(t, "auto_reply"))
         ELSE Go(t, "decide") /\ UNCHANGED scoreVars
    /\ UNCHANGED <<crmVars, agentVars, chat, gaps>>

\* The arguments of the tool call, or else a text: plain text is a draft. An
\* escalation alerts the owner. A provider error, or arguments that do not
\* parse, ask again for plain JSON.
Decide(t) ==
    /\ turn[t].pc = "decide"
    /\ \/ /\ ScoreAsync(t)
          /\ \E content \in Modes \cup {"text"} :
               LET parsed == parseVKDecisionContent(content)
               IN  \E mode \in IF parsed = {} THEN {"draft"} ELSE parsed :
                      turn' = [turn EXCEPT ![t].pc = "done", ![t].out = Downgrade(t, mode),
                                           ![t].alerts = Alert(@, mode = "escalate")]
       \/ Go(t, "fallback") /\ UNCHANGED scoreVars
       \/ MayFail /\ End(t, "error") /\ UNCHANGED scoreVars
    /\ UNCHANGED <<crmVars, agentVars, chat, gaps>>

\* The fallback neither alerts nor scores. A provider error ends it like a text
\* that cannot be read.
JSONFallback(t) ==
    /\ turn[t].pc = "fallback"
    /\ \E content \in Modes \cup {"text"} :
         LET parsed == parseVKDecisionContent(content)
         IN  \/ parsed = {} /\ End(t, "error")
             \/ \E mode \in parsed :
                   turn' = [turn EXCEPT ![t].pc = "done", ![t].out = Downgrade(t, mode),
                                        ![t].back = TRUE]
    /\ UNCHANGED <<crmVars, scoreVars, agentVars, chat, gaps>>

-----------------------------------------------------------------------------
(* A request of the owner: GET pipelines or stages, a calendar event.      *)

OwnerRequest(c) ==
    /\ AmoGetPipelines(c) \/ ZohoGetDealStages(c) \/ CreateEvent(c) \/ ListEvents(c)
    /\ UNCHANGED <<scoreVars, agentVars, dialogueVars>>

TurnStep(t) ==
    \/ Chat(t) \/ ProcessVK(t) \/ ResolveAgent(t) \/ ResolveTools(t) \/ Prepare(t)
    \/ Answer(t) \/ Complete(t) \/ Execute(t) \/ ToToolMessage(t) \/ NextRound(t)
    \/ StrictDecision(t) \/ Decide(t) \/ JSONFallback(t)

Next ==
    \/ \E t \in Turns : TurnStep(t)
    \/ \E t \in Turns : ScoreStep(t) /\ UNCHANGED <<crmVars, agentVars, dialogueVars>>
    \/ \E c \in Requests : OwnerRequest(c)
    \/ \E c \in Callers : CrmStep(c) /\ UNCHANGED <<scoreVars, agentVars, dialogueVars>>
    \/ \E k \in Callbacks : CrmCallback(k) /\ UNCHANGED <<scoreVars, agentVars, dialogueVars>>
    \/ Tick /\ UNCHANGED <<scoreVars, agentVars, dialogueVars>>
    \/ AgentNext /\ UNCHANGED <<crmVars, scoreVars, dialogueVars>>
    \/ ClearHistory

Spec == Init /\ [][Next]_vars

-----------------------------------------------------------------------------
(* Properties. *)

Finished == {t \in Turns : turn[t].pc = "done"}

\* However a turn ended, an answer, an error of the model or the end of its
\* rounds, a model that asked for an operator, or decided by the tool or a text to
\* escalate, has alerted the owner; and nobody is alerted without one of the two.
\* Of an escalation of the fallback only the second is said here.
OperatorAlerted ==
    \A t \in Finished :
        /\ turn[t].operator \/ (turn[t].out = "escalate" /\ ~turn[t].back) => turn[t].alerts > 0
        /\ turn[t].alerts > 0 => turn[t].operator \/ turn[t].out = "escalate"

\* "If the agent decided to escalate, send AGENT_STUCK push to the workspace
\* owner": every escalation has alerted the owner, one of the fallback too.
EscalationAlerts ==
    \A t \in Finished : turn[t].out = "escalate" => turn[t].alerts > 0

Said(t, role) == {i \in DOMAIN chat : chat[i] = [of |-> t, role |-> role]}

\* Turns of one user may interleave and the owner may clear the chat between:
\* unless an INSERT of its own failed or was cleared, an ended turn has its
\* message in the chat once, its answer once and later if it gave one, and only
\* messages that were answered are scored.
AnswersAreRecorded ==
    \A t \in Turns : turn[t].pc = "done" /\ turn[t].kind = "chat" =>
        /\ scoring[t].pc = "off" <=> turn[t].out # "answer"
        /\ t \notin gaps =>
              \E i \in DOMAIN chat :
                 /\ Said(t, "user") = {i}
                 /\ IF turn[t].out = "answer"
                    THEN \E j \in DOMAIN chat : i < j /\ Said(t, "assistant") = {j}
                    ELSE Said(t, "assistant") = {}
=============================================================================
