----------------------------- MODULE AgentConfig -----------------------------
(***************************************************************************)
(* agent-service: the agents of one workspace and the tools assigned to    *)
(* them, and how the client in llm-service picks an agent and its tools.   *)
(***************************************************************************)
EXTENDS Integers, FiniteSets

CONSTANTS
    Agents,       \* in the order List returns them, newest first: see Newer
    Slugs,        \* generateSlug of the names in use; a Cyrillic name has ""
    NoAgent,
    MaxEdits      \* the owner's edits of an instance

\* An owner may assign any id: those that agent-service lists, those that the
\* registry of llm-service offers tools for (no id is one of both), or the row
\* of a webhook tool.
BuiltinTools == {"builtin-save_contact_info"}
RegistryIds  == {"builtin-save-contact", "builtin-call-operator", "builtin-amocrm-create-lead"}
ToolIds      == BuiltinTools \cup RegistryIds \cup {"webhook"}
Platforms == {"vk", "all"}

ASSUME AgentAssumption == MaxEdits \in Nat /\ NoAgent \notin Agents /\ Agents \subseteq Nat

VARIABLES
    agents,       \* the rows
    edits         \* how often the owner has edited them

agentVars == <<agents, edits>>

AgentRow == [slug : Slugs, platform : Platforms, tools : SUBSET ToolIds]

AgentTypeOK ==
    /\ agents \in [Agents -> AgentRow \cup {NoAgent}]
    /\ edits \in 0..MaxEdits

AgentInit ==
    /\ agents = [a \in Agents |-> NoAgent]
    /\ edits = 0

Stored == {a \in Agents : agents[a] # NoAgent}

Edit(f) == /\ edits < MaxEdits
           /\ agents' = f
           /\ edits' = edits + 1

-----------------------------------------------------------------------------
(* The requests of the owner. *)

\* The slug of a workspace's agents is unique: a second name with the same
\* slug, two Cyrillic ones for instance, answers 500.
CreateAgent ==
    \E a \in Agents \ Stored, s \in Slugs, p \in Platforms :
        /\ \A b \in Stored : agents[b].slug # s /\ b < a
        /\ \A b \in Agents \ Stored : b < a => \E c \in Stored : b < c
        /\ Edit([agents EXCEPT ![a] = [slug |-> s, platform |-> p, tools |-> {}]])

\* An update sets the defaults of whatever the body leaves out, and no slug.
UpdateAgent ==
    \E a \in Stored, p \in Platforms : Edit([agents EXCEPT ![a].platform = p])

\* The rows of agent_tools go with their agent.
DeleteAgent == \E a \in Stored : Edit([agents EXCEPT ![a] = NoAgent])

AssignTool ==
    \E a \in Stored, i \in ToolIds : Edit([agents EXCEPT ![a].tools = @ \cup {i}])

UnassignTool ==
    \E a \in Stored, i \in ToolIds : Edit([agents EXCEPT ![a].tools = @ \ {i}])

AgentNext == CreateAgent \/ UpdateAgent \/ DeleteAgent \/ AssignTool \/ UnassignTool

-----------------------------------------------------------------------------
(* What llm-service reads. *)

\* The newest of S: a later row has a larger number.
Newest(S) == CHOOSE a \in S : \A b \in S : b <= a

\* GET /agent/agents and GET /agent/agents/:id, as the client reads them.
listAgents == Stored
GetAgentByID(a) == {a} \cap Stored

\* Every agent is active: no request sets a status.
ActiveAgents(platform) == {a \in listAgents : agents[a].platform \in {platform, "all"}}

GetDefaultAgent(platform) ==
    LET on(p) == {a \in listAgents : agents[a].platform = p}
    IN  CASE on(platform) # {} -> Newest(on(platform))
          [] on(platform) = {} /\ on("all") # {} -> Newest(on("all"))
          [] on(platform) = {} /\ on("all") = {} /\ listAgents # {} -> Newest(listAgents)
          [] OTHER -> NoAgent

GetAgentTools(a) == IF a \in Stored THEN agents[a].tools ELSE {}
=============================================================================
