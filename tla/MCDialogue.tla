----------------------------- MODULE MCDialogue -----------------------------
(***************************************************************************)
(* Instances of Dialogue: two turns of one chat user without an            *)
(* integration, or one turn, one request of the owner and one OAuth        *)
(* callback around an integration, of each of the three kinds.             *)
(***************************************************************************)
EXTENDS Dialogue, TLC

CONSTANTS t1, t2, o1, k1, a1, a2

MCTurns == {t1, t2}
MCRequests == {o1}
MCCallers == {t1, t2, o1}
MCCallbacks == {k1}
MCAccounts == {a1, a2}
MCAgents == 1..2
MCMessages == {{"asked_price", "asked_timeline", "mentioned_budget", "requested_demo"},
               {"negative_sentiment"}}

\* Bounds: an instance is about two turns at once, about a turn and an edit of
\* its agents, or about a tool call, a request of the owner and a callback that
\* use the integration at once; there the calls are not retried.
NoAgents  == Stored = {} /\ edits <= 1 /\ \A t \in Turns : turn[t].agent = NoAgent
Busy      == {t \in Turns : turn[t].pc # "idle"}
OneTurn   == \A t, u \in Busy : t = u
Untouched == back[k1].pc = "idle" /\ call[o1].pc = "idle" /\ now = 0 /\ cache = NoOne

Instance ==
    \/ NoAgents /\ Untouched /\ row = NoOne /\ crm = "amocrm"
    \/ /\ OneTurn /\ Untouched /\ row = NoOne /\ crm = "amocrm"
       /\ \A t \in Busy : turn[t].pc \in {"agent", "tools", "rag", "ask"}
    \/ OneTurn /\ NoAgents /\ edits = 0 /\ Untouched
       /\ \A t \in Busy : turn[t].kind = "chat"
    \/ /\ OneTurn /\ NoAgents /\ edits = 0
       /\ Busy # {} /\ \A t \in Busy : turn[t].pc = "crm" /\ turn[t].left = 1 /\ ~turn[t].operator
       /\ gaps = {}
       /\ \/ call[o1].pc = "idle"
          \/ crm # "google" /\ \A c \in Callers : call[c].tries = 0

Symmetry == Permutations(MCTurns) \cup Permutations(MCAccounts)
=============================================================================
