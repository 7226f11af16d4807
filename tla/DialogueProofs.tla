---------------------------- MODULE DialogueProofs ----------------------------
(***************************************************************************)
(* Proofs about Dialogue, for any number of turns, requests, callbacks,    *)
(* accounts and rounds: what CrmTokensProofs shows of one move of the      *)
(* token store holds of every run of the turns that use it, and however a  *)
(* turn goes, its owner is alerted when an operator was asked for.         *)
(***************************************************************************)
EXTENDS Dialogue, CrmTokensProofs, FiniteSetTheorems, SequenceTheorems

\* Every step of a turn, a request, a callback, the clock, the owner or the
\* scoring is one move of the token store, or none.
LEMMA NextMoves == [Next]_vars => CrmMove
<1> SUFFICES ASSUME [Next]_vars PROVE CrmMove
  OBVIOUS
<1> USE DialogueAssumption
<1>1. ASSUME NEW t \in Turns, TurnStep(t) PROVE CrmMove
  <2>0. t \in Callers
    OBVIOUS
  <2>1. CASE ToToolMessage(t)
    <3>1. HandOn(t)
      BY <2>1 DEF ToToolMessage, HandOn
    <3>2. QED
      BY <2>0, <3>1 DEF CrmMove
  <2>2. CASE Execute(t)
    <3>1. CASE UNCHANGED crmVars
      BY <3>1 DEF CrmMove
    <3>2. CASE CrmCall(t) \/ CalendarCall(t)
      <4>1. \E creates, notes \in BOOLEAN : Begin(t, creates, notes)
        BY <3>2 DEF CrmCall, CalendarCall, AmoCreateLead, AmoCreateTask, AmoAddNote,
           AmoGetPipelines, ZohoCreateLead, ZohoCreateTask, ZohoAddNote,
           ZohoGetDealStages, CreateEvent, ListEvents
      <4>2. QED
        BY <2>0, <4>1 DEF CrmMove
    <3>3. QED
      BY <2>2, <3>1, <3>2 DEF Execute
  <2>3. CASE \/ Chat(t) \/ ProcessVK(t) \/ ResolveAgent(t) \/ ResolveTools(t)
             \/ Prepare(t) \/ Answer(t) \/ Complete(t) \/ NextRound(t)
             \/ StrictDecision(t) \/ Decide(t) \/ JSONFallback(t)
    <3>1. UNCHANGED crmVars
      BY <2>3 DEF Chat, ProcessVK, ResolveAgent, ResolveTools, Prepare, Answer, Complete,
         NextRound, StrictDecision, Decide, JSONFallback
    <3>2. QED
      BY <3>1 DEF CrmMove
  <2>4. QED
    BY <1>1, <2>1, <2>2, <2>3 DEF TurnStep
<1>2. ASSUME NEW c \in Requests, OwnerRequest(c) PROVE CrmMove
  <2>1. \E creates, notes \in BOOLEAN : Begin(c, creates, notes)
    BY <1>2 DEF OwnerRequest, AmoGetPipelines, ZohoGetDealStages, CreateEvent, ListEvents
  <2>2. c \in Callers
    OBVIOUS
  <2>3. QED
    BY <2>1, <2>2 DEF CrmMove
<1>3. CASE \/ \E t \in Turns : ScoreStep(t) /\ UNCHANGED <<crmVars, agentVars, dialogueVars>>
           \/ AgentNext /\ UNCHANGED <<crmVars, scoreVars, dialogueVars>>
           \/ ClearHistory
           \/ UNCHANGED vars
  <2>1. UNCHANGED crmVars
    BY <1>3 DEF ClearHistory, vars
  <2>2. QED
    BY <2>1 DEF CrmMove
<1>4. CASE \/ \E c \in Callers : CrmStep(c)
           \/ \E k \in Callbacks : CrmCallback(k)
           \/ Tick
  BY <1>4 DEF CrmMove
<1>5. QED
  BY <1>1, <1>2, <1>3, <1>4 DEF Next

\* The part of the type invariant that is the token store's.
LEMMA StoreInvariant == Spec => []CrmHolds
<1>1. Init => CrmHolds
  BY CrmInitHolds DEF Init
<1>2. CrmHolds /\ [Next]_vars => CrmHolds'
  BY CrmMoveHolds, NextMoves
<1>3. QED
  BY <1>1, <1>2, PTL DEF Spec

\* The rows, tokens, cache entries and calls of the store keep their shape
\* through every turn.
THEOREM StoreTypeInvariant == Spec => []CrmTypeOK
<1>1. CrmHolds => CrmTypeOK
  BY DEF CrmHolds
<1>2. QED
  BY <1>1, StoreInvariant, PTL

\* However many turns and callbacks share the cache, no token is served from it
\* in the last five minutes of its life.
THEOREM CacheSafety == Spec => []CachedTokenIsFresh
<1>1. QED
  BY StoreInvariant, CrmHoldsFresh, PTL

\* However many turns renew the same single-use refresh token at once, the row
\* keeps a usable pair unless an answer or an UPDATE was lost or overtook a
\* callback.
THEOREM PairSafety == Spec => []StoredPairIsUsable
<1>1. Init => AmoHolds
  BY AmoInitHolds DEF Init
<1>2. CrmHolds /\ AmoHolds /\ [Next]_vars => AmoHolds'
  BY AmoMoveHolds, NextMoves
<1>3. QED
  BY <1>1, <1>2, StoreInvariant, AmoHoldsUsable, PTL DEF Spec

\* Whatever was retried, a call that reports a success has made its record, and
\* one more for every answer that was lost.
THEOREM ReportSafety == Spec => []CreatedAsReported
<1>1. Init => AllBalanced
  <2>1. Balanced(Idle)
    BY DEF Balanced, Idle
  <2>2. QED
    BY <2>1 DEF Init, CrmInit, AllBalanced
<1>2. CrmHolds /\ AllBalanced /\ [Next]_vars => AllBalanced'
  BY CrmMoveBalanced, NextMoves
<1>3. QED
  BY <1>1, <1>2, StoreInvariant, BalancedReports, PTL DEF Spec

-----------------------------------------------------------------------------
(* The alert. Within a round the operator may be asked for before the      *)
(* alert is sent; between rounds one is there exactly if the other is.     *)

Fields == {"pc", "kind", "consent", "agent", "allow", "offered", "round", "left",
           "operator", "alerts", "back", "out"}

Alerting(r) ==
    /\ DOMAIN r = Fields
    /\ r.alerts \in Nat /\ r.operator \in BOOLEAN /\ r.back \in BOOLEAN
    /\ r.pc # "done" => ~r.back
    /\ r.pc \in {"calls", "crm"} => (r.alerts > 0 => r.operator)
    /\ r.pc \notin {"calls", "crm", "done"} => ((r.alerts > 0) <=> r.operator)
    /\ r.pc = "done" =>
          /\ r.operator \/ (r.out = "escalate" /\ ~r.back) => r.alerts > 0
          /\ r.alerts > 0 => r.operator \/ r.out = "escalate"

AlertsHold ==
    /\ turn = [t \in Turns |-> turn[t]]
    /\ \A t \in Turns : Alerting(turn[t])

Start == [pc |-> "idle", kind |-> "chat", consent |-> "none", agent |-> NoAgent,
          allow |-> {}, offered |-> {}, round |-> 0, left |-> 0, operator |-> FALSE,
          alerts |-> 0, back |-> FALSE, out |-> ""]

\* A turn that has not begun wants and has no alert.
LEMMA StartAlerting == Alerting(Start)
<1>1. DOMAIN Start = Fields
  BY SMT DEF Start, Fields
<1>2. Start.pc = "idle"
  BY Zenon DEF Start
<1>3. Start.alerts = 0
  BY Zenon DEF Start
<1>4. Start.operator = FALSE
  BY Zenon DEF Start
<1>5. Start.back = FALSE
  BY Zenon DEF Start
<1>6. Start.alerts \in Nat /\ ~(Start.alerts > 0)
  BY <1>3
<1>7. Start.pc \notin {"calls", "crm", "done"}
  BY <1>2
<1>8. QED
  BY <1>1, <1>2, <1>4, <1>5, <1>6, <1>7, Zenon DEF Alerting

\* A turn that becomes an alerting record leaves all turns so.
LEMMA TurnKeeps ==
    ASSUME AlertsHold, NEW t \in Turns, NEW r, Alerting(r), turn' = [turn EXCEPT ![t] = r]
    PROVE  AlertsHold'
<1>1. \A u \in Turns : turn'[u] = IF u = t THEN r ELSE turn[u]
  BY DEF AlertsHold
<1>2. turn' = [u \in Turns |-> turn'[u]]
  BY DEF AlertsHold
<1>3. \A u \in Turns : Alerting(turn'[u])
  BY <1>1 DEF AlertsHold
<1>4. QED
  BY <1>2, <1>3 DEF AlertsHold

\* The steps before a decision, and the answer, raise and drop no alert.
LEMMA QuietKeeps ==
    ASSUME AlertsHold, NEW t \in Turns,
           \/ Chat(t) \/ ProcessVK(t) \/ ResolveAgent(t) \/ ResolveTools(t)
           \/ Prepare(t) \/ Answer(t)
    PROVE  AlertsHold'
<1> DEFINE r == turn[t]
<1>1. Alerting(r)
  BY DEF AlertsHold
<1>2. CASE Chat(t)
  <2>1. PICK pinned : turn' = [turn EXCEPT ![t] = [[r EXCEPT !.pc = "agent"] EXCEPT !.agent = pinned]]
    BY <1>2 DEF Chat, AlertsHold
  <2>2. Alerting([[r EXCEPT !.pc = "agent"] EXCEPT !.agent = pinned])
    BY <1>1, <1>2 DEF Alerting, Fields, Chat
  <2>3. QED
    BY <2>1, <2>2, TurnKeeps
<1>3. CASE ProcessVK(t)
  <2>1. PICK c : turn' = [turn EXCEPT ![t] =
                   [[[r EXCEPT !.pc = "agent"] EXCEPT !.kind = "social"] EXCEPT !.consent = c]]
    BY <1>3 DEF ProcessVK, AlertsHold
  <2>2. Alerting([[[r EXCEPT !.pc = "agent"] EXCEPT !.kind = "social"] EXCEPT !.consent = c])
    BY <1>1, <1>3 DEF Alerting, Fields, ProcessVK
  <2>3. QED
    BY <2>1, <2>2, TurnKeeps
<1>4. ASSUME NEW a, NEW allow, Resolved(t, a, allow), r.pc \in {"agent", "tools"}
      PROVE  AlertsHold'
  <2> DEFINE next == [[[r EXCEPT !.agent = a] EXCEPT !.allow = allow] EXCEPT !.pc = "rag"]
  <2>1. turn' = [turn EXCEPT ![t] = next]
    BY <1>4 DEF Resolved, AlertsHold
  <2>2. Alerting(next)
    BY <1>1, <1>4 DEF Alerting, Fields
  <2>3. QED
    BY <2>1, <2>2, TurnKeeps
<1>5. CASE ResolveAgent(t)
  <2>1. CASE \E a \in RouteAgent(t) \ {NoAgent} :
               turn' = [turn EXCEPT ![t].agent = a, ![t].pc = "tools"]
    <3>1. PICK a : turn' = [turn EXCEPT ![t] = [[r EXCEPT !.agent = a] EXCEPT !.pc = "tools"]]
      BY <2>1 DEF AlertsHold
    <3>2. Alerting([[r EXCEPT !.agent = a] EXCEPT !.pc = "tools"])
      BY <1>1, <1>5 DEF Alerting, Fields, ResolveAgent
    <3>3. QED
      BY <3>1, <3>2, TurnKeeps
  <2>2. CASE Resolved(t, NoAgent, Everything)
    BY <1>4, <1>5, <2>2 DEF ResolveAgent
  <2>3. QED
    BY <1>5, <2>1, <2>2 DEF ResolveAgent
<1>6. CASE ResolveTools(t)
  BY <1>4, <1>6 DEF ResolveTools
<1>7. CASE Prepare(t)
  <2>1. CASE Go(t, "answer")
    <3>1. turn' = [turn EXCEPT ![t] = [r EXCEPT !.pc = "answer"]]
      BY <2>1 DEF Go, AlertsHold
    <3>2. Alerting([r EXCEPT !.pc = "answer"])
      BY <1>1, <1>7 DEF Alerting, Fields, Prepare
    <3>3. QED
      BY <3>1, <3>2, TurnKeeps
  <2>2. CASE turn' = [turn EXCEPT ![t].pc = "ask", ![t].offered = GetTools(turn[t].allow),
                                  ![t].allow = {}]
    <3> DEFINE tools == GetTools(r.allow)
               next  == [[[r EXCEPT !.pc = "ask"] EXCEPT !.offered = tools] EXCEPT !.allow = {}]
    <3>0. turn' = [turn EXCEPT ![t].pc = "ask", ![t].offered = tools, ![t].allow = {}]
      BY <2>2
    <3> HIDE DEF tools
    <3>1. turn' = [turn EXCEPT ![t] = next]
      BY <3>0 DEF AlertsHold
    <3>2. Alerting(next)
      BY <1>1, <1>7 DEF Alerting, Fields, Prepare
    <3>3. QED
      BY <3>1, <3>2, TurnKeeps
  <2>3. QED
    BY <1>7, <2>1, <2>2 DEF Prepare
<1>8. CASE Answer(t)
  <2> DEFINE next == [[r EXCEPT !.pc = "done"] EXCEPT !.out = "answer"]
  <2>1. turn' = [turn EXCEPT ![t] = next]
    BY <1>8 DEF Answer, End, AlertsHold
  <2>2. Alerting(next)
    BY <1>1, <1>8 DEF Alerting, Fields, Answer
  <2>3. QED
    BY <2>1, <2>2, TurnKeeps
<1>9. QED
  BY <1>2, <1>3, <1>5, <1>6, <1>7, <1>8

\* In its rounds a turn may ask for the operator; the end of the round alerts.
LEMMA RoundKeeps ==
    ASSUME AlertsHold, NEW t \in Turns,
           Complete(t) \/ Execute(t) \/ ToToolMessage(t) \/ NextRound(t)
    PROVE  AlertsHold'
<1> DEFINE r == turn[t]
<1>1. Alerting(r)
  BY DEF AlertsHold
<1>2. CASE Complete(t)
  <2>0. r.pc = "ask"
    BY <1>2 DEF Complete
  <2>1. CASE Go(t, "answer")
    <3>1. turn' = [turn EXCEPT ![t] = [r EXCEPT !.pc = "answer"]]
      BY <2>1 DEF Go, AlertsHold
    <3>2. Alerting([r EXCEPT !.pc = "answer"])
      BY <1>1, <2>0 DEF Alerting, Fields
    <3>3. QED
      BY <3>1, <3>2, TurnKeeps
  <2>2. CASE \E n \in 1..MaxCalls :
               turn' = [turn EXCEPT ![t].pc = "calls", ![t].left = n, ![t].round = @ + 1]
    <3> DEFINE next(n) == [[[r EXCEPT !.pc = "calls"] EXCEPT !.left = n]
                               EXCEPT !.round = r.round + 1]
    <3>0. PICK n \in 1..MaxCalls :
            turn' = [turn EXCEPT ![t].pc = "calls", ![t].left = n, ![t].round = @ + 1]
      BY <2>2
    <3>a. r.round = [[r EXCEPT !.pc = "calls"] EXCEPT !.left = n].round
      BY <1>1 DEF Alerting, Fields
    <3>1. turn' = [turn EXCEPT ![t] = next(n)]
      BY <3>0, <3>a DEF AlertsHold
    <3>2. Alerting(next(n))
      BY <1>1, <2>0 DEF Alerting, Fields
    <3>3. QED
      BY <3>1, <3>2, TurnKeeps
  <2>3. ASSUME NEW out \in {"error", "limit"}, End(t, out) PROVE AlertsHold'
    <3> DEFINE next == [[r EXCEPT !.pc = "done"] EXCEPT !.out = out]
    <3>1. turn' = [turn EXCEPT ![t] = next]
      BY <2>3 DEF End, AlertsHold
    <3>2. Alerting(next)
      BY <1>1, <2>0 DEF Alerting, Fields
    <3>3. QED
      BY <3>1, <3>2, TurnKeeps
  <2>4. QED
    BY <1>2, <2>1, <2>2, <2>3 DEF Complete
<1>3. CASE Execute(t)
  <2>0. r.pc = "calls"
    BY <1>3 DEF Execute, HandleSaveContact, executeHTTPWebhook, CallOperator, Calls
  <2>1. CASE HandleSaveContact(t) \/ executeHTTPWebhook(t)
    <3>1. turn' = [turn EXCEPT ![t] = [r EXCEPT !.left = @ - 1]]
      BY <2>1 DEF HandleSaveContact, executeHTTPWebhook, AlertsHold
    <3>2. Alerting([r EXCEPT !.left = @ - 1])
      BY <1>1, <2>0 DEF Alerting, Fields
    <3>3. QED
      BY <3>1, <3>2, TurnKeeps
  <2>2. CASE CallOperator(t)
    <3> DEFINE next == [[r EXCEPT !.left = @ - 1] EXCEPT !.operator = TRUE]
    <3>1. turn' = [turn EXCEPT ![t] = next]
      BY <2>2 DEF CallOperator, AlertsHold
    <3>2. Alerting(next)
      BY <1>1, <2>0 DEF Alerting, Fields
    <3>3. QED
      BY <3>1, <3>2, TurnKeeps
  <2>3. CASE Go(t, "crm")
    <3>1. turn' = [turn EXCEPT ![t] = [r EXCEPT !.pc = "crm"]]
      BY <2>3 DEF Go, AlertsHold
    <3>2. Alerting([r EXCEPT !.pc = "crm"])
      BY <1>1, <2>0 DEF Alerting, Fields
    <3>3. QED
      BY <3>1, <3>2, TurnKeeps
  <2>4. QED
    BY <1>3, <2>1, <2>2, <2>3 DEF Execute
<1>4. CASE ToToolMessage(t)
  <2> DEFINE next == [[r EXCEPT !.pc = "calls"] EXCEPT !.left = @ - 1]
  <2>1. turn' = [turn EXCEPT ![t] = next]
    BY <1>4 DEF ToToolMessage, AlertsHold
  <2>2. Alerting(next)
    BY <1>1, <1>4 DEF Alerting, Fields, ToToolMessage
  <2>3. QED
    BY <2>1, <2>2, TurnKeeps
<1>5. CASE NextRound(t)
  <2> DEFINE next == [[r EXCEPT !.pc = "ask"] EXCEPT !.alerts = Alert(@, r.operator)]
  <2>1. turn' = [turn EXCEPT ![t] = next]
    BY <1>5 DEF NextRound, AlertsHold
  <2>2. Alerting(next)
    BY <1>1, <1>5 DEF Alerting, Fields, NextRound, Alert
  <2>3. QED
    BY <2>1, <2>2, TurnKeeps
<1>6. QED
  BY <1>2, <1>3, <1>4, <1>5

\* A decision alerts if it escalates, the fallback never does.
LEMMA DecisionKeeps ==
    ASSUME AlertsHold, NEW t \in Turns, StrictDecision(t) \/ Decide(t) \/ JSONFallback(t)
    PROVE  AlertsHold'
<1> DEFINE r == turn[t]
<1>1. Alerting(r) /\ r.pc \in {"rag", "decide", "fallback"}
  BY DEF AlertsHold, StrictDecision, Decide, JSONFallback
<1>2. ASSUME NEW pc \in {"decide", "fallback"}, Go(t, pc) PROVE AlertsHold'
  <2>1. turn' = [turn EXCEPT ![t] = [r EXCEPT !.pc = pc]]
    BY <1>2 DEF Go, AlertsHold
  <2>2. Alerting([r EXCEPT !.pc = pc])
    BY <1>1 DEF Alerting, Fields
  <2>3. QED
    BY <2>1, <2>2, TurnKeeps
<1>3. ASSUME NEW out, out # "escalate", End(t, out) PROVE AlertsHold'
  <2> DEFINE next == [[r EXCEPT !.pc = "done"] EXCEPT !.out = out]
  <2>1. turn' = [turn EXCEPT ![t] = next]
    BY <1>3 DEF End, AlertsHold
  <2>2. Alerting(next)
    BY <1>1, <1>3 DEF Alerting, Fields
  <2>3. QED
    BY <2>1, <2>2, TurnKeeps
<1>4. CASE StrictDecision(t)
  <2>1. Downgrade(t, "auto_reply") # "escalate"
    BY DEF Downgrade
  <2>2. QED
    BY <1>2, <1>3, <1>4, <2>1 DEF StrictDecision
<1>5. CASE Decide(t)
  <2>1. ASSUME NEW mode,
               turn' = [turn EXCEPT ![t].pc = "done", ![t].out = Downgrade(t, mode),
                                    ![t].alerts = Alert(@, mode = "escalate")]
        PROVE  AlertsHold'
    <3> DEFINE out  == Downgrade(t, mode)
               next == [[[r EXCEPT !.pc = "done"] EXCEPT !.out = out]
                           EXCEPT !.alerts = Alert(@, mode = "escalate")]
    <3>1. out = "escalate" <=> mode = "escalate"
      BY DEF Downgrade
    <3>2. turn' = [turn EXCEPT ![t] = next]
      BY <2>1 DEF AlertsHold
    <3> HIDE DEF out
    <3>a. ((r.alerts > 0) <=> r.operator) /\ ~r.back /\ r.alerts \in Nat
      BY <1>1, <1>5 DEF Alerting, Decide
    <3> DEFINE n == Alert(r.alerts, mode = "escalate")
    <3>b. n \in Nat /\ ((n > 0) <=> (r.operator \/ mode = "escalate"))
      BY <3>a DEF Alert
    <3>c. next = [[[r EXCEPT !.pc = "done"] EXCEPT !.out = out] EXCEPT !.alerts = n]
      <4>1. [[r EXCEPT !.pc = "done"] EXCEPT !.out = out].alerts = r.alerts
        BY <1>1 DEF Alerting, Fields
      <4>2. QED
        BY <4>1
    <3> HIDE DEF n
    <3>d. Alerting([[[r EXCEPT !.pc = "done"] EXCEPT !.out = out] EXCEPT !.alerts = n])
      BY <1>1, <3>1, <3>a, <3>b DEF Alerting, Fields
    <3>3. Alerting(next)
      BY <3>c, <3>d
    <3>4. QED
      BY <3>2, <3>3, TurnKeeps
  <2>2. QED
    BY <1>2, <1>3, <1>5, <2>1 DEF Decide
<1>6. CASE JSONFallback(t)
  <2>1. ASSUME NEW mode,
               turn' = [turn EXCEPT ![t].pc = "done", ![t].out = Downgrade(t, mode),
                                    ![t].back = TRUE]
        PROVE  AlertsHold'
    <3> DEFINE out  == Downgrade(t, mode)
               next == [[[r EXCEPT !.pc = "done"] EXCEPT !.out = out] EXCEPT !.back = TRUE]
    <3>1. turn' = [turn EXCEPT ![t] = next]
      BY <2>1 DEF AlertsHold
    <3> HIDE DEF out
    <3>2. Alerting(next)
      BY <1>1, <1>6 DEF Alerting, Fields, JSONFallback
    <3>3. QED
      BY <3>1, <3>2, TurnKeeps
  <2>2. QED
    BY <1>3, <1>6, <2>1 DEF JSONFallback
<1>7. QED
  BY <1>4, <1>5, <1>6

\* However its rounds or its decision end, a turn in which an operator was asked
\* for, or whose decision escalates, has alerted the owner, and no other turn has.
\* Of an escalation of the fallback it says nothing.
THEOREM AlertSafety == Spec => []OperatorAlerted
<1>1. Init => AlertsHold
  <2> SUFFICES ASSUME Init PROVE AlertsHold
    OBVIOUS
  <2>1. ASSUME NEW t \in Turns PROVE Alerting(turn[t])
    <3>1. turn[t] = Start
      BY DEF Init, Start
    <3>2. QED
      BY <3>1, StartAlerting
  <2>2. turn = [t \in Turns |-> turn[t]]
    BY DEF Init
  <2>3. QED
    BY <2>1, <2>2 DEF AlertsHold
<1>2. AlertsHold /\ [Next]_vars => AlertsHold'
  <2> SUFFICES ASSUME AlertsHold, [Next]_vars PROVE AlertsHold'
    OBVIOUS
  <2>1. ASSUME NEW t \in Turns, TurnStep(t) PROVE AlertsHold'
    BY <2>1, QuietKeeps, RoundKeeps, DecisionKeeps DEF TurnStep
  <2>2. CASE UNCHANGED turn
    BY <2>2 DEF AlertsHold
  <2>3. CASE ~UNCHANGED turn
    BY <2>1, <2>3 DEF Next, OwnerRequest, ClearHistory, vars, dialogueVars
  <2>4. QED
    BY <2>2, <2>3
<1>3. AlertsHold => OperatorAlerted
  BY DEF AlertsHold, Alerting, OperatorAlerted, Finished
<1>4. QED
  BY <1>1, <1>2, <1>3, PTL DEF Spec

-----------------------------------------------------------------------------
(* The score of the lead: every score that a goroutine has read, or that   *)
(* the row holds, ends a chain of scored messages.                         *)

Backed(v) == \E n \in 0..Cardinality(Scored) : \E q \in Chains(n) : ChainScore(n, q) = v
EndsChain(m) == \E n \in 1..Cardinality(Scored) : \E q \in Chains(n) : q[n] = m

ScoringHolds(m) ==
    LET x == scoring[m]
    IN  /\ x.pc \in {"off", "read", "insert"} => x.base = 0
        /\ x.pc = "update" => lead # Unscored /\ Backed(x.base)
        /\ x.pc = "done" => EndsChain(m)

ScoreHolds ==
    /\ ScoreTypeOK
    /\ lead = Unscored => Scored = {}
    /\ IsFiniteSet(Scored)
    /\ lead # Unscored => lead.count = Cardinality(Scored) /\ Backed(lead.score)
    /\ \A m \in Scorers : ScoringHolds(m)
    /\ \A m \in hot : m \in Scored /\ NewScore(m) >= Threshold

\* The weights of the signals of a message add up to an integer.
LEMMA SignalsType == \A m : DetectSignals(m) \in Int
<1> SUFFICES ASSUME NEW m PROVE DetectSignals(m) \in Int
  OBVIOUS
<1> DEFINE w(s) == IF s \in m THEN SignalWeights[s] ELSE 0
<1>1. /\ w("asked_price") \in Int /\ w("asked_timeline") \in Int /\ w("mentioned_budget") \in Int
      /\ w("requested_demo") \in Int /\ w("mentioned_company") \in Int /\ w("long_message") \in Int
      /\ w("positive_sentiment") \in Int /\ w("negative_sentiment") \in Int /\ w("question") \in Int
  BY DEF SignalWeights
<1>2. DetectSignals(m) = w("asked_price") + w("asked_timeline") + w("mentioned_budget")
        + w("requested_demo") + w("mentioned_company") + w("long_message")
        + w("positive_sentiment") + w("negative_sentiment") + w("question")
  BY DEF DetectSignals
<1> HIDE DEF w
<1>3. QED
  BY <1>1, <1>2

\* A score that is written is one that the column takes.
LEMMA NewScoreType ==
    ASSUME ScoreTypeOK, NEW m \in Scorers
    PROVE  NewScore(m) \in 0..100
<1>1. scoring[m].base \in Int
  BY DEF ScoreTypeOK
<1>2. DetectSignals(scoring[m].says) \in Int
  BY SignalsType
<1>3. QED
  BY <1>1, <1>2 DEF NewScore, Clamp

\* What happens to goroutines that have not scored yet leaves every chain alone.
LEMMA ChainsStay ==
    ASSUME Scored' = Scored, \A m \in Scored : scoring'[m] = scoring[m]
    PROVE  /\ \A v : Backed(v) => Backed(v)'
           /\ \A m : EndsChain(m) => EndsChain(m)'
<1>1. \A k \in Scored : NewScore(k)' = NewScore(k)
  BY DEF NewScore
<1>2. ASSUME NEW n \in Nat, NEW q \in Chains(n)
      PROVE  q \in Chains(n)' /\ ChainScore(n, q)' = ChainScore(n, q)
  <2>1. \A i \in 1..n : q[i] \in Scored
    BY DEF Chains
  <2>2. \A i \in 1..n : i # 1 => q[i - 1] \in Scored
    BY <2>1
  <2>3. q \in Chains(n)'
    BY <1>1, <2>1, <2>2 DEF Chains
  <2>4. ChainScore(n, q)' = ChainScore(n, q)
    BY <1>1, <2>1 DEF ChainScore
  <2>5. QED
    BY <2>3, <2>4
<1>3. Cardinality(Scored)' = Cardinality(Scored)
  OBVIOUS
<1>4. \A n \in 0..Cardinality(Scored) : n \in Nat
  OBVIOUS
<1>5. \A v : Backed(v) => Backed(v)'
  BY <1>2, <1>3, <1>4 DEF Backed
<1>6. \A m : EndsChain(m) => EndsChain(m)'
  BY <1>2, <1>3 DEF EndsChain
<1>7. QED
  BY <1>5, <1>6

\* A goroutine that scores puts its message at the end of the chain that it read
\* the score of.
LEMMA ChainsGrow ==
    ASSUME ScoreTypeOK, IsFiniteSet(Scored), NEW m \in Scorers, m \notin Scored,
           Backed(scoring[m].base), scoring' = [scoring EXCEPT ![m].pc = "done"]
    PROVE  /\ Scored' = Scored \cup {m} /\ IsFiniteSet(Scored')
           /\ Cardinality(Scored)' = Cardinality(Scored) + 1
           /\ \A k \in Scorers : NewScore(k)' = NewScore(k)
           /\ \A v : Backed(v) => Backed(v)'
           /\ \A k : EndsChain(k) => EndsChain(k)'
           /\ EndsChain(m)'
           /\ \A v : v = NewScore(m) => Backed(v)'
<1> DEFINE c == Cardinality(Scored)
<1>1. \A k \in Scorers : /\ scoring'[k].base = scoring[k].base
                         /\ scoring'[k].says = scoring[k].says
                         /\ scoring'[k].pc = IF k = m THEN "done" ELSE scoring[k].pc
  BY DEF ScoreTypeOK
<1>2. Scored' = Scored \cup {m}
  BY <1>1 DEF Scored
<1>3. /\ IsFiniteSet(Scored') /\ Cardinality(Scored)' = c + 1 /\ c \in Nat
  BY <1>2, FS_AddElement, FS_CardinalityType
<1>4. \A k \in Scorers : NewScore(k)' = NewScore(k)
  BY <1>1 DEF NewScore
<1>5. \A k \in Scored : k \in Scorers
  BY DEF Scored
<1>6. ASSUME NEW n \in Nat, NEW q \in Chains(n)
      PROVE  q \in Chains(n)' /\ ChainScore(n, q)' = ChainScore(n, q)
  <2>1. \A i \in 1..n : q[i] \in Scored /\ q[i] \in Scorers
    BY <1>5 DEF Chains
  <2>2. \A i \in 1..n : i # 1 => q[i - 1] \in Scorers
    BY <2>1
  <2>3. q \in [1..n -> Scored']
    BY <1>2 DEF Chains
  <2>4. q \in Chains(n)'
    BY <1>1, <1>4, <2>1, <2>2, <2>3 DEF Chains
  <2>5. ChainScore(n, q)' = ChainScore(n, q)
    BY <1>4, <2>1 DEF ChainScore
  <2>6. QED
    BY <2>4, <2>5
<1>7. \A v : Backed(v) => Backed(v)'
  BY <1>3, <1>6 DEF Backed
<1>8. \A k : EndsChain(k) => EndsChain(k)'
  BY <1>3, <1>6 DEF EndsChain
<1>a. PICK n \in 0..c : \E q \in Chains(n) : ChainScore(n, q) = scoring[m].base
  BY DEF Backed
<1>9. PICK q \in Chains(n) : ChainScore(n, q) = scoring[m].base
  BY <1>a
<1>10. PICK p : p = [i \in 1..(n + 1) |-> IF i <= n THEN q[i] ELSE m]
  OBVIOUS
<1>11. n \in Nat /\ n + 1 \in 1..(c + 1)
  BY <1>3, <1>9
<1>12. /\ \A i \in 1..n : p[i] = q[i] /\ q[i] \in Scored /\ q[i] \in Scorers
       /\ p[n + 1] = m
       /\ \A i \in 1..(n + 1) : i \in 1..n \/ i = n + 1
  BY <1>5, <1>10, <1>11 DEF Chains
<1>13. p \in Chains(n + 1)'
  <2>1. p \in [1..(n + 1) -> Scored']
    BY <1>2, <1>10, <1>11, <1>12
  <2>2. \A i, j \in 1..(n + 1) : p[i] = p[j] => i = j
    BY <1>12 DEF Chains
  <2>3. ASSUME NEW i \in 1..(n + 1)
        PROVE  scoring'[p[i]].base = IF i = 1 THEN 0 ELSE NewScore(p[i - 1])'
    <3>1. CASE i \in 1..n
      <4>1. scoring[q[i]].base = IF i = 1 THEN 0 ELSE NewScore(q[i - 1])
        BY <3>1 DEF Chains
      <4>2. i # 1 => p[i - 1] = q[i - 1] /\ q[i - 1] \in Scorers
        BY <1>12, <3>1
      <4>3. QED
        BY <1>1, <1>4, <1>12, <3>1, <4>1, <4>2
    <3>2. CASE i = n + 1 /\ n = 0
      BY <1>1, <1>9, <1>12, <3>2 DEF ChainScore
    <3>3. CASE i = n + 1 /\ n # 0
      <4>1. i # 1 /\ i - 1 = n /\ n \in 1..n
        BY <1>11, <3>3
      <4>2. scoring'[p[i]].base = NewScore(q[n])
        BY <1>1, <1>9, <1>12, <3>3 DEF ChainScore
      <4>3. QED
        BY <1>4, <1>12, <4>1, <4>2
    <3>4. QED
      BY <1>12, <3>1, <3>2, <3>3
  <2>4. QED
    BY <2>1, <2>2, <2>3 DEF Chains
<1>14. EndsChain(m)'
  BY <1>3, <1>11, <1>12, <1>13 DEF EndsChain
<1>15. ASSUME NEW v, v = NewScore(m) PROVE Backed(v)'
  <2>1. ChainScore(n + 1, p)' = v
    BY <1>4, <1>11, <1>12, <1>15 DEF ChainScore
  <2>2. n + 1 \in 0..(c + 1)
    BY <1>11
  <2>3. QED
    BY <1>3, <1>13, <2>1, <2>2 DEF Backed
<1>16. QED
  BY <1>2, <1>3, <1>4, <1>7, <1>8, <1>14, <1>15

\* A goroutine starts, reads, inserts, writes or fails; others do not score.
ScoreMove == UNCHANGED scoreVars \/ \E m \in Scorers : ScoreAsync(m) \/ ScoreStep(m)

\* The steps of the turns and of the token store score nothing else.
LEMMA NextScores == [Next]_vars => ScoreMove
<1> SUFFICES ASSUME [Next]_vars PROVE ScoreMove
  OBVIOUS
<1> USE DialogueAssumption
<1>1. ASSUME NEW t \in Turns, TurnStep(t) PROVE ScoreMove
  <2>1. CASE Answer(t) \/ StrictDecision(t) \/ Decide(t)
    <3>1. ScoreAsync(t) \/ UNCHANGED scoreVars
      BY <2>1 DEF Answer, StrictDecision, Decide
    <3>2. QED
      BY <3>1 DEF ScoreMove
  <2>2. CASE ~(Answer(t) \/ StrictDecision(t) \/ Decide(t))
    <3>1. UNCHANGED scoreVars
      BY <1>1, <2>2 DEF TurnStep, Chat, ProcessVK, ResolveAgent, ResolveTools, Prepare, Complete,
         Execute, ToToolMessage, NextRound, JSONFallback, scoreVars
    <3>2. QED
      BY <3>1 DEF ScoreMove
  <2>3. QED
    BY <2>1, <2>2
<1>2. CASE \E t \in Turns : ScoreStep(t)
  BY <1>2 DEF ScoreMove
<1>3. CASE ~(\E t \in Turns : TurnStep(t) \/ ScoreStep(t))
  <2>1. UNCHANGED scoreVars
    BY <1>3 DEF Next, OwnerRequest, ClearHistory, vars
  <2>2. QED
    BY <2>1 DEF ScoreMove
<1>4. QED
  BY <1>1, <1>2, <1>3

\* A goroutine that moves on without scoring, whatever becomes of a lead that had
\* no row.
LEMMA UnscoredKeeps ==
    ASSUME ScoreHolds, NEW m \in Scorers, NEW x, scoring' = [scoring EXCEPT ![m] = x],
           ScoreTypeOK', UNCHANGED hot, m \notin Scored, x.pc # "done",
           x.pc \in {"off", "read", "insert"} => x.base = 0,
           x.pc = "update" => lead' # Unscored /\ Backed(x.base),
           \/ UNCHANGED lead
           \/ lead = Unscored /\ lead' # Unscored /\ lead'.count = 0 /\ lead'.score = 0
    PROVE  ScoreHolds'
<1>1. \A k \in Scorers : scoring'[k] = IF k = m THEN x ELSE scoring[k]
  BY DEF ScoreHolds, ScoreTypeOK
<1>2. Scored' = Scored /\ \A k \in Scored : scoring'[k] = scoring[k] /\ k \in Scorers
  BY <1>1 DEF Scored
<1>3. \A v : Backed(v) => Backed(v)'
  BY <1>2, ChainsStay
<1>4. \A k : EndsChain(k) => EndsChain(k)'
  BY <1>2, ChainsStay
<1>5. \A k \in Scorers : ScoringHolds(k)'
  <2>1. ASSUME NEW k \in Scorers, k # m PROVE ScoringHolds(k)'
    <3>1. ScoringHolds(k) /\ scoring'[k] = scoring[k] /\ (lead # Unscored => lead' # Unscored)
      BY <1>1, <2>1 DEF ScoreHolds
    <3>2. QED
      BY <1>3, <1>4, <3>1 DEF ScoringHolds
  <2>2. ScoringHolds(m)'
    BY <1>1, <1>3 DEF ScoringHolds
  <2>3. QED
    BY <2>1, <2>2
<1>6. lead' # Unscored => lead'.count = Cardinality(Scored)' /\ Backed(lead.score)'
  <2>1. CASE UNCHANGED lead
    <3>1. \A v : v = lead.score => (Backed(v)' => Backed(lead.score)')
      BY <2>1 DEF Backed
    <3>2. QED
      BY <1>2, <1>3, <2>1, <3>1 DEF ScoreHolds
  <2>2. CASE lead = Unscored /\ lead' # Unscored /\ lead'.count = 0 /\ lead'.score = 0
    <3>1. Cardinality(Scored)' = 0 /\ Scored' = {}
      BY <1>2, <2>2, FS_EmptySet DEF ScoreHolds
    <3>2. PICK q : q \in [1..0 -> Scored']
      <4>1. [i \in 1..0 |-> 0] \in [1..0 -> Scored']
        OBVIOUS
      <4>2. QED
        BY <4>1
    <3>3. q \in Chains(0)'
      BY <3>2 DEF Chains
    <3>4. ChainScore(0, q)' = 0
      BY DEF ChainScore
    <3>5. QED
      BY <2>2, <3>1, <3>3, <3>4 DEF Backed
  <2>3. QED
    BY <2>1, <2>2
<1>7. \A k \in hot' : k \in Scored' /\ NewScore(k)' >= Threshold
  BY <1>2 DEF ScoreHolds, NewScore
<1>8. QED
  BY <1>2, <1>5, <1>6, <1>7 DEF ScoreHolds

\* The UPDATE leaves the row with the score of a longer chain.
LEMMA UpdateKeeps ==
    ASSUME ScoreHolds, NEW m \in Scorers, scoring[m].pc = "update",
           lead' = [score |-> NewScore(m), count |-> lead.count + 1],
           scoring' = [scoring EXCEPT ![m].pc = "done"],
           \/ UNCHANGED hot
           \/ hot' = IF NewScore(m) >= Threshold THEN hot \cup {m} ELSE hot
    PROVE  ScoreHolds'
<1>1. /\ ScoreTypeOK /\ IsFiniteSet(Scored) /\ m \notin Scored
      /\ lead # Unscored /\ Backed(scoring[m].base) /\ lead.count = Cardinality(Scored)
  BY DEF ScoreHolds, ScoringHolds, Scored
<1>2. /\ Scored' = Scored \cup {m} /\ IsFiniteSet(Scored')
      /\ Cardinality(Scored)' = Cardinality(Scored) + 1
      /\ \A k \in Scorers : NewScore(k)' = NewScore(k)
      /\ \A v : Backed(v) => Backed(v)'
      /\ \A k : EndsChain(k) => EndsChain(k)'
      /\ EndsChain(m)'
      /\ \A v : v = NewScore(m) => Backed(v)'
  BY <1>1, ChainsGrow
<1>3. NewScore(m) \in 0..100 /\ lead.count \in Nat
  BY <1>1, NewScoreType DEF ScoreTypeOK
<1>4. PICK new : new = [score |-> NewScore(m), count |-> lead.count + 1]
  OBVIOUS
<1>5. new \in [score : 0..100, count : Nat] /\ new.score = NewScore(m) /\ new.count = lead.count + 1
  BY <1>3, <1>4
<1>6. lead' = new /\ new # Unscored
  BY <1>4, <1>5, ScoreAssumption
<1>7. PICK x : x = [scoring[m] EXCEPT !.pc = "done"]
  OBVIOUS
<1>8. /\ x \in [pc : {"off", "read", "insert", "update", "done", "failed"},
                says : Messages \cup {{}}, base : 0..100]
      /\ x.pc = "done"
  BY <1>1, <1>7 DEF ScoreTypeOK
<1>9. /\ scoring' = [scoring EXCEPT ![m] = x]
      /\ \A k \in Scorers : scoring'[k] = IF k = m THEN x ELSE scoring[k]
  BY <1>1, <1>7 DEF ScoreTypeOK
<1>10. ScoreTypeOK'
  BY <1>1, <1>5, <1>6, <1>8, <1>9 DEF ScoreTypeOK
<1>11. lead'.count = Cardinality(Scored)' /\ Backed(lead.score)'
  <2>1. Backed(new.score)'
    BY <1>2, <1>5
  <2>2. QED
    BY <1>1, <1>2, <1>5, <1>6, <2>1 DEF Backed
<1>12. \A k \in Scorers : ScoringHolds(k)'
  <2>1. ASSUME NEW k \in Scorers, k # m PROVE ScoringHolds(k)'
    <3>1. ScoringHolds(k) /\ scoring'[k] = scoring[k] /\ lead' # Unscored
      BY <1>6, <1>9, <2>1 DEF ScoreHolds
    <3>2. QED
      BY <1>2, <3>1 DEF ScoringHolds
  <2>2. ScoringHolds(m)'
    BY <1>2, <1>8, <1>9 DEF ScoringHolds
  <2>3. QED
    BY <2>1, <2>2
<1>13. \A k \in hot' : k \in Scored' /\ NewScore(k)' >= Threshold
  <2>1. \A k \in hot' : k \in hot \/ (k = m /\ NewScore(m) >= Threshold)
    OBVIOUS
  <2>2. \A k \in hot : k \in Scored /\ k \in Scorers /\ NewScore(k) >= Threshold
    BY DEF ScoreHolds, Scored
  <2>3. QED
    BY <1>2, <2>1, <2>2
<1>14. QED
  BY <1>2, <1>6, <1>10, <1>11, <1>12, <1>13 DEF ScoreHolds

\* Every move of a goroutine keeps the invariant of the scores.
LEMMA ScoreMoveHolds == ScoreHolds /\ ScoreMove => ScoreHolds'
<1> SUFFICES ASSUME ScoreHolds, ScoreMove PROVE ScoreHolds'
  OBVIOUS
<1> DEFINE Rec == [pc : {"off", "read", "insert", "update", "done", "failed"},
                   says : Messages \cup {{}}, base : 0..100]
<1>1. ScoreTypeOK /\ scoring \in [Scorers -> Rec]
  BY DEF ScoreHolds, ScoreTypeOK
<1>2. CASE UNCHANGED scoreVars
  <2>1. UNCHANGED <<lead, scoring, hot>>
    BY <1>2 DEF scoreVars
  <2>2. Scored' = Scored /\ \A k \in Scored : scoring'[k] = scoring[k]
    BY <2>1 DEF Scored
  <2>3. /\ \A v : Backed(v) => Backed(v)'
        /\ \A k : EndsChain(k) => EndsChain(k)'
    BY <2>2, ChainsStay
  <2>4. ScoreTypeOK'
    BY <1>1, <2>1 DEF ScoreTypeOK
  <2>5. \A k \in Scorers : ScoringHolds(k)'
    BY <2>1, <2>3 DEF ScoreHolds, ScoringHolds
  <2>6. lead' # Unscored => lead'.count = Cardinality(Scored)' /\ Backed(lead.score)'
    <3>1. Backed(lead.score)' <=> Backed(lead.score)
      BY <2>1 DEF Backed, Chains, ChainScore, NewScore, Scored
    <3>2. QED
      BY <2>1, <2>2, <3>1 DEF ScoreHolds
  <2>7. \A k \in hot' : k \in Scored' /\ NewScore(k)' >= Threshold
    BY <2>1, <2>2 DEF ScoreHolds, NewScore
  <2>8. QED
    BY <2>1, <2>2, <2>4, <2>5, <2>6, <2>7 DEF ScoreHolds
<1>3. ASSUME NEW m \in Scorers, ScoreAsync(m) PROVE ScoreHolds'
  <2>1. PICK says \in Messages :
          scoring' = [scoring EXCEPT ![m] = [pc |-> "read", says |-> says, base |-> 0]]
    BY <1>3 DEF ScoreAsync
  <2>2. PICK x : x = [pc |-> "read", says |-> says, base |-> 0]
    OBVIOUS
  <2>3. x \in Rec /\ x.pc = "read" /\ x.base = 0
    BY <2>2
  <2>4. scoring' = [scoring EXCEPT ![m] = x] /\ UNCHANGED <<lead, hot>> /\ m \notin Scored
    BY <1>3, <2>1, <2>2 DEF ScoreAsync, Scored
  <2>5. ScoreTypeOK'
    BY <1>1, <2>3, <2>4 DEF ScoreTypeOK
  <2>6. QED
    BY <2>3, <2>4, <2>5, UnscoredKeeps
<1>4. ASSUME NEW m \in Scorers, NEW pc \in {"insert", "update", "failed"},
             scoring' = [scoring EXCEPT ![m].pc = pc], UNCHANGED <<lead, hot>>,
             scoring[m].pc \in {"read", "insert", "update"},
             pc = "insert" => scoring[m].pc = "read",
             pc = "update" => FALSE
      PROVE  ScoreHolds'
  <2>1. PICK x : x = [scoring[m] EXCEPT !.pc = pc]
    OBVIOUS
  <2>2. x \in Rec /\ x.pc = pc /\ x.base = scoring[m].base
    BY <1>1, <2>1
  <2>3. scoring' = [scoring EXCEPT ![m] = x] /\ m \notin Scored
    BY <1>1, <1>4, <2>1 DEF Scored
  <2>4. ScoreTypeOK'
    BY <1>1, <1>4, <2>2, <2>3 DEF ScoreTypeOK
  <2>5. x.pc \in {"off", "read", "insert"} => x.base = 0
    BY <1>4, <2>2 DEF ScoreHolds, ScoringHolds
  <2>6. QED
    BY <1>4, <2>2, <2>3, <2>4, <2>5, UnscoredKeeps
<1>5. ASSUME NEW m \in Scorers, Fail(m), scoring[m].pc \in {"read", "insert", "update"}
      PROVE  ScoreHolds'
  BY <1>4, <1>5 DEF Fail
<1>6. ASSUME NEW m \in Scorers, ReadScore(m) PROVE ScoreHolds'
  <2>1. CASE Fail(m)
    BY <1>5, <1>6, <2>1 DEF ReadScore
  <2>2. CASE lead = Unscored /\ ~Fail(m)
    <3>1. scoring' = [scoring EXCEPT ![m].pc = "insert"] /\ UNCHANGED <<lead, hot>>
      BY <1>1, <1>6, <2>2 DEF ReadScore
    <3>2. QED
      BY <1>4, <1>6, <3>1 DEF ReadScore
  <2>3. CASE lead # Unscored /\ ~Fail(m)
    <3>1. PICK x : x = [[scoring[m] EXCEPT !.pc = "update"] EXCEPT !.base = lead.score]
      OBVIOUS
    <3>2. lead.score \in 0..100 /\ Backed(lead.score)
      BY <1>1, <2>3 DEF ScoreTypeOK, ScoreHolds
    <3>3. x \in Rec /\ x.pc = "update" /\ x.base = lead.score
      BY <1>1, <3>1, <3>2
    <3>4. scoring' = [scoring EXCEPT ![m] = x] /\ UNCHANGED <<lead, hot>> /\ m \notin Scored
      BY <1>1, <1>6, <2>3, <3>1 DEF ReadScore, Scored
    <3>5. ScoreTypeOK'
      BY <1>1, <3>3, <3>4 DEF ScoreTypeOK
    <3>6. QED
      BY <2>3, <3>2, <3>3, <3>4, <3>5, UnscoredKeeps
  <2>4. QED
    BY <2>1, <2>2, <2>3
<1>7. ASSUME NEW m \in Scorers, InsertScore(m) PROVE ScoreHolds'
  <2>1. CASE Fail(m)
    BY <1>5, <1>7, <2>1 DEF InsertScore
  <2>2. CASE lead # Unscored /\ scoring' = [scoring EXCEPT ![m].pc = "failed"] /\ UNCHANGED <<lead, hot>>
    BY <1>4, <1>7, <2>2 DEF InsertScore
  <2>3. CASE /\ lead = Unscored /\ lead' = [score |-> 0, count |-> 0]
             /\ scoring' = [scoring EXCEPT ![m].pc = "update"] /\ UNCHANGED hot
    <3>1. PICK new : new = [score |-> 0, count |-> 0]
      OBVIOUS
    <3>2. new \in [score : 0..100, count : Nat] /\ new.score = 0 /\ new.count = 0
      BY <3>1
    <3>3. lead' = new /\ new # Unscored
      BY <2>3, <3>1, <3>2, ScoreAssumption
    <3>4. PICK x : x = [scoring[m] EXCEPT !.pc = "update"]
      OBVIOUS
    <3>5. x \in Rec /\ x.pc = "update" /\ x.base = 0 /\ m \notin Scored
      BY <1>1, <1>7, <3>4 DEF InsertScore, ScoreHolds, ScoringHolds, Scored
    <3>6. scoring' = [scoring EXCEPT ![m] = x]
      BY <2>3, <3>4
    <3>7. ScoreTypeOK'
      BY <1>1, <2>3, <3>2, <3>3, <3>5, <3>6 DEF ScoreTypeOK
    <3>8. Backed(0)
      <4>1. Cardinality(Scored) = 0
        BY <2>3, FS_EmptySet DEF ScoreHolds
      <4>2. [i \in 1..0 |-> 0] \in [1..0 -> Scored]
        OBVIOUS
      <4>3. [i \in 1..0 |-> 0] \in Chains(0)
        BY <4>2 DEF Chains
      <4>4. ChainScore(0, [i \in 1..0 |-> 0]) = 0
        BY DEF ChainScore
      <4>5. QED
        BY <4>1, <4>3, <4>4 DEF Backed
    <3>9. QED
      BY <2>3, <3>2, <3>3, <3>5, <3>6, <3>7, <3>8, UnscoredKeeps
  <2>4. QED
    BY <1>7, <2>1, <2>2, <2>3 DEF InsertScore
<1>8. ASSUME NEW m \in Scorers, UpdateScore(m) PROVE ScoreHolds'
  BY <1>5, <1>8, UpdateKeeps DEF UpdateScore
<1>9. QED
  BY <1>2, <1>3, <1>6, <1>7, <1>8 DEF ScoreMove, ScoreStep

\* The invariant of the scores.
LEMMA ScoreInvariant == Spec => []ScoreHolds
<1>1. Init => ScoreHolds
  <2> SUFFICES ASSUME Init PROVE ScoreHolds
    OBVIOUS
  <2>1. ScoreInit
    BY DEF Init
  <2>2. \A m \in Scorers : scoring[m].pc = "off" /\ scoring[m].base = 0
    BY <2>1 DEF ScoreInit
  <2>3. Scored = {} /\ IsFiniteSet(Scored) /\ hot = {} /\ lead = Unscored
    BY <2>1, <2>2, FS_EmptySet DEF Scored, ScoreInit
  <2>4. ScoreTypeOK
    BY <2>1 DEF ScoreInit, ScoreTypeOK
  <2>5. QED
    BY <2>2, <2>3, <2>4 DEF ScoreHolds, ScoringHolds
<1>2. ScoreHolds /\ [Next]_vars => ScoreHolds'
  BY ScoreMoveHolds, NextScores
<1>3. QED
  BY <1>1, <1>2, PTL DEF Spec

\* However the messages of one lead are scored at once, each written one counts
\* once, the score is what a chain of them gives, and a hot lead had one behind it.
THEOREM ScoreSafety == Spec => []ScoreBacked
<1>1. ScoreHolds => ScoreBacked
  <2> SUFFICES ASSUME ScoreHolds PROVE ScoreBacked
    OBVIOUS
  <2>1. ASSUME NEW m \in hot
        PROVE  \E n \in 1..Cardinality(Scored) : \E q \in Chains(n) :
                  q[n] = m /\ ChainScore(n, q) >= Threshold
    <3>1. EndsChain(m) /\ NewScore(m) >= Threshold
      BY <2>1 DEF ScoreHolds, ScoringHolds, Scored
    <3>2. PICK n \in 1..Cardinality(Scored) : \E q \in Chains(n) : q[n] = m
      BY <3>1 DEF EndsChain
    <3>3. n # 0
      OBVIOUS
    <3>4. QED
      BY <3>1, <3>2, <3>3 DEF ChainScore
  <2>2. QED
    BY <2>1 DEF ScoreHolds, ScoreBacked, Backed
<1>2. QED
  BY <1>1, ScoreInvariant, PTL

-----------------------------------------------------------------------------
(* The agents, and the types of the turns. *)

\* Of any agents there are, one is the newest: a new one is newer than all.
NewestExists == \A S \in SUBSET Stored : S # {} => \E a \in S : \A b \in S : b <= a

AgentsHold == AgentTypeOK /\ NewestExists

\* An edit of the agents, or of the chat, leaves rows and a newest of any of them.
LEMMA AgentsKeep == AgentsHold /\ [Next]_vars => AgentsHold'
<1> SUFFICES ASSUME AgentsHold, [Next]_vars PROVE AgentsHold'
  OBVIOUS
<1>1. /\ agents \in [Agents -> AgentRow \cup {NoAgent}] /\ edits \in 0..MaxEdits
      /\ Agents \subseteq Nat /\ MaxEdits \in Nat
  BY AgentAssumption DEF AgentsHold, AgentTypeOK
<1>2. CASE UNCHANGED agents /\ edits' \in 0..MaxEdits
  BY <1>2 DEF AgentsHold, AgentTypeOK, NewestExists, Stored
<1>3. ASSUME NEW a \in Agents, NEW x \in AgentRow \cup {NoAgent}, Edit([agents EXCEPT ![a] = x]),
             a \in Stored \/ \A b \in Stored : b < a
      PROVE  AgentsHold'
  <2>1. agents' = [agents EXCEPT ![a] = x] /\ edits' \in 0..MaxEdits
    BY <1>1, <1>3 DEF Edit
  <2>2. AgentTypeOK'
    BY <1>1, <2>1 DEF AgentTypeOK
  <2>3. Stored' \subseteq Stored \cup {a} /\ Stored' \subseteq Agents
    BY <1>1, <2>1 DEF Stored
  <2>4. ASSUME NEW S \in SUBSET Stored', S # {} PROVE \E c \in S : \A b \in S : b <= c
    <3>1. CASE S \subseteq Stored
      BY <2>4, <3>1 DEF AgentsHold, NewestExists
    <3>2. CASE a \in S /\ a \notin Stored
      BY <1>1, <1>3, <2>3, <3>2 DEF Stored
    <3>3. QED
      BY <2>3, <3>1, <3>2
  <2>5. QED
    BY <2>2, <2>4 DEF AgentsHold, NewestExists
<1>4. ASSUME NEW a \in Stored PROVE a \in Agents /\ agents[a] \in AgentRow
  BY <1>1 DEF Stored
<1>5. CASE CreateAgent
  <2>1. PICK a \in Agents \ Stored, s \in Slugs, p \in Platforms :
          /\ \A b \in Stored : b < a
          /\ Edit([agents EXCEPT ![a] = [slug |-> s, platform |-> p, tools |-> {}]])
    BY <1>5 DEF CreateAgent
  <2>2. [slug |-> s, platform |-> p, tools |-> {}] \in AgentRow
    BY DEF AgentRow
  <2>3. QED
    BY <1>3, <2>1, <2>2
<1>6. CASE UpdateAgent
  <2>1. PICK a \in Stored, p \in Platforms :
          Edit([agents EXCEPT ![a] = [agents[a] EXCEPT !.platform = p]])
    BY <1>6 DEF UpdateAgent
  <2>2. [agents[a] EXCEPT !.platform = p] \in AgentRow
    BY <1>4 DEF AgentRow
  <2>3. QED
    BY <1>3, <1>4, <2>1, <2>2
<1>7. CASE DeleteAgent
  BY <1>3, <1>4, <1>7 DEF DeleteAgent
<1>8. CASE AssignTool \/ UnassignTool
  <2>1. PICK a \in Stored, tools \in SUBSET ToolIds :
          Edit([agents EXCEPT ![a] = [agents[a] EXCEPT !.tools = tools]])
    <3>1. \A a \in Stored : agents[a].tools \subseteq ToolIds
      BY <1>4 DEF AgentRow
    <3>2. CASE AssignTool
      <4>1. PICK a \in Stored, i \in ToolIds :
              Edit([agents EXCEPT ![a] = [agents[a] EXCEPT !.tools = agents[a].tools \cup {i}]])
        BY <3>2 DEF AssignTool
      <4>2. QED
        BY <3>1, <4>1
    <3>3. CASE UnassignTool
      <4>1. PICK a \in Stored, i \in ToolIds :
              Edit([agents EXCEPT ![a] = [agents[a] EXCEPT !.tools = agents[a].tools \ {i}]])
        BY <3>3 DEF UnassignTool
      <4>2. QED
        BY <3>1, <4>1
    <3>4. QED
      BY <1>8, <3>2, <3>3
  <2>2. [agents[a] EXCEPT !.tools = tools] \in AgentRow
    BY <1>4 DEF AgentRow
  <2>3. QED
    BY <1>3, <1>4, <2>1, <2>2
<1>9. CASE ClearHistory
  BY <1>1, <1>2, <1>9 DEF ClearHistory
<1>10. CASE UNCHANGED agentVars
  BY <1>1, <1>2, <1>10 DEF agentVars
<1>11. QED
  <2>1. ASSUME NEW t \in Turns, TurnStep(t) PROVE UNCHANGED agentVars
    BY <2>1 DEF TurnStep, Chat, ProcessVK, ResolveAgent, ResolveTools, Prepare, Answer, Complete,
       Execute, ToToolMessage, NextRound, StrictDecision, Decide, JSONFallback, agentVars
  <2>2. QED
    BY <1>5, <1>6, <1>7, <1>8, <1>9, <1>10, <2>1 DEF Next, AgentNext, OwnerRequest, vars

\* Whatever agents are active, the default one is an agent or none.
LEMMA DefaultType ==
    ASSUME AgentsHold, NEW platform
    PROVE  GetDefaultAgent(platform) \in Stored \cup {NoAgent}
<1> DEFINE on(p) == {a \in Stored : agents[a].platform = p}
<1>1. ASSUME NEW S \in SUBSET Stored, S # {} PROVE Newest(S) \in Stored
  <2>1. \E a \in S : \A b \in S : b <= a
    BY <1>1 DEF AgentsHold, NewestExists
  <2>2. QED
    BY <2>1 DEF Newest
<1>2. on(platform) \in SUBSET Stored /\ on("all") \in SUBSET Stored
  OBVIOUS
<1>3. GetDefaultAgent(platform) =
        CASE on(platform) # {} -> Newest(on(platform))
          [] on(platform) = {} /\ on("all") # {} -> Newest(on("all"))
          [] on(platform) = {} /\ on("all") = {} /\ Stored # {} -> Newest(Stored)
          [] OTHER -> NoAgent
  BY DEF GetDefaultAgent, listAgents
<1> HIDE DEF on
<1>4. QED
  BY <1>1, <1>2, <1>3

ToolSet == {Everything, {}} \cup SUBSET ToolIds
Outs == {"", "answer", "limit", "error", "draft", "auto_reply", "escalate", "other"}

\* Where a turn may go from r.
Path(r, y) ==
    \/ r.pc = "idle" /\ y.pc = "agent" /\ (y.kind = r.kind \/ y.kind = "social")
    \/ r.pc \in {"agent", "tools"} /\ y.pc \in {"tools", "rag"} /\ y.kind = r.kind
    \/ r.pc = "rag" /\ r.kind = "chat" /\ y.pc \in {"answer", "ask"} /\ y.kind = "chat"
    \/ r.pc = "rag" /\ r.kind = "social" /\ y.pc \in {"decide", "done"} /\ y.kind = "social"
    \/ r.pc = "answer" /\ y.pc = "done" /\ y.out = "answer" /\ y.kind = r.kind
    \/ r.pc = "ask" /\ y.pc \in {"answer", "calls"} /\ y.kind = r.kind
    \/ r.pc = "ask" /\ y.pc = "done" /\ y.out \in {"error", "limit"} /\ y.kind = r.kind
    \/ /\ r.pc \in {"calls", "crm"} /\ y.pc \in {"calls", "crm", "ask"} /\ y.kind = r.kind
       /\ y.pc = "crm" => y.left > 0
    \/ r.pc \in {"decide", "fallback"} /\ y.pc \in {"fallback", "done"} /\ y.kind = r.kind

Goes(t, y) == turn' = [turn EXCEPT ![t] = y] /\ Path(turn[t], y)

TurnsTyped == turn \in [Turns -> Turn] /\ \A t \in Turns : turn[t].pc = "crm" => turn[t].left > 0

\* The calls that rag-service, agent-service and the model answer.
LEMMA EarlyType ==
    ASSUME TurnsTyped, AgentsHold, NEW t \in Turns,
           Chat(t) \/ ProcessVK(t) \/ ResolveAgent(t) \/ ResolveTools(t) \/ Prepare(t) \/ Answer(t)
    PROVE  \E y \in Turn : Goes(t, y)
<1> DEFINE r == turn[t]
<1>1. r \in Turn /\ turn \in [Turns -> Turn] /\ Stored \subseteq Agents
  BY DEF TurnsTyped, Stored
<1>2. CASE Chat(t)
  <2>1. PICK pinned \in Agents \cup {NoAgent} :
          turn' = [turn EXCEPT ![t] = [[r EXCEPT !.pc = "agent"] EXCEPT !.agent = pinned]]
    BY <1>1, <1>2 DEF Chat
  <2>2. PICK y : y = [[r EXCEPT !.pc = "agent"] EXCEPT !.agent = pinned]
    OBVIOUS
  <2>3. y \in Turn /\ y.pc = "agent" /\ y.kind = r.kind
    BY <1>1, <2>2 DEF Turn
  <2>4. QED
    BY <1>2, <2>1, <2>2, <2>3 DEF Goes, Path, Chat
<1>3. CASE ProcessVK(t)
  <2>1. PICK c \in {"none", "on", "off"} : turn' = [turn EXCEPT ![t] =
                   [[[r EXCEPT !.pc = "agent"] EXCEPT !.kind = "social"] EXCEPT !.consent = c]]
    BY <1>1, <1>3 DEF ProcessVK
  <2>2. PICK y : y = [[[r EXCEPT !.pc = "agent"] EXCEPT !.kind = "social"] EXCEPT !.consent = c]
    OBVIOUS
  <2>3. y \in Turn /\ y.pc = "agent" /\ y.kind = "social"
    BY <1>1, <2>2 DEF Turn
  <2>4. QED
    BY <1>3, <2>1, <2>2, <2>3 DEF Goes, Path, ProcessVK
<1>4. ASSUME NEW a \in Agents \cup {NoAgent}, NEW allow \in ToolSet, Resolved(t, a, allow),
             r.pc \in {"agent", "tools"}
      PROVE  \E y \in Turn : Goes(t, y)
  <2>1. PICK y : y = [[[r EXCEPT !.agent = a] EXCEPT !.allow = allow] EXCEPT !.pc = "rag"]
    OBVIOUS
  <2>2. y \in Turn /\ y.pc = "rag" /\ y.kind = r.kind
    BY <1>1, <2>1 DEF Turn, ToolSet
  <2>3. turn' = [turn EXCEPT ![t] = y]
    BY <1>1, <1>4, <2>1 DEF Resolved
  <2>4. QED
    BY <1>4, <2>2, <2>3 DEF Goes, Path
<1>5. CASE ResolveAgent(t)
  <2>1. RouteAgent(t) \subseteq Agents \cup {NoAgent}
    BY <1>1, DefaultType DEF RouteAgent, GetAgentByID, ActiveAgents, listAgents
  <2>2. CASE \E a \in RouteAgent(t) \ {NoAgent} :
               turn' = [turn EXCEPT ![t].agent = a, ![t].pc = "tools"]
    <3>1. PICK a \in Agents : turn' = [turn EXCEPT ![t] = [[r EXCEPT !.agent = a] EXCEPT !.pc = "tools"]]
      BY <1>1, <2>1, <2>2
    <3>2. PICK y : y = [[r EXCEPT !.agent = a] EXCEPT !.pc = "tools"]
      OBVIOUS
    <3>3. y \in Turn /\ y.pc = "tools" /\ y.kind = r.kind
      BY <1>1, <3>2 DEF Turn
    <3>4. QED
      BY <1>5, <3>1, <3>2, <3>3 DEF Goes, Path, ResolveAgent
  <2>3. CASE Resolved(t, NoAgent, Everything)
    BY <1>4, <1>5, <2>3 DEF ResolveAgent, ToolSet
  <2>4. QED
    BY <1>5, <2>2, <2>3 DEF ResolveAgent
<1>6. CASE ResolveTools(t)
  <2>1. r.agent \in Agents \cup {NoAgent}
    BY <1>1 DEF Turn
  <2>2. GetAgentTools(r.agent) \in SUBSET ToolIds
    BY DEF GetAgentTools, Stored, AgentsHold, AgentTypeOK, AgentRow
  <2>3. CoreBuiltins \in ToolSet /\ Everything \in ToolSet /\ GetAgentTools(r.agent) \in ToolSet
    BY <2>2 DEF CoreBuiltins, ToolSet, ToolIds, RegistryIds
  <2>4. r.pc = "tools"
    BY <1>6 DEF ResolveTools
  <2>5. \E allow \in ToolSet : Resolved(t, r.agent, allow)
    BY <1>6, <2>3 DEF ResolveTools
  <2>6. QED
    BY <1>4, <2>1, <2>4, <2>5
<1>7. CASE Prepare(t)
  <2>1. r.pc = "rag" /\ r.kind = "chat"
    BY <1>7 DEF Prepare
  <2>2. CASE Go(t, "answer")
    <3>1. PICK y : y = [r EXCEPT !.pc = "answer"]
      OBVIOUS
    <3>2. y \in Turn /\ y.pc = "answer" /\ y.kind = r.kind
      BY <1>1, <3>1 DEF Turn
    <3>3. QED
      BY <2>1, <2>2, <3>1, <3>2 DEF Goes, Path, Go
  <2>3. CASE turn' = [turn EXCEPT ![t].pc = "ask", ![t].offered = GetTools(turn[t].allow),
                                  ![t].allow = {}]
    <3>1. PICK tools \in SUBSET Tools : tools = GetTools(turn[t].allow)
      BY DEF GetTools
    <3>2. turn' = [turn EXCEPT ![t].pc = "ask", ![t].offered = tools, ![t].allow = {}]
      BY <2>3, <3>1
    <3>3. PICK y : y = [[[r EXCEPT !.pc = "ask"] EXCEPT !.offered = tools] EXCEPT !.allow = {}]
      OBVIOUS
    <3>4. y \in Turn /\ y.pc = "ask" /\ y.kind = r.kind
      BY <1>1, <3>3 DEF Turn
    <3>5. turn' = [turn EXCEPT ![t] = y]
      BY <1>1, <3>2, <3>3
    <3>6. QED
      BY <2>1, <3>4, <3>5 DEF Goes, Path
  <2>4. QED
    BY <1>7, <2>2, <2>3 DEF Prepare
<1>8. CASE Answer(t)
  <2>1. PICK y : y = [[r EXCEPT !.pc = "done"] EXCEPT !.out = "answer"]
    OBVIOUS
  <2>2. y \in Turn /\ y.pc = "done" /\ y.kind = r.kind /\ y.out = "answer"
    BY <1>1, <2>1 DEF Turn
  <2>3. turn' = [turn EXCEPT ![t] = y]
    BY <1>1, <1>8, <2>1 DEF Answer, End
  <2>4. QED
    BY <1>8, <2>2, <2>3 DEF Goes, Path, Answer
<1>9. QED
  BY <1>2, <1>3, <1>5, <1>6, <1>7, <1>8

\* The rounds of the model and its tools.
LEMMA RoundType ==
    ASSUME TurnsTyped, NEW t \in Turns,
           Complete(t) \/ Execute(t) \/ ToToolMessage(t) \/ NextRound(t)
    PROVE  \E y \in Turn : Goes(t, y)
<1> DEFINE r == turn[t]
<1>1. r \in Turn /\ turn \in [Turns -> Turn] /\ r.round \in Nat /\ r.left \in Nat /\ r.alerts \in Nat
  BY DEF TurnsTyped, Turn
<1>2. CASE Complete(t)
  <2>0. r.pc = "ask"
    BY <1>2 DEF Complete
  <2>1. CASE Go(t, "answer")
    <3>1. PICK y : y = [r EXCEPT !.pc = "answer"]
      OBVIOUS
    <3>2. y \in Turn /\ y.pc = "answer" /\ y.kind = r.kind
      BY <1>1, <3>1 DEF Turn
    <3>3. QED
      BY <2>0, <2>1, <3>1, <3>2 DEF Goes, Path, Go
  <2>2. CASE \E n \in 1..MaxCalls :
               turn' = [turn EXCEPT ![t].pc = "calls", ![t].left = n, ![t].round = @ + 1]
    <3>1. PICK n \in 1..MaxCalls :
            turn' = [turn EXCEPT ![t].pc = "calls", ![t].left = n, ![t].round = @ + 1]
      BY <2>2
    <3>2. PICK y : y = [[[r EXCEPT !.pc = "calls"] EXCEPT !.left = n] EXCEPT !.round = r.round + 1]
      OBVIOUS
    <3>3. n \in Nat /\ r.round + 1 \in Nat
      BY <1>1, DialogueAssumption
    <3>4. y \in Turn /\ y.pc = "calls" /\ y.kind = r.kind
      BY <1>1, <3>2, <3>3 DEF Turn
    <3>5. r.round = [[r EXCEPT !.pc = "calls"] EXCEPT !.left = n].round
      BY <1>1 DEF Turn
    <3>6. turn' = [turn EXCEPT ![t] = y]
      BY <1>1, <3>1, <3>2, <3>5
    <3>7. QED
      BY <2>0, <3>4, <3>6 DEF Goes, Path
  <2>3. ASSUME NEW out \in {"error", "limit"}, End(t, out) PROVE \E y \in Turn : Goes(t, y)
    <3>1. PICK y : y = [[r EXCEPT !.pc = "done"] EXCEPT !.out = out]
      OBVIOUS
    <3>2. y \in Turn /\ y.pc = "done" /\ y.kind = r.kind /\ y.out = out
      BY <1>1, <3>1 DEF Turn
    <3>3. turn' = [turn EXCEPT ![t] = y]
      BY <1>1, <2>3, <3>1 DEF End
    <3>4. QED
      BY <2>0, <3>2, <3>3 DEF Goes, Path
  <2>4. QED
    BY <1>2, <2>1, <2>2, <2>3 DEF Complete
<1>3. CASE Execute(t)
  <2>0. r.pc = "calls" /\ r.left > 0
    BY <1>3 DEF Execute, HandleSaveContact, executeHTTPWebhook, CallOperator, Calls
  <2>9. PICK n \in Nat : n = r.left - 1
    BY <1>1, <2>0
  <2>1. CASE HandleSaveContact(t) \/ executeHTTPWebhook(t)
    <3>1. PICK y : y = [r EXCEPT !.left = n]
      OBVIOUS
    <3>2. y \in Turn /\ y.pc = "calls" /\ y.kind = r.kind
      BY <1>1, <2>0, <3>1 DEF Turn
    <3>3. turn' = [turn EXCEPT ![t] = y]
      BY <1>1, <2>9, <2>1, <3>1 DEF HandleSaveContact, executeHTTPWebhook
    <3>4. QED
      BY <2>0, <3>2, <3>3 DEF Goes, Path
  <2>2. CASE CallOperator(t)
    <3>1. PICK y : y = [[r EXCEPT !.left = n] EXCEPT !.operator = TRUE]
      OBVIOUS
    <3>2. y \in Turn /\ y.pc = "calls" /\ y.kind = r.kind
      BY <1>1, <2>0, <3>1 DEF Turn
    <3>3. turn' = [turn EXCEPT ![t] = y]
      BY <1>1, <2>9, <2>2, <3>1 DEF CallOperator
    <3>4. QED
      BY <2>0, <3>2, <3>3 DEF Goes, Path
  <2>3. CASE Go(t, "crm")
    <3>1. PICK y : y = [r EXCEPT !.pc = "crm"]
      OBVIOUS
    <3>2. y \in Turn /\ y.pc = "crm" /\ y.kind = r.kind /\ y.left = r.left
      BY <1>1, <2>0, <3>1 DEF Turn
    <3>3. turn' = [turn EXCEPT ![t] = y]
      BY <1>1, <2>3, <3>1 DEF Go
    <3>4. QED
      BY <2>0, <3>2, <3>3 DEF Goes, Path
  <2>4. QED
    BY <1>3, <2>1, <2>2, <2>3 DEF Execute
<1>4. CASE ToToolMessage(t)
  <2>0. r.pc = "crm" /\ r.left > 0
    BY <1>4 DEF ToToolMessage, TurnsTyped
  <2>9. PICK n \in Nat : n = r.left - 1
    BY <1>1, <2>0
  <2>1. PICK y : y = [[r EXCEPT !.pc = "calls"] EXCEPT !.left = n]
    OBVIOUS
  <2>2. y \in Turn /\ y.pc = "calls" /\ y.kind = r.kind
    BY <1>1, <2>0, <2>1 DEF Turn
  <2>3. [r EXCEPT !.pc = "calls"].left = r.left
    BY <1>1 DEF Turn
  <2>4. turn' = [turn EXCEPT ![t] = y]
    BY <1>1, <1>4, <2>9, <2>1, <2>3 DEF ToToolMessage
  <2>5. QED
    BY <2>0, <2>2, <2>4 DEF Goes, Path
<1>5. CASE NextRound(t)
  <2>0. r.pc = "calls"
    BY <1>5 DEF NextRound
  <2>1. PICK n \in Nat : n = Alert(r.alerts, r.operator)
    BY <1>1 DEF Alert
  <2>2. PICK y : y = [[r EXCEPT !.pc = "ask"] EXCEPT !.alerts = n]
    OBVIOUS
  <2>3. y \in Turn /\ y.pc = "ask" /\ y.kind = r.kind
    BY <1>1, <2>2 DEF Turn
  <2>4. [r EXCEPT !.pc = "ask"].alerts = r.alerts
    BY <1>1 DEF Turn
  <2>5. turn' = [turn EXCEPT ![t] = y]
    BY <1>1, <1>5, <2>1, <2>2, <2>4 DEF NextRound
  <2>6. QED
    BY <2>0, <2>3, <2>5 DEF Goes, Path
<1>6. QED
  BY <1>2, <1>3, <1>4, <1>5

\* The decision about a VK message.
LEMMA DecisionType ==
    ASSUME TurnsTyped, NEW t \in Turns, StrictDecision(t) \/ Decide(t) \/ JSONFallback(t)
    PROVE  \E y \in Turn : Goes(t, y)
<1> DEFINE r == turn[t]
<1>1. r \in Turn /\ turn \in [Turns -> Turn] /\ r.alerts \in Nat
  BY DEF TurnsTyped, Turn
<1>2. \/ r.pc = "rag" /\ r.kind = "social"
      \/ r.pc \in {"decide", "fallback"}
  BY DEF StrictDecision, Decide, JSONFallback
<1>3. ASSUME NEW pc, Go(t, pc), pc = IF r.pc = "rag" THEN "decide" ELSE "fallback"
      PROVE  \E y \in Turn : Goes(t, y)
  <2>1. PICK y : y = [r EXCEPT !.pc = pc]
    OBVIOUS
  <2>2. y \in Turn /\ y.pc = pc /\ y.kind = r.kind
    BY <1>1, <1>3, <2>1 DEF Turn
  <2>3. turn' = [turn EXCEPT ![t] = y]
    BY <1>1, <1>3, <2>1 DEF Go
  <2>4. QED
    BY <1>2, <1>3, <2>2, <2>3 DEF Goes, Path
<1>4. ASSUME NEW out \in Outs, NEW n \in Nat, NEW b \in BOOLEAN,
             turn' = [turn EXCEPT ![t] =
                         [[[[r EXCEPT !.pc = "done"] EXCEPT !.out = out] EXCEPT !.alerts = n]
                            EXCEPT !.back = b]]
      PROVE  \E y \in Turn : Goes(t, y)
  <2>1. PICK y : y = [[[[r EXCEPT !.pc = "done"] EXCEPT !.out = out] EXCEPT !.alerts = n]
                        EXCEPT !.back = b]
    OBVIOUS
  <2>2. y \in Turn /\ y.pc = "done" /\ y.kind = r.kind
    BY <1>1, <2>1 DEF Turn, Outs
  <2>3. turn' = [turn EXCEPT ![t] = y]
    BY <1>4, <2>1
  <2>4. QED
    BY <1>2, <2>2, <2>3 DEF Goes, Path
<1>5. ASSUME NEW out \in Outs, End(t, out) PROVE \E y \in Turn : Goes(t, y)
  <2>1. r.back \in BOOLEAN
    BY <1>1 DEF Turn
  <2>2. [[r EXCEPT !.pc = "done"] EXCEPT !.out = out] =
        [[[[r EXCEPT !.pc = "done"] EXCEPT !.out = out] EXCEPT !.alerts = r.alerts]
           EXCEPT !.back = r.back]
    BY <1>1 DEF Turn
  <2>3. turn' = [turn EXCEPT ![t] = [[r EXCEPT !.pc = "done"] EXCEPT !.out = out]]
    BY <1>1, <1>5 DEF End
  <2>4. QED
    BY <1>1, <1>4, <2>1, <2>2, <2>3
<1>6. \A mode \in Modes : Downgrade(t, mode) \in Outs
  BY DEF Downgrade, Modes, Outs
<1>7. CASE StrictDecision(t)
  <2>1. Downgrade(t, "auto_reply") \in Outs
    BY <1>6 DEF Modes
  <2>2. QED
    BY <1>3, <1>5, <1>7, <2>1 DEF StrictDecision
<1>8. ASSUME NEW mode \in Modes, NEW n \in Nat, NEW b \in BOOLEAN,
             turn' = [turn EXCEPT ![t] =
                         [[[[r EXCEPT !.pc = "done"] EXCEPT !.out = Downgrade(t, mode)] EXCEPT !.alerts = n]
                            EXCEPT !.back = b]]
      PROVE  \E y \in Turn : Goes(t, y)
  BY <1>4, <1>6, <1>8
<1>9. CASE Decide(t)
  <2>1. ASSUME NEW mode \in Modes,
               turn' = [turn EXCEPT ![t].pc = "done", ![t].out = Downgrade(t, mode),
                                    ![t].alerts = Alert(@, mode = "escalate")]
        PROVE  \E y \in Turn : Goes(t, y)
    <3>1. PICK out \in Outs : out = Downgrade(t, mode)
      BY <1>6
    <3>2. PICK n \in Nat : n = Alert(r.alerts, mode = "escalate")
      BY <1>1 DEF Alert
    <3>3. [[r EXCEPT !.pc = "done"] EXCEPT !.out = out].alerts = r.alerts /\ r.back \in BOOLEAN
      BY <1>1 DEF Turn
    <3>4. [[[r EXCEPT !.pc = "done"] EXCEPT !.out = out] EXCEPT !.alerts = n] =
          [[[[r EXCEPT !.pc = "done"] EXCEPT !.out = out] EXCEPT !.alerts = n] EXCEPT !.back = r.back]
      BY <1>1 DEF Turn
    <3>5. turn' = [turn EXCEPT ![t] = [[[r EXCEPT !.pc = "done"] EXCEPT !.out = out] EXCEPT !.alerts = n]]
      BY <1>1, <2>1, <3>1, <3>2, <3>3
    <3>6. QED
      BY <1>4, <3>3, <3>4, <3>5
  <2>2. CASE \E content \in Modes \cup {"text"} :
               LET parsed == parseVKDecisionContent(content)
               IN  \E mode \in IF parsed = {} THEN {"draft"} ELSE parsed :
                      turn' = [turn EXCEPT ![t].pc = "done", ![t].out = Downgrade(t, mode),
                                           ![t].alerts = Alert(@, mode = "escalate")]
    <3>1. "draft" \in Modes /\ \A content : parseVKDecisionContent(content) \subseteq Modes
      BY DEF Modes, parseVKDecisionContent
    <3>2. PICK mode \in Modes :
            turn' = [turn EXCEPT ![t].pc = "done", ![t].out = Downgrade(t, mode),
                                 ![t].alerts = Alert(@, mode = "escalate")]
      BY <2>2, <3>1
    <3>3. QED
      BY <2>1, <3>2
  <2>3. "error" \in Outs
    BY DEF Outs
  <2>4. QED
    BY <1>3, <1>5, <1>9, <2>2, <2>3 DEF Decide
<1>10. CASE JSONFallback(t)
  <2>1. ASSUME NEW mode \in Modes,
               turn' = [turn EXCEPT ![t].pc = "done", ![t].out = Downgrade(t, mode), ![t].back = TRUE]
        PROVE  \E y \in Turn : Goes(t, y)
    <3>1. PICK out \in Outs : out = Downgrade(t, mode)
      BY <1>6
    <3>2. [[[r EXCEPT !.pc = "done"] EXCEPT !.out = out] EXCEPT !.back = TRUE] =
          [[[[r EXCEPT !.pc = "done"] EXCEPT !.out = out] EXCEPT !.alerts = r.alerts] EXCEPT !.back = TRUE]
      BY <1>1 DEF Turn
    <3>3. turn' = [turn EXCEPT ![t] = [[[r EXCEPT !.pc = "done"] EXCEPT !.out = out] EXCEPT !.back = TRUE]]
      BY <1>1, <2>1, <3>1
    <3>4. QED
      BY <1>1, <1>4, <3>2, <3>3
  <2>2. \A content : parseVKDecisionContent(content) \subseteq Modes
    BY DEF Modes, parseVKDecisionContent
  <2>3. "error" \in Outs
    BY DEF Outs
  <2>4. QED
    BY <1>5, <1>10, <2>1, <2>2, <2>3 DEF JSONFallback
<1>11. QED
  BY <1>7, <1>9, <1>10

\* Every step leaves the turns alone, or is a step of one that moves along its path.
LEMMA TurnsMove ==
    ASSUME TurnsTyped, AgentsHold, [Next]_vars
    PROVE  UNCHANGED turn \/ \E t \in Turns : TurnStep(t) /\ \E y \in Turn : Goes(t, y)
<1>1. ASSUME NEW t \in Turns, TurnStep(t) PROVE \E y \in Turn : Goes(t, y)
  BY <1>1, EarlyType, RoundType, DecisionType DEF TurnStep
<1>2. CASE \A t \in Turns : ~TurnStep(t)
  BY <1>2 DEF Next, OwnerRequest, ClearHistory, vars, dialogueVars
<1>3. QED
  BY <1>1, <1>2

\* Every step keeps the type of the turns.
LEMMA TurnsKeep == TurnsTyped /\ AgentsHold /\ [Next]_vars => TurnsTyped'
<1> SUFFICES ASSUME TurnsTyped, AgentsHold, [Next]_vars PROVE TurnsTyped'
  OBVIOUS
<1>1. CASE UNCHANGED turn
  BY <1>1 DEF TurnsTyped
<1>2. ASSUME NEW t \in Turns, NEW y \in Turn, Goes(t, y) PROVE TurnsTyped'
  <2>1. y.pc = "crm" => y.left > 0
    BY <1>2 DEF Goes, Path
  <2>2. turn' = [turn EXCEPT ![t] = y] /\ turn \in [Turns -> Turn]
    BY <1>2 DEF Goes, TurnsTyped
  <2>3. QED
    BY <2>1, <2>2 DEF TurnsTyped
<1>3. QED
  BY <1>1, <1>2, TurnsMove

-----------------------------------------------------------------------------
(* The chat. Whatever was stored of a turn is there once, in its order; a  *)
(* message whose INSERT failed, or that the owner cleared, is a gap.       *)

Roles == {"user", "assistant"}

ChatTyped == chat \in Seq([of : Turns, role : Roles]) /\ gaps \subseteq Turns

\* An INSERT puts one message at the end, or leaves a gap.
LEMMA AppendAdds ==
    ASSUME ChatTyped, NEW t \in Turns, NEW role \in Roles, AppendMessage(t, role)
    PROVE  /\ ChatTyped'
           /\ \A u \in Turns, s \in Roles : u # t \/ s # role => Said(u, s)' = Said(u, s)
           /\ \/ Said(t, role)' = Said(t, role) \cup {Len(chat) + 1} /\ UNCHANGED gaps
              \/ Said(t, role)' = Said(t, role) /\ gaps' = gaps \cup {t}
<1>1. CASE gaps' = gaps \cup {t} /\ UNCHANGED chat
  BY <1>1 DEF ChatTyped, Said
<1>2. CASE chat' = Append(chat, [of |-> t, role |-> role]) /\ UNCHANGED gaps
  <2>1. PICK x \in [of : Turns, role : Roles] : x = [of |-> t, role |-> role]
    OBVIOUS
  <2>2. chat' = Append(chat, x)
    BY <1>2, <2>1
  <2>3. chat' \in Seq([of : Turns, role : Roles])
    BY <2>2 DEF ChatTyped
  <2>4. /\ DOMAIN chat' = 1..(Len(chat) + 1) /\ DOMAIN chat = 1..Len(chat) /\ Len(chat) \in Nat
        /\ \A i \in 1..Len(chat) : chat'[i] = chat[i]
        /\ chat'[Len(chat) + 1] = x
    BY <2>2 DEF ChatTyped
  <2>5. ASSUME NEW u \in Turns, NEW s \in Roles
        PROVE  Said(u, s)' = Said(u, s) \cup (IF u = t /\ s = role THEN {Len(chat) + 1} ELSE {})
    <3>1. x = [of |-> u, role |-> s] <=> u = t /\ s = role
      BY <2>1
    <3>2. \A i \in DOMAIN chat' : i \in DOMAIN chat \/ i = Len(chat) + 1
      BY <2>4
    <3>3. QED
      BY <2>4, <3>1, <3>2 DEF Said
  <2>6. /\ \A u \in Turns, s \in Roles : u # t \/ s # role => Said(u, s)' = Said(u, s)
        /\ Said(t, role)' = Said(t, role) \cup {Len(chat) + 1}
    BY <2>5 DEF Said
  <2>7. ChatTyped'
    BY <1>2, <2>3 DEF ChatTyped
  <2>8. QED
    BY <1>2, <2>6, <2>7
<1>3. QED
  BY <1>1, <1>2 DEF AppendMessage

\* Only a question, an answer and the owner change the chat.
LEMMA ChatKeeps == ChatTyped /\ [Next]_vars => ChatTyped'
<1> SUFFICES ASSUME ChatTyped, [Next]_vars PROVE ChatTyped'
  OBVIOUS
<1>1. CASE UNCHANGED <<chat, gaps>>
  BY <1>1 DEF ChatTyped
<1>2. ASSUME NEW t \in Turns, TurnStep(t) PROVE ChatTyped'
  <2>1. CASE Prepare(t) \/ Answer(t)
    BY <2>1, AppendAdds DEF Prepare, Answer, Roles
  <2>2. CASE ~(Prepare(t) \/ Answer(t))
    <3>1. UNCHANGED <<chat, gaps>>
      BY <1>2, <2>2 DEF TurnStep, Chat, ProcessVK, ResolveAgent, ResolveTools, Complete, Execute,
         ToToolMessage, NextRound, StrictDecision, Decide, JSONFallback
    <3>2. QED
      BY <1>1, <3>1
  <2>3. QED
    BY <2>1, <2>2
<1>3. CASE ClearHistory
  BY <1>3 DEF ClearHistory, ChatTyped
<1>4. QED
  <2>1. CASE ~ClearHistory /\ \A t \in Turns : ~TurnStep(t)
    BY <1>1, <2>1 DEF Next, OwnerRequest, vars, dialogueVars
  <2>2. QED
    BY <1>2, <1>3, <2>1

\* The turns, the agents and the chat together.
TurnsHold == TurnsTyped /\ AgentsHold /\ ChatTyped

\* What the turns of a conversation hold, all the time.
LEMMA TurnsInvariant == Spec => []TurnsHold
<1>1. Init => TurnsHold
  <2> SUFFICES ASSUME Init PROVE TurnsHold
    OBVIOUS
  <2>1. PICK r : r = [pc |-> "idle", kind |-> "chat", consent |-> "none", agent |-> NoAgent,
           allow |-> {}, offered |-> {}, round |-> 0, left |-> 0, operator |-> FALSE,
           alerts |-> 0, back |-> FALSE, out |-> ""]
    OBVIOUS
  <2>2. r \in Turn /\ r.pc = "idle"
    BY <2>1 DEF Turn
  <2>3. turn = [t \in Turns |-> r] /\ AgentInit /\ chat = <<>> /\ gaps = {}
    BY <2>1 DEF Init
  <2>4. TurnsTyped /\ ChatTyped
    BY <2>2, <2>3 DEF TurnsTyped, ChatTyped
  <2>5. AgentsHold
    <3>1. Stored = {}
      BY <2>3 DEF AgentInit, Stored
    <3>2. AgentTypeOK
      BY <2>3, AgentAssumption DEF AgentInit, AgentTypeOK
    <3>3. QED
      BY <3>1, <3>2 DEF AgentsHold, NewestExists
  <2>6. QED
    BY <2>4, <2>5 DEF TurnsHold
<1>2. TurnsHold /\ [Next]_vars => TurnsHold'
  BY TurnsKeep, AgentsKeep, ChatKeeps DEF TurnsHold
<1>3. QED
  BY <1>1, <1>2, PTL DEF Spec

\* Every state of the turns, the store, the scores and the agents has its type:
\* a turn runs with an agent there is or none, with tools the registry knows.
THEOREM TypeInvariant == Spec => []TypeOK
<1>1. CrmHolds /\ ScoreHolds /\ TurnsHold => TypeOK
  <2> SUFFICES ASSUME CrmHolds, ScoreHolds, TurnsHold PROVE TypeOK
    OBVIOUS
  <2>1. CrmTypeOK
    BY DEF CrmHolds
  <2>2. ScoreTypeOK
    BY DEF ScoreHolds
  <2>3. AgentTypeOK /\ turn \in [Turns -> Turn]
    BY DEF TurnsHold, TurnsTyped, AgentsHold
  <2>4. gaps \subseteq Turns /\ \A i \in DOMAIN chat : chat[i] \in [of : Turns, role : {"user", "assistant"}]
    <3>1. PICK M : M = [of : Turns, role : {"user", "assistant"}]
      OBVIOUS
    <3>2. gaps \subseteq Turns /\ chat \in Seq(M)
      BY <3>1 DEF TurnsHold, ChatTyped, Roles
    <3>3. \A i \in DOMAIN chat : chat[i] \in M
      BY <3>2
    <3>4. QED
      BY <3>1, <3>2, <3>3
  <2>5. QED
    BY <2>1, <2>2, <2>3, <2>4 DEF TypeOK
<1>2. QED
  BY <1>1, StoreInvariant, ScoreInvariant, TurnsInvariant, PTL

-----------------------------------------------------------------------------
(* The record of a turn: what is in the chat of it, and what is scored.    *)

Early == {"idle", "agent", "tools", "rag"}
Answered(r) == r.pc = "done" /\ r.out = "answer"
Off(t) == scoring[t].pc = "off"

\* The question is stored on the way to the model, the answer and the score go
\* with the end of the turn. A turn of VK stores nothing.
Recorded(t) ==
    LET r == turn[t]
    IN  /\ r.pc \in {"decide", "fallback"} => r.kind = "social"
        /\ r.pc # "done" => Off(t)
        /\ r.kind = "chat" =>
              /\ r.pc = "done" => (Off(t) <=> ~Answered(r))
              /\ r.pc \in Early => Said(t, "user") = {}
              /\ ~Answered(r) => Said(t, "assistant") = {}
              /\ r.pc \notin Early /\ t \notin gaps =>
                    \E i \in Nat : /\ Said(t, "user") = {i}
                                   /\ Answered(r) => \E j \in Nat : i < j /\ Said(t, "assistant") = {j}

RecordsHold == \A t \in Turns : Recorded(t)

\* What a step changes of a turn is its own step, its score, or a gap it leaves.
LEMMA RecordStays ==
    ASSUME NEW t \in Turns, Recorded(t), turn'[t] = turn[t], Off(t)' <=> Off(t),
           \A s \in Roles : Said(t, s)' = Said(t, s), t \in gaps => t \in gaps'
    PROVE  Recorded(t)'
<1>1. Said(t, "user")' = Said(t, "user") /\ Said(t, "assistant")' = Said(t, "assistant")
  BY DEF Roles
<1>2. QED
  BY <1>1 DEF Recorded, Answered

\* A turn that stores nothing has started, goes on, ends without an answer, or is
\* one of VK.
LEMMA SilentRecord ==
    ASSUME NEW t \in Turns, NEW y, Recorded(t), turn'[t] = y, Path(turn[t], y),
           ~Prepare(t), ~Answer(t), TurnStep(t), TurnsTyped, ScoreTypeOK,
           \A s \in Roles : Said(t, s)' = Said(t, s), gaps' = gaps
    PROVE  Recorded(t)'
<1> DEFINE r == turn[t]
<1>1. Said(t, "user")' = Said(t, "user") /\ Said(t, "assistant")' = Said(t, "assistant")
  BY DEF Roles
<1>2. r.pc # "done"
  BY DEF Path
<1>3. Off(t) /\ (y.kind = "chat" => r.kind = "chat")
  BY <1>2 DEF Recorded, Path
<1>4. CASE StrictDecision(t) \/ Decide(t) \/ JSONFallback(t)
  <2>1. y.kind = "social"
    BY <1>4 DEF StrictDecision, Decide, JSONFallback, Path, Recorded
  <2>2. y.pc # "done" => UNCHANGED scoring
    <3>1. CASE StrictDecision(t) /\ ~UNCHANGED scoring
      <4>1. \E out : End(t, out)
        BY <3>1 DEF StrictDecision, scoreVars
      <4>2. QED
        BY <4>1 DEF End, TurnsTyped, Turn
    <3>2. CASE Decide(t) /\ ~UNCHANGED scoring
      <4>1. \E out, n : turn' = [turn EXCEPT ![t].pc = "done", ![t].out = out, ![t].alerts = n]
        BY <3>2 DEF Decide, scoreVars, End
      <4>2. PICK out, n : turn'[t] = [[[r EXCEPT !.pc = "done"] EXCEPT !.out = out] EXCEPT !.alerts = n]
        <5>1. PICK out, n : turn' = [turn EXCEPT ![t].pc = "done", ![t].out = out, ![t].alerts = n]
          BY <4>1
        <5>2. turn'[t] = [[[r EXCEPT !.pc = "done"] EXCEPT !.out = out] EXCEPT !.alerts = n]
          BY <5>1 DEF TurnsTyped
        <5>3. QED
          BY <5>2
      <4>3. r \in Turn
        BY DEF TurnsTyped
      <4>4. y.pc = "done"
        BY <4>2, <4>3 DEF Turn
      <4>5. QED
        BY <4>4
    <3>3. QED
      BY <1>4, <3>1, <3>2 DEF JSONFallback, scoreVars
  <2>3. QED
    BY <1>3, <2>1, <2>2 DEF Recorded, Off
<1>5. CASE ~(StrictDecision(t) \/ Decide(t) \/ JSONFallback(t))
  <2>1. UNCHANGED scoring
    BY <1>5 DEF TurnStep, Chat, ProcessVK, ResolveAgent, ResolveTools, Complete, Execute,
       ToToolMessage, NextRound, scoreVars
  <2>2. Off(t)'
    BY <1>3, <2>1 DEF Off
  <2>3. r.pc \notin {"answer", "decide", "fallback"} /\ (r.pc = "rag" => FALSE)
    BY <1>5 DEF TurnStep, Chat, ProcessVK, ResolveAgent, ResolveTools, Complete, Execute,
       HandleSaveContact, executeHTTPWebhook, CallOperator, Calls, ToToolMessage, NextRound
  <2>4. /\ y.pc \notin {"decide", "fallback"} /\ (y.pc = "done" => ~Answered(y))
        /\ r.pc \in Early <=> y.pc \in Early
    BY <2>3 DEF Path, Early, Answered
  <2>5. ~Answered(r) /\ ~Answered(y)
    BY <1>2, <2>4 DEF Answered
  <2>6. QED
    BY <1>1, <1>3, <2>2, <2>4, <2>5 DEF Recorded
<1>6. QED
  BY <1>4, <1>5

\* A question is stored before the model or the strict answer is asked for.
LEMMA QuestionRecord ==
    ASSUME NEW t \in Turns, NEW y, Recorded(t), turn'[t] = y, Path(turn[t], y), Prepare(t), ChatTyped
    PROVE  Recorded(t)'
<1>1. turn[t].pc = "rag" /\ turn[t].kind = "chat" /\ AppendMessage(t, "user") /\ UNCHANGED scoring
  BY DEF Prepare, scoreVars
<1>2. y.pc \in {"answer", "ask"} /\ y.kind = "chat"
  BY <1>1 DEF Path
<1>3. Said(t, "user") = {} /\ Said(t, "assistant") = {} /\ Off(t)
  BY <1>1 DEF Recorded, Early, Answered
<1>4. /\ \A s \in Roles : s # "user" => Said(t, s)' = Said(t, s)
      /\ \/ Said(t, "user")' = Said(t, "user") \cup {Len(chat) + 1}
         \/ gaps' = gaps \cup {t}
  BY <1>1, AppendAdds DEF Roles
<1>5. Said(t, "assistant")' = {}
  BY <1>3, <1>4 DEF Roles
<1>6. Len(chat) + 1 \in Nat
  BY DEF ChatTyped
<1>7. t \notin gaps' => \E i \in Nat : Said(t, "user")' = {i}
  BY <1>3, <1>4, <1>6
<1>8. y.pc \notin Early /\ y.pc \notin {"decide", "fallback", "done"} /\ ~Answered(y)
  BY <1>2 DEF Early, Answered
<1>9. Off(t)'
  BY <1>1, <1>3 DEF Off
<1>10. QED
  BY <1>5, <1>7, <1>8, <1>9 DEF Recorded

\* An answer is stored after its question, and its message is scored.
LEMMA AnswerRecord ==
    ASSUME NEW t \in Turns, NEW y, Recorded(t), turn'[t] = y, Path(turn[t], y), Answer(t), ChatTyped,
           ScoreTypeOK, t \in Scorers
    PROVE  Recorded(t)'
<1> DEFINE r == turn[t]
<1>1. r.pc = "answer" /\ AppendMessage(t, "assistant") /\ ScoreAsync(t)
  BY DEF Answer
<1>2. y.pc = "done" /\ y.out = "answer" /\ y.kind = r.kind
  BY <1>1 DEF Path
<1>3. ~Off(t)'
  BY <1>1 DEF ScoreAsync, ScoreTypeOK, Off
<1>4. /\ \A s \in Roles : s # "assistant" => Said(t, s)' = Said(t, s)
      /\ \/ Said(t, "assistant")' = Said(t, "assistant") \cup {Len(chat) + 1} /\ UNCHANGED gaps
         \/ gaps' = gaps \cup {t}
  BY <1>1, AppendAdds DEF Roles
<1>5. Said(t, "user")' = Said(t, "user")
  BY <1>4 DEF Roles
<1>6. ASSUME r.kind = "chat", t \notin gaps'
      PROVE  \E i \in Nat : Said(t, "user")' = {i} /\ \E j \in Nat : i < j /\ Said(t, "assistant")' = {j}
  <2>1. Said(t, "assistant") = {}
    BY <1>1, <1>6 DEF Recorded, Answered
  <2>2. t \notin gaps /\ Said(t, "assistant")' = {Len(chat) + 1}
    BY <1>4, <1>6, <2>1
  <2>3. PICK i \in Nat : Said(t, "user") = {i}
    BY <1>1, <1>6, <2>2 DEF Recorded, Early
  <2>4. i \in 1..Len(chat) /\ Len(chat) \in Nat
    <3>1. i \in DOMAIN chat
      BY <2>3 DEF Said
    <3>2. DOMAIN chat = 1..Len(chat) /\ Len(chat) \in Nat
      BY DEF ChatTyped
    <3>3. QED
      BY <3>1, <3>2
  <2>5. i < Len(chat) + 1 /\ Len(chat) + 1 \in Nat
    BY <2>4
  <2>6. QED
    BY <1>5, <2>2, <2>3, <2>5
<1>7. Answered(y) /\ y.pc \notin Early /\ y.pc \notin {"decide", "fallback"}
  BY <1>2 DEF Answered, Early
<1>8. QED
  BY <1>2, <1>3, <1>6, <1>7 DEF Recorded

\* Turns interleave, but each stores, scores and ends for itself.
LEMMA RecordsKeep ==
    TurnsHold /\ ScoreTypeOK /\ RecordsHold /\ [Next]_vars => RecordsHold'
<1> SUFFICES ASSUME TurnsHold, ScoreTypeOK, RecordsHold, [Next]_vars PROVE RecordsHold'
  OBVIOUS
<1>1. TurnsTyped /\ AgentsHold /\ ChatTyped /\ turn \in [Turns -> Turn] /\ Scorers = Turns
  BY DialogueAssumption DEF TurnsHold, TurnsTyped
<1>2. ASSUME NEW t \in Turns, TurnStep(t) PROVE RecordsHold'
  <2>1. PICK y \in Turn : Goes(t, y)
    BY <1>1, <1>2, EarlyType, RoundType, DecisionType DEF TurnStep
  <2>2. Path(turn[t], y) /\ \A u \in Turns : turn'[u] = IF u = t THEN y ELSE turn[u]
    BY <1>1, <2>1 DEF Goes
  <2>3. \A u \in Turns : u # t => scoring'[u] = scoring[u]
    <3>1. ScoreAsync(t) \/ UNCHANGED scoring
      BY <1>2 DEF TurnStep, Chat, ProcessVK, ResolveAgent, ResolveTools, Prepare, Answer, Complete,
         Execute, ToToolMessage, NextRound, StrictDecision, Decide, JSONFallback, scoreVars
    <3>2. QED
      BY <1>1, <3>1 DEF ScoreAsync, ScoreTypeOK
  <2>4. CASE Prepare(t) \/ Answer(t)
    <3>1. /\ \A u \in Turns, s \in Roles : u # t => Said(u, s)' = Said(u, s)
          /\ gaps \subseteq gaps'
      BY <1>1, <2>4, AppendAdds DEF Prepare, Answer, Roles
    <3>2. ASSUME NEW u \in Turns, u # t PROVE Recorded(u)'
      <4>1. Recorded(u) /\ turn'[u] = turn[u] /\ (Off(u)' <=> Off(u))
        BY <2>2, <2>3, <3>2 DEF RecordsHold, Off
      <4>2. \A s \in Roles : Said(u, s)' = Said(u, s)
        BY <3>1, <3>2
      <4>3. QED
        BY <3>1, <4>1, <4>2, RecordStays
    <3>3. Recorded(t)'
      BY <1>1, <2>2, <2>4, QuestionRecord, AnswerRecord DEF RecordsHold
    <3>4. QED
      BY <3>2, <3>3 DEF RecordsHold
  <2>5. CASE ~(Prepare(t) \/ Answer(t))
    <3>1. UNCHANGED <<chat, gaps>>
      BY <1>2, <2>5 DEF TurnStep, Chat, ProcessVK, ResolveAgent, ResolveTools, Complete, Execute,
         ToToolMessage, NextRound, StrictDecision, Decide, JSONFallback
    <3>2. \A u \in Turns, s \in Roles : Said(u, s)' = Said(u, s)
      BY <3>1 DEF Said
    <3>3. ASSUME NEW u \in Turns PROVE Recorded(u)'
      <4>1. Recorded(u) /\ \A s \in Roles : Said(u, s)' = Said(u, s)
        BY <3>2 DEF RecordsHold
      <4>2. CASE u = t
        BY <1>1, <1>2, <2>2, <2>5, <3>1, <4>1, <4>2, SilentRecord
      <4>3. CASE u # t
        <5>1. turn'[u] = turn[u] /\ (Off(u)' <=> Off(u))
          BY <2>2, <2>3, <4>3 DEF Off
        <5>2. QED
          BY <3>1, <4>1, <5>1, RecordStays
      <4>4. QED
        BY <4>2, <4>3
    <3>4. QED
      BY <3>3 DEF RecordsHold
  <2>6. QED
    BY <2>4, <2>5
<1>3. ASSUME UNCHANGED <<turn, chat, gaps>>, \A t \in Turns : Off(t)' <=> Off(t)
      PROVE  RecordsHold'
  <2>1. ASSUME NEW t \in Turns PROVE Recorded(t)'
    <3>1. \A s \in Roles : Said(t, s)' = Said(t, s)
      BY <1>3 DEF Said
    <3>2. QED
      BY <1>3, <3>1, RecordStays DEF RecordsHold
  <2>2. QED
    BY <2>1 DEF RecordsHold
<1>4. ASSUME NEW t \in Turns, ScoreStep(t), UNCHANGED dialogueVars PROVE RecordsHold'
  <2>1. ASSUME NEW u \in Turns PROVE Off(u)' <=> Off(u)
    <3>1. CASE u # t
      <4>1. scoring'[u] = scoring[u]
        BY <1>1, <1>4, <3>1 DEF ScoreStep, ReadScore, InsertScore, UpdateScore, Fail, ScoreTypeOK
      <4>2. QED
        BY <4>1 DEF Off
    <3>2. CASE u = t
      <4>1. PICK x : x = scoring[t]
        OBVIOUS
      <4>2. x.pc # "off" /\ x \in [pc : {"off", "read", "insert", "update", "done", "failed"},
                                   says : Messages \cup {{}}, base : 0..100]
        BY <1>1, <1>4, <4>1 DEF ScoreStep, ReadScore, InsertScore, UpdateScore, ScoreTypeOK
      <4>3. \E pc \in {"insert", "update", "done", "failed"} :
              \/ scoring'[t] = [x EXCEPT !.pc = pc]
              \/ scoring'[t] = [x EXCEPT !.pc = pc, !.base = lead.score]
        BY <1>1, <1>4, <4>1 DEF ScoreStep, ReadScore, InsertScore, UpdateScore, Fail, ScoreTypeOK
      <4>4. QED
        BY <3>2, <4>1, <4>2, <4>3 DEF Off
    <3>3. QED
      BY <3>1, <3>2
  <2>2. QED
    BY <1>3, <1>4, <2>1 DEF dialogueVars
<1>5. CASE ClearHistory
  <2>1. ASSUME NEW t \in Turns PROVE Recorded(t)'
    <3>1. turn' = turn /\ (Off(t)' <=> Off(t)) /\ \A s \in Roles : Said(t, s)' = {}
      BY <1>5 DEF ClearHistory, scoreVars, Off, Said
    <3>2. turn[t].pc = "idle" \/ t \in gaps'
      BY <1>5 DEF ClearHistory
    <3>3. Said(t, "user")' = {} /\ Said(t, "assistant")' = {}
      BY <3>1 DEF Roles
    <3>4. "idle" \in Early
      BY DEF Early
    <3>5. Recorded(t)
      BY DEF RecordsHold
    <3>6. QED
      BY <3>1, <3>2, <3>3, <3>4, <3>5 DEF Recorded, Answered
  <2>2. QED
    BY <2>1 DEF RecordsHold
<1>6. CASE ~ClearHistory /\ \A t \in Turns : ~TurnStep(t) /\ ~ScoreStep(t)
  <2>1. UNCHANGED <<turn, chat, gaps, scoring>>
    BY <1>6 DEF Next, OwnerRequest, vars, dialogueVars, scoreVars
  <2>2. QED
    BY <1>3, <2>1 DEF Off
<1>7. QED
  <2>1. CASE \E t \in Turns : ScoreStep(t) /\ ~TurnStep(t) /\ ~ClearHistory
    <3>1. ASSUME UNCHANGED vars PROVE RecordsHold'
      BY <1>3, <3>1 DEF vars, dialogueVars, scoreVars, Off
    <3>2. CASE UNCHANGED dialogueVars
      BY <1>4, <2>1, <3>2
    <3>3. QED
      BY <1>2, <2>1, <3>1, <3>2 DEF Next, OwnerRequest
  <2>2. QED
    BY <1>2, <1>5, <1>6, <2>1

\* However turns interleave and fail, what a turn stored is there once and in its
\* order, and it is scored exactly if it was answered.
THEOREM RecordSafety == Spec => []AnswersAreRecorded
<1>1. Init => RecordsHold
  <2> SUFFICES ASSUME Init, NEW t \in Turns PROVE Recorded(t)
    BY DEF RecordsHold
  <2>1. chat = <<>> /\ turn[t].pc = "idle" /\ Off(t)
    BY DialogueAssumption DEF Init, ScoreInit, Off
  <2>2. \A s : Said(t, s) = {}
    BY <2>1 DEF Said
  <2>3. QED
    BY <2>1, <2>2 DEF Recorded, Early
<1>2. ScoreHolds => ScoreTypeOK
  BY DEF ScoreHolds
<1>3. RecordsHold => AnswersAreRecorded
  <2> SUFFICES ASSUME RecordsHold, NEW t \in Turns, turn[t].pc = "done", turn[t].kind = "chat"
               PROVE  /\ scoring[t].pc = "off" <=> turn[t].out # "answer"
                      /\ t \notin gaps =>
                            \E i \in DOMAIN chat :
                               /\ Said(t, "user") = {i}
                               /\ IF turn[t].out = "answer"
                                  THEN \E j \in DOMAIN chat : i < j /\ Said(t, "assistant") = {j}
                                  ELSE Said(t, "assistant") = {}
    BY DEF AnswersAreRecorded
  <2>1. Recorded(t)
    BY DEF RecordsHold
  <2>2. scoring[t].pc = "off" <=> turn[t].out # "answer"
    BY <2>1 DEF Recorded, Answered, Off
  <2>3. ASSUME t \notin gaps
        PROVE  \E i \in DOMAIN chat :
                  /\ Said(t, "user") = {i}
                  /\ IF turn[t].out = "answer"
                     THEN \E j \in DOMAIN chat : i < j /\ Said(t, "assistant") = {j}
                     ELSE Said(t, "assistant") = {}
    <3>1. PICK i \in Nat : /\ Said(t, "user") = {i}
                           /\ turn[t].out = "answer" => \E j \in Nat : i < j /\ Said(t, "assistant") = {j}
      BY <2>1, <2>3 DEF Recorded, Answered, Early
    <3>2. turn[t].out # "answer" => Said(t, "assistant") = {}
      BY <2>1 DEF Recorded, Answered
    <3>3. \A s, k : Said(t, s) = {k} => k \in DOMAIN chat
      BY DEF Said
    <3>4. QED
      BY <3>1, <3>2, <3>3
  <2>4. QED
    BY <2>2, <2>3
<1>4. QED
  BY <1>1, <1>2, <1>3, RecordsKeep, ScoreInvariant, TurnsInvariant, PTL DEF Spec
=============================================================================
