------------------------------ MODULE LeadScore ------------------------------
(***************************************************************************)
(* lead-scoring-service and the client that llm-service calls it with: the *)
(* score of one lead, read, added to and written back in two statements by *)
(* the background goroutines that score its messages. The saved signals    *)
(* are a log that scoring never reads; they are left out.                  *)
(***************************************************************************)
EXTENDS Integers, FiniteSets

CONSTANTS
    Scorers,      \* the messages that may be scored, one goroutine each
    Messages,     \* what a message may say: sets of signals
    Threshold,    \* hotLeadThreshold
    Unscored,     \* no row
    ScoreMayFail

SignalWeights ==
    [asked_price |-> 10, asked_timeline |-> 8, mentioned_budget |-> 12,
     requested_demo |-> 15, mentioned_company |-> 5, long_message |-> 3,
     positive_sentiment |-> 5, negative_sentiment |-> -15, question |-> 3]

ASSUME ScoreAssumption ==
    /\ Messages \subseteq SUBSET DOMAIN SignalWeights
    /\ Threshold \in 0..100
    /\ ScoreMayFail \in BOOLEAN
    /\ Unscored \notin [score : 0..100, count : Nat]

VARIABLES
    lead,         \* the row of lead_scores, or Unscored
    scoring,      \* what each goroutine is doing
    hot           \* the messages a HOT_LEAD push was sent for

scoreVars == <<lead, scoring, hot>>

ScoreTypeOK ==
    /\ lead = Unscored \/ lead \in [score : 0..100, count : Nat]
    /\ scoring \in [Scorers -> [pc : {"off", "read", "insert", "update", "done", "failed"},
                                says : Messages \cup {{}}, base : 0..100]]
    /\ hot \subseteq Scorers

ScoreInit ==
    /\ lead = Unscored
    /\ scoring = [m \in Scorers |-> [pc |-> "off", says |-> {}, base |-> 0]]
    /\ hot = {}

\* Mutant: a score may fall below zero.
ClampMutant(v) == IF v > 100 THEN 100 ELSE v

Clamp(v) == IF v < 0 THEN 0 ELSE IF v > 100 THEN 100 ELSE v

\* What a message adds to the score: the weights of its signals.
DetectSignals(m) ==
    LET w(s) == IF s \in m THEN SignalWeights[s] ELSE 0
    IN  w("asked_price") + w("asked_timeline") + w("mentioned_budget") + w("requested_demo")
        + w("mentioned_company") + w("long_message") + w("positive_sentiment")
        + w("negative_sentiment") + w("question")

NewScore(m) == Clamp(scoring[m].base + DetectSignals(scoring[m].says))

Fail(m) == /\ ScoreMayFail
           /\ scoring' = [scoring EXCEPT ![m].pc = "failed"]
           /\ UNCHANGED <<lead, hot>>

\* ScoreAsync starts the goroutine; Dialogue says when.
ScoreAsync(m) ==
    /\ scoring[m].pc = "off"
    /\ \E says \in Messages :
         scoring' = [scoring EXCEPT ![m] = [pc |-> "read", says |-> says, base |-> 0]]
    /\ UNCHANGED <<lead, hot>>

ReadScore(m) ==
    /\ scoring[m].pc = "read"
    /\ \/ /\ scoring' = [scoring EXCEPT
                ![m] = IF lead = Unscored THEN [@ EXCEPT !.pc = "insert"]
                       ELSE [@ EXCEPT !.pc = "update", !.base = lead.score]]
          /\ UNCHANGED <<lead, hot>>
       \/ Fail(m)

\* The row is unique per workspace and lead: of two first messages the second
\* one fails here and is not scored.
InsertScore(m) ==
    /\ scoring[m].pc = "insert"
    /\ \/ /\ lead = Unscored
          /\ lead' = [score |-> 0, count |-> 0]
          /\ scoring' = [scoring EXCEPT ![m].pc = "update"]
          /\ UNCHANGED hot
       \/ /\ lead # Unscored
          /\ scoring' = [scoring EXCEPT ![m].pc = "failed"]
          /\ UNCHANGED <<lead, hot>>
       \/ Fail(m)

\* Mutant: the UPDATE adds to the score of the row.
UpdateScoreMutant(m) ==
    /\ scoring[m].pc = "update"
    /\ lead' = [score |-> Clamp(lead.score + NewScore(m)), count |-> lead.count + 1]
    /\ scoring' = [scoring EXCEPT ![m].pc = "done"]
    /\ hot' = IF NewScore(m) >= Threshold THEN hot \cup {m} ELSE hot

\* The UPDATE sets the score and adds to the count. Its answer may get lost:
\* then the owner hears nothing of a hot lead.
UpdateScore(m) ==
    /\ scoring[m].pc = "update"
    /\ \/ /\ lead' = [score |-> NewScore(m), count |-> lead.count + 1]
          /\ scoring' = [scoring EXCEPT ![m].pc = "done"]
          /\ \/ hot' = IF NewScore(m) >= Threshold THEN hot \cup {m} ELSE hot
             \/ ScoreMayFail /\ UNCHANGED hot
       \/ Fail(m)

ScoreStep(m) == ReadScore(m) \/ InsertScore(m) \/ UpdateScore(m)

-----------------------------------------------------------------------------
Scored == {m \in Scorers : scoring[m].pc = "done"}

\* Chains of n scored messages: each took up the score that the one before it
\* left, the first one none. So the last one has scored what all of them give.
Chains(n) ==
    {q \in [1..n -> Scored] :
        /\ \A i, j \in 1..n : q[i] = q[j] => i = j
        /\ \A i \in 1..n : scoring[q[i]].base = IF i = 1 THEN 0 ELSE NewScore(q[i - 1])}

ChainScore(n, q) == IF n = 0 THEN 0 ELSE NewScore(q[n])

\* Goroutines that score messages of one lead at once may lose points, never
\* invent them: every message written is counted once, the stored score is the
\* one that some of these messages give one after the other, and whatever the
\* score is now, the message of a HOT_LEAD push had such a chain behind it.
ScoreBacked ==
    /\ lead = Unscored => Scored = {}
    /\ lead # Unscored =>
          /\ lead.count = Cardinality(Scored)
          /\ \E n \in 0..Cardinality(Scored) : \E q \in Chains(n) : ChainScore(n, q) = lead.score
    /\ \A m \in hot : \E n \in 1..Cardinality(Scored) : \E q \in Chains(n) :
          q[n] = m /\ ChainScore(n, q) >= Threshold
=============================================================================
