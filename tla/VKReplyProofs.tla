---------------------------- MODULE VKReplyProofs ----------------------------
(***************************************************************************)
(* Proofs about VKReply, for any number of messages and requests and       *)
(* whatever may fail, expire, be disconnected or be restarted.             *)
(***************************************************************************)
EXTENDS VKReply, TLAPS

------------------------------------------------------------------------------
(* Each part of the inductive invariant is preserved by every step *)

\* Each step keeps every variable within its type.
LEMMA TypeStep == TypeOK /\ AboutStored /\ [Next]_vars => TypeOK'
<1> SUFFICES ASSUME TypeOK, AboutStored, [Next]_vars PROVE TypeOK'
  OBVIOUS
<1> USE DEF TypeOK, Steps
<1>1. ASSUME NEW m \in Messages, Receive(m) \/ Insert(m) PROVE TypeOK'
  BY <1>1 DEF Receive, Insert, Goto, Procs, db, hist
<1>2. ASSUME NEW m \in Messages, ReadSettings(m) PROVE TypeOK'
  BY <1>2 DEF ReadSettings, Dispatch, Goto, Procs, db, hist
<1>3. ASSUME NEW m \in Messages, LoadForLLM(m) \/ LLMFails(m) PROVE TypeOK'
  BY <1>3 DEF LoadForLLM, LLMFails, Goto, Procs, db, hist
<1>4. ASSUME NEW m \in Messages, NEW d \in {"draft", "auto_reply", "escalate"},
             LLMDecides(m, d)
      PROVE  TypeOK'
  BY <1>4 DEF LLMDecides, Goto, Procs, db, hist
<1>5. ASSUME NEW p \in Procs, GenSettings(p) \/ FindDraft(p) \/ Compose(p) PROVE TypeOK'
  BY <1>5 DEF GenSettings, FindDraft, Compose, Goto, db, hist
<1>6. ASSUME NEW p \in Procs, Persist(p) PROVE TypeOK'
  <2>1. MsgOf(p) \in Messages => DraftOf(p) \in DraftType
    BY DEF DraftOf, DraftType
  <2>2. draft' \in [Messages -> DraftType]
    BY <1>6, <2>1 DEF Persist
  <2>3. QED
    BY <1>6, <2>2 DEF Persist, Goto, db, hist
<1>7. ASSUME NEW p \in Procs, Mark(p) PROVE TypeOK'
  <2>1. MsgOf(p) \in Messages
    BY <1>7 DEF Mark, MsgOf, AboutStored, Procs
  <2>2. QED
    BY <1>7, <2>1 DEF Mark, Goto, db, hist
<1>8. ASSUME NEW p \in Procs, LoadIntegration(p) \/ Deliver(p) PROVE TypeOK'
  <2>1. /\ pc' \in [Procs -> Steps]
        /\ outcome' \in [Procs -> {"pending", "auto_sent", "failed"}]
    BY <1>8 DEF LoadIntegration, Deliver, SendError, Goto
  <2>2. QED
    BY <1>8, <2>1 DEF LoadIntegration, Deliver, db, hist
<1>9. ASSUME NEW p \in Procs, LogOutgoing(p) PROVE TypeOK'
  BY <1>9 DEF LogOutgoing, Goto, db, hist
<1>10. ASSUME NEW r \in Requests, RecordApproval(r) PROVE TypeOK'
  <2>1. [status |-> "sent", sentId |-> r, approved |-> TRUE] \in DraftType
    BY DEF DraftType, Procs
  <2>2. draft' \in [Messages -> DraftType]
    BY <1>10, <2>1 DEF RecordApproval
  <2>3. QED
    BY <1>10, <2>2 DEF RecordApproval, Goto, Procs, db, hist
<1>11. ASSUME NEW r \in Requests, NEW m \in Messages, NEW f \in BOOLEAN,
              StartGenerate(r, m, f) \/ StartApprove(r, m)
       PROVE  TypeOK'
  BY <1>11 DEF StartGenerate, StartApprove, Goto, Procs, db, hist
<1>12. ASSUME NEW c \in Choices, UpdateAgentSettings(c) PROVE TypeOK'
  BY <1>12, ChoiceType
     DEF UpdateAgentSettings, SettingsType, DefaultSafe, Intents, proc
<1>13. ASSUME Disconnect \/ Reconnect PROVE TypeOK'
  BY <1>13 DEF Disconnect, Reconnect, SetActive, proc, hist
<1>14. ASSUME NEW m \in Messages, Expire(m) PROVE TypeOK'
  BY <1>14 DEF Expire, db, proc, hist
<1>15. ASSUME Crash PROVE TypeOK'
  BY <1>15 DEF Crash, db, hist
<1>16. CASE UNCHANGED vars
  BY <1>16 DEF vars, db, proc, hist
<1>17. QED
  BY <1>1, <1>2, <1>3, <1>4, <1>5, <1>6, <1>7, <1>8, <1>9, <1>10, <1>11, <1>12,
     <1>13, <1>14, <1>15, <1>16
     DEF Next, ProcStep, InboundStep, PipelineStep, Call, Environment

\* A process and a draft stay about a stored message: nothing is ever unstored.
LEMMA AboutStoredStep == TypeOK /\ AboutStored /\ [Next]_vars => AboutStored'
<1> SUFFICES ASSUME TypeOK, AboutStored, [Next]_vars PROVE AboutStored'
  OBVIOUS
<1> USE Disjoint DEF TypeOK, AboutStored, HasDraft, Procs, MsgOf
<1>1. ASSUME NEW m \in Messages, Receive(m) PROVE AboutStored'
  BY <1>1 DEF Receive, Goto, db, hist
<1>2. ASSUME NEW m \in Messages, Insert(m) PROVE AboutStored'
  BY <1>2 DEF Insert, Goto, hist
<1>3. ASSUME NEW m \in Messages, ReadSettings(m) PROVE AboutStored'
  BY <1>3 DEF ReadSettings, Dispatch, Goto, db, hist
<1>4. ASSUME NEW m \in Messages, LoadForLLM(m) PROVE AboutStored'
  BY <1>4 DEF LoadForLLM, Goto, db, hist
<1>5. ASSUME NEW m \in Messages, NEW d \in {"draft", "auto_reply", "escalate"}, LLMDecides(m, d) PROVE AboutStored'
  BY <1>5 DEF LLMDecides, Goto, db, hist
<1>6. ASSUME NEW m \in Messages, LLMFails(m) PROVE AboutStored'
  BY <1>6 DEF LLMFails, Goto, db, hist
<1>7. ASSUME NEW p \in Procs, GenSettings(p) PROVE AboutStored'
  BY <1>7 DEF GenSettings, Goto, db, hist
<1>8. ASSUME NEW p \in Procs, FindDraft(p) PROVE AboutStored'
  BY <1>8 DEF FindDraft, Goto, db, hist
<1>9. ASSUME NEW p \in Procs, Compose(p) PROVE AboutStored'
  BY <1>9 DEF Compose, AutoSendable, Goto, db, hist
<1>10. ASSUME NEW p \in Procs, Persist(p) PROVE AboutStored'
  BY <1>10 DEF Persist, DraftOf, Goto, hist
<1>11. ASSUME NEW p \in Procs, Mark(p) PROVE AboutStored'
  BY <1>11 DEF Mark, Goto, hist
<1>12. ASSUME NEW p \in Procs, LoadIntegration(p) PROVE AboutStored'
  BY <1>12 DEF LoadIntegration, SendError, Goto, db, hist
<1>13. ASSUME NEW p \in Procs, Deliver(p) PROVE AboutStored'
  BY <1>13 DEF Deliver, SendError, Goto, db, hist
<1>14. ASSUME NEW p \in Procs, LogOutgoing(p) PROVE AboutStored'
  BY <1>14 DEF LogOutgoing, Goto, db, hist
<1>15. ASSUME NEW r \in Requests, RecordApproval(r) PROVE AboutStored'
  BY <1>15 DEF RecordApproval, Goto, hist
<1>16. ASSUME NEW r \in Requests, NEW m \in Messages, NEW f \in BOOLEAN, StartGenerate(r, m, f) PROVE AboutStored'
  BY <1>16 DEF StartGenerate, Goto, db
<1>17. ASSUME NEW r \in Requests, NEW m \in Messages, StartApprove(r, m) PROVE AboutStored'
  BY <1>17 DEF StartApprove, Goto, db, hist
<1>18. ASSUME NEW c \in Choices, UpdateAgentSettings(c) PROVE AboutStored'
  BY <1>18 DEF UpdateAgentSettings, proc
<1>19. ASSUME Disconnect \/ Reconnect PROVE AboutStored'
  BY <1>19 DEF Disconnect, Reconnect, SetActive, proc, hist
<1>20. ASSUME NEW m \in Messages, Expire(m) PROVE AboutStored'
  BY <1>20 DEF Expire, db, proc, hist
<1>21. ASSUME Crash PROVE AboutStored'
  BY <1>21 DEF Crash, Running, db, hist
<1>22. CASE UNCHANGED vars
  BY <1>22 DEF vars, db, proc, hist
<1>23. QED
  BY <1>1, <1>2, <1>3, <1>4, <1>5, <1>6, <1>7, <1>8, <1>9, <1>10, <1>11, <1>12, <1>13, <1>14, <1>15, <1>16, <1>17, <1>18, <1>19, <1>20, <1>21, <1>22
     DEF Next, ProcStep, InboundStep, PipelineStep, Call, Environment

\* The steps around messages.send keep pc and outcome true to what VK has done.
LEMMA SendsKnownStep == TypeOK /\ SendsKnown /\ [Next]_vars => SendsKnown'
<1> SUFFICES ASSUME TypeOK, SendsKnown, [Next]_vars PROVE SendsKnown'
  OBVIOUS
<1> USE Disjoint DEF TypeOK, SendsKnown, Procs, Approves
<1>1. ASSUME NEW m \in Messages, Receive(m) PROVE SendsKnown'
  BY <1>1 DEF Receive, Goto, db, hist
<1>2. ASSUME NEW m \in Messages, Insert(m) PROVE SendsKnown'
  BY <1>2 DEF Insert, Goto, hist
<1>3. ASSUME NEW m \in Messages, ReadSettings(m) PROVE SendsKnown'
  BY <1>3 DEF ReadSettings, Dispatch, Goto, db, hist
<1>4. ASSUME NEW m \in Messages, LoadForLLM(m) PROVE SendsKnown'
  BY <1>4 DEF LoadForLLM, Goto, db, hist
<1>5. ASSUME NEW m \in Messages, NEW d \in {"draft", "auto_reply", "escalate"}, LLMDecides(m, d) PROVE SendsKnown'
  BY <1>5 DEF LLMDecides, Goto, db, hist
<1>6. ASSUME NEW m \in Messages, LLMFails(m) PROVE SendsKnown'
  BY <1>6 DEF LLMFails, Goto, db, hist
<1>7. ASSUME NEW p \in Procs, GenSettings(p) PROVE SendsKnown'
  BY <1>7 DEF GenSettings, Goto, db, hist
<1>8. ASSUME NEW p \in Procs, FindDraft(p) PROVE SendsKnown'
  BY <1>8 DEF FindDraft, Goto, db, hist
<1>9. ASSUME NEW p \in Procs, Compose(p) PROVE SendsKnown'
  BY <1>9 DEF Compose, AutoSendable, Goto, db, hist
<1>10. ASSUME NEW p \in Procs, Persist(p) PROVE SendsKnown'
  BY <1>10 DEF Persist, DraftOf, Goto, hist
<1>11. ASSUME NEW p \in Procs, Mark(p) PROVE SendsKnown'
  BY <1>11 DEF Mark, Goto, hist
<1>12. ASSUME NEW p \in Procs, LoadIntegration(p) PROVE SendsKnown'
  BY <1>12 DEF LoadIntegration, SendError, Goto, db, hist
<1>13. ASSUME NEW p \in Procs, Deliver(p) PROVE SendsKnown'
  BY <1>13 DEF Deliver, SendError, Goto, db, hist
<1>14. ASSUME NEW p \in Procs, LogOutgoing(p) PROVE SendsKnown'
  BY <1>14 DEF LogOutgoing, Goto, db, hist
<1>15. ASSUME NEW r \in Requests, RecordApproval(r) PROVE SendsKnown'
  BY <1>15 DEF RecordApproval, Goto, hist
<1>16. ASSUME NEW r \in Requests, NEW m \in Messages, NEW f \in BOOLEAN, StartGenerate(r, m, f) PROVE SendsKnown'
  BY <1>16 DEF StartGenerate, Goto, db
<1>17. ASSUME NEW r \in Requests, NEW m \in Messages, StartApprove(r, m) PROVE SendsKnown'
  BY <1>17 DEF StartApprove, Goto, db, hist
<1>18. ASSUME NEW c \in Choices, UpdateAgentSettings(c) PROVE SendsKnown'
  BY <1>18 DEF UpdateAgentSettings, proc
<1>19. ASSUME Disconnect \/ Reconnect PROVE SendsKnown'
  BY <1>19 DEF Disconnect, Reconnect, SetActive, proc, hist
<1>20. ASSUME NEW m \in Messages, Expire(m) PROVE SendsKnown'
  BY <1>20 DEF Expire, db, proc, hist
<1>21. ASSUME Crash PROVE SendsKnown'
  BY <1>21 DEF Crash, Running, db, hist
<1>22. CASE UNCHANGED vars
  BY <1>22 DEF vars, db, proc, hist
<1>23. QED
  BY <1>1, <1>2, <1>3, <1>4, <1>5, <1>6, <1>7, <1>8, <1>9, <1>10, <1>11, <1>12, <1>13, <1>14, <1>15, <1>16, <1>17, <1>18, <1>19, <1>20, <1>21, <1>22
     DEF Next, ProcStep, InboundStep, PipelineStep, Call, Environment

\* A draft row is only ever written after the reply it names, and the reply of
\* a process stays a reply to the same message.
LEMMA DraftsStep == TypeOK /\ AboutStored /\ SendsKnown /\ SentDraftNamesDelivery /\ [Next]_vars => SentDraftNamesDelivery'
<1> SUFFICES ASSUME TypeOK, AboutStored, SendsKnown, SentDraftNamesDelivery, [Next]_vars PROVE SentDraftNamesDelivery'
  OBVIOUS
<1> USE Disjoint DEF TypeOK, AboutStored, SendsKnown, SentDraftNamesDelivery, MsgOf, Procs
<1>1. ASSUME NEW m \in Messages, Receive(m) PROVE SentDraftNamesDelivery'
  BY <1>1 DEF Receive, Goto, db, hist
<1>2. ASSUME NEW m \in Messages, Insert(m) PROVE SentDraftNamesDelivery'
  BY <1>2 DEF Insert, Goto, hist
<1>3. ASSUME NEW m \in Messages, ReadSettings(m) PROVE SentDraftNamesDelivery'
  BY <1>3 DEF ReadSettings, Dispatch, Goto, db, hist
<1>4. ASSUME NEW m \in Messages, LoadForLLM(m) PROVE SentDraftNamesDelivery'
  BY <1>4 DEF LoadForLLM, Goto, db, hist
<1>5. ASSUME NEW m \in Messages, NEW d \in {"draft", "auto_reply", "escalate"}, LLMDecides(m, d) PROVE SentDraftNamesDelivery'
  BY <1>5 DEF LLMDecides, Goto, db, hist
<1>6. ASSUME NEW m \in Messages, LLMFails(m) PROVE SentDraftNamesDelivery'
  BY <1>6 DEF LLMFails, Goto, db, hist
<1>7. ASSUME NEW p \in Procs, GenSettings(p) PROVE SentDraftNamesDelivery'
  BY <1>7 DEF GenSettings, Goto, db, hist
<1>8. ASSUME NEW p \in Procs, FindDraft(p) PROVE SentDraftNamesDelivery'
  BY <1>8 DEF FindDraft, Goto, db, hist
<1>9. ASSUME NEW p \in Procs, Compose(p) PROVE SentDraftNamesDelivery'
  BY <1>9 DEF Compose, AutoSendable, Goto, db, hist
<1>10. ASSUME NEW p \in Procs, Persist(p) PROVE SentDraftNamesDelivery'
  BY <1>10 DEF Persist, DraftOf, Goto, hist
<1>11. ASSUME NEW p \in Procs, Mark(p) PROVE SentDraftNamesDelivery'
  BY <1>11 DEF Mark, Goto, hist
<1>12. ASSUME NEW p \in Procs, LoadIntegration(p) PROVE SentDraftNamesDelivery'
  BY <1>12 DEF LoadIntegration, SendError, Goto, db, hist
<1>13. ASSUME NEW p \in Procs, Deliver(p) PROVE SentDraftNamesDelivery'
  BY <1>13 DEF Deliver, SendError, Goto, db, hist
<1>14. ASSUME NEW p \in Procs, LogOutgoing(p) PROVE SentDraftNamesDelivery'
  BY <1>14 DEF LogOutgoing, Goto, db, hist
<1>15. ASSUME NEW r \in Requests, RecordApproval(r) PROVE SentDraftNamesDelivery'
  BY <1>15 DEF RecordApproval, Goto, hist
<1>16. ASSUME NEW r \in Requests, NEW m \in Messages, NEW f \in BOOLEAN, StartGenerate(r, m, f) PROVE SentDraftNamesDelivery'
  BY <1>16 DEF StartGenerate, Goto, db
<1>17. ASSUME NEW r \in Requests, NEW m \in Messages, StartApprove(r, m) PROVE SentDraftNamesDelivery'
  BY <1>17 DEF StartApprove, Goto, db, hist
<1>18. ASSUME NEW c \in Choices, UpdateAgentSettings(c) PROVE SentDraftNamesDelivery'
  BY <1>18 DEF UpdateAgentSettings, proc
<1>19. ASSUME Disconnect \/ Reconnect PROVE SentDraftNamesDelivery'
  BY <1>19 DEF Disconnect, Reconnect, SetActive, proc, hist
<1>20. ASSUME NEW m \in Messages, Expire(m) PROVE SentDraftNamesDelivery'
  BY <1>20 DEF Expire, db, proc, hist
<1>21. ASSUME Crash PROVE SentDraftNamesDelivery'
  BY <1>21 DEF Crash, Running, db, hist
<1>22. CASE UNCHANGED vars
  BY <1>22 DEF vars, db, proc, hist
<1>23. QED
  BY <1>1, <1>2, <1>3, <1>4, <1>5, <1>6, <1>7, <1>8, <1>9, <1>10, <1>11, <1>12, <1>13, <1>14, <1>15, <1>16, <1>17, <1>18, <1>19, <1>20, <1>21, <1>22
     DEF Next, ProcStep, InboundStep, PipelineStep, Call, Environment

\* approved_by is only written by a request that has sent its reply.
LEMMA ApprovedStep == TypeOK /\ SendsKnown /\ ApprovedMeansHumanReply /\ [Next]_vars => ApprovedMeansHumanReply'
<1> SUFFICES ASSUME TypeOK, SendsKnown, ApprovedMeansHumanReply, [Next]_vars PROVE ApprovedMeansHumanReply'
  OBVIOUS
<1> USE Disjoint DEF TypeOK, SendsKnown, ApprovedMeansHumanReply, Approves, Procs
<1>1. ASSUME NEW m \in Messages, Receive(m) PROVE ApprovedMeansHumanReply'
  BY <1>1 DEF Receive, Goto, db, hist
<1>2. ASSUME NEW m \in Messages, Insert(m) PROVE ApprovedMeansHumanReply'
  BY <1>2 DEF Insert, Goto, hist
<1>3. ASSUME NEW m \in Messages, ReadSettings(m) PROVE ApprovedMeansHumanReply'
  BY <1>3 DEF ReadSettings, Dispatch, Goto, db, hist
<1>4. ASSUME NEW m \in Messages, LoadForLLM(m) PROVE ApprovedMeansHumanReply'
  BY <1>4 DEF LoadForLLM, Goto, db, hist
<1>5. ASSUME NEW m \in Messages, NEW d \in {"draft", "auto_reply", "escalate"}, LLMDecides(m, d) PROVE ApprovedMeansHumanReply'
  BY <1>5 DEF LLMDecides, Goto, db, hist
<1>6. ASSUME NEW m \in Messages, LLMFails(m) PROVE ApprovedMeansHumanReply'
  BY <1>6 DEF LLMFails, Goto, db, hist
<1>7. ASSUME NEW p \in Procs, GenSettings(p) PROVE ApprovedMeansHumanReply'
  BY <1>7 DEF GenSettings, Goto, db, hist
<1>8. ASSUME NEW p \in Procs, FindDraft(p) PROVE ApprovedMeansHumanReply'
  BY <1>8 DEF FindDraft, Goto, db, hist
<1>9. ASSUME NEW p \in Procs, Compose(p) PROVE ApprovedMeansHumanReply'
  BY <1>9 DEF Compose, AutoSendable, Goto, db, hist
<1>10. ASSUME NEW p \in Procs, Persist(p) PROVE ApprovedMeansHumanReply'
  BY <1>10 DEF Persist, DraftOf, Goto, hist
<1>11. ASSUME NEW p \in Procs, Mark(p) PROVE ApprovedMeansHumanReply'
  BY <1>11 DEF Mark, Goto, hist
<1>12. ASSUME NEW p \in Procs, LoadIntegration(p) PROVE ApprovedMeansHumanReply'
  BY <1>12 DEF LoadIntegration, SendError, Goto, db, hist
<1>13. ASSUME NEW p \in Procs, Deliver(p) PROVE ApprovedMeansHumanReply'
  BY <1>13 DEF Deliver, SendError, Goto, db, hist
<1>14. ASSUME NEW p \in Procs, LogOutgoing(p) PROVE ApprovedMeansHumanReply'
  BY <1>14 DEF LogOutgoing, Goto, db, hist
<1>15. ASSUME NEW r \in Requests, RecordApproval(r) PROVE ApprovedMeansHumanReply'
  BY <1>15 DEF RecordApproval, Goto, hist
<1>16. ASSUME NEW r \in Requests, NEW m \in Messages, NEW f \in BOOLEAN, StartGenerate(r, m, f) PROVE ApprovedMeansHumanReply'
  BY <1>16 DEF StartGenerate, Goto, db
<1>17. ASSUME NEW r \in Requests, NEW m \in Messages, StartApprove(r, m) PROVE ApprovedMeansHumanReply'
  BY <1>17 DEF StartApprove, Goto, db, hist
<1>18. ASSUME NEW c \in Choices, UpdateAgentSettings(c) PROVE ApprovedMeansHumanReply'
  BY <1>18 DEF UpdateAgentSettings, proc
<1>19. ASSUME Disconnect \/ Reconnect PROVE ApprovedMeansHumanReply'
  BY <1>19 DEF Disconnect, Reconnect, SetActive, proc, hist
<1>20. ASSUME NEW m \in Messages, Expire(m) PROVE ApprovedMeansHumanReply'
  BY <1>20 DEF Expire, db, proc, hist
<1>21. ASSUME Crash PROVE ApprovedMeansHumanReply'
  BY <1>21 DEF Crash, Running, db, hist
<1>22. CASE UNCHANGED vars
  BY <1>22 DEF vars, db, proc, hist
<1>23. QED
  BY <1>1, <1>2, <1>3, <1>4, <1>5, <1>6, <1>7, <1>8, <1>9, <1>10, <1>11, <1>12, <1>13, <1>14, <1>15, <1>16, <1>17, <1>18, <1>19, <1>20, <1>21, <1>22
     DEF Next, ProcStep, InboundStep, PipelineStep, Call, Environment

\* is_processed is written after the draft, or after settings that ask for
\* nothing; a draft never disappears.
LEMMA MarksStep == TypeOK /\ AboutStored /\ MarksJustified /\ [Next]_vars => MarksJustified'
<1> SUFFICES ASSUME TypeOK, AboutStored, MarksJustified, [Next]_vars PROVE MarksJustified'
  OBVIOUS
<1> USE Disjoint DEF TypeOK, AboutStored, MarksJustified, HasDraft, MsgOf, Procs
<1>1. ASSUME NEW m \in Messages, Receive(m) PROVE MarksJustified'
  BY <1>1 DEF Receive, Goto, db, hist
<1>2. ASSUME NEW m \in Messages, Insert(m) PROVE MarksJustified'
  BY <1>2 DEF Insert, Goto, hist
<1>3. ASSUME NEW m \in Messages, ReadSettings(m) PROVE MarksJustified'
  BY <1>3 DEF ReadSettings, Dispatch, Goto, db, hist
<1>4. ASSUME NEW m \in Messages, LoadForLLM(m) PROVE MarksJustified'
  BY <1>4 DEF LoadForLLM, Goto, db, hist
<1>5. ASSUME NEW m \in Messages, NEW d \in {"draft", "auto_reply", "escalate"}, LLMDecides(m, d) PROVE MarksJustified'
  BY <1>5 DEF LLMDecides, Goto, db, hist
<1>6. ASSUME NEW m \in Messages, LLMFails(m) PROVE MarksJustified'
  BY <1>6 DEF LLMFails, Goto, db, hist
<1>7. ASSUME NEW p \in Procs, GenSettings(p) PROVE MarksJustified'
  BY <1>7 DEF GenSettings, Goto, db, hist
<1>8. ASSUME NEW p \in Procs, FindDraft(p) PROVE MarksJustified'
  BY <1>8 DEF FindDraft, Goto, db, hist
<1>9. ASSUME NEW p \in Procs, Compose(p) PROVE MarksJustified'
  BY <1>9 DEF Compose, AutoSendable, Goto, db, hist
<1>10. ASSUME NEW p \in Procs, Persist(p) PROVE MarksJustified'
  BY <1>10 DEF Persist, DraftOf, Goto, hist
<1>11. ASSUME NEW p \in Procs, Mark(p) PROVE MarksJustified'
  BY <1>11 DEF Mark, Goto, hist
<1>12. ASSUME NEW p \in Procs, LoadIntegration(p) PROVE MarksJustified'
  BY <1>12 DEF LoadIntegration, SendError, Goto, db, hist
<1>13. ASSUME NEW p \in Procs, Deliver(p) PROVE MarksJustified'
  BY <1>13 DEF Deliver, SendError, Goto, db, hist
<1>14. ASSUME NEW p \in Procs, LogOutgoing(p) PROVE MarksJustified'
  BY <1>14 DEF LogOutgoing, Goto, db, hist
<1>15. ASSUME NEW r \in Requests, RecordApproval(r) PROVE MarksJustified'
  BY <1>15 DEF RecordApproval, Goto, hist
<1>16. ASSUME NEW r \in Requests, NEW m \in Messages, NEW f \in BOOLEAN, StartGenerate(r, m, f) PROVE MarksJustified'
  BY <1>16 DEF StartGenerate, Goto, db
<1>17. ASSUME NEW r \in Requests, NEW m \in Messages, StartApprove(r, m) PROVE MarksJustified'
  BY <1>17 DEF StartApprove, Goto, db, hist
<1>18. ASSUME NEW c \in Choices, UpdateAgentSettings(c) PROVE MarksJustified'
  BY <1>18 DEF UpdateAgentSettings, proc
<1>19. ASSUME Disconnect \/ Reconnect PROVE MarksJustified'
  BY <1>19 DEF Disconnect, Reconnect, SetActive, proc, hist
<1>20. ASSUME NEW m \in Messages, Expire(m) PROVE MarksJustified'
  BY <1>20 DEF Expire, db, proc, hist
<1>21. ASSUME Crash PROVE MarksJustified'
  BY <1>21 DEF Crash, Running, db, hist
<1>22. CASE UNCHANGED vars
  BY <1>22 DEF vars, db, proc, hist
<1>23. QED
  BY <1>1, <1>2, <1>3, <1>4, <1>5, <1>6, <1>7, <1>8, <1>9, <1>10, <1>11, <1>12, <1>13, <1>14, <1>15, <1>16, <1>17, <1>18, <1>19, <1>20, <1>21, <1>22
     DEF Next, ProcStep, InboundStep, PipelineStep, Call, Environment

\* A process that goes on to send without an approval has read settings and
\* reached a decision that allow it, and keeps both.
LEMMA ConsentStep == TypeOK /\ SendsKnown /\ ConsentKnown /\ [Next]_vars => ConsentKnown'
<1> SUFFICES ASSUME TypeOK, SendsKnown, ConsentKnown, [Next]_vars PROVE ConsentKnown'
  OBVIOUS
<1> USE Disjoint, ChoiceType DEF TypeOK, SendsKnown, ConsentKnown, MaySend, Approves, MsgOf, Procs
<1>1. ASSUME NEW m \in Messages, Receive(m) PROVE ConsentKnown'
  BY <1>1 DEF Receive, Goto, db, hist
<1>2. ASSUME NEW m \in Messages, Insert(m) PROVE ConsentKnown'
  BY <1>2 DEF Insert, Goto, hist
<1>3. ASSUME NEW m \in Messages, ReadSettings(m) PROVE ConsentKnown'
  BY <1>3 DEF ReadSettings, Dispatch, Goto, db, hist
<1>4. ASSUME NEW m \in Messages, LoadForLLM(m) PROVE ConsentKnown'
  BY <1>4 DEF LoadForLLM, Goto, db, hist
<1>5. ASSUME NEW m \in Messages, NEW d \in {"draft", "auto_reply", "escalate"}, LLMDecides(m, d) PROVE ConsentKnown'
  BY <1>5 DEF LLMDecides, Goto, db, hist
<1>6. ASSUME NEW m \in Messages, LLMFails(m) PROVE ConsentKnown'
  BY <1>6 DEF LLMFails, Goto, db, hist
<1>7. ASSUME NEW p \in Procs, GenSettings(p) PROVE ConsentKnown'
  BY <1>7 DEF GenSettings, Goto, db, hist
<1>8. ASSUME NEW p \in Procs, FindDraft(p) PROVE ConsentKnown'
  BY <1>8 DEF FindDraft, Goto, db, hist
<1>9. ASSUME NEW p \in Procs, Compose(p) PROVE ConsentKnown'
  BY <1>9 DEF Compose, AutoSendable, Goto, db, hist
<1>10. ASSUME NEW p \in Procs, Persist(p) PROVE ConsentKnown'
  BY <1>10 DEF Persist, DraftOf, Goto, hist
<1>11. ASSUME NEW p \in Procs, Mark(p) PROVE ConsentKnown'
  BY <1>11 DEF Mark, Goto, hist
<1>12. ASSUME NEW p \in Procs, LoadIntegration(p) PROVE ConsentKnown'
  BY <1>12 DEF LoadIntegration, SendError, Goto, db, hist
<1>13. ASSUME NEW p \in Procs, Deliver(p) PROVE ConsentKnown'
  BY <1>13 DEF Deliver, SendError, Goto, db, hist
<1>14. ASSUME NEW p \in Procs, LogOutgoing(p) PROVE ConsentKnown'
  BY <1>14 DEF LogOutgoing, Goto, db, hist
<1>15. ASSUME NEW r \in Requests, RecordApproval(r) PROVE ConsentKnown'
  BY <1>15 DEF RecordApproval, Goto, hist
<1>16. ASSUME NEW r \in Requests, NEW m \in Messages, NEW f \in BOOLEAN, StartGenerate(r, m, f) PROVE ConsentKnown'
  BY <1>16 DEF StartGenerate, Goto, db
<1>17. ASSUME NEW r \in Requests, NEW m \in Messages, StartApprove(r, m) PROVE ConsentKnown'
  BY <1>17 DEF StartApprove, Goto, db, hist
<1>18. ASSUME NEW c \in Choices, UpdateAgentSettings(c) PROVE ConsentKnown'
  BY <1>18 DEF UpdateAgentSettings, proc
<1>19. ASSUME Disconnect \/ Reconnect PROVE ConsentKnown'
  BY <1>19 DEF Disconnect, Reconnect, SetActive, proc, hist
<1>20. ASSUME NEW m \in Messages, Expire(m) PROVE ConsentKnown'
  BY <1>20 DEF Expire, db, proc, hist
<1>21. ASSUME Crash PROVE ConsentKnown'
  BY <1>21 DEF Crash, Running, db, hist
<1>22. CASE UNCHANGED vars
  BY <1>22 DEF vars, db, proc, hist
<1>23. QED
  BY <1>1, <1>2, <1>3, <1>4, <1>5, <1>6, <1>7, <1>8, <1>9, <1>10, <1>11, <1>12, <1>13, <1>14, <1>15, <1>16, <1>17, <1>18, <1>19, <1>20, <1>21, <1>22
     DEF Next, ProcStep, InboundStep, PipelineStep, Call, Environment

\* Initially nothing has happened yet.
LEMMA InitIInv == Init => IInv
<1> SUFFICES ASSUME Init PROVE IInv
  OBVIOUS
<1> USE DEF Init
<1>1. TypeOK
  BY DEF TypeOK, Steps, DraftType, NoDraft, SettingsType, DefaultSettings,
         DefaultSafe, Intents, Procs
<1>2. AboutStored
  BY DEF AboutStored, HasDraft, NoDraft, Procs
<1>3. SendsKnown
  BY DEF SendsKnown
<1>4. SentDraftNamesDelivery /\ ApprovedMeansHumanReply
  BY DEF SentDraftNamesDelivery, ApprovedMeansHumanReply, NoDraft
<1>5. MarksJustified
  BY DEF MarksJustified
<1>6. ConsentKnown
  BY DEF ConsentKnown, DefaultSettings
<1>7. QED
  BY <1>1, <1>2, <1>3, <1>4, <1>5, <1>6 DEF IInv

\* The parts together are inductive.
LEMMA StepIInv == IInv /\ [Next]_vars => IInv'
BY TypeStep, AboutStoredStep, SendsKnownStep, DraftsStep, ApprovedStep, MarksStep,
   ConsentStep DEF IInv

\* The inductive invariant holds in every reachable state.
THEOREM Invariant == Spec => []IInv
<1>1. QED
  BY InitIInv, StepIInv, PTL DEF Spec

------------------------------------------------------------------------------
(* The safety properties *)

\* Every variable stays within its type, for any set of messages and requests.
THEOREM TypeCorrect == Spec => []TypeOK
<1>1. IInv => TypeOK
  BY DEF IInv
<1>2. QED
  BY <1>1, Invariant, PTL

\* The draft rows and the log of outgoing messages name only replies VK did
\* carry out, to the message they are about.
THEOREM DraftsTruthful == Spec => []SentDraftNamesDelivery
<1>1. IInv => SentDraftNamesDelivery
  BY DEF IInv
<1>2. QED
  BY <1>1, Invariant, PTL

\* approved_by stands for a reply that an approval sent.
THEOREM ApprovalsTruthful == Spec => []ApprovedMeansHumanReply
<1>1. IInv => ApprovedMeansHumanReply
  BY DEF IInv
<1>2. QED
  BY <1>1, Invariant, PTL

\* A message marked is_processed has a draft or was not to get one.
THEOREM ProcessedNotLost == Spec => []ProcessedHasOutcome
<1>1. IInv => ProcessedHasOutcome
  BY DEF IInv, MarksJustified, ProcessedHasOutcome
<1>2. QED
  BY <1>1, Invariant, PTL

\* No automatic reply without the owner's consent.
THEOREM ConsentSafe == Spec => []AutoReplyHasConsent
<1>1. IInv => AutoReplyHasConsent
  BY DEF IInv, TypeOK, ConsentKnown, MaySend, AutoReplyHasConsent
<1>2. QED
  BY <1>1, Invariant, PTL

------------------------------------------------------------------------------
(* GenerateDraft of a message that has a draft *)

\* When no call fails, a request that found a draft when it was made finds it
\* again, unless it was told not to look.
LEMMA LateStep == MayFail = FALSE /\ TypeOK /\ AboutStored /\ SendsKnown /\ LateFindsDraft /\ [Next]_vars => LateFindsDraft'
<1> SUFFICES ASSUME MayFail = FALSE, TypeOK, AboutStored, SendsKnown, LateFindsDraft, [Next]_vars PROVE LateFindsDraft'
  OBVIOUS
<1> USE Disjoint DEF TypeOK, AboutStored, SendsKnown, LateFindsDraft, HasDraft, MsgOf, Procs, CanFail
<1>1. ASSUME NEW m \in Messages, Receive(m) PROVE LateFindsDraft'
  BY <1>1 DEF Receive, Goto, db, hist
<1>2. ASSUME NEW m \in Messages, Insert(m) PROVE LateFindsDraft'
  BY <1>2 DEF Insert, Goto, hist
<1>3. ASSUME NEW m \in Messages, ReadSettings(m) PROVE LateFindsDraft'
  BY <1>3 DEF ReadSettings, Dispatch, Goto, db, hist
<1>4. ASSUME NEW m \in Messages, LoadForLLM(m) PROVE LateFindsDraft'
  BY <1>4 DEF LoadForLLM, Goto, db, hist
<1>5. ASSUME NEW m \in Messages, NEW d \in {"draft", "auto_reply", "escalate"}, LLMDecides(m, d) PROVE LateFindsDraft'
  BY <1>5 DEF LLMDecides, Goto, db, hist
<1>6. ASSUME NEW m \in Messages, LLMFails(m) PROVE LateFindsDraft'
  BY <1>6 DEF LLMFails, Goto, db, hist
<1>7. ASSUME NEW p \in Procs, GenSettings(p) PROVE LateFindsDraft'
  BY <1>7 DEF GenSettings, Goto, db, hist
<1>8. ASSUME NEW p \in Procs, FindDraft(p) PROVE LateFindsDraft'
  BY <1>8 DEF FindDraft, Goto, db, hist
<1>9. ASSUME NEW p \in Procs, Compose(p) PROVE LateFindsDraft'
  BY <1>9 DEF Compose, AutoSendable, Goto, db, hist
<1>10. ASSUME NEW p \in Procs, Persist(p) PROVE LateFindsDraft'
  BY <1>10 DEF Persist, DraftOf, Goto, hist
<1>11. ASSUME NEW p \in Procs, Mark(p) PROVE LateFindsDraft'
  BY <1>11 DEF Mark, Goto, hist
<1>12. ASSUME NEW p \in Procs, LoadIntegration(p) PROVE LateFindsDraft'
  BY <1>12 DEF LoadIntegration, SendError, Goto, db, hist
<1>13. ASSUME NEW p \in Procs, Deliver(p) PROVE LateFindsDraft'
  BY <1>13 DEF Deliver, SendError, Goto, db, hist
<1>14. ASSUME NEW p \in Procs, LogOutgoing(p) PROVE LateFindsDraft'
  BY <1>14 DEF LogOutgoing, Goto, db, hist
<1>15. ASSUME NEW r \in Requests, RecordApproval(r) PROVE LateFindsDraft'
  BY <1>15 DEF RecordApproval, Goto, hist
<1>16. ASSUME NEW r \in Requests, NEW m \in Messages, NEW f \in BOOLEAN, StartGenerate(r, m, f) PROVE LateFindsDraft'
  BY <1>16 DEF StartGenerate, Goto, db
<1>17. ASSUME NEW r \in Requests, NEW m \in Messages, StartApprove(r, m) PROVE LateFindsDraft'
  BY <1>17 DEF StartApprove, Goto, db, hist
<1>18. ASSUME NEW c \in Choices, UpdateAgentSettings(c) PROVE LateFindsDraft'
  BY <1>18 DEF UpdateAgentSettings, proc
<1>19. ASSUME Disconnect \/ Reconnect PROVE LateFindsDraft'
  BY <1>19 DEF Disconnect, Reconnect, SetActive, proc, hist
<1>20. ASSUME NEW m \in Messages, Expire(m) PROVE LateFindsDraft'
  BY <1>20 DEF Expire, db, proc, hist
<1>21. ASSUME Crash PROVE LateFindsDraft'
  BY <1>21 DEF Crash, Running, db, hist
<1>22. CASE UNCHANGED vars
  BY <1>22 DEF vars, db, proc, hist
<1>23. QED
  BY <1>1, <1>2, <1>3, <1>4, <1>5, <1>6, <1>7, <1>8, <1>9, <1>10, <1>11, <1>12, <1>13, <1>14, <1>15, <1>16, <1>17, <1>18, <1>19, <1>20, <1>21, <1>22
     DEF Next, ProcStep, InboundStep, PipelineStep, Call, Environment

\* When no call fails, GenerateDraft without force never sends a second reply for
\* a message that had a draft when it was called.
THEOREM LateSafe ==
    ASSUME MayFail = FALSE
    PROVE  Spec => []LateGenerateSendsNothing
<1>1. Init => LateFindsDraft
  BY DEF Init, LateFindsDraft
<1>2. IInv /\ LateFindsDraft /\ [Next]_vars => LateFindsDraft'
  BY LateStep DEF IInv
<1>3. LateFindsDraft => LateGenerateSendsNothing
  BY DEF LateFindsDraft, LateGenerateSendsNothing
<1>4. QED
  BY <1>1, <1>2, <1>3, Invariant, PTL DEF Spec

------------------------------------------------------------------------------
(* Approvals last *)

\* No later write of a draft row, by whichever goroutine or request, clears
\* the approval recorded in it.
THEOREM ApprovalLasts == Spec => ApprovalIsPermanent
<1> DEFINE Keeps == \A m \in Messages : draft[m].approved => draft'[m].approved
<1>1. IInv /\ [Next]_vars => [Keeps]_vars
  <2> SUFFICES ASSUME TypeOK, [Next]_vars PROVE draft' # draft => Keeps
    BY DEF IInv
  <2> USE DEF TypeOK
  <2>1. ASSUME NEW p \in Procs, Persist(p) PROVE Keeps
    BY <2>1 DEF Persist, DraftOf
  <2>2. ASSUME NEW r \in Requests, RecordApproval(r) PROVE Keeps
    BY <2>2 DEF RecordApproval
  <2>3. QED
    BY <2>1, <2>2
       DEF Next, ProcStep, InboundStep, PipelineStep, Call, Environment, vars, db,
           Receive, Insert, ReadSettings, LoadForLLM, LLMDecides, LLMFails,
           GenSettings, FindDraft, Compose, Mark, LoadIntegration, Deliver,
           LogOutgoing, StartGenerate, StartApprove, UpdateAgentSettings,
           Disconnect, Reconnect, SetActive, Expire, Crash
<1>2. QED
  BY <1>1, Invariant, PTL DEF Spec, ApprovalIsPermanent

------------------------------------------------------------------------------
(* The pipeline implements the ledger *)

\* A step that writes no draft, stores and delivers nothing, and leaves the
\* requests that have delivered alone, is a stutter of the ledger.
LEMMA Stutters ==
    /\ UNCHANGED <<stored, draft, delivered>>
    /\ \A p \in delivered : MsgOf(p)' = MsgOf(p)
    => UNCHANGED Ledger!ledger
BY DEF Ledger!ledger

\* The initial states agree.
LEMMA LedgerInit == Init => Ledger!Init
BY DEF Init, Ledger!Init, NoDraft

\* Each step is a step of the ledger or leaves it alone.
LEMMA LedgerStep == IInv /\ [Next]_vars => [Ledger!Next]_(Ledger!ledger)
<1> SUFFICES ASSUME IInv, [Next]_vars PROVE [Ledger!Next]_(Ledger!ledger)
  OBVIOUS
<1> USE Disjoint DEF IInv, TypeOK, Procs
<1>1. ASSUME NEW m \in Messages, Insert(m) PROVE [Ledger!Next]_(Ledger!ledger)
  <2>1. CASE stored' = stored \cup {m}
    <3>1. Ledger!Arrive(m)
      BY <1>1, <2>1 DEF Insert, Ledger!Arrive, MsgOf
    <3>2. QED
      BY <3>1 DEF Ledger!Next
  <2>2. CASE stored' = stored
    BY <1>1, <2>2, Stutters DEF Insert, MsgOf
  <2>3. QED
    BY <1>1, <2>1, <2>2 DEF Insert
<1>2. ASSUME NEW p \in Procs, Persist(p) PROVE [Ledger!Next]_(Ledger!ledger)
  <2>1. MsgOf(p) \in Messages
    BY <1>2 DEF Persist, MsgOf, AboutStored
  <2>2. CASE draft' = draft
    BY <1>2, <2>2, Stutters DEF Persist, MsgOf
  <2>3. CASE draft' = [draft EXCEPT ![MsgOf(p)] = DraftOf(p)]
    <3>1. PICK c \in Ledger!Senders \cup {NoOne} :
             c = DraftOf(p).sentId /\ (c # NoOne => c = p /\ p \in delivered)
      BY <1>2 DEF DraftOf, Persist, SendsKnown, Ledger!Senders
    <3>2. Ledger!Show(MsgOf(p), c)
      <4>1. c = NoOne \/ <<MsgOf(p), c>> \in {<<MsgOf(q), q>> : q \in delivered}
        BY <3>1
      <4>2. [m \in Messages |-> draft'[m].sentId]
              = [[m \in Messages |-> draft[m].sentId] EXCEPT ![MsgOf(p)] = c]
        BY <2>1, <2>3, <3>1
      <4>3. {m \in Messages : draft'[m].approved} = {m \in Messages : draft[m].approved}
        BY <2>1, <2>3 DEF DraftOf
      <4>4. /\ stored' = stored
            /\ {<<MsgOf(q), q>> : q \in delivered}' = {<<MsgOf(q), q>> : q \in delivered}
        BY <1>2 DEF Persist, MsgOf
      <4>5. QED
        BY <4>1, <4>2, <4>3, <4>4 DEF Ledger!Show
    <3>3. QED
      BY <2>1, <3>1, <3>2 DEF Ledger!Next
  <2>4. QED
    BY <1>2, <2>2, <2>3 DEF Persist
<1>3. ASSUME NEW p \in Procs, Deliver(p) PROVE [Ledger!Next]_(Ledger!ledger)
  <2>1. /\ MsgOf(p) \in stored /\ MsgOf(p) \in Messages
        /\ p \notin delivered
    BY <1>3 DEF Deliver, MsgOf, AboutStored, SendsKnown
  <2>2. CASE delivered' = delivered
    BY <1>3, <2>2, Stutters DEF Deliver, MsgOf, db
  <2>3. CASE delivered' = delivered \cup {p}
    <3>1. Ledger!Reply(MsgOf(p), p)
      <4>1. \A n \in Messages : <<n, p>> \notin {<<MsgOf(q), q>> : q \in delivered}
        BY <2>1
      <4>2. {<<MsgOf(q), q>> : q \in delivered}'
              = {<<MsgOf(q), q>> : q \in delivered} \cup {<<MsgOf(p), p>>}
        BY <1>3, <2>3 DEF Deliver, MsgOf
      <4>3. QED
        BY <1>3, <2>1, <4>1, <4>2 DEF Ledger!Reply, Deliver, db
    <3>2. QED
      BY <2>1, <3>1 DEF Ledger!Next, Ledger!Senders
  <2>4. QED
    BY <1>3, <2>2, <2>3 DEF Deliver
<1>4. ASSUME NEW r \in Requests, RecordApproval(r) PROVE [Ledger!Next]_(Ledger!ledger)
  <2>1. MsgOf(r) = target[r] /\ target[r] \in Messages /\ r \in delivered
    BY <1>4 DEF RecordApproval, MsgOf, AboutStored, SendsKnown
  <2>2. CASE draft' = draft
    BY <1>4, <2>2, Stutters DEF RecordApproval, MsgOf
  <2>3. CASE draft' = [draft EXCEPT ![target[r]] =
                          [status |-> "sent", sentId |-> r, approved |-> TRUE]]
    <3>1. Ledger!Approve(target[r], r)
      <4>1. <<target[r], r>> \in {<<MsgOf(q), q>> : q \in delivered}
        BY <2>1
      <4>2. [m \in Messages |-> draft'[m].sentId]
              = [[m \in Messages |-> draft[m].sentId] EXCEPT ![target[r]] = r]
        BY <2>1, <2>3
      <4>3. {m \in Messages : draft'[m].approved}
              = {m \in Messages : draft[m].approved} \cup {target[r]}
        BY <2>1, <2>3
      <4>4. /\ stored' = stored
            /\ {<<MsgOf(q), q>> : q \in delivered}' = {<<MsgOf(q), q>> : q \in delivered}
        BY <1>4 DEF RecordApproval, MsgOf
      <4>5. QED
        BY <4>1, <4>2, <4>3, <4>4 DEF Ledger!Approve
    <3>2. QED
      BY <2>1, <3>1 DEF Ledger!Next
  <2>4. QED
    BY <1>4, <2>2, <2>3 DEF RecordApproval
<1>5. ASSUME NEW r \in Requests, NEW m \in Messages, NEW f \in BOOLEAN,
             StartGenerate(r, m, f) \/ StartApprove(r, m)
      PROVE  UNCHANGED Ledger!ledger
  BY <1>5, Stutters DEF StartGenerate, StartApprove, SendsKnown, MsgOf, db
<1>6. ASSUME NEW m \in Messages,
             \/ Receive(m) \/ ReadSettings(m) \/ LoadForLLM(m) \/ LLMFails(m)
             \/ \E d \in {"draft", "auto_reply", "escalate"} : LLMDecides(m, d)
             \/ Expire(m)
      PROVE  UNCHANGED Ledger!ledger
  BY <1>6, Stutters
     DEF Receive, ReadSettings, LoadForLLM, LLMFails, LLMDecides, Expire, MsgOf, db, proc
<1>7. ASSUME NEW p \in Procs,
             GenSettings(p) \/ FindDraft(p) \/ Compose(p) \/ Mark(p)
                \/ LoadIntegration(p) \/ LogOutgoing(p)
      PROVE  UNCHANGED Ledger!ledger
  BY <1>7, Stutters
     DEF GenSettings, FindDraft, Compose, Mark, LoadIntegration, LogOutgoing, MsgOf, db
<1>8. ASSUME \/ \E c \in Choices : UpdateAgentSettings(c)
             \/ Disconnect \/ Reconnect \/ Crash
      PROVE  UNCHANGED Ledger!ledger
  BY <1>8, Stutters
     DEF UpdateAgentSettings, Disconnect, Reconnect, SetActive, Crash, MsgOf, db, proc
<1>9. CASE UNCHANGED vars
  BY <1>9, Stutters DEF vars, db, proc, MsgOf
<1>10. QED
  BY <1>1, <1>2, <1>3, <1>4, <1>5, <1>6, <1>7, <1>8, <1>9
     DEF Next, ProcStep, InboundStep, PipelineStep, Call, Environment

\* The reply pipeline implements the abstract ledger of replies.
THEOREM Refinement == Spec => ImplementsLedger
<1>1. QED
  BY LedgerInit, LedgerStep, Invariant, PTL DEF Spec, ImplementsLedger, Ledger!Spec
=============================================================================
