--------------------------- MODULE VKWorkersProofs ---------------------------
(***************************************************************************)
(* Proofs about VKWorkers, for any number of connects, disconnects and     *)
(* restarts, whatever fails or expires.                                    *)
(***************************************************************************)
EXTENDS VKWorkers, TLAPS

------------------------------------------------------------------------------
(* Each part of the inductive invariant is preserved by every step *)

\* Each step keeps every variable within its type: a worker only handles events.
LEMMA TypeStep == WorkersTypeOK /\ PollsInRange /\ [WorkersNext]_workersVars => WorkersTypeOK'
<1> SUFFICES ASSUME WorkersTypeOK, PollsInRange, [WorkersNext]_workersVars PROVE WorkersTypeOK'
  OBVIOUS
<1> USE WorkersDisjoint, TsType DEF WorkersTypeOK, RowType, Ts, Workers, Connects, OwnerRequests, Events, NoTs, PollsInRange
<1>1. ASSUME Arrive PROVE WorkersTypeOK'
  BY <1>1 DEF Arrive, worker
<1>2. ASSUME NEW r \in Connects, FinishGroupOAuth(r) \/ SaveCommunityToken(r) PROVE WorkersTypeOK'
  <2>1. row' \in RowType
    BY <1>2 DEF FinishGroupOAuth, SaveCommunityToken
  <2>2. step' \in [OwnerRequests \cup Boots -> {"idle", "saved", "stop", "query", "done"}]
    BY <1>2 DEF FinishGroupOAuth, SaveCommunityToken
  <2> QED
    BY <1>2, <2>1, <2>2 DEF FinishGroupOAuth, SaveCommunityToken, worker, vk
<1>3. ASSUME NEW r \in Connects, Spawn(r) PROVE WorkersTypeOK'
  <2>1. step' \in [OwnerRequests \cup Boots -> {"idle", "saved", "stop", "query", "done"}]
    BY <1>3 DEF Spawn
  <2>2. CASE GoStartWorker(r, NoTs)
    BY <1>3, <2>1, <2>2 DEF Spawn, GoStartWorker, Move, vk
  <2>3. CASE UNCHANGED worker
    BY <1>3, <2>1, <2>3 DEF Spawn, worker, vk
  <2>4. QED
    BY <1>3, <2>2, <2>3 DEF Spawn
<1>4. ASSUME NEW d \in Disconnects, Deactivate(d) PROVE WorkersTypeOK'
  BY <1>4 DEF Deactivate, worker, vk
<1>5. ASSUME NEW d \in Disconnects, StopWorker(d) PROVE WorkersTypeOK'
  BY <1>5 DEF StopWorker, vk
<1>6. ASSUME NEW b \in Boots, Restart(b) PROVE WorkersTypeOK'
  BY <1>6 DEF Restart, vk
<1>7. ASSUME NEW b \in Boots, StartAllWorkers(b) PROVE WorkersTypeOK'
  <2>1. step' \in [OwnerRequests \cup Boots -> {"idle", "saved", "stop", "query", "done"}]
    BY <1>7 DEF StartAllWorkers
  <2>2. CASE GoStartWorker(b, row.ts)
    BY <1>7, <2>1, <2>2 DEF StartAllWorkers, GoStartWorker, Move, vk
  <2>3. CASE UNCHANGED worker
    BY <1>7, <2>1, <2>3 DEF StartAllWorkers, worker, vk
  <2>4. QED
    BY <1>7, <2>2, <2>3 DEF StartAllWorkers
<1>8. ASSUME NEW w \in Workers, Register(w) PROVE WorkersTypeOK'
  BY <1>8 DEF Register, Move, vk
<1>9. ASSUME NEW w \in Workers, GetServer(w) PROVE WorkersTypeOK'
  BY <1>9 DEF GetServer, StartTs, Move
<1>10. ASSUME NEW w \in Workers, Poll(w) PROVE WorkersTypeOK'
  BY <1>10 DEF Poll, Move, vk
<1>11. ASSUME NEW w \in Workers, KeyExpired(w) PROVE WorkersTypeOK'
  BY <1>11 DEF KeyExpired, Move, vk
<1>12. ASSUME NEW w \in Workers, TsOutdated(w) PROVE WorkersTypeOK'
  BY <1>12 DEF TsOutdated
<1>13. ASSUME NEW w \in Workers, Handle(w) PROVE WorkersTypeOK'
  <2>1. next[w] \in Events
    BY <1>13 DEF Handle
  <2>2. inserted' \subseteq Events /\ seen' \subseteq Events
    BY <1>13, <2>1 DEF Handle
  <2>3. pipelines' \in [Events -> Nat]
    <3>1. pipelines[next[w]] + 1 \in Nat
      BY <2>1
    <3>2. QED
      BY <1>13, <3>1 DEF Handle
  <2>4. next' \in [Workers -> Nat]
    BY <1>13 DEF Handle
  <2>5. QED
    BY <1>13, <2>2, <2>3, <2>4 DEF Handle
<1>14. ASSUME NEW w \in Workers, SaveTs(w) PROVE WorkersTypeOK'
  BY <1>14 DEF SaveTs, Move, vk
<1>15. ASSUME NEW w \in Workers, Leave(w) PROVE WorkersTypeOK'
  BY <1>15 DEF Leave, Move, vk
<1>16. CASE UNCHANGED workersVars
  BY <1>16 DEF workersVars, worker, vk
<1>17. QED
  BY <1>1, <1>2, <1>3, <1>4, <1>5, <1>6, <1>7, <1>8, <1>9, <1>10, <1>11, <1>12, <1>13, <1>14, <1>15, <1>16 DEF WorkersNext, WorkerStep

\* A worker polls from an event, and a batch ends at one.
LEMMA PollsStep == WorkersTypeOK /\ PollsInRange /\ [WorkersNext]_workersVars => PollsInRange'
<1> SUFFICES ASSUME WorkersTypeOK, PollsInRange, [WorkersNext]_workersVars PROVE PollsInRange'
  OBVIOUS
<1> USE WorkersDisjoint, TsType DEF WorkersTypeOK, RowType, Ts, Workers, Connects, OwnerRequests, Events, NoTs, PollsInRange
<1>1. ASSUME Arrive PROVE PollsInRange'
  BY <1>1 DEF Arrive, worker
<1>2. ASSUME NEW r \in Connects, FinishGroupOAuth(r) \/ SaveCommunityToken(r) PROVE PollsInRange'
  BY <1>2 DEF FinishGroupOAuth, SaveCommunityToken, worker, vk
<1>3. ASSUME NEW r \in Connects, Spawn(r) PROVE PollsInRange'
  BY <1>3 DEF Spawn, GoStartWorker, Move, worker, vk
<1>4. ASSUME NEW d \in Disconnects, Deactivate(d) PROVE PollsInRange'
  BY <1>4 DEF Deactivate, worker, vk
<1>5. ASSUME NEW d \in Disconnects, StopWorker(d) PROVE PollsInRange'
  BY <1>5 DEF StopWorker, vk
<1>6. ASSUME NEW b \in Boots, Restart(b) PROVE PollsInRange'
  BY <1>6 DEF Restart, vk
<1>7. ASSUME NEW b \in Boots, StartAllWorkers(b) PROVE PollsInRange'
  BY <1>7 DEF StartAllWorkers, GoStartWorker, Move, worker, vk
<1>8. ASSUME NEW w \in Workers, Register(w) PROVE PollsInRange'
  BY <1>8 DEF Register, Move, vk
<1>9. ASSUME NEW w \in Workers, GetServer(w) PROVE PollsInRange'
  BY <1>9 DEF GetServer, StartTs, Move
<1>10. ASSUME NEW w \in Workers, Poll(w) PROVE PollsInRange'
  BY <1>10 DEF Poll, Move, vk
<1>11. ASSUME NEW w \in Workers, KeyExpired(w) PROVE PollsInRange'
  BY <1>11 DEF KeyExpired, Move, vk
<1>12. ASSUME NEW w \in Workers, TsOutdated(w) PROVE PollsInRange'
  BY <1>12 DEF TsOutdated
<1>13. ASSUME NEW w \in Workers, Handle(w) PROVE PollsInRange'
  BY <1>13 DEF Handle
<1>14. ASSUME NEW w \in Workers, SaveTs(w) PROVE PollsInRange'
  BY <1>14 DEF SaveTs, Move, vk
<1>15. ASSUME NEW w \in Workers, Leave(w) PROVE PollsInRange'
  BY <1>15 DEF Leave, Move, vk
<1>16. CASE UNCHANGED workersVars
  BY <1>16 DEF workersVars, worker, vk
<1>17. QED
  BY <1>1, <1>2, <1>3, <1>4, <1>5, <1>6, <1>7, <1>8, <1>9, <1>10, <1>11, <1>12, <1>13, <1>14, <1>15, <1>16 DEF WorkersNext, WorkerStep

\* A worker gets past an event by handling it, or by starting after it.
LEMMA ProgressStep == WorkersTypeOK /\ PollsInRange /\ ProgressSeen /\ [WorkersNext]_workersVars => ProgressSeen'
<1> SUFFICES ASSUME WorkersTypeOK, PollsInRange, ProgressSeen, [WorkersNext]_workersVars PROVE ProgressSeen'
  OBVIOUS
<1> USE WorkersDisjoint, TsType DEF WorkersTypeOK, RowType, Ts, Workers, Connects, OwnerRequests, Events, NoTs, PollsInRange, ProgressSeen, SeenUpTo
<1>1. ASSUME Arrive PROVE ProgressSeen'
  BY <1>1 DEF Arrive, worker
<1>2. ASSUME NEW r \in Connects, FinishGroupOAuth(r) \/ SaveCommunityToken(r) PROVE ProgressSeen'
  BY <1>2 DEF FinishGroupOAuth, SaveCommunityToken, worker, vk
<1>3. ASSUME NEW r \in Connects, Spawn(r) PROVE ProgressSeen'
  BY <1>3 DEF Spawn, GoStartWorker, Move, worker, vk
<1>4. ASSUME NEW d \in Disconnects, Deactivate(d) PROVE ProgressSeen'
  BY <1>4 DEF Deactivate, worker, vk
<1>5. ASSUME NEW d \in Disconnects, StopWorker(d) PROVE ProgressSeen'
  BY <1>5 DEF StopWorker, vk
<1>6. ASSUME NEW b \in Boots, Restart(b) PROVE ProgressSeen'
  BY <1>6 DEF Restart, vk
<1>7. ASSUME NEW b \in Boots, StartAllWorkers(b) PROVE ProgressSeen'
  BY <1>7 DEF StartAllWorkers, GoStartWorker, Move, worker, vk
<1>8. ASSUME NEW w \in Workers, Register(w) PROVE ProgressSeen'
  BY <1>8 DEF Register, Move, vk
<1>9. ASSUME NEW w \in Workers, GetServer(w) PROVE ProgressSeen'
  BY <1>9 DEF GetServer, StartTs, Move
<1>10. ASSUME NEW w \in Workers, Poll(w) PROVE ProgressSeen'
  BY <1>10 DEF Poll, Move, vk
<1>11. ASSUME NEW w \in Workers, KeyExpired(w) PROVE ProgressSeen'
  BY <1>11 DEF KeyExpired, Move, vk
<1>12. ASSUME NEW w \in Workers, TsOutdated(w) PROVE ProgressSeen'
  BY <1>12 DEF TsOutdated
<1>13. ASSUME NEW w \in Workers, Handle(w) PROVE ProgressSeen'
  <2>1. next' = [next EXCEPT ![w] = next[w] + 1] /\ next[w] \in Nat
    BY <1>13 DEF Handle
  <2>2. \A e \in Events : e <= next[w] => e \in seen'
    BY <1>13 DEF Handle
  <2>3. QED
    BY <1>13, <2>1, <2>2 DEF Handle
<1>14. ASSUME NEW w \in Workers, SaveTs(w) PROVE ProgressSeen'
  BY <1>14 DEF SaveTs, Move, vk
<1>15. ASSUME NEW w \in Workers, Leave(w) PROVE ProgressSeen'
  BY <1>15 DEF Leave, Move, vk
<1>16. CASE UNCHANGED workersVars
  BY <1>16 DEF workersVars, worker, vk
<1>17. QED
  BY <1>1, <1>2, <1>3, <1>4, <1>5, <1>6, <1>7, <1>8, <1>9, <1>10, <1>11, <1>12, <1>13, <1>14, <1>15, <1>16 DEF WorkersNext, WorkerStep

\* Whoever takes the place of a worker in the registry cancels it.
LEMMA LiveStep == WorkersTypeOK /\ LiveIsRegistered /\ [WorkersNext]_workersVars => LiveIsRegistered'
<1> SUFFICES ASSUME WorkersTypeOK, LiveIsRegistered, [WorkersNext]_workersVars PROVE LiveIsRegistered'
  OBVIOUS
<1> USE WorkersDisjoint, TsType DEF WorkersTypeOK, LiveIsRegistered, Live, Runs, Workers, Connects
<1>1. ASSUME Arrive PROVE LiveIsRegistered'
  BY <1>1 DEF Arrive, worker
<1>2. ASSUME NEW r \in Connects, FinishGroupOAuth(r) \/ SaveCommunityToken(r) PROVE LiveIsRegistered'
  BY <1>2 DEF FinishGroupOAuth, SaveCommunityToken, worker, vk
<1>3. ASSUME NEW r \in Connects, Spawn(r) PROVE LiveIsRegistered'
  BY <1>3 DEF Spawn, GoStartWorker, Move, worker, vk
<1>4. ASSUME NEW d \in Disconnects, Deactivate(d) PROVE LiveIsRegistered'
  BY <1>4 DEF Deactivate, worker, vk
<1>5. ASSUME NEW d \in Disconnects, StopWorker(d) PROVE LiveIsRegistered'
  BY <1>5 DEF StopWorker, vk
<1>6. ASSUME NEW b \in Boots, Restart(b) PROVE LiveIsRegistered'
  BY <1>6 DEF Restart, vk
<1>7. ASSUME NEW b \in Boots, StartAllWorkers(b) PROVE LiveIsRegistered'
  BY <1>7 DEF StartAllWorkers, GoStartWorker, Move, worker, vk
<1>8. ASSUME NEW w \in Workers, Register(w) PROVE LiveIsRegistered'
  BY <1>8 DEF Register, Move, vk
<1>9. ASSUME NEW w \in Workers, GetServer(w) PROVE LiveIsRegistered'
  BY <1>9 DEF GetServer, StartTs, Move
<1>10. ASSUME NEW w \in Workers, Poll(w) PROVE LiveIsRegistered'
  BY <1>10 DEF Poll, Move, vk
<1>11. ASSUME NEW w \in Workers, KeyExpired(w) PROVE LiveIsRegistered'
  BY <1>11 DEF KeyExpired, Move, vk
<1>12. ASSUME NEW w \in Workers, TsOutdated(w) PROVE LiveIsRegistered'
  BY <1>12 DEF TsOutdated
<1>13. ASSUME NEW w \in Workers, Handle(w) PROVE LiveIsRegistered'
  BY <1>13 DEF Handle
<1>14. ASSUME NEW w \in Workers, SaveTs(w) PROVE LiveIsRegistered'
  BY <1>14 DEF SaveTs, Move, vk
<1>15. ASSUME NEW w \in Workers, Leave(w) PROVE LiveIsRegistered'
  BY <1>15 DEF Leave, Move, vk
<1>16. CASE UNCHANGED workersVars
  BY <1>16 DEF workersVars, worker, vk
<1>17. QED
  BY <1>1, <1>2, <1>3, <1>4, <1>5, <1>6, <1>7, <1>8, <1>9, <1>10, <1>11, <1>12, <1>13, <1>14, <1>15, <1>16 DEF WorkersNext, WorkerStep

\* A goroutine starts exactly when its message is stored first.
LEMMA PipelineStep == WorkersTypeOK /\ PollsInRange /\ OnePipelinePerMessage /\ [WorkersNext]_workersVars => OnePipelinePerMessage'
<1> SUFFICES ASSUME WorkersTypeOK, PollsInRange, OnePipelinePerMessage, [WorkersNext]_workersVars PROVE OnePipelinePerMessage'
  OBVIOUS
<1> USE WorkersDisjoint, TsType DEF WorkersTypeOK, PollsInRange, OnePipelinePerMessage, Events
<1>1. ASSUME Arrive PROVE OnePipelinePerMessage'
  BY <1>1 DEF Arrive, worker
<1>2. ASSUME NEW r \in Connects, FinishGroupOAuth(r) \/ SaveCommunityToken(r) PROVE OnePipelinePerMessage'
  BY <1>2 DEF FinishGroupOAuth, SaveCommunityToken, worker, vk
<1>3. ASSUME NEW r \in Connects, Spawn(r) PROVE OnePipelinePerMessage'
  BY <1>3 DEF Spawn, GoStartWorker, Move, worker, vk
<1>4. ASSUME NEW d \in Disconnects, Deactivate(d) PROVE OnePipelinePerMessage'
  BY <1>4 DEF Deactivate, worker, vk
<1>5. ASSUME NEW d \in Disconnects, StopWorker(d) PROVE OnePipelinePerMessage'
  BY <1>5 DEF StopWorker, vk
<1>6. ASSUME NEW b \in Boots, Restart(b) PROVE OnePipelinePerMessage'
  BY <1>6 DEF Restart, vk
<1>7. ASSUME NEW b \in Boots, StartAllWorkers(b) PROVE OnePipelinePerMessage'
  BY <1>7 DEF StartAllWorkers, GoStartWorker, Move, worker, vk
<1>8. ASSUME NEW w \in Workers, Register(w) PROVE OnePipelinePerMessage'
  BY <1>8 DEF Register, Move, vk
<1>9. ASSUME NEW w \in Workers, GetServer(w) PROVE OnePipelinePerMessage'
  BY <1>9 DEF GetServer, StartTs, Move
<1>10. ASSUME NEW w \in Workers, Poll(w) PROVE OnePipelinePerMessage'
  BY <1>10 DEF Poll, Move, vk
<1>11. ASSUME NEW w \in Workers, KeyExpired(w) PROVE OnePipelinePerMessage'
  BY <1>11 DEF KeyExpired, Move, vk
<1>12. ASSUME NEW w \in Workers, TsOutdated(w) PROVE OnePipelinePerMessage'
  BY <1>12 DEF TsOutdated
<1>13. ASSUME NEW w \in Workers, Handle(w) PROVE OnePipelinePerMessage'
  BY <1>13 DEF Handle
<1>14. ASSUME NEW w \in Workers, SaveTs(w) PROVE OnePipelinePerMessage'
  BY <1>14 DEF SaveTs, Move, vk
<1>15. ASSUME NEW w \in Workers, Leave(w) PROVE OnePipelinePerMessage'
  BY <1>15 DEF Leave, Move, vk
<1>16. CASE UNCHANGED workersVars
  BY <1>16 DEF workersVars, worker, vk
<1>17. QED
  BY <1>1, <1>2, <1>3, <1>4, <1>5, <1>6, <1>7, <1>8, <1>9, <1>10, <1>11, <1>12, <1>13, <1>14, <1>15, <1>16 DEF WorkersNext, WorkerStep

\* A manual token gives way to a manual token only.
LEMMA ManualStep == WorkersTypeOK /\ ManualTokenKept /\ [WorkersNext]_workersVars => ManualTokenKept'
<1> SUFFICES ASSUME WorkersTypeOK, ManualTokenKept, [WorkersNext]_workersVars PROVE ManualTokenKept'
  OBVIOUS
<1> USE WorkersDisjoint, TsType DEF WorkersTypeOK, RowType, ManualTokenKept, Connects
<1>1. ASSUME Arrive PROVE ManualTokenKept'
  BY <1>1 DEF Arrive, worker
<1>2. ASSUME NEW r \in Connects, FinishGroupOAuth(r) \/ SaveCommunityToken(r) PROVE ManualTokenKept'
  BY <1>2 DEF FinishGroupOAuth, SaveCommunityToken, worker, vk
<1>3. ASSUME NEW r \in Connects, Spawn(r) PROVE ManualTokenKept'
  BY <1>3 DEF Spawn, GoStartWorker, Move, worker, vk
<1>4. ASSUME NEW d \in Disconnects, Deactivate(d) PROVE ManualTokenKept'
  BY <1>4 DEF Deactivate, worker, vk
<1>5. ASSUME NEW d \in Disconnects, StopWorker(d) PROVE ManualTokenKept'
  BY <1>5 DEF StopWorker, vk
<1>6. ASSUME NEW b \in Boots, Restart(b) PROVE ManualTokenKept'
  BY <1>6 DEF Restart, vk
<1>7. ASSUME NEW b \in Boots, StartAllWorkers(b) PROVE ManualTokenKept'
  BY <1>7 DEF StartAllWorkers, GoStartWorker, Move, worker, vk
<1>8. ASSUME NEW w \in Workers, Register(w) PROVE ManualTokenKept'
  BY <1>8 DEF Register, Move, vk
<1>9. ASSUME NEW w \in Workers, GetServer(w) PROVE ManualTokenKept'
  BY <1>9 DEF GetServer, StartTs, Move
<1>10. ASSUME NEW w \in Workers, Poll(w) PROVE ManualTokenKept'
  BY <1>10 DEF Poll, Move, vk
<1>11. ASSUME NEW w \in Workers, KeyExpired(w) PROVE ManualTokenKept'
  BY <1>11 DEF KeyExpired, Move, vk
<1>12. ASSUME NEW w \in Workers, TsOutdated(w) PROVE ManualTokenKept'
  BY <1>12 DEF TsOutdated
<1>13. ASSUME NEW w \in Workers, Handle(w) PROVE ManualTokenKept'
  BY <1>13 DEF Handle
<1>14. ASSUME NEW w \in Workers, SaveTs(w) PROVE ManualTokenKept'
  BY <1>14 DEF SaveTs, Move, vk
<1>15. ASSUME NEW w \in Workers, Leave(w) PROVE ManualTokenKept'
  BY <1>15 DEF Leave, Move, vk
<1>16. CASE UNCHANGED workersVars
  BY <1>16 DEF workersVars, worker, vk
<1>17. QED
  BY <1>1, <1>2, <1>3, <1>4, <1>5, <1>6, <1>7, <1>8, <1>9, <1>10, <1>11, <1>12, <1>13, <1>14, <1>15, <1>16 DEF WorkersNext, WorkerStep

\* The ts a worker saves ends a batch it has handled.
LEMMA ConsumedStep == WorkersTypeOK /\ PollsInRange /\ ProgressSeen /\ ConsumedWasSeen /\ [WorkersNext]_workersVars => ConsumedWasSeen'
<1> SUFFICES ASSUME WorkersTypeOK, PollsInRange, ProgressSeen, ConsumedWasSeen, [WorkersNext]_workersVars PROVE ConsumedWasSeen'
  OBVIOUS
<1> USE WorkersDisjoint, TsType DEF WorkersTypeOK, RowType, Ts, Workers, Connects, OwnerRequests, Events, NoTs, PollsInRange, ProgressSeen, SeenUpTo, ConsumedWasSeen
<1>1. ASSUME Arrive PROVE ConsumedWasSeen'
  BY <1>1 DEF Arrive, worker
<1>2. ASSUME NEW r \in Connects, FinishGroupOAuth(r) \/ SaveCommunityToken(r) PROVE ConsumedWasSeen'
  <2>1. row'.ts = row.ts
    BY <1>2 DEF FinishGroupOAuth, SaveCommunityToken
  <2> QED
    BY <1>2, <2>1 DEF FinishGroupOAuth, SaveCommunityToken, vk
<1>3. ASSUME NEW r \in Connects, Spawn(r) PROVE ConsumedWasSeen'
  BY <1>3 DEF Spawn, GoStartWorker, Move, worker, vk
<1>4. ASSUME NEW d \in Disconnects, Deactivate(d) PROVE ConsumedWasSeen'
  BY <1>4 DEF Deactivate, worker, vk
<1>5. ASSUME NEW d \in Disconnects, StopWorker(d) PROVE ConsumedWasSeen'
  BY <1>5 DEF StopWorker, vk
<1>6. ASSUME NEW b \in Boots, Restart(b) PROVE ConsumedWasSeen'
  BY <1>6 DEF Restart, vk
<1>7. ASSUME NEW b \in Boots, StartAllWorkers(b) PROVE ConsumedWasSeen'
  BY <1>7 DEF StartAllWorkers, GoStartWorker, Move, worker, vk
<1>8. ASSUME NEW w \in Workers, Register(w) PROVE ConsumedWasSeen'
  BY <1>8 DEF Register, Move, vk
<1>9. ASSUME NEW w \in Workers, GetServer(w) PROVE ConsumedWasSeen'
  BY <1>9 DEF GetServer, StartTs, Move
<1>10. ASSUME NEW w \in Workers, Poll(w) PROVE ConsumedWasSeen'
  BY <1>10 DEF Poll, Move, vk
<1>11. ASSUME NEW w \in Workers, KeyExpired(w) PROVE ConsumedWasSeen'
  BY <1>11 DEF KeyExpired, Move, vk
<1>12. ASSUME NEW w \in Workers, TsOutdated(w) PROVE ConsumedWasSeen'
  BY <1>12 DEF TsOutdated
<1>13. ASSUME NEW w \in Workers, Handle(w) PROVE ConsumedWasSeen'
  BY <1>13 DEF Handle
<1>14. ASSUME NEW w \in Workers, SaveTs(w) PROVE ConsumedWasSeen'
  BY <1>14 DEF SaveTs, Move, vk
<1>15. ASSUME NEW w \in Workers, Leave(w) PROVE ConsumedWasSeen'
  BY <1>15 DEF Leave, Move, vk
<1>16. CASE UNCHANGED workersVars
  BY <1>16 DEF workersVars, worker, vk
<1>17. QED
  BY <1>1, <1>2, <1>3, <1>4, <1>5, <1>6, <1>7, <1>8, <1>9, <1>10, <1>11, <1>12, <1>13, <1>14, <1>15, <1>16 DEF WorkersNext, WorkerStep

\* Before the first connect there is nothing to poll.
LEMMA InitIInv == WorkersInit => WorkersInv
<1> SUFFICES ASSUME WorkersInit PROVE WorkersInv
  OBVIOUS
<1> USE WorkersDisjoint, TsType DEF WorkersInit, NoTs
<1>1. WorkersTypeOK
  BY DEF WorkersTypeOK, RowType, Ts, Workers, Connects, OwnerRequests, Events
<1>2. PollsInRange /\ ProgressSeen /\ LiveIsRegistered
  BY DEF PollsInRange, ProgressSeen, LiveIsRegistered, Live, Runs
<1>3. OnePipelinePerMessage /\ ManualTokenKept /\ ConsumedWasSeen
  BY DEF OnePipelinePerMessage, ManualTokenKept, ConsumedWasSeen
<1>4. QED
  BY <1>1, <1>2, <1>3 DEF WorkersInv

\* The parts together are inductive.
LEMMA StepIInv == WorkersInv /\ [WorkersNext]_workersVars => WorkersInv'
BY TypeStep, PollsStep, ProgressStep, LiveStep, PipelineStep, ManualStep, ConsumedStep
   DEF WorkersInv

\* The inductive invariant holds in every reachable state.
THEOREM Invariant == WorkersSpec => []WorkersInv
<1>1. QED
  BY InitIInv, StepIInv, PTL DEF WorkersSpec

------------------------------------------------------------------------------
(* The safety properties *)

\* Every variable stays within its type, for any bounds on the events.
THEOREM TypeCorrect == WorkersSpec => []WorkersTypeOK
<1>1. WorkersInv => WorkersTypeOK
  BY DEF WorkersInv
<1>2. QED
  BY <1>1, Invariant, PTL

\* The registry reaches every worker that still handles messages.
THEOREM RegistryComplete == WorkersSpec => []LiveIsRegistered
<1>1. WorkersInv => LiveIsRegistered
  BY DEF WorkersInv
<1>2. QED
  BY <1>1, Invariant, PTL

\* No message starts two reply goroutines, however many workers hand it over.
THEOREM NoDuplicatePipeline == WorkersSpec => []OnePipelinePerMessage
<1>1. WorkersInv => OnePipelinePerMessage
  BY DEF WorkersInv
<1>2. QED
  BY <1>1, Invariant, PTL

\* OAuth logins never replace a token that was saved by hand.
THEOREM ManualTokenSafe == WorkersSpec => []ManualTokenKept
<1>1. WorkersInv => ManualTokenKept
  BY DEF WorkersInv
<1>2. QED
  BY <1>1, Invariant, PTL

\* long_poll_ts never passes an event that no worker handled or started after.
THEOREM OffsetSafe == WorkersSpec => []ConsumedWasSeen
<1>1. WorkersInv => ConsumedWasSeen
  BY DEF WorkersInv
<1>2. QED
  BY <1>1, Invariant, PTL

=============================================================================
