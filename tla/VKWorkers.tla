------------------------------ MODULE VKWorkers ------------------------------
(***************************************************************************)
(* The Long Poll workers of one VK community integration of social-service *)
(* (internal/services/vk.go, internal/vk/longpoll.go): connecting by OAuth *)
(* or with a manual token, disconnecting, restarting, and the loop that    *)
(* polls VK and hands each new message to handleIncomingMessage.           *)
(*                                                                         *)
(* A worker is identified with what started it: a connect request or a     *)
(* restart.  The registry workerCancels is guarded by workerMu; everything *)
(* else is ordered by nothing, a goroutine that was started but has not    *)
(* entered startWorker yet included.                                       *)
(***************************************************************************)
EXTENDS Naturals

CONSTANTS
    OAuths,       \* community OAuth logins that complete, for this group
    Manuals,      \* community tokens saved by hand
    Disconnects,  \* Disconnect requests
    Boots,        \* restarts of the service
    NoWorker,     \* no worker, no token
    FirstTs,      \* VK's event counter when the community is first connected
    LastTs,       \* bound: the last event VK produces
    CallsMayFail, \* may a database call fail
    MayExpireKey  \* may a Long Poll key expire, a poll fail or its ts be outdated

Connects == OAuths \cup Manuals
Workers  == Connects \cup Boots
OwnerRequests == Connects \cup Disconnects
Events   == (FirstTs + 1)..LastTs

ASSUME WorkersDisjoint ==
    /\ OAuths \cap Manuals = {} /\ Boots \cap OwnerRequests = {}
    /\ Connects \cap Disconnects = {} /\ NoWorker \notin Workers
ASSUME TsType     == FirstTs \in Nat \ {0} /\ LastTs \in FirstTs..99
ASSUME WorkersSwitches == {CallsMayFail, MayExpireKey} \subseteq BOOLEAN

VARIABLES
    row,         \* the vk_integrations row
    step,        \* where each request and restart is
    st,          \* where each worker is
    cancelled,   \* workers whose context was cancelled
    init,        \* the ts each worker was started with
    from,        \* the ts each worker polls from
    next,        \* a batch handles the events next[w]..upto[w]
    upto,
    registered,  \* the worker whose cancel function is in workerCancels
    now,         \* VK's event counter
    inserted,    \* events stored as vk_messages rows
    pipelines,   \* how many reply goroutines each event started
    seen         \* history: events some worker handled or started after

worker      == <<st, cancelled, init, from, next, upto>>
vk          == <<now, inserted, pipelines, seen>>
workersVars == <<row, step, worker, registered, vk>>

------------------------------------------------------------------------------
(* Data *)

NoTs == 0   \* a NULL long_poll_ts, and the empty string it is read as

RowType ==
    [active : BOOLEAN, token : Connects \cup {NoWorker}, manual : BOOLEAN,
     ts : FirstTs..LastTs \cup {NoTs}]

Ts == FirstTs..LastTs \cup {NoTs}

Known == row.token # NoWorker

\* Go compares the two ts as strings: "9" comes after "10".
StringGreater(a, b) ==
    IF a < 10 /\ b >= 10 THEN a > b \div 10
    ELSE IF a >= 10 /\ b < 10 THEN a \div 10 >= b
    ELSE a > b

\* Past registration and before the end of Run.
Runs(w) == st[w] \in {"params", "poll", "batch"}
Live(w) == Runs(w) /\ w \notin cancelled

Move(w, l) == st' = [st EXCEPT ![w] = l]

\* A goroutine is started that will enter startWorker.
GoStartWorker(w, ts) ==
    /\ Move(w, "pending")
    /\ init' = [init EXCEPT ![w] = ts]
    /\ UNCHANGED <<cancelled, from, next, upto>>

WorkersInit ==
    /\ row = [active |-> FALSE, token |-> NoWorker, manual |-> FALSE, ts |-> NoTs]
    /\ step = [r \in OwnerRequests \cup Boots |-> "idle"]
    /\ st = [w \in Workers |-> "none"]
    /\ cancelled = {}
    /\ init = [w \in Workers |-> NoTs]
    /\ from = [w \in Workers |-> NoTs]
    /\ next = [w \in Workers |-> 0]
    /\ upto = [w \in Workers |-> NoTs]
    /\ registered = NoWorker
    /\ now = FirstTs
    /\ inserted = {} /\ seen = {}
    /\ pipelines = [e \in Events |-> 0]

------------------------------------------------------------------------------
(* Connecting and disconnecting *)

\* Mutant: a login writes its own token, whatever the row holds.
FinishOverwriting(r) ==
    /\ r \in OAuths /\ step[r] = "idle"
    /\ row' = [row EXCEPT !.active = TRUE, !.token = r]
    /\ step' = [step EXCEPT ![r] = "saved"]
    /\ UNCHANGED <<worker, registered, vk>>

\* The upsert of a community login, by code or by implicit grant: a token saved
\* by hand stays.
FinishGroupOAuth(r) ==
    /\ r \in OAuths /\ step[r] = "idle"
    /\ row' = [row EXCEPT !.active = TRUE, !.token = IF row.manual THEN @ ELSE r]
    /\ step' = [step EXCEPT ![r] = "saved"]
    /\ UNCHANGED <<worker, registered, vk>>

\* The upsert of a token saved by hand.
SaveCommunityToken(r) ==
    /\ r \in Manuals /\ step[r] = "idle"
    /\ row' = [row EXCEPT !.active = TRUE, !.token = r, !.manual = TRUE]
    /\ step' = [step EXCEPT ![r] = "saved"]
    /\ UNCHANGED <<worker, registered, vk>>

\* The id is read again and `go startWorker` runs with the request's own token
\* and no saved ts; without the id there is no worker.
Spawn(r) ==
    /\ step[r] = "saved"
    /\ step' = [step EXCEPT ![r] = "done"]
    /\ \/ GoStartWorker(r, NoTs)
       \/ CallsMayFail /\ UNCHANGED worker
    /\ UNCHANGED <<row, registered, vk>>

\* Disconnect, first half: the row becomes inactive.
Deactivate(d) ==
    /\ step[d] = "idle" /\ Known
    /\ row' = [row EXCEPT !.active = FALSE]
    /\ step' = [step EXCEPT ![d] = "stop"]
    /\ UNCHANGED <<worker, registered, vk>>

\* Second half, stopWorker: the registered worker is cancelled.
StopWorker(d) ==
    /\ step[d] = "stop"
    /\ step' = [step EXCEPT ![d] = "done"]
    /\ cancelled' = cancelled \cup ({registered} \ {NoWorker})
    /\ registered' = NoWorker
    /\ UNCHANGED <<row, st, init, from, next, upto, vk>>

------------------------------------------------------------------------------
(* Restarts *)

\* The process dies with every worker and request, and comes up again.
Restart(b) ==
    /\ step[b] = "idle"
    /\ step' = [r \in OwnerRequests \cup Boots |->
                   IF r = b THEN "query"
                   ELSE IF step[r] = "idle" THEN "idle" ELSE "done"]
    /\ st' = [w \in Workers |-> IF st[w] = "none" THEN "none" ELSE "ended"]
    /\ registered' = NoWorker
    /\ UNCHANGED <<row, cancelled, init, from, next, upto, vk>>

\* StartAllWorkers, while requests are served: an active row is given a worker
\* with its token and its ts; a NULL long_poll_ts does not scan into a string
\* and the row is skipped.
StartAllWorkers(b) ==
    /\ step[b] = "query"
    /\ step' = [step EXCEPT ![b] = "done"]
    /\ \/ /\ row.active /\ row.ts # NoTs
          /\ GoStartWorker(b, row.ts)
       \/ /\ ~row.active \/ row.ts = NoTs \/ CallsMayFail
          /\ UNCHANGED worker
    /\ UNCHANGED <<row, registered, vk>>

------------------------------------------------------------------------------
(* A worker *)

\* Mutant: the older worker is replaced in the registry and goes on.
RegisterOver(w) ==
    /\ st[w] = "pending"
    /\ Move(w, "params")
    /\ registered' = w
    /\ UNCHANGED <<row, step, cancelled, init, from, next, upto, vk>>

\* startWorker: under the lock, an older worker is cancelled and this one takes
\* its place in the registry.
Register(w) ==
    /\ st[w] = "pending"
    /\ Move(w, "params")
    /\ cancelled' = cancelled \cup ({registered} \ {NoWorker, w})
    /\ registered' = w
    /\ UNCHANGED <<row, step, init, from, next, upto, vk>>

\* Where polling starts: the ts given at the start when it is greater, as a
\* string, than the server's.
StartTs(w) ==
    IF init[w] # NoTs /\ StringGreater(init[w], now) THEN init[w] ELSE now

\* groups.getLongPollServer; an error is retried and changes nothing.
GetServer(w) ==
    /\ st[w] = "params" /\ w \notin cancelled
    /\ Move(w, "poll")
    /\ from' = [from EXCEPT ![w] = StartTs(w)]
    /\ seen' = seen \cup {e \in Events : e <= StartTs(w)}
    /\ UNCHANGED <<row, step, cancelled, init, next, upto, registered, now, inserted,
                   pipelines>>

\* Mutant: the first event of a batch is taken for the last of the one before.
PollSkipping(w) ==
    /\ st[w] = "poll" /\ w \notin cancelled
    /\ Move(w, "batch")
    /\ upto' = [upto EXCEPT ![w] = now]
    /\ next' = [next EXCEPT ![w] = from[w] + 2]
    /\ UNCHANGED <<row, step, cancelled, init, from, registered, vk>>

\* A poll returns what came after ts: possibly nothing, when it timed out.
Poll(w) ==
    /\ st[w] = "poll" /\ w \notin cancelled
    /\ Move(w, "batch")
    /\ upto' = [upto EXCEPT ![w] = now]
    /\ next' = [next EXCEPT ![w] = from[w] + 1]
    /\ UNCHANGED <<row, step, cancelled, init, from, registered, vk>>

\* failed = 2 or 3, or a transport error: fetch the server again.
KeyExpired(w) ==
    /\ MayExpireKey /\ st[w] = "poll"
    /\ Move(w, "params")
    /\ UNCHANGED <<row, step, cancelled, init, from, next, upto, registered, vk>>

\* failed = 1: poll on from the ts that came back.
TsOutdated(w) ==
    /\ MayExpireKey /\ st[w] = "poll"
    /\ from' = [from EXCEPT ![w] = now]
    /\ seen' = seen \cup {e \in Events : e <= now}
    /\ UNCHANGED <<row, step, st, cancelled, init, next, upto, registered, now,
                   inserted, pipelines>>

\* Mutant: the insert returns the id of the row there was.
HandleAgain(w) ==
    LET e == next[w] IN
    /\ st[w] = "batch" /\ e <= upto[w]
    /\ \/ /\ row.active /\ w \notin cancelled
          /\ inserted' = inserted \cup {e}
          /\ pipelines' = [pipelines EXCEPT ![e] = @ + 1]
       \/ /\ ~row.active \/ w \in cancelled \/ CallsMayFail
          /\ UNCHANGED <<inserted, pipelines>>
    /\ seen' = seen \cup {e}
    /\ next' = [next EXCEPT ![w] = e + 1]
    /\ UNCHANGED <<row, step, st, cancelled, init, from, upto, registered, now>>

\* Mutant: one event too many.
HandleBeyond(w) ==
    LET e == next[w] IN
    /\ st[w] = "batch" /\ e <= upto[w] + 1
    /\ inserted' = inserted \cup {e}
    /\ seen' = seen \cup {e}
    /\ next' = [next EXCEPT ![w] = e + 1]
    /\ UNCHANGED <<row, step, st, cancelled, init, from, upto, registered, now,
                   pipelines>>

\* handleIncomingMessage: an insert that conflicts starts no goroutine; with a
\* cancelled context or an inactive integration nothing is stored.
Handle(w) ==
    LET e == next[w] IN
    /\ st[w] = "batch" /\ e <= upto[w]
    /\ \/ /\ row.active /\ w \notin cancelled
          /\ inserted' = inserted \cup {e}
          /\ pipelines' = IF e \in inserted THEN pipelines
                          ELSE [pipelines EXCEPT ![e] = @ + 1]
       \/ /\ ~row.active \/ w \in cancelled \/ CallsMayFail
          /\ UNCHANGED <<inserted, pipelines>>
    /\ seen' = seen \cup {e}
    /\ next' = [next EXCEPT ![w] = e + 1]
    /\ UNCHANGED <<row, step, st, cancelled, init, from, upto, registered, now>>

\* Mutant: the ts is saved as soon as the poll returns.
SaveTsEarly(w) ==
    /\ st[w] = "batch"
    /\ row' = [row EXCEPT !.ts = upto[w]]
    /\ IF next[w] > upto[w]
       THEN Move(w, "poll") /\ from' = [from EXCEPT ![w] = upto[w]]
       ELSE UNCHANGED <<st, from>>
    /\ UNCHANGED <<step, cancelled, init, next, upto, registered, vk>>

\* The batch is over: its ts is saved, with a context of its own, even by a
\* cancelled worker.
SaveTs(w) ==
    /\ st[w] = "batch" /\ next[w] > upto[w]
    /\ Move(w, "poll")
    /\ from' = [from EXCEPT ![w] = upto[w]]
    /\ \/ row' = [row EXCEPT !.ts = upto[w]]
       \/ CallsMayFail /\ UNCHANGED row
    /\ UNCHANGED <<step, cancelled, init, next, upto, registered, vk>>

\* Mutant: only a worker between two servers looks at its context.
LeaveLate(w) ==
    /\ st[w] = "params" /\ w \in cancelled
    /\ Move(w, "ended")
    /\ UNCHANGED <<row, step, cancelled, init, from, next, upto, registered, vk>>

\* A cancelled worker leaves Run between two calls.
Leave(w) ==
    /\ st[w] \in {"params", "poll"} /\ w \in cancelled
    /\ Move(w, "ended")
    /\ UNCHANGED <<row, step, cancelled, init, from, next, upto, registered, vk>>

\* VK: somebody writes to the community.
Arrive ==
    /\ now < LastTs
    /\ now' = now + 1
    /\ UNCHANGED <<row, step, worker, registered, inserted, pipelines, seen>>

------------------------------------------------------------------------------

WorkerStep(w) ==
    \/ Register(w) \/ GetServer(w) \/ Poll(w) \/ Handle(w) \/ SaveTs(w) \/ Leave(w)

WorkersNext ==
    \/ Arrive
    \/ \E r \in Connects : FinishGroupOAuth(r) \/ SaveCommunityToken(r) \/ Spawn(r)
    \/ \E d \in Disconnects : Deactivate(d) \/ StopWorker(d)
    \/ \E b \in Boots : Restart(b) \/ StartAllWorkers(b)
    \/ \E w \in Workers : WorkerStep(w) \/ KeyExpired(w) \/ TsOutdated(w)

WorkersSpec == WorkersInit /\ [][WorkersNext]_workersVars

\* Every goroutine runs, and no call of a worker blocks for ever: the HTTP
\* clients have timeouts, and a poll ends after 25 seconds.
WorkersFairSpec == WorkersSpec /\ \A w \in Workers : WF_workersVars(WorkerStep(w))

------------------------------------------------------------------------------
(* Properties *)

\* Every variable stays within its type.
WorkersTypeOK ==
    /\ row \in RowType
    /\ step \in [OwnerRequests \cup Boots -> {"idle", "saved", "stop", "query", "done"}]
    /\ st \in [Workers -> {"none", "pending", "params", "poll", "batch", "ended"}]
    /\ cancelled \subseteq Workers
    /\ init \in [Workers -> Ts] /\ from \in [Workers -> Ts]
    /\ next \in [Workers -> Nat] /\ upto \in [Workers -> Ts]
    /\ registered \in Workers \cup {NoWorker}
    /\ now \in FirstTs..LastTs
    /\ inserted \subseteq Events /\ seen \subseteq Events
    /\ pipelines \in [Events -> Nat]

\* workerCancels reaches every worker that polls: one that was not cancelled is
\* the registered one, so a second connect or a Disconnect can stop it, and at
\* most one worker handles new messages.
LiveIsRegistered == \A w \in Workers : Live(w) => registered = w

\* A message starts exactly one reply goroutine when it is stored, although an
\* old and a new worker, or a worker that resumed from an older ts, may both
\* hand it over.
OnePipelinePerMessage ==
    \A e \in Events : pipelines[e] = IF e \in inserted THEN 1 ELSE 0

\* "Never overwrite a manually-created token": while token_source is manual the
\* row holds a token that was saved by hand, however logins interleave.
ManualTokenKept == row.manual => row.token \in Manuals

\* long_poll_ts never runs ahead of the messages: each event up to it was
\* handed to handleIncomingMessage, or came before the point some worker
\* started to poll from.
ConsumedWasSeen == row.ts # NoTs => \A e \in Events : e <= row.ts => e \in seen

\* A cancelled worker ends, whatever it was doing.
CancelledEnds == \A w \in Workers : w \in cancelled ~> st[w] = "ended"

\* An event that a live worker is due to poll is stored in the end, when nothing
\* fails or expires, unless the worker is replaced, the integration disconnected
\* or the service restarted first.
Awaits(w, e) == Live(w) /\ st[w] = "poll" /\ from[w] < e /\ e <= now

AwaitedIsStored ==
    \A w \in Workers, e \in Events :
        Awaits(w, e) ~> e \in inserted \/ w \in cancelled \/ ~row.active \/ st[w] = "ended"

------------------------------------------------------------------------------
(* The inductive invariant behind the safety properties *)

SeenUpTo(n) == \A e \in Events : e <= n => e \in seen

\* A polling worker has a starting point, and a batch the range it handles.
PollsInRange ==
    \A w \in Workers :
        /\ st[w] \in {"poll", "batch"} => from[w] \in FirstTs..LastTs
        /\ st[w] = "batch" =>
              next[w] > FirstTs /\ upto[w] \in FirstTs..LastTs

\* ConsumedWasSeen, of the workers that will write the ts as well.
ProgressSeen ==
    \A w \in Workers :
        /\ st[w] = "poll" => SeenUpTo(from[w])
        /\ st[w] = "batch" => SeenUpTo(next[w] - 1)

WorkersInv ==
    /\ WorkersTypeOK /\ PollsInRange /\ ProgressSeen
    /\ LiveIsRegistered /\ OnePipelinePerMessage /\ ManualTokenKept /\ ConsumedWasSeen

------------------------------------------------------------------------------
(* What comments promise and the code does not keep *)

AllSettled ==
    /\ \A r \in OwnerRequests \cup Boots : step[r] \in {"idle", "done"}
    /\ \A w \in Workers : st[w] # "pending"

\* "Disconnect deactivates a VK integration and stops its Long Poll worker."
DisconnectStops == AllSettled /\ ~row.active => \A w \in Workers : ~Live(w)

\* "StartAllWorkers loads all active VK integrations and starts a Long Poll
\* worker for each."
RestartStartsAll ==
    \A b \in Boots :
        AllSettled /\ step[b] = "done" /\ row.active => \E w \in Workers : Live(w)
=============================================================================
