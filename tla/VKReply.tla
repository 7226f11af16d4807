------------------------------- MODULE VKReply -------------------------------
(***************************************************************************)
(* The VK reply pipeline of social-service (internal/services/vk_agent.go  *)
(* and the send path of vk.go), for one integration.                       *)
(*                                                                         *)
(* Every stored inbound message has a goroutine with a 10 s context that   *)
(* drafts and perhaps sends a reply; API requests regenerate a draft or    *)
(* approve and send one.  They share the rows of vk_messages,              *)
(* vk_reply_drafts and vk_agent_settings and no lock: a step below is one  *)
(* database statement or one call to another service, and the steps of all *)
(* goroutines interleave.  A goroutine is identified with its message.     *)
(***************************************************************************)
EXTENDS Naturals

CONSTANTS
    Messages,       \* inbound VK messages (and the goroutines they start)
    Requests,       \* API requests, each made at most once
    NoOne,          \* "no sent_message_id"
    Mode,           \* effectiveOrchestrationMode of the integration
    LLMConfigured,  \* is llmClient non-nil
    IntentOf,       \* what classifyIntent finds in a message
    Choices,        \* the settings an owner may save
    MayFail,        \* may a database or HTTP call fail
    MayExpire,      \* may the 10 s context of a goroutine expire
    MayDisconnect,  \* may the owner disconnect and reconnect the community
    MayCrash        \* may the process be restarted

Intents == {"handoff", "hours", "basic_prices", "qualification", "faq", "unknown"}
Procs   == Messages \cup Requests

ASSUME Disjoint      == Messages \cap Requests = {} /\ NoOne \notin Procs
ASSUME ModeType      == Mode \in {"legacy", "llm_service", "hybrid"}
ASSUME IntentType    == IntentOf \in [Messages -> Intents]
ASSUME ChoiceType    ==
    Choices \subseteq [draftFirst : BOOLEAN, autoReply : BOOLEAN, safe : SUBSET Intents]
ASSUME SwitchType    == {LLMConfigured, MayFail, MayExpire, MayDisconnect, MayCrash}
                            \subseteq BOOLEAN

VARIABLES
    stored,     \* inbound rows of vk_messages
    processed,  \* those with is_processed
    draft,      \* the vk_reply_drafts row of each message
    settings,   \* the vk_agent_settings row
    active,     \* vk_integrations.is_active
    delivered,  \* processes whose messages.send VK carried out
    logged,     \* processes whose outgoing vk_messages row was written
    pc,         \* the next step of each process
    kind,       \* what a request does
    target,     \* the message a request is about
    force,      \* generate without looking for an existing draft
    snap,       \* the settings a process read last
    outcome,    \* the status of the draft a process holds in memory
    decision,   \* what llm-service answered for a message
    expired,    \* goroutines whose context is over
    everOn,     \* history: was auto_reply_enabled ever saved as true
    late        \* history: requests made when a draft was already there

db    == <<stored, processed, draft, settings, active>>
proc  == <<pc, kind, target, force, snap, outcome, decision>>
hist  == <<everOn, late>>
vars  == <<db, delivered, logged, proc, expired, hist>>

------------------------------------------------------------------------------
(* Data *)

DefaultSafe == {"faq", "hours", "basic_prices", "qualification"}

SettingsType ==
    [draftFirst : BOOLEAN, autoReply : BOOLEAN, safe : SUBSET Intents]

\* The row ensureAgentSettings inserts when there is none.
DefaultSettings ==
    [draftFirst |-> TRUE, autoReply |-> FALSE, safe |-> DefaultSafe]

DraftType ==
    [status   : {"none", "pending", "sent", "auto_sent", "failed"},
     sentId   : Procs \cup {NoOne},
     approved : BOOLEAN]

NoDraft == [status |-> "none", sentId |-> NoOne, approved |-> FALSE]

HasDraft(m) == draft[m].status # "none"

\* classifyIntent: is the intent safe, and how sure is it, in hundredths.
Safe(i) == i \notin {"handoff", "unknown"}

Confidence(i) ==
    CASE i = "handoff"       -> 98
      [] i = "hours"         -> 92
      [] i = "basic_prices"  -> 90
      [] i = "qualification" -> 85
      [] i = "faq"           -> 78
      [] OTHER               -> 42

\* The policy under which the built-in pipeline answers without a person.
AutoSendable(s, i) ==
    s.autoReply /\ i \in s.safe /\ Safe(i) /\ Confidence(i) >= 84

\* Neither drafting nor answering is wanted.
SwitchedOff(s) == ~s.draftFirst /\ ~s.autoReply

\* Where a goroutine or a request can stand.
Steps == {"idle", "insert", "settings", "load", "llm", "genSettings", "find",
          "compose", "send", "deliver", "log", "persist", "mark", "record", "done"}

MsgOf(p) == IF p \in Messages THEN p ELSE target[p]

Approves(p) == p \in Requests /\ kind[p] = "approve"

Running(p) == pc[p] \notin {"idle", "done"}

\* A call can succeed as long as the context lives; it fails when the context
\* is over, or for a reason of its own.
Alive(p)   == p \notin expired
CanFail(p) == MayFail \/ p \in expired

Goto(p, l) == pc' = [pc EXCEPT ![p] = l]

------------------------------------------------------------------------------
(* The inbound goroutine *)

Init ==
    /\ stored = {} /\ processed = {} /\ delivered = {} /\ logged = {}
    /\ draft = [m \in Messages |-> NoDraft]
    /\ settings = DefaultSettings
    /\ active = TRUE
    /\ pc = [p \in Procs |-> "idle"]
    /\ kind = [r \in Requests |-> "none"]
    /\ target = [r \in Requests |-> NoOne]
    /\ force = [p \in Procs |-> FALSE]
    /\ snap = [p \in Procs |-> DefaultSettings]
    /\ outcome = [p \in Procs |-> "pending"]
    /\ decision = [m \in Messages |-> "none"]
    /\ expired = {}
    /\ everOn = FALSE
    /\ late = {}

\* handleIncomingMessage finds the active integration of the group...
Receive(m) ==
    /\ pc[m] = "idle" /\ active
    /\ Goto(m, "insert")
    /\ UNCHANGED <<db, delivered, logged, kind, target, force, snap, outcome,
                   decision, expired, hist>>

\* ...and stores the message, which starts its goroutine.  A message that
\* could not be stored (stopping the worker cancels its context) may come
\* again with a later poll; one stored before changes nothing.
Insert(m) ==
    /\ pc[m] = "insert"
    /\ \/ stored' = stored \cup {m} /\ Goto(m, "settings")
       \/ (MayFail \/ ~active) /\ Goto(m, "idle") /\ UNCHANGED stored
    /\ UNCHANGED <<processed, draft, settings, active, delivered, logged, kind,
                   target, force, snap, outcome, decision, expired, hist>>

\* Mutant: a switched-off agent leaves the message unmarked.
DispatchUnmarked(s) ==
    IF SwitchedOff(s) THEN "done"
    ELSE IF Mode \in {"llm_service", "hybrid"} /\ LLMConfigured THEN "load"
    ELSE "genSettings"

\* Where processInboundMessage sends a message whose settings it has read.
Dispatch(s) ==
    IF SwitchedOff(s) THEN "mark"
    ELSE IF Mode \in {"llm_service", "hybrid"} /\ LLMConfigured THEN "load"
    ELSE "genSettings"

ReadSettings(m) ==
    /\ pc[m] = "settings"
    /\ \/ /\ Alive(m)
          /\ snap' = [snap EXCEPT ![m] = settings]
          /\ Goto(m, Dispatch(settings))
       \/ /\ CanFail(m)
          /\ Goto(m, "done")
          /\ UNCHANGED snap
    /\ UNCHANGED <<db, delivered, logged, kind, target, force, outcome,
                   decision, expired, hist>>

\* loadInboundMessage of the LLM path.
LoadForLLM(m) ==
    /\ pc[m] = "load"
    /\ \/ Alive(m) /\ active /\ Goto(m, "llm")
       \/ (CanFail(m) \/ ~active) /\ Goto(m, "done")
    /\ UNCHANGED <<db, delivered, logged, kind, target, force, snap, outcome,
                   decision, expired, hist>>

\* Mutant: the decision is obeyed whatever the settings say.
LLMDecidesAlone(m, d) ==
    /\ pc[m] = "llm" /\ Alive(m)
    /\ decision' = [decision EXCEPT ![m] = d]
    /\ outcome' = [outcome EXCEPT ![m] = "pending"]
    /\ Goto(m, IF d = "auto_reply" THEN "send" ELSE "persist")
    /\ UNCHANGED <<db, delivered, logged, kind, target, force, snap, expired, hist>>

\* ProcessVKMessage answers: the reply is sent at once when the decision is
\* auto_reply and the settings read at the start allow it.
LLMDecides(m, d) ==
    /\ pc[m] = "llm" /\ Alive(m)
    /\ decision' = [decision EXCEPT ![m] = d]
    /\ outcome' = [outcome EXCEPT ![m] = "pending"]
    /\ Goto(m, IF d = "auto_reply" /\ snap[m].autoReply THEN "send" ELSE "persist")
    /\ UNCHANGED <<db, delivered, logged, kind, target, force, snap, expired, hist>>

\* ProcessVKMessage fails: hybrid mode falls back to the built-in pipeline,
\* llm_service mode gives the message up.
LLMFails(m) ==
    /\ pc[m] = "llm"
    /\ decision' = [decision EXCEPT ![m] = "error"]
    /\ force' = [force EXCEPT ![m] = TRUE]
    /\ Goto(m, IF Mode = "hybrid" THEN "genSettings" ELSE "done")
    /\ UNCHANGED <<db, delivered, logged, kind, target, snap, outcome, expired, hist>>

------------------------------------------------------------------------------
(* generateDraftForMessage, by a goroutine or by a GenerateDraft request *)

StartGenerate(r, m, f) ==
    /\ pc[r] = "idle" /\ active /\ m \in stored
    /\ kind' = [kind EXCEPT ![r] = "generate"]
    /\ target' = [target EXCEPT ![r] = m]
    /\ force' = [force EXCEPT ![r] = f]
    /\ late' = IF HasDraft(m) THEN late \cup {r} ELSE late
    /\ Goto(r, "genSettings")
    /\ UNCHANGED <<db, delivered, logged, snap, outcome, decision, expired, everOn>>

GenSettings(p) ==
    /\ pc[p] = "genSettings"
    /\ \/ /\ Alive(p)
          /\ snap' = [snap EXCEPT ![p] = settings]
          /\ Goto(p, IF force[p] THEN "compose" ELSE "find")
       \/ /\ CanFail(p)
          /\ Goto(p, "done")
          /\ UNCHANGED snap
    /\ UNCHANGED <<db, delivered, logged, kind, target, force, outcome,
                   decision, expired, hist>>

\* Mutant: only a draft that was sent counts as existing.
FindSentDraft(p) ==
    /\ pc[p] = "find"
    /\ \/ Alive(p) /\ Goto(p, IF draft[MsgOf(p)].sentId # NoOne THEN "done" ELSE "compose")
       \/ CanFail(p) /\ Goto(p, "compose")
    /\ UNCHANGED <<db, delivered, logged, kind, target, force, snap, outcome,
                   decision, expired, hist>>

\* findDraftByMessage: an existing draft is returned; a failed lookup counts
\* as "there is none".
FindDraft(p) ==
    /\ pc[p] = "find"
    /\ \/ Alive(p) /\ Goto(p, IF HasDraft(MsgOf(p)) THEN "done" ELSE "compose")
       \/ CanFail(p) /\ Goto(p, "compose")
    /\ UNCHANGED <<db, delivered, logged, kind, target, force, snap, outcome,
                   decision, expired, hist>>

\* Load the message and the workspace, classify, compose, and decide whether
\* the reply goes out at once.
Compose(p) ==
    /\ pc[p] = "compose"
    /\ \/ /\ Alive(p) /\ active
          /\ outcome' = [outcome EXCEPT ![p] = "pending"]
          /\ Goto(p, IF AutoSendable(snap[p], IntentOf[MsgOf(p)])
                     THEN "send" ELSE "persist")
       \/ /\ CanFail(p) \/ ~active
          /\ Goto(p, "done")
          /\ UNCHANGED outcome
    /\ UNCHANGED <<db, delivered, logged, kind, target, force, snap, decision,
                   expired, hist>>

\* Mutant: the upsert writes every column, approved_by too.
DraftOverwritten(p) ==
    [status   |-> outcome[p],
     sentId   |-> IF outcome[p] = "auto_sent" THEN p ELSE NoOne,
     approved |-> FALSE]

\* Mutant: an automatic reply is recorded as approved by the owner.
DraftSelfApproved(p) ==
    [status   |-> outcome[p],
     sentId   |-> IF outcome[p] = "auto_sent" THEN p ELSE NoOne,
     approved |-> draft[MsgOf(p)].approved \/ outcome[p] = "auto_sent"]

\* persistDraftWithObs: the row is overwritten, except who approved it.
DraftOf(p) ==
    [status   |-> outcome[p],
     sentId   |-> IF outcome[p] = "auto_sent" THEN p ELSE NoOne,
     approved |-> draft[MsgOf(p)].approved]

\* Mutant: the error of the upsert is ignored.
PersistIgnoringError(p) ==
    /\ pc[p] = "persist"
    /\ \/ Alive(p) /\ draft' = [draft EXCEPT ![MsgOf(p)] = DraftOf(p)]
       \/ CanFail(p) /\ UNCHANGED draft
    /\ Goto(p, "mark")
    /\ UNCHANGED <<stored, processed, settings, active, delivered, logged, kind,
                   target, force, snap, outcome, decision, expired, hist>>

Persist(p) ==
    /\ pc[p] = "persist"
    /\ \/ /\ Alive(p)
          /\ draft' = [draft EXCEPT ![MsgOf(p)] = DraftOf(p)]
          /\ Goto(p, "mark")
       \/ /\ CanFail(p)
          /\ Goto(p, "done")
          /\ UNCHANGED draft
    /\ UNCHANGED <<stored, processed, settings, active, delivered, logged, kind,
                   target, force, snap, outcome, decision, expired, hist>>

\* is_processed is set; an error is ignored.
Mark(p) ==
    /\ pc[p] = "mark"
    /\ \/ Alive(p) /\ processed' = processed \cup {MsgOf(p)}
       \/ CanFail(p) /\ UNCHANGED processed
    /\ Goto(p, "done")
    /\ UNCHANGED <<stored, draft, settings, active, delivered, logged, kind,
                   target, force, snap, outcome, decision, expired, hist>>

------------------------------------------------------------------------------
(* sendMessageInternal and its callers *)

\* ApproveAndSendDraft: any existing draft can be approved, whatever its status.
StartApprove(r, m) ==
    /\ pc[r] = "idle" /\ active /\ HasDraft(m)
    /\ kind' = [kind EXCEPT ![r] = "approve"]
    /\ target' = [target EXCEPT ![r] = m]
    /\ Goto(r, "send")
    /\ UNCHANGED <<db, delivered, logged, force, snap, outcome, decision,
                   expired, hist>>

\* Mutant: the error of an automatic send is ignored.
SendErrorAsSent(p) ==
    IF Approves(p)
    THEN Goto(p, "done") /\ UNCHANGED outcome
    ELSE Goto(p, "persist") /\ outcome' = [outcome EXCEPT ![p] = "auto_sent"]

\* Mutant: an approval is recorded although the send failed.
SendErrorRecorded(p) ==
    IF Approves(p)
    THEN Goto(p, "record") /\ UNCHANGED outcome
    ELSE Goto(p, "persist") /\ outcome' = [outcome EXCEPT ![p] = "failed"]

\* What the caller does with a send error.
SendError(p) ==
    IF Approves(p)
    THEN Goto(p, "done") /\ UNCHANGED outcome
    ELSE Goto(p, "persist") /\ outcome' = [outcome EXCEPT ![p] = "failed"]

\* loadIntegration, before the human-like delay.
LoadIntegration(p) ==
    /\ pc[p] = "send"
    /\ \/ Alive(p) /\ active /\ Goto(p, "deliver") /\ UNCHANGED outcome
       \/ (CanFail(p) \/ ~active) /\ SendError(p)
    /\ UNCHANGED <<db, delivered, logged, kind, target, force, snap, decision,
                   expired, hist>>

\* messages.send: done, refused, or done with the answer lost on the way.
Deliver(p) ==
    /\ pc[p] = "deliver"
    /\ \/ Alive(p) /\ delivered' = delivered \cup {p} /\ Goto(p, "log") /\ UNCHANGED outcome
       \/ UNCHANGED delivered /\ SendError(p)
       \/ CanFail(p) /\ delivered' = delivered \cup {p} /\ SendError(p)
    /\ UNCHANGED <<db, logged, kind, target, force, snap, decision, expired, hist>>

\* The outgoing row is written, its error ignored, and the caller goes on.
LogOutgoing(p) ==
    /\ pc[p] = "log"
    /\ \/ Alive(p) /\ logged' = logged \cup {p}
       \/ CanFail(p) /\ UNCHANGED logged
    /\ IF Approves(p)
       THEN Goto(p, "record") /\ UNCHANGED outcome
       ELSE Goto(p, "persist") /\ outcome' = [outcome EXCEPT ![p] = "auto_sent"]
    /\ UNCHANGED <<db, delivered, kind, target, force, snap, decision, expired, hist>>

\* Mutant: the row becomes 'approved', the status nothing writes today.
RecordAsApproved(r) ==
    /\ pc[r] = "record"
    /\ \/ /\ Alive(r)
          /\ draft' = [draft EXCEPT ![target[r]] =
                [status |-> "approved", sentId |-> r, approved |-> TRUE]]
       \/ CanFail(r) /\ UNCHANGED draft
    /\ Goto(r, "done")
    /\ UNCHANGED <<stored, processed, settings, active, delivered, logged, kind,
                   target, force, snap, outcome, decision, expired, hist>>

\* The approved draft becomes 'sent'.
RecordApproval(r) ==
    /\ pc[r] = "record"
    /\ \/ /\ Alive(r)
          /\ draft' = [draft EXCEPT ![target[r]] =
                [status |-> "sent", sentId |-> r, approved |-> TRUE]]
       \/ CanFail(r) /\ UNCHANGED draft
    /\ Goto(r, "done")
    /\ UNCHANGED <<stored, processed, settings, active, delivered, logged, kind,
                   target, force, snap, outcome, decision, expired, hist>>

------------------------------------------------------------------------------
(* The owner, time, and restarts *)

\* UpdateAgentSettings: one upsert; an empty list of intents means the default.
UpdateAgentSettings(c) ==
    /\ active
    /\ settings' = IF c.safe = {} THEN [c EXCEPT !.safe = DefaultSafe] ELSE c
    /\ everOn' = (everOn \/ c.autoReply)
    /\ UNCHANGED <<stored, processed, draft, active, delivered, logged, proc,
                   expired, late>>

SetActive(b) ==
    /\ MayDisconnect
    /\ active' = b
    /\ UNCHANGED <<stored, processed, draft, settings, delivered, logged, proc,
                   expired, hist>>

Disconnect == active /\ SetActive(FALSE)
Reconnect  == ~active /\ SetActive(TRUE)

Expire(m) ==
    /\ MayExpire /\ Running(m) /\ m \in stored \ expired
    /\ expired' = expired \cup {m}
    /\ UNCHANGED <<db, delivered, logged, proc, hist>>

\* A restart ends every goroutine and request where it stands; no one resumes
\* a message left unprocessed.  One not stored yet is polled again.
Crash ==
    /\ MayCrash /\ \E p \in Procs : Running(p)
    /\ pc' = [p \in Procs |-> IF pc[p] = "insert" THEN "idle"
                              ELSE IF Running(p) THEN "done" ELSE pc[p]]
    /\ UNCHANGED <<db, delivered, logged, kind, target, force, snap, outcome,
                   decision, expired, hist>>

------------------------------------------------------------------------------

InboundStep(m) ==
    \/ Insert(m) \/ ReadSettings(m) \/ LoadForLLM(m) \/ LLMFails(m)
    \/ \E d \in {"draft", "auto_reply", "escalate"} : LLMDecides(m, d)

PipelineStep(p) ==
    \/ GenSettings(p) \/ FindDraft(p) \/ Compose(p) \/ Persist(p) \/ Mark(p)
    \/ LoadIntegration(p) \/ Deliver(p) \/ LogOutgoing(p)

ProcStep(p) ==
    \/ p \in Messages /\ InboundStep(p)
    \/ p \in Requests /\ RecordApproval(p)
    \/ PipelineStep(p)

Call(r) ==
    \E m \in Messages :
        \/ \E f \in BOOLEAN : StartGenerate(r, m, f)
        \/ StartApprove(r, m)

Environment ==
    \/ \E c \in Choices : UpdateAgentSettings(c)
    \/ Disconnect \/ Reconnect
    \/ \E m \in Messages : Expire(m)
    \/ Crash

Next ==
    \/ \E m \in Messages : Receive(m)
    \/ \E p \in Procs : ProcStep(p)
    \/ \E r \in Requests : Call(r)
    \/ Environment

Spec == Init /\ [][Next]_vars

\* The Go scheduler runs every goroutine, and every call a goroutine makes
\* returns: HTTP clients have timeouts and so has the goroutine's context.
FairSpec == Spec /\ \A p \in Procs : WF_vars(ProcStep(p))

------------------------------------------------------------------------------
(* Properties *)

\* Every variable stays within its type.
TypeOK ==
    /\ stored \subseteq Messages /\ processed \subseteq Messages
    /\ draft \in [Messages -> DraftType]
    /\ settings \in SettingsType
    /\ active \in BOOLEAN
    /\ delivered \subseteq Procs /\ logged \subseteq Procs
    /\ pc \in [Procs -> Steps]
    /\ kind \in [Requests -> {"none", "generate", "approve"}]
    /\ target \in [Requests -> Messages \cup {NoOne}]
    /\ force \in [Procs -> BOOLEAN]
    /\ snap \in [Procs -> SettingsType]
    /\ outcome \in [Procs -> {"pending", "auto_sent", "failed"}]
    /\ decision \in [Messages -> {"none", "draft", "auto_reply", "escalate", "error"}]
    /\ expired \subseteq Messages
    /\ everOn \in BOOLEAN
    /\ late \subseteq Requests

\* The draft row and VK agree: a row that says sent or auto_sent names a reply
\* that VK did carry out, to that very message, and no other row names one;
\* an outgoing row of vk_messages stands for a reply too.  (persistDraftWithObs
\* and ApproveAndSendDraft write the row after the send they report, while
\* other goroutines overwrite it.)
SentDraftNamesDelivery ==
    /\ \A m \in Messages :
          IF draft[m].status \in {"sent", "auto_sent"}
          THEN draft[m].sentId \in delivered /\ MsgOf(draft[m].sentId) = m
          ELSE draft[m].sentId = NoOne
    /\ logged \subseteq delivered

\* A row that names who approved it stands for a reply a person had sent
\* through ApproveAndSendDraft, even after a regenerated draft replaced its text.
ApprovedMeansHumanReply ==
    \A m \in Messages : draft[m].approved =>
        \E r \in delivered \cap Requests : kind[r] = "approve" /\ target[r] = m

\* A message marked is_processed was not lost: it has a draft, or its goroutine
\* read settings under which the agent is switched off.
ProcessedHasOutcome ==
    \A m \in processed : HasDraft(m) \/ SwitchedOff(snap[m])

\* Nothing goes out automatically without the owner's consent: a reply that no
\* person approved was sent under settings with auto_reply_enabled, which the
\* owner saved at some time, for an auto_reply decision of llm-service or an
\* intent the built-in pipeline may answer.
AutoReplyHasConsent ==
    \A p \in delivered : ~Approves(p) =>
        /\ everOn /\ snap[p].autoReply
        /\ \/ p \in Messages /\ decision[p] = "auto_reply"
           \/ AutoSendable(snap[p], IntentOf[MsgOf(p)])

\* GenerateDraft without force of a message that has a draft returns that draft
\* and sends nothing, as long as no call fails (a failed lookup counts as "no
\* draft").
LateGenerateSendsNothing ==
    \A r \in late : ~force[r] => r \notin delivered

\* An approval, once recorded, is never taken back by a later write of the row.
ApprovalIsPermanent ==
    [][\A m \in Messages : draft[m].approved => draft'[m].approved]_vars

\* The replies, and what the drafts claim of them, follow the abstract ledger.
Ledger == INSTANCE ReplyLedger WITH
    inbox    <- stored,
    replies  <- {<<MsgOf(p), p>> : p \in delivered},
    claim    <- [m \in Messages |-> draft[m].sentId],
    approved <- {m \in Messages : draft[m].approved}

\* The pipeline implements the ledger: each reply is made once and to a stored
\* message, and each claim and approval is written after its reply.
ImplementsLedger == Ledger!Spec

\* Every goroutine and every request ends: no call blocks for ever and no step
\* waits for another process. And in legacy and hybrid mode, when no call fails
\* and the process stays up, every message whose goroutine starts is in the end
\* marked processed, whatever llm-service and VK answer, unless its 10 s are over
\* or the community is disconnected meanwhile.
EveryMessageProcessed ==
    /\ \A p \in Procs : Running(p) ~> ~Running(p)
    /\ \A m \in Messages :
          pc[m] = "settings" ~> m \in processed \/ m \in expired \/ ~active

------------------------------------------------------------------------------
(* The inductive invariant behind the safety properties *)

\* A goroutine past the insert, and a request that was made, are about a stored
\* message, and so is every draft.
AboutStored ==
    /\ \A m \in Messages : pc[m] \notin {"idle", "insert"} => m \in stored
    /\ \A r \in Requests : pc[r] # "idle" => target[r] \in stored /\ pc[r] # "insert"
    /\ \A m \in Messages : HasDraft(m) => m \in stored

\* Where a process stands tells what VK has done for it.
SendsKnown ==
    /\ \A p \in delivered : pc[p] \in {"log", "record", "persist", "mark", "done"}
    /\ \A p \in Procs :
          /\ pc[p] \in {"log", "record"} => p \in delivered
          /\ pc[p] = "persist" /\ outcome[p] = "auto_sent" => p \in delivered
          /\ pc[p] = "record" => Approves(p)

\* ProcessedHasOutcome, of a process about to mark its message as well.
MarksJustified ==
    /\ \A p \in Procs : pc[p] = "mark" =>
          HasDraft(MsgOf(p)) \/ (p \in Messages /\ SwitchedOff(snap[p]))
    /\ \A m \in processed :
          HasDraft(m) \/ (SwitchedOff(snap[m]) /\ pc[m] = "done")

\* AutoReplyHasConsent, of a process about to send as well.
MaySend(p) ==
    /\ snap[p].autoReply
    /\ \/ p \in Messages /\ decision[p] = "auto_reply"
       \/ AutoSendable(snap[p], IntentOf[MsgOf(p)])

ConsentKnown ==
    /\ settings.autoReply => everOn
    /\ \A p \in Procs : snap[p].autoReply => everOn
    /\ \A p \in Procs :
          (pc[p] \in {"send", "deliver", "log"} \/ p \in delivered) /\ ~Approves(p)
              => MaySend(p)

\* What a request without force, made of a message that had a draft, can do
\* when no call fails.
LateFindsDraft ==
    \A r \in late :
        /\ pc[r] # "idle"
        /\ ~force[r] => /\ HasDraft(target[r])
                        /\ pc[r] \in {"genSettings", "find", "done"}
                        /\ r \notin delivered

IInv ==
    /\ TypeOK /\ AboutStored /\ SendsKnown
    /\ SentDraftNamesDelivery /\ ApprovedMeansHumanReply
    /\ MarksJustified /\ ConsentKnown
=============================================================================
