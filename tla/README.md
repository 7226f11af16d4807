# Verification of inbetwin

inbetwin is a set of Go services behind an API gateway. Its owners (workspaces)
connect a VK community or a Telegram account; inbound messages are classified and
answered, automatically or after a person's approval, with the help of an LLM, a
knowledge base, lead scores and CRM tools.

This directory holds TLA+ modules that model the parts of it where concurrency,
failures and restarts meet, TLC configurations that check them on small
instances, and TLAPS proofs of their safety for every value of the constants.
`PROJECT.json` lists components, runs, mutants, findings, hazards and theorems,
and maps each definition to the source lines it stands for.

## 1. Inventory

### Components and their state

| Component | State | Operations | What makes it correct |
|---|---|---|---|
| social-service, VK reply pipeline (`vk_agent.go`, send path of `vk.go`) | rows of `vk_messages`, `vk_reply_drafts`, `vk_agent_settings`; one goroutine per inbound message with a 10 s context | inbound processing (LLM, legacy or hybrid), `GenerateDraft`, `ApproveAndSendDraft`, settings | drafts tell the truth about what was sent; nothing automatic without consent; no message lost |
| social-service, VK Long Poll workers (`vk.go`, `vk/longpoll.go`) | `vk_integrations` row, `workerCancels` under `workerMu`, one goroutine per worker | OAuth and manual connect, `Disconnect`, `StartAllWorkers`, polling | one live worker, known to the registry; each message starts one pipeline; no message skipped |
| social-service, Telegram sign-in (`mtproto/auth_manager.go`, `service.go`, `session.go`) | `authManager.pending`, three channels and a timer per flow, the `telegram_sessions` row | `SendCode`, `SignIn`, `SignOut` | a success means a stored session; requests are answered; flows end |
| social-service, Telegram listeners and userbot (`mtproto/listener.go`, `tg_userbot.go`) | `ListenerManager.users`, the connection and `ready` channel of each listener, `telegram_dm_messages` | `Start`, `Stop`, `StartAll`, `SendDM`, `HandleDM` | every live listener can be stopped; a stored session gets a connected listener; each DM has its row, is answered at most once, and its row says so |
| social-service, digital twins (`digital_twin.go`) | cache over the `digital_twins` row | `GetOrBuild`, enrichment | the cache is not older than the row it copies |
| social-service, Telegram channels and webhook (`telegram.go`, `webhook.go`) | integration, consent and post rows | `ConnectChannel`, `DisconnectChannel`, webhook posts | an active channel has its consent; no post without an active channel |
| llm-service, dialogue loop (`llm.go`, `tools/`) | `chat_messages`, the turns under way | `ProcessMessage`, `ProcessSocialMessage` with a bounded tool loop | who asks for an operator, or escalates, gets one; the chat is what was said |
| llm-service, CRM tokens (`amocrm/`, `zoho/`, `calendar/`) | token row, in-memory cache | `HandleCallback`, `getAccessToken`, the calls with `withRetry` | the row keeps a usable pair; the cache serves no dying token; a call reports what it did |
| rag-service (`document.go`, `sheets.go`, `web.go`, `qa.go`, `namespace.go`, `google_oauth.go`) | rows in PostgreSQL, vectors in Pinecone, the Google token and OAuth states | add, delete, reindex, sync, connect, disconnect | no text is lost; "indexed" is true; deleted is not found; the token is the one consented to |
| auth-service (`auth.go`, `notification.go`) | users, refresh tokens, subscriptions, device tokens | register, log in, refresh, change password, VK login, push | one subscription per user; every account can be logged in to; no row of a user who is gone |
| lead-scoring-service (`scorer.go`) | a score per lead | `ScoreMessage` | a score has messages behind it |
| agent-service (`agent.go`) | agents and their tools | CRUD of the owner | what llm-service resolves from it exists |
| gateway, jwt-go, landing | none | one call per request | nothing concurrent |

### How they interact

* A Long Poll worker calls `handleIncomingMessage`, which inserts the message and
  starts the reply goroutine; that goroutine calls llm-service over HTTP and then
  VK. API requests of the owner touch the same rows. There are no locks across
  statements and, on these paths, no transactions: the database row is the only
  meeting point.
* `connect` handlers start workers with `go startWorker`; `Disconnect` and a second
  connect reach a worker only through `workerCancels`.
* `SendCode` and `SignIn` are two HTTP requests that meet in `authManager.pending`
  and talk to a flow goroutine over channels of capacity one. A successful sign-in
  starts a listener, a sign-out stops it. A listener hands each DM to `HandleDM`,
  which asks llm-service and replies through the listener that is registered then.
* Connecting and disconnecting a Telegram channel are transactions; the webhook of
  the bot reads and writes the same tables without one.
* A turn in llm-service asks agent-service for its agent and tools, rag-service for
  context, calls CRMs and the calendar through its tools, lets a goroutine call
  lead-scoring-service, and pushes to the owner through auth-service.
* A request in rag-service writes PostgreSQL and Pinecone in turn, with nothing that
  holds them together; a sync of a private sheet uses the workspace's Google token,
  which a callback or a disconnect may replace meanwhile.
* auth-service writes users, subscriptions and tokens statement by statement; only a
  VK login is a transaction.

### What is hard here

Statements of several goroutines in any order; decisions taken on settings read
seconds before; a send and the row that reports it, with a failure or a restart in
between; goroutines that were started and are not in the registry yet; a timer or
a deferred clean-up that acts on whatever is registered by then; handlers that
wait without a deadline; a saved offset that must not run ahead; refresh tokens that
work once; two stores written one after the other; a score read in one statement and
written in another; unique indexes that let the second of two requests fail halfway;
merges of accounts decided on a link read before any lock. Section `hazards` of
`PROJECT.json` lists them line by line.

## 2. Modules

| Module | What it is |
|---|---|
| `ReplyLedger` | abstract specification: messages arrive, each sender replies at most once and to a message that arrived, a draft's claim names a reply made to that message, an approval follows its reply |
| `VKReply` | the VK reply pipeline; refines `ReplyLedger` |
| `VKWorkers` | connects, disconnects, restarts and the poll loop of one VK integration |
| `MtprotoAuth` | sign-in and sign-out of one Telegram user, with the start and stop of listeners |
| `TelegramChannels` | the channels of owners, their consents and posts |
| `Telegram` | `MtprotoAuth` with the connections of its listeners and the DMs they receive, composed with `TelegramChannels`; refines `MtprotoAuth` |
| `CrmTokens` | one OAuth integration of llm-service: row, cache, renewal, calls |
| `LeadScore`, `AgentConfig` | the score of one lead; the agents of one workspace |
| `Dialogue` | the turns of one chat user, composed with the three above |
| `KnowledgeText` | chunking and table analysis, as operators |
| `SheetsGrant` | the Google connection of rag-service |
| `Knowledge` | the sources of one workspace in PostgreSQL and Pinecone, composed with the two above |
| `Accounts` | users, subscriptions, VK links, refresh tokens and devices in auth-service |
| `*Proofs` | the inductive invariants and theorems of the module they are named after; `TelegramProofs` has those of `MtprotoAuth` too, `DialogueProofs` those of `LeadScore` and `AgentConfig`, `KnowledgeProofs` those of `SheetsGrant` |
| `MC*` | instances for TLC; `MCVKService` has those of `VKReply` and of `VKWorkers` |

### VKReply

State: the rows (`stored`, `processed`, `draft`, `settings`, `active`), what VK did
(`delivered`), the outgoing log rows (`logged`), and per process its next step `pc`
and its locals (`snap` the settings it read, `outcome` the status it is about to
store, `decision` of llm-service). A goroutine is identified with its message, a
request with itself; each makes at most one send, so `delivered` is a set of
processes and `sent_message_id` is the process that sent.

One action is one statement or one call. The order of steps of
`processInboundMessage`, `generateDraftForMessage`, `sendMessageInternal` and
`ApproveAndSendDraft` is kept, with every early return. Ignored errors (marking,
logging the outgoing row) are steps that may do nothing; errors that are returned
end the process. `messages.send` has three outcomes: done, refused, done with the
answer lost. `Expire` ends a goroutine's 10 s context, after which every call but
those already answered fails; the hybrid fallback shares that context with the call
it falls back from. `Crash` ends everything where it stands. The settings upsert
maps an empty list of intents to the default, as the code does.

Left out: the text of messages and drafts, the knowledge search (no state), the
digital twin handed to llm-service, metrics and logs. `ApproveAndSendDraft` with a
text override differs in text only.

### VKWorkers

State: the `vk_integrations` row (active, whose token, whether it was saved by
hand, ts), where each request and worker is, the registry entry, VK's event
counter, and which events were stored and how many reply goroutines each started.
The upsert of a connect, the `go startWorker`, and the entry of that goroutine
into `startWorker` are three steps. `Disconnect` is two. A batch is handled event
by event; the ts is saved after it, by a cancelled worker too, since `persistLPTs`
has a context of its own. Go's string comparison of two ts is modelled on numbers
of one and two digits (`StringGreater`). `KeyExpired` and `TsOutdated` are VK's
`failed` codes.

Left out: the OAuth exchange before the upsert, other event types than
`message_new`, the 5 s back-off. One integration per group is assumed.

### MtprotoAuth and Telegram

`MtprotoAuth` has the map entry (`pending`), per flow its timer, its place, its three
channels and whether its context is over; per handler where it is and which flow or
session it holds; the stored session; which sessions Telegram accepts; the listener
registry. A session is identified with the flow that created it, a listener with
the sign-in or the restart that started it. The HTTP framework never cancels the
context of a handler, so a handler waits for its channel only. `complete` and the
timer remove the user's entry whichever flow it holds, as the code does.
`context.Canceled` and `DeadlineExceeded` may come back from `client.Run` bare or
wrapped: `RunReturns` allows both, and only a wrapped one is posted to `doneCh`. A
failing upsert may have been carried out. `Restart` kills every handler and goroutine
and runs `StartAll`.

`Telegram` adds `connectOnce`, which a listener repeats until it is stopped: `Dial`
replaces the `ready` channel and the API, `Connected` closes it, `Refused` and
`Disconnected` end the attempt. A DM is handled by a goroutine per connection that
receives it (`Handlers`), since a cancelled listener and its successor may both still
be connected. `SendDM` reads the registered listener, its ready channel and its API in
three steps with no lock over them, so it may wait on a channel that was replaced
until its 15 s are over although the listener is connected by then. `inbox` has the row
of each handler, with the `tg_message_id` that its INSERT writes: `persistInbound` is not
told the message's and writes 0 (`tgMessageID`), under a unique index (`Conflicts`). So
a DM that two connections receive is answered once, and every DM of a workspace but the
first is dropped as a duplicate of it (finding 4).

`TelegramChannels` has the rows, and per transaction what it will write at its commit.
Row locks and unique indexes are guards: `InsertConsent` waits for a transaction of
the same owner that has written a consent and fails if one stays, hence an owner has
one active channel at most. The row of a disconnected
channel stays, so the owner is told `already_connected` for good. The webhook looks the
channel up and inserts the post in two statements: one late post may stay although
`handlers/telegram.go` reports "data deleted" (`late` is that history).

Left out: the human-like delay before a reply, FLOOD_WAIT, encryption, the check of the
login widget, what posts hold, and the reads `GetUserbotStatus`, `GetStatus`,
`GetPosts` and `RequireConsent`.

### CrmTokens, LeadScore, AgentConfig and Dialogue

`CrmTokens` is one integration (`crm` says which: amoCRM, Zoho or Google). Time counts
steps of five minutes, the unit of every duration in that code: the cache lives one,
a token is renewed with less than one left. A caller walks `token` (cache), `select`,
`refresh`, `store`, `cache`, `api`; a callback `exchange`, `save`, `cache`.
amoCRM takes a refresh token once and answers with its successor, Zoho answers with
none (the row then holds none), the Google library keeps its own and renews once more
in memory. The UPDATE of a renewal names only the workspace and its error is ignored.
`Request` is an attempt of `withRetry`; an attempt may be carried out and its answer
lost (it is tried again) or cut off or not parse (it is not), and the context may end
before the next one. `invalidateCachedToken` is never called, so it is no action.

`LeadScore` is `ScoreMessage`: read, INSERT of a first row, UPDATE with the score
computed from what was read. Goroutines that read the same score lose each other's
points; `ScoreBacked` says what remains true: the stored score is what some scored
messages give one after the other, each taking up what the one before it left
(`Chains`). `AgentConfig` is the owner's edits and what the client of
llm-service reads. The ids that agent-service lists for its tools are none of the
registry's, so both kinds may be assigned and only one offers anything.

`Dialogue` is a turn: agent, tools, strict answer of the knowledge base, the model's
rounds, the recorded chat, the background score, the pushes; and the VK decision with
its JSON fallback and its downgrade without consent. It keeps three facts that a
reader of the code may not expect: `call_operator` needs its id on the agent's list
although `registry.go:102` calls it always available; the loop goes on after it,
although `llm.go:238` says it stops, and sends another AGENT_STUCK push each round;
and the fallback neither scores nor checks the mode it parsed, nor alerts when that mode
is `escalate` (finding 5).

Left out: the wording of prompts, the reading of the history, CRUD of tools, and three
logs that no step reads (tool executions, contacts, behavioral signals).

### KnowledgeText, SheetsGrant and Knowledge

`KnowledgeText` computes what the code computes: chunks of a document by bytes with
their overlap, spans of a page by words, rows of a sheet under generated keys after the
guess of its orientation and header. What loops in the code is a function by recursion
on the position reached (`Scan`, `Kept`), so that it can be proved about. Sentences
come in their order, except where the end of a text repeats: `chunkDocText` drops a
last window that reads like the chunk before it, so the sentences b c b c in chunks of
170 bytes end with the chunk of the first b c (`Repeated` in `MCKnowledge`), and
`ChunksCover` claims the order only when the last sentence occurs once. The model
compares the pieces of the two, the code the strings they make: where only the strings
are alike the model keeps a chunk that the code drops, whose text the chunk before has
too. A sheet may come cut off after some row, since the code reads 1000 rows at most and
goes on without those it cannot read (`Cut` in `MCKnowledge`). A sentence has a length and the byte positions
where a letter would be cut (`inside`); a chunk cut there is not UTF-8 and its INSERT
fails, which leaves the document `indexing` (`InsertChunk`).

`Knowledge` has a row per source, `texts` (chunks and table rows), `vectors`, and per
request its next statement. Documents, pages and questions ignore a failing upsert,
sheets and reindexing do not. A service without Pinecone skips the upsert
(`SkipVectors`) and calls documents and pages `indexed` all the same. `Reindex` has no status check though its comment says
"pending". A sheet keeps the namespace of its first sync while its vectors go to the
one asked for. Deleting a page or a sheet leaves its vectors, although `web.go:129`
says they are removed; so does deleting a question whose `pinecone_id` was not stored.
A new namespace of an old name finds the vectors that stayed. A search by names of
namespaces does not filter what PostgreSQL finds. `Abandon` is a stop of the service.
`SheetsGrant` is the OAuth states (taken by DELETE ... RETURNING), the token row, the
callbacks and the renewals of syncs; `Disconnect` can be undone by a renewal under way.
A token is told by the connection whose account it is for (`of`) and by its refresh
token (`rt`). A renewed one is for the account of its refresh token, which `saveToken`
may have kept from an earlier connection: connect A, connect B without a refresh token,
renew, and the row holds a token of A again. `GrantsAreConsented` says so.

Histories (`gaps`, `exchanged`, `owner`, `revived`) record what failed or overlapped,
so that a property can say exactly what the code gives up. Left out: object storage,
extraction from files, list endpoints, column types, ranks and their fusion.
Splitting into sentences is the input.

### Accounts

State: users with address and password, how many subscriptions each has, VK links,
refresh tokens with their rows, access tokens, devices, row locks of transactions. A
VK login reads the link, then (`PreparePreferred`) locks the accounts to merge, then
commits; the refresh token is saved after that. A row of a user that another
transaction holds makes a statement wait. `FailRequest` may end a request anywhere. The model
keeps what follows from these steps: linking VK overwrites the account's address by
`vk_...@`; a link read before the locks can merge an account away that has moved;
the cascade takes an orphan's other link, devices, sessions and subscription; a deleted
user whose access token is sent along comes back as the preferred one; a lost
refresh-token row is written again; a Register that stops between its two inserts
leaves no subscription; one device may be two users'; a token VK does not know is taken
for the claimed account.

Left out: names, pictures, plans, the profile endpoints, the texts of pushes.

## 3. Runs

| Run | Instance | What it shows |
|---|---|---|
| `vk_faults` | 1 message and 2 requests in hybrid mode; or 1 OAuth, 1 manual connect, 1 disconnect, 1 restart, events 9 and 10 after ts 8, expiring keys; any call may fail; 4.4 M states | the safety properties of the pipeline and the refinement of `ReplyLedger`; registry, pipelines, tokens and offset of the workers |
| `vk_progress` | 1 message, 1 request, the context may expire, disconnects; or 1 OAuth, 1 manual connect, 1 restart, events 10 and 11 after ts 9; no failures; fair; 96 k states | every goroutine ends and its message is processed unless time ran out; a late `GenerateDraft` sends nothing; cancelled workers end, awaited events are stored |
| `workers_disconnect`, `workers_restart` | 1 OAuth and 1 disconnect or restart; violation | findings 1 and 2 |
| `auth_faults` | the sign-ins, the DMs or the channels (see Bounds); 2.4 M states | success, sessions and listeners stay consistent; a DM gets one reply at most, a reply has its row and rows are true; channels, consents and posts agree |
| `auth_progress` | 2 send-codes, 1 sign-in, 1 restart; fair; 274 k states | flows end, requests are answered, a stored session gets a connected listener |
| `auth_pending` | 2 send-codes, 1 sign-in; violation | finding 3 |
| `dms_stored` | 1 sign-in, 2 DMs, no failures; violation | finding 4 |
| `dialogue` | two turns, or a turn with the owner's edits, or a tool call with a request and a callback; 1.4 M states | tokens, records, alerts, the chat and the score stay truthful |
| `dialogue_escalation` | the same without failures; violation | finding 5 |
| `knowledge` | two requests around one source, or one around every small content, or the Google connection; 536 k states | no text is lost, indexed is found, a deleted document or question is not, the token is the last connection's or of the refresh token it kept |
| `accounts` | 3 ids, 1 address, 2 VK users, 2 requests at a time; 501 k states | references hold, one subscription, every account can be logged in to |

Deadlock is not checked: once every request was made and every goroutine ended,
the modelled part of the system has nothing left to do.

**Bounds.** In `VKReply` processes of different messages share nothing but the
settings and `is_active`, so one message with two requests (which may be two
generations, two approvals or one of each) gives every kind of overlap on one draft
row; three processes are what it takes for one to overwrite what another reported
about a third. In `VKWorkers` three workers (two connects, one restart) overlap; the
hazard of a pair needs two, and a disconnect meets two at most (`Instance`). The ts go
across 9/10 so that the string order differs from the numeric one; `LastTs` bounds the events. `MCVKService` runs one of the two at a
time: each leaves open what the other would do to it, and they share no variable.
`MayFail` and `CallsMayFail` say whether calls of the one and of the other fail.

The composed modules are checked part by part, by a state constraint `Instance` that
says which parts may be busy together; the parts share no more state than that.

* `MCTelegram`: sign-ins that overlap, two of each, without connections (two flows and
  two sign-ins are needed for a flow to lose its entry and for two handlers to share
  one; with a failing call, of which a behaviour has one at most (`faults`), two of one
  kind only); or one sign-in, a restart and one DM, which two listeners may receive, or
  two DMs that one listener does, without a sign-out; or
  one owner with two channels, two connects, two disconnects and two updates: two of a
  kind are what a unique index or a lock decides between.
* `MCDialogue`: two turns at once without an integration; or one turn and an edit of
  the agents; or one tool call, one owner request and one callback, for each of the
  three integrations and with two accounts. A token lives one step
  (`Life`) and the clock stops after two (`LastTick`), so that it is due one step after it
  was issued, and may be renewed twice; `MaxAttempts`, `MaxIter` and `MaxCalls` are 2, the owner's edits of an agent
  3 (`MaxEdits`).
* `MCKnowledge`: one source at a time. Two requests at once, a third after them through
  the rows they leave; or one request around each of the small contents: up to three of
  seven sentences around the limits 250 and 512 and the overlap of 50, a text that
  repeats itself in chunks of 170, page lengths
  around 500 and 950 words, nine matrices by rows, by columns, titled, ragged, cut off
  or without data; or two syncs and two callbacks around the token.
* `MCAccounts`: three accounts are what a merge of two with a third in the way takes.
  Pushes, worn tokens and third accounts are taken one at a time.

Requests, ids and namespaces are symmetric; `SYMMETRY` is used in safety runs only,
never with liveness.

**Fairness.** Each goroutine and handler is weakly fair in its own steps. The Go
scheduler runs every goroutine; every call returns, since HTTP clients have timeouts
(8 s for llm-service, 25 s and a margin for a poll) and contexts have deadlines;
timers fire; a listener tries for ever, and is connected when Telegram can be reached.
Arrivals, owner requests, failures, expiry of the VK key and restarts are not fair.
Liveness runs exclude failures where the code promises nothing after one. The modules
of llm-service, rag-service and auth-service have no fairness: their requests end
when their calls do, and what they owe is stated as safety at their end.

**Mutants.** Each property of a passing run has a mutated definition beside the one
it mutates (comments "Mutant: ..."), which TLC finds to violate it: an ignored error,
a cancelled worker left running, an offset saved too early, a result not posted, a
duplicate handled again, a cache entry that outlives its token, a state looked up and
not taken.

## 4. Findings

1. *Disconnect* (`workers_disconnect`, `DisconnectStops`). A Disconnect between a
   connect's upsert and the registration of its worker stops nothing.
2. *Restart* (`workers_restart`, `RestartStartsAll`). A NULL `long_poll_ts` does not
   scan into a string and the integration gets no worker.
3. *Second SendCode* (`auth_pending`, `PendingUntilDone`). The clean-up of a replaced
   flow removes the flow that replaced it; the code just sent cannot be used.
4. *Second DM* (`dms_stored`, `EveryDMIsStored`). Migration 020 promises one row per
   inbound DM; every row gets `tg_message_id` 0 under a unique index, and all DMs of a
   workspace but the first are dropped as duplicates, without row or answer.
5. *Fallback escalation* (`dialogue_escalation`, `EscalationAlerts`). `llm.go:828` has an
   escalation alert the owner; one that the JSON fallback decides alerts nobody.

Section 2 names further places where the code does something else than a comment says.

## 5. Proofs

Every safety invariant and every action property that a passing run checks is a
theorem of its specification, for every value of the constants; so are both
refinements. Each proof module extends its component's module. Assumed of the
constants are only the named `ASSUME`s:

* sets of processes are disjoint, and so are the kinds of sources; switches are
  Booleans; ids of agents and the ts are numbers in their range; `Batch`, `MaxIter`
  and `MaxCalls` are positive;
* what stands for "no row" is no row (`RowsAssumption`, `ScoreAssumption`,
  `KnowledgeAssumption`), no namespace is called "new" or "gone", and messages are
  sets of signals that have a weight;
* a sentence has at least one byte and its `inside` lies within it, documents are
  sequences of sentences, sheets sequences of rows of strings (`TextsAssumption`).

Any number of messages, requests, connects, restarts, turns, syncs, sources, users and
channels is covered, and any content of any length.

* **VKReply.** `SentDraftNamesDelivery` is not inductive: a process about to store
  `auto_sent` must have been delivered. `SendsKnown` says what VK has done for a
  process from where it stands; `AboutStored` that a process is about a stored
  message (the guard the ledger's `Reply` asks for); `MarksJustified` and
  `ConsentKnown` carry the two other properties to the process that is about to mark
  or send. `IInv` is their conjunction; one lemma per part, one step per action.
  `Refinement` shows each step to be a ledger step or a stutter under `IInv`.
  `LateSafe` holds under `MayFail = FALSE` (it is the property's own condition) with
  the invariant `LateFindsDraft`; `ApprovalLasts` is an action property of `DraftOf`
  and `RecordApproval`.
* **VKWorkers.** `ConsumedWasSeen` needs `ProgressSeen`: what a polling worker's
  `from` and a batch's `next` say about the events handled so far, and `PollsInRange`
  for the arithmetic. `LiveIsRegistered`, `OnePipelinePerMessage` and
  `ManualTokenKept` are inductive given the types.
* **MtprotoAuth, in TelegramProofs.** `SuccessKnown` says where the one success of a
  flow is (to be posted, in `doneCh`, told to one sign-in), which makes
  `SuccessWasSaved` inductive; `FlowsKnown` that a flow starts once; `SessionsKnown` that a session is
  authorized before it is stored and stored before a sign-out loads it, which
  `StoredIsAuthorized` needs.
* **Telegram.** `SignInRefinement` shows that every step is one of `MtprotoAuth` or
  leaves it alone, so that its theorems hold of the whole. `RepliesAreRecorded` needs
  what a handler knows of its own row at each step (`HandlerHolds`), and that of the
  handlers of one DM one has a row at most (`OneRow`), which the unique id gives. `PostsAreConsented` needs the
  unique index between its two statements (`OneConsent`), and that what a disconnect
  has read is still what there is when it commits (`LeavesAll`): that is what its locks
  are for.
* **CrmTokens, in Dialogue.** `CrmTokensProofs` proves about any step that is one
  `CrmMove`; `DialogueProofs` shows that every step of `Dialogue` is one (`NextMoves`).
  `CachedTokenIsFresh` needs that an entry's end is before its token's
  (`CacheBounded`). `StoredPairIsUsable` rests on every refresh token being held in one
  place only: `TokensKnown` says what each holder knows of its own, `TokensApart` that
  no two hold the same unless they read it from the row, `PairKept` is the property
  with the renewals under way. `CreatedAsReported` is `Balanced` at the end of a call.
* **Dialogue.** `OperatorAlerted` is inductive once it says, at each place of a turn,
  how the alerts sent so far relate to the wish (`AlertsHold`), and that only the end of
  a turn can come from the fallback. `AnswersAreRecorded`
  needs when a turn writes (`RecordsHold`): the question on the way to the model, the
  answer and the score with the turn's end, nothing in a turn of VK. `TypeOK` is put
  together from the store's part, the score's and `TurnsHold`, which says what a turn
  holds at each place; that `resolve` finds an agent rests on every set of agents having
  a newest one (`NewestExists`).
* **LeadScore, in Dialogue.** `ScoreBacked` speaks of the row only; `ScoreHolds` says
  the same of every score that a goroutine has read and will add to (`Backed`), and that
  each scored message ends a chain (`EndsChain`). A chain survives the steps of other
  goroutines, since what a scored message took up is not written again.
* **SheetsGrant, in Knowledge.** The same way, with `GrantMove`: a state is exchanged
  once because whoever holds it has taken it (`StatesOnce`), and the stored pair is the
  owner's, or its token of the refresh token that the owner's connection kept
  (`OwnerHolds`), whatever renewals are under way.
* **Accounts.** `OneSubscription` needs that a user is registered by one request
  (`Alone`) and how many subscriptions it may have while that request is about to add
  one (`Counted`). `AccountsStayReachable` is inductive given the rest: a commit
  gives the address of the VK account to the user that its link then leads to, and merges
  away or is rolled back by any other owner of it (`CommitReaches`).
  `AccountsTypeOK`, which holds the references, needs `RowsHold`:
  `UsersHold` (no address twice, nothing left of a user who is gone), `ReferencesHold`
  (links and token rows point to users who exist) and `LocksHold` (a locked row is one
  that a VK login is about to merge, and a renewal remembers whose its token is).
* **Knowledge.** `BaseHolds` is what no statement of one request may destroy for
  another. Of each source (`ItemHolds`): its row is its newest, its vectors are in its
  namespace under the ids of its texts (`VectorsAtHome`), a document that is not
  `indexing` has all its chunks (`Finished`), an indexed source all its vectors
  (`Indexed`). Of each request, at each statement: the namespace it read has that name or
  is gone (`NameHolds`), what it upserts belongs where it upserts it (`WriterHolds`), one
  that deletes knows of every vector there is (`DeleterHolds`), one that will report
  `indexed` sends what its row says (`SenderHolds`). Of any two: only one creates a
  source, and two that refresh one are marked (`OneMaker`, `OverlapsMarked`).
  `TypeOK`, `IndexedIsSearchable` and `DeletedIsNotFound` follow. The steps fall into
  those that leave the store alone, that write a row, that bring vectors and that take
  some away, with one lemma on what each kind may do to the other requests.
* **KnowledgeText, and what is stored.** `DocumentCovered`, `PageCovered` and
  `SheetCovered` say that chunks, spans and row texts have all of their source, whatever
  it is. `Good` is what the scan holds before and after each sentence, chunks no longer
  than asked for; `Adds` what one more sentence does, however it is added: every byte of it
  is in the chunks or the window, behind what was there, and the window ends with it. A sheet
  is followed by bijections between cells: cleaning, transposing and keying lose none
  (`Matched`). `SourcesAreCovered` joins this to the store by `StoredHolds`: what is stored of
  a document is a chunk of it at its place, and a sync that is alone with its sheet has
  stored the row texts it has come to.

  No induction theorem of the library can be used, since each takes an operator. The
  library's statement that every set of numbers has a least one (`WFMin`) does not:
  `NatInd` is induction as a fact about sets, and `StepsExist` derives from it that a
  function defined by recursion on 0..n is what its definition says. With these two,
  what `Scan`, `Kept` and `windowLen` compute is proved for every input.

Each invariant was checked by TLC on the runs' instances before it was proved.

Only model-checked are the liveness properties (`EveryMessageProcessed`, `CancelledEnds`,
`AwaitedIsStored`, `EveryFlowEnds`, `RequestsAnswered`, `StoredIsConnected`): fairness and
ENABLED are outside what the provers handle.

`PendingUntilDone`, `DisconnectStops`, `RestartStartsAll`, `EveryDMIsStored` and
`EscalationAlerts` are false of the code.

## 6. Not modelled, and the plan

In this order:

1. **VKSystem**: `VKWorkers` and `VKReply` composed on the message table, so that a
   worker's `Handle` is the pipeline's `Insert`, with `OnePipelinePerMessage` as the
   interface; then that the composition implements `ReplyLedger`.
2. **VK OAuth states**: the nonce map in memory, `peekState` and `popState`.
3. **TwinCache**: the digital twins, a read-through cache whose enrichment writes to
   the struct it shares. What it answers only enriches prompts, and no step of the
   other modules reads it back.

Not planned: VK posts, walls and the workspace profile (one statement and one call per
request); the MTProto channel calls (`GetAdminChannels`, `ImportHistory`, `SendMessage`,
`ReplyToComment`), which use the stored session and keep nothing; the stateless gateway;
the signing of tokens in jwt-go (whose they are and whether they expired is in
`Accounts`); ranking and extraction; the landing page, deployment files and test helpers.
