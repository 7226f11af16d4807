------------------------------ MODULE CrmTokens ------------------------------
(***************************************************************************)
(* The token store of llm-service: one OAuth integration of one workspace  *)
(* (amoCRM, Zoho or Google Calendar), its row, the in-memory token cache,  *)
(* the calls that tools and handlers make with it, and the OAuth callbacks *)
(* that (re)connect it, possibly to another account.                       *)
(*                                                                         *)
(* Time counts steps of five minutes, the unit of every duration in the    *)
(* code: the cache lives one step and a token is renewed when less than    *)
(* one step of its life is left.                                           *)
(***************************************************************************)
EXTENDS Integers

CONSTANTS
    Callers,      \* the requests that may use the integration
    Callbacks,    \* the OAuth callbacks that may arrive
    Accounts,     \* the accounts the owner may connect
    NoOne,        \* no row, no token, no cache entry
    MaxAttempts,  \* maxRetryAttempts
    Life,         \* expires_in
    LastTick,     \* where the clock of an instance stops
    MayFail       \* may a provider or the database fail?

ASSUME CrmAssumption ==
    /\ MaxAttempts \in Nat \ {0}
    /\ Life \in Nat \ {0}
    /\ LastTick \in Nat
    /\ NoOne \notin Accounts \cup [acc : Accounts, n : Nat]
    /\ MayFail \in BOOLEAN

VARIABLES
    crm,      \* which integration this is: its table, its cache, its API
    row,      \* the integration row, or NoOne
    cache,    \* tokenCache of the workspace, or NoOne
    live,     \* the refresh tokens the provider accepts
    issued,   \* how many refresh tokens it has issued
    now,
    call,     \* what each caller is doing with the integration
    back,     \* what each callback is doing
    raced,    \* history: an UPDATE overwrote a row saved after its SELECT
    lost      \* history: a renewed pair was never stored

crmVars == <<crm, row, cache, live, issued, now, call, back, raced, lost>>

AccessToken  == [acc : Accounts, exp : Nat]
RefreshToken == [acc : Accounts, n : Nat]
Row          == [host : Accounts, at : AccessToken, rt : RefreshToken \cup {NoOne}]
CacheEntry   == [host : Accounts, at : AccessToken, until : Int]

(* read is the row a caller has read (of a cache entry: its host and token), *)
(* at the token it will use, rt the refresh token it was given for it.       *)
Idle == [pc |-> "idle", read |-> NoOne, at |-> NoOne, rt |-> NoOne, creates |-> FALSE,
         notes |-> FALSE, tries |-> 0, made |-> 0, unheard |-> 0, ok |-> FALSE]

Call == [pc : {"idle", "token", "select", "refresh", "store", "cache", "api", "done"},
         read : Row \cup {NoOne}, at : AccessToken \cup {NoOne},
         rt : RefreshToken \cup {NoOne}, creates : BOOLEAN, notes : BOOLEAN,
         tries : Nat, made : Nat, unheard : Nat, ok : BOOLEAN]

CrmTypeOK ==
    /\ crm \in {"amocrm", "zoho", "google"}
    /\ row \in Row \cup {NoOne}
    /\ cache \in CacheEntry \cup {NoOne}
    /\ live \subseteq RefreshToken
    /\ issued \in Nat
    /\ now \in Nat
    /\ call \in [Callers -> Call]
    /\ back \in [Callbacks -> [pc : {"idle", "save", "cache", "done"},
                               new : Row \cup {NoOne}]]
    /\ raced \in BOOLEAN
    /\ lost \in BOOLEAN

\* A process that starts finds the owner connected or not; its cache is empty.
CrmInit ==
    /\ crm \in {"amocrm", "zoho", "google"}
    /\ \/ row = NoOne /\ live = {}
       \/ \E a \in Accounts :
            LET rt == [acc |-> a, n |-> 0]
            IN  /\ row = [host |-> a, at |-> [acc |-> a, exp |-> Life], rt |-> rt]
                /\ live = {rt}
    /\ cache = NoOne
    /\ issued = 0
    /\ now = 0
    /\ call = [c \in Callers |-> Idle]
    /\ back = [k \in Callbacks |-> [pc |-> "idle", new |-> NoOne]]
    /\ raced = FALSE
    /\ lost = FALSE

-----------------------------------------------------------------------------
(* The cache. *)

Least(a, b) == IF a < b THEN a ELSE b

\* Mutant: the expiry of the token is not looked at.
CacheUntilMutant(at) == now + 1

\* Until when a token may be served from the cache: never past the point
\* where it would be renewed.
CacheUntil(at) == Least(now + 1, at.exp - 1)

Cached == cache # NoOne /\ now <= cache.until

SetCachedToken(host, at) ==
    cache' = IF crm # "google" /\ CacheUntil(at) >= now
             THEN [host |-> host, at |-> at, until |-> CacheUntil(at)]
             ELSE cache

-----------------------------------------------------------------------------
(* The OAuth callback: exchange of the code, upsert of the row, cache. *)

Exchange(k) ==
    /\ back[k].pc = "idle"
    /\ \E a \in Accounts :
         LET rt == [acc |-> a, n |-> issued + 1]
         IN  /\ issued' = issued + 1
             /\ live' = live \cup {rt}
             /\ back' = [back EXCEPT ![k] =
                   [pc |-> "save", new |-> [host |-> a, at |-> [acc |-> a, exp |-> now + Life],
                                            rt |-> rt]]]
    /\ UNCHANGED <<crm, row, cache, now, call, raced, lost>>

SaveIntegration(k, then) ==
    /\ back[k].pc = "save"
    /\ \/ /\ row' = back[k].new
          /\ back' = [back EXCEPT ![k].pc = then]
       \/ /\ MayFail
          /\ back' = [back EXCEPT ![k].pc = "done"]
          /\ UNCHANGED row
    /\ UNCHANGED <<crm, cache, live, issued, now, call, raced, lost>>

WarmCache(k) ==
    /\ back[k].pc = "cache"
    /\ SetCachedToken(back[k].new.host, back[k].new.at)
    /\ back' = [back EXCEPT ![k].pc = "done"]
    /\ UNCHANGED <<crm, row, live, issued, now, call, raced, lost>>

AmoCallback(k) ==
    /\ crm = "amocrm"
    /\ Exchange(k) \/ SaveIntegration(k, "cache") \/ WarmCache(k)

ZohoCallback(k) ==
    /\ crm = "zoho"
    /\ Exchange(k) \/ SaveIntegration(k, "cache") \/ WarmCache(k)

\* The calendar has no token cache.
GoogleCallback(k) ==
    /\ crm = "google"
    /\ Exchange(k) \/ SaveIntegration(k, "done")

-----------------------------------------------------------------------------
(* A call: getAccessToken, then the request with its retries. *)

Begin(c, creates, notes) ==
    /\ call[c].pc = "idle"
    /\ call' = [call EXCEPT ![c] = [Idle EXCEPT !.pc = "token", !.creates = creates,
                                               !.notes = notes]]
    /\ UNCHANGED <<crm, row, cache, live, issued, now, back, raced, lost>>

AmoCreateLead(c)    == crm = "amocrm" /\ \E notes \in BOOLEAN : Begin(c, TRUE, notes)
AmoCreateTask(c)    == crm = "amocrm" /\ Begin(c, TRUE, FALSE)
AmoAddNote(c)       == crm = "amocrm" /\ Begin(c, TRUE, FALSE)
AmoGetPipelines(c)  == crm = "amocrm" /\ Begin(c, FALSE, FALSE)
ZohoCreateLead(c)   == crm = "zoho" /\ Begin(c, TRUE, FALSE)
ZohoCreateTask(c)   == crm = "zoho" /\ Begin(c, TRUE, FALSE)
ZohoAddNote(c)      == crm = "zoho" /\ Begin(c, TRUE, FALSE)
ZohoGetDealStages(c) == crm = "zoho" /\ Begin(c, FALSE, FALSE)
CreateEvent(c)      == crm = "google" /\ Begin(c, TRUE, FALSE)
ListEvents(c)       == crm = "google" /\ Begin(c, FALSE, FALSE)

\* A call that has ended: with notes, a created lead gets its note by a second
\* call whose own result is dropped.
Ended(r, ok) ==
    LET free == [r EXCEPT !.read = NoOne, !.at = NoOne, !.rt = NoOne, !.tries = 0]
    IN  IF ok /\ r.notes
        THEN [free EXCEPT !.pc = "token", !.notes = FALSE, !.ok = TRUE]
        ELSE [free EXCEPT !.pc = "done", !.notes = FALSE, !.ok = r.ok \/ ok]

\* The fast path serves the cached token; a Google call always reads its row.
GetCachedToken(c) ==
    /\ call[c].pc = "token"
    /\ call' = [call EXCEPT ![c] =
          IF Cached
          THEN [@ EXCEPT !.pc = "api", !.at = cache.at,
                         !.read = [host |-> cache.host, at |-> cache.at, rt |-> NoOne]]
          ELSE [@ EXCEPT !.pc = "select"]]
    /\ UNCHANGED <<crm, row, cache, live, issued, now, back, raced, lost>>

\* amoCRM and Zoho renew in the last five minutes, the Google library after them.
MustRenew(at) == IF crm = "google" THEN at.exp <= now ELSE at.exp - now < 1

SelectRow(c) ==
    /\ call[c].pc = "select"
    /\ call' = [call EXCEPT ![c] =
          IF row = NoOne THEN Ended(@, FALSE)
          ELSE [@ EXCEPT !.read = row, !.at = row.at,
                         !.pc = IF MustRenew(row.at) THEN "refresh" ELSE "cache"]]
    /\ UNCHANGED <<crm, row, cache, live, issued, now, back, raced, lost>>

\* External: amoCRM takes a refresh token once, at the host of its account;
\* Zoho and Google take it any number of times.
Accepts(c) ==
    LET r == call[c].read
    IN  /\ r.rt # NoOne
        /\ r.rt \in live
        /\ crm = "amocrm" => r.rt.acc = r.host

\* Mutant: a failed renewal stores the empty answer.
RenewMutant(c, granted) ==
    /\ call[c].pc = "refresh"
    /\ call' = [call EXCEPT ![c].pc = "store", ![c].rt = IF Accepts(c) THEN granted ELSE NoOne]
    /\ UNCHANGED <<crm, row, cache, live, issued, now, back, raced, lost>>

\* A renewal with the refresh token that was read. granted is what the answer
\* carries in its place; a failed renewal leaves the caller with the token of
\* the row.
Renew(c, granted) ==
    /\ call[c].pc = "refresh"
    /\ LET rt   == call[c].read.rt
           used == (live \ {rt}) \cup ({granted} \ {NoOne})
       IN  \/ /\ Accepts(c)
              /\ live' = IF granted = NoOne THEN live ELSE used
              /\ issued' = IF granted \in {NoOne, rt} THEN issued ELSE issued + 1
              /\ \/ /\ call' = [call EXCEPT ![c].pc = "store", ![c].rt = granted,
                                            ![c].at = [acc |-> rt.acc, exp |-> now + Life]]
                    /\ UNCHANGED lost
                 \/ /\ MayFail                     \* renewed, the answer got lost
                    /\ call' = [call EXCEPT ![c].pc = "cache"]
                    /\ lost' = TRUE
           \/ /\ ~Accepts(c) \/ MayFail
              /\ call' = [call EXCEPT ![c].pc = "cache"]
              /\ UNCHANGED <<live, issued, lost>>
    /\ UNCHANGED <<crm, row, cache, now, back, raced>>

\* amoCRM answers with a new refresh token, Zoho with none; the Google library
\* keeps the one it had.
AmoRefresh(c) ==
    /\ crm = "amocrm"
    /\ Renew(c, [acc |-> call[c].read.rt.acc, n |-> issued + 1])
ZohoRefresh(c) == crm = "zoho" /\ Renew(c, NoOne)
GoogleRefresh(c) == crm = "google" /\ Renew(c, call[c].read.rt)

\* The UPDATE names only the workspace, and its error is ignored.
Store(c, rt) ==
    /\ call[c].pc = "store"
    /\ \/ /\ row' = [row EXCEPT !.at = call[c].at, !.rt = rt]
          /\ raced' = (raced \/ row # call[c].read)
          /\ UNCHANGED lost
       \/ /\ MayFail
          /\ lost' = TRUE
          /\ UNCHANGED <<row, raced>>
    /\ call' = [call EXCEPT ![c].pc = "cache"]
    /\ UNCHANGED <<crm, cache, live, issued, now, back>>

\* Google's UPDATE leaves the refresh token alone.
AmoStore(c)    == crm = "amocrm" /\ Store(c, call[c].rt)
ZohoStore(c)   == crm = "zoho" /\ Store(c, call[c].rt)
GoogleStore(c) == crm = "google" /\ Store(c, row.rt)

CacheToken(c) ==
    /\ call[c].pc = "cache"
    /\ SetCachedToken(call[c].read.host, call[c].at)
    /\ call' = [call EXCEPT ![c].pc = "api"]
    /\ UNCHANGED <<crm, row, live, issued, now, back, raced, lost>>

\* External: a token is good until it expires, at its own account. The Google
\* library renews once more, in memory, when the request goes out.
Authorized(r) == IF crm = "google"
                 THEN now < r.at.exp \/ r.read.rt \in live
                 ELSE now < r.at.exp /\ r.at.acc = r.read.host

\* What withRetry does after an attempt that failed: a 5xx or a transport
\* error is tried again, up to MaxAttempts. Google calls are not retried.
Again(r) == IF crm # "google" /\ r.tries + 1 < MaxAttempts
            THEN [r EXCEPT !.tries = @ + 1]
            ELSE Ended(r, FALSE)

\* The record of the call itself; the note of a created lead is not counted.
Counts(r) == r.creates /\ ~r.ok

Made(r) == IF Counts(r) THEN [r EXCEPT !.made = @ + 1] ELSE r

\* What may come of an attempt: carried out and answered, or not answered, or
\* answered with a body that is cut off or does not parse; a 5xx or no
\* connection; a 4xx, or a context that had ended before.
Outcomes(r) ==
    (IF Authorized(r) THEN {"ok"} ELSE {"refused"})
    \cup (IF MayFail THEN {"down", "refused"} ELSE {})
    \cup (IF MayFail /\ Authorized(r) THEN {"unheard", "unread"} ELSE {})

\* An attempt that was carried out, and what its caller heard of it.
Attempted(r, outcome) ==
    CASE outcome = "ok"                    -> Made(r)
      [] outcome \in {"unheard", "unread"} -> [Made(r) EXCEPT !.unheard = IF Counts(r) THEN @ + 1 ELSE @]
      [] OTHER                             -> r

isRetryable(outcome) == outcome \in {"unheard", "down"}

\* Mutant: withRetry goes on after an attempt that succeeded.
RequestMutant(c) ==
    LET r == call[c]
    IN  /\ r.pc = "api"
        /\ \E outcome \in Outcomes(r) :
             call' = [call EXCEPT ![c] =
                IF outcome = "refused" THEN Ended(r, FALSE)
                ELSE IF r.tries + 1 < MaxAttempts THEN Again(Made(r)) ELSE Ended(Made(r), TRUE)]
        /\ UNCHANGED <<crm, row, cache, live, issued, now, back, raced, lost>>

\* The context of a request may end while it waits for an attempt, or to retry.
Request(c) ==
    LET r == call[c]
    IN  /\ r.pc = "api"
        /\ \E outcome \in Outcomes(r) :
             LET done == Attempted(r, outcome)
             IN  \/ call' = [call EXCEPT ![c] =
                       IF isRetryable(outcome) THEN Again(done) ELSE Ended(done, outcome = "ok")]
                 \/ MayFail /\ outcome # "ok" /\ call' = [call EXCEPT ![c] = Ended(done, FALSE)]
        /\ UNCHANGED <<crm, row, cache, live, issued, now, back, raced, lost>>

AmoRequest(c)    == crm = "amocrm" /\ Request(c)
ZohoRequest(c)   == crm = "zoho" /\ Request(c)
GoogleRequest(c) == crm = "google" /\ Request(c)

\* Bound: the clock stops at LastTick.
Tick == /\ now < LastTick
        /\ now' = now + 1
        /\ UNCHANGED <<crm, row, cache, live, issued, call, back, raced, lost>>

CrmCall(c) ==
    \/ AmoCreateLead(c) \/ AmoCreateTask(c) \/ AmoAddNote(c) \/ AmoGetPipelines(c)
    \/ ZohoCreateLead(c) \/ ZohoCreateTask(c) \/ ZohoAddNote(c) \/ ZohoGetDealStages(c)

CalendarCall(c) == CreateEvent(c) \/ ListEvents(c)

CrmStep(c) ==
    \/ GetCachedToken(c) \/ SelectRow(c) \/ CacheToken(c)
    \/ AmoRefresh(c) \/ ZohoRefresh(c) \/ GoogleRefresh(c)
    \/ AmoStore(c) \/ ZohoStore(c) \/ GoogleStore(c)
    \/ AmoRequest(c) \/ ZohoRequest(c) \/ GoogleRequest(c)

CrmCallback(k) == AmoCallback(k) \/ ZohoCallback(k) \/ GoogleCallback(k)

-----------------------------------------------------------------------------
(* Properties. *)

\* A token that the cache still serves has at least five minutes to live,
\* however long ago the caller that cached it had read or renewed it.
CachedTokenIsFresh == Cached => cache.at.exp - now >= 1

\* Callers that renew the same amoCRM token at once, each with the refresh
\* token that only the first of them can use, leave a usable pair: it is of the
\* account of the row, and its refresh token is good or about to be replaced by
\* the caller that used it. Only an UPDATE that failed, a lost answer, or an
\* UPDATE that overwrote a row of a later callback, can leave another one.
StoredPairIsUsable ==
    crm = "amocrm" /\ row # NoOne /\ ~raced /\ ~lost =>
        /\ row.at.acc = row.host
        /\ row.rt # NoOne
        /\ row.rt.acc = row.host
        /\ \/ row.rt \in live
           \/ \E c \in Callers : call[c].pc = "store" /\ call[c].read = row

\* What a call reports is what it did: a success has created its record, and
\* the records beyond the reported one are as many as the answers that got
\* lost or could not be read, retries included.
CreatedAsReported ==
    \A c \in Callers :
        call[c].pc = "done" =>
            /\ call[c].creates /\ call[c].ok => call[c].made > 0
            /\ call[c].made = call[c].unheard
                              + (IF call[c].creates /\ call[c].ok THEN 1 ELSE 0)
=============================================================================
