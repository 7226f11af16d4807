--------------------------- MODULE CrmTokensProofs ---------------------------
(***************************************************************************)
(* Proofs about CrmTokens, the token store of llm-service, for any number  *)
(* of callers, callbacks and accounts. CrmMove is every step that a turn   *)
(* of Dialogue, a request of the owner or a callback takes in it.          *)
(***************************************************************************)
EXTENDS CrmTokens, TLAPS

\* The result of a call is handed on, and its caller may make another one.
HandOn(c) ==
    /\ call[c].pc = "done"
    /\ call' = [call EXCEPT ![c] = Idle]
    /\ UNCHANGED <<crm, row, cache, live, issued, now, back, raced, lost>>

CrmMove ==
    \/ \E c \in Callers, creates, notes \in BOOLEAN : Begin(c, creates, notes)
    \/ \E c \in Callers : HandOn(c)
    \/ \E c \in Callers : CrmStep(c)
    \/ \E k \in Callbacks : CrmCallback(k)
    \/ Tick
    \/ UNCHANGED crmVars

(* What a caller and a callback hold at each of their steps. *)
CallsHold ==
    \A c \in Callers :
        /\ call[c].pc \in {"refresh", "store", "cache", "api"} =>
              call[c].read \in Row /\ call[c].at \in AccessToken
        /\ call[c].pc \in {"refresh", "store"} => row \in Row

CallbacksHold == \A k \in Callbacks : back[k].pc \in {"save", "cache"} => back[k].new \in Row

CacheBounded == cache # NoOne => cache.until <= cache.at.exp - 1

CrmHolds == CrmTypeOK /\ CallsHold /\ CallbacksHold /\ CacheBounded

\* A process that starts holds nothing yet.
LEMMA CrmInitHolds == CrmInit => CrmHolds
<1> SUFFICES ASSUME CrmInit PROVE CrmHolds
  OBVIOUS
<1> USE CrmAssumption DEF CrmInit, Row, AccessToken, RefreshToken, CacheEntry
<1>1. row \in Row \cup {NoOne} /\ live \subseteq RefreshToken
  OBVIOUS
<1>2. call \in [Callers -> Call]
  BY DEF Call, Idle
<1>3. back \in [Callbacks -> [pc : {"idle", "save", "cache", "done"}, new : Row \cup {NoOne}]]
  OBVIOUS
<1>4. CrmTypeOK
  BY <1>1, <1>2, <1>3 DEF CrmTypeOK
<1>5. CallsHold /\ CallbacksHold /\ CacheBounded
  BY DEF CallsHold, CallbacksHold, CacheBounded, Idle
<1>6. QED
  BY <1>4, <1>5 DEF CrmHolds

\* A call that has ended keeps its type, and holds nothing.
LEMMA EndedType ==
    ASSUME NEW r \in Call, NEW ok \in BOOLEAN
    PROVE  Ended(r, ok) \in Call /\ Ended(r, ok).pc \in {"token", "done"}
  BY DEF Ended, Call, Row, AccessToken

\* A request is tried again as it was, or has ended.
LEMMA AgainType ==
    ASSUME NEW r \in Call, r.pc = "api"
    PROVE  Again(r) \in Call /\ (Again(r).pc \in {"token", "done"}
                                 \/ (Again(r).pc = "api" /\ Again(r).read = r.read /\ Again(r).at = r.at))
<1>1. Ended(r, FALSE) \in Call /\ Ended(r, FALSE).pc \in {"token", "done"}
  BY EndedType
<1>2. r.tries + 1 \in Nat
  BY DEF Call
<1>3. [r EXCEPT !.tries = @ + 1] \in Call
  BY <1>2 DEF Call
<1>4. /\ [r EXCEPT !.tries = @ + 1].pc = "api"
      /\ [r EXCEPT !.tries = @ + 1].read = r.read
      /\ [r EXCEPT !.tries = @ + 1].at = r.at
  BY DEF Call
<1>5. QED
  BY <1>1, <1>3, <1>4 DEF Again

\* Counting a record changes nothing else of a call.
LEMMA MadeType ==
    ASSUME NEW r \in Call, r.pc = "api"
    PROVE  Made(r) \in Call /\ Made(r).pc = "api" /\ Made(r).read = r.read /\ Made(r).at = r.at
<1>1. r.made + 1 \in Nat
  BY DEF Call
<1>2. QED
  BY <1>1 DEF Made, Call

\* What a caller may become in one step of its own.
LEMMA RequestType ==
    ASSUME CrmHolds, NEW c \in Callers, Request(c)
    PROVE  \E r \in Call :
              /\ call' = [call EXCEPT ![c] = r]
              /\ \/ r.pc \in {"token", "done"}
                 \/ r.pc = "api" /\ r.read = call[c].read /\ r.at = call[c].at
<1> DEFINE r == call[c]
<1>1. r \in Call /\ r.pc = "api"
  BY DEF CrmHolds, CrmTypeOK, Request
<1> HIDE DEF r
<1>2. PICK outcome \in Outcomes(r) :
        LET done == Attempted(r, outcome)
        IN  \/ call' = [call EXCEPT ![c] =
                  IF isRetryable(outcome) THEN Again(done) ELSE Ended(done, outcome = "ok")]
            \/ outcome # "ok" /\ call' = [call EXCEPT ![c] = Ended(done, FALSE)]
  BY DEF Request, r
<1>3. PICK next :
        /\ LET done == Attempted(r, outcome)
           IN  \/ next = IF isRetryable(outcome) THEN Again(done) ELSE Ended(done, outcome = "ok")
               \/ outcome # "ok" /\ next = Ended(done, FALSE)
        /\ call' = [call EXCEPT ![c] = next]
  BY <1>2
<1> DEFINE made == Made(r)
           unheard == [made EXCEPT !.unheard = IF Counts(r) THEN @ + 1 ELSE @]
           done == Attempted(r, outcome)
<1>4. made \in Call /\ made.pc = "api" /\ made.read = r.read /\ made.at = r.at
  BY <1>1, MadeType
<1>5. done \in Call /\ done.pc = "api" /\ done.read = r.read /\ done.at = r.at
  <2>1. done \in {made, unheard, r}
    BY DEF Attempted
  <2> HIDE DEF made, done
  <2>2. made.unheard \in Nat /\ made.unheard + 1 \in Nat
    BY <1>4 DEF Call
  <2>3. unheard \in Call /\ unheard.pc = "api" /\ unheard.read = r.read /\ unheard.at = r.at
    BY <1>4, <2>2 DEF Call
  <2> HIDE DEF unheard
  <2>4. QED
    BY <1>1, <1>4, <2>1, <2>3
<1>6. next \in {Again(done), Ended(done, TRUE), Ended(done, FALSE)}
  BY <1>3
<1> HIDE DEF done
<1>7. Again(done) \in Call /\ (Again(done).pc \in {"token", "done"}
                                 \/ (Again(done).pc = "api" /\ Again(done).read = done.read /\ Again(done).at = done.at))
  BY <1>5, AgainType
<1>8. \A ok \in BOOLEAN : Ended(done, ok) \in Call /\ Ended(done, ok).pc \in {"token", "done"}
  BY <1>5, EndedType
<1>9. QED
  BY <1>3, <1>5, <1>6, <1>7, <1>8 DEF r

\* A step of one caller that leaves the row, the cache and the callbacks alone.
LEMMA CallerStep ==
    ASSUME CrmHolds, NEW c \in Callers, NEW r \in Call,
           call' = [call EXCEPT ![c] = r],
           r.pc \in {"refresh", "store", "cache", "api"} => r.read \in Row /\ r.at \in AccessToken,
           r.pc \in {"refresh", "store"} => row \in Row,
           UNCHANGED <<crm, row, cache, now, back>>,
           live' \subseteq RefreshToken, issued' \in Nat, raced' \in BOOLEAN, lost' \in BOOLEAN
    PROVE  CrmHolds'
<1> USE DEF CrmHolds
<1>1. call' \in [Callers -> Call]
  BY DEF CrmTypeOK
<1>2. CrmTypeOK'
  BY <1>1 DEF CrmTypeOK
<1>3. CallsHold'
  BY DEF CallsHold, CrmTypeOK
<1>4. CallbacksHold' /\ CacheBounded'
  BY DEF CallbacksHold, CacheBounded
<1>5. QED
  BY <1>2, <1>3, <1>4

\* A step of one caller that only changes what it holds keeps the invariant.
LEMMA CallerKeeps ==
    ASSUME CrmHolds, NEW c \in Callers,
           \/ GetCachedToken(c) \/ SelectRow(c) \/ HandOn(c)
           \/ \E creates, notes \in BOOLEAN : Begin(c, creates, notes)
    PROVE  CrmHolds'
<1>1. /\ call[c] \in Call /\ row \in Row \cup {NoOne} /\ cache \in CacheEntry \cup {NoOne}
      /\ live \subseteq RefreshToken /\ issued \in Nat /\ raced \in BOOLEAN /\ lost \in BOOLEAN
  BY DEF CrmHolds, CrmTypeOK
<1>2. CASE GetCachedToken(c)
  <2> DEFINE r == IF Cached
                  THEN [call[c] EXCEPT !.pc = "api", !.at = cache.at,
                         !.read = [host |-> cache.host, at |-> cache.at, rt |-> NoOne]]
                  ELSE [call[c] EXCEPT !.pc = "select"]
  <2>1. call' = [call EXCEPT ![c] = r]
    BY <1>2 DEF GetCachedToken
  <2>2. CASE Cached
    <3>1. cache \in CacheEntry
      BY <1>1, <2>2 DEF Cached
    <3>2. /\ cache.at \in AccessToken
          /\ [host |-> cache.host, at |-> cache.at, rt |-> NoOne] \in Row
      BY <3>1 DEF CacheEntry, Row
    <3>3. r \in Call /\ r.pc = "api" /\ r.read \in Row /\ r.at \in AccessToken
      BY <1>1, <2>2, <3>2 DEF Call
    <3> HIDE DEF r
    <3>4. QED
      BY <1>1, <1>2, <2>1, <3>3, CallerStep DEF GetCachedToken
  <2>3. CASE ~Cached
    <3>1. r \in Call /\ r.pc = "select"
      BY <1>1, <2>3 DEF Call
    <3> HIDE DEF r
    <3>2. QED
      BY <1>1, <1>2, <2>1, <3>1, CallerStep DEF GetCachedToken
  <2>4. QED
    BY <2>2, <2>3
<1>3. CASE SelectRow(c)
  <2> DEFINE read == [call[c] EXCEPT !.read = row, !.at = row.at,
                                     !.pc = IF MustRenew(row.at) THEN "refresh" ELSE "cache"]
             r == IF row = NoOne THEN Ended(call[c], FALSE) ELSE read
  <2>1. call' = [call EXCEPT ![c] = r]
    BY <1>3 DEF SelectRow
  <2>2. CASE row = NoOne
    <3>1. r \in Call /\ r.pc \in {"token", "done"}
      BY <1>1, <2>2, EndedType
    <3> HIDE DEF r
    <3>2. QED
      BY <1>1, <1>3, <2>1, <3>1, CallerStep DEF SelectRow
  <2>3. CASE row # NoOne
    <3>1. row \in Row /\ row.at \in AccessToken
      BY <1>1, <2>3 DEF Row
    <3>2. read \in Call /\ read.read \in Row /\ read.at \in AccessToken
      BY <1>1, <3>1 DEF Call
    <3>3. r = read
      BY <2>3
    <3> HIDE DEF r, read
    <3>4. QED
      BY <1>1, <1>3, <2>1, <3>1, <3>2, <3>3, CallerStep DEF SelectRow
  <2>4. QED
    BY <2>2, <2>3
<1>4. CASE HandOn(c)
  <2>1. Idle \in Call /\ Idle.pc = "idle"
    BY DEF Idle, Call
  <2>2. QED
    BY <1>1, <1>4, <2>1, CallerStep DEF HandOn
<1>5. ASSUME NEW creates \in BOOLEAN, NEW notes \in BOOLEAN, Begin(c, creates, notes) PROVE CrmHolds'
  <2> DEFINE r == [Idle EXCEPT !.pc = "token", !.creates = creates, !.notes = notes]
  <2>1. call' = [call EXCEPT ![c] = r]
    BY <1>5 DEF Begin
  <2>2. r \in Call /\ r.pc = "token"
    BY DEF Idle, Call
  <2> HIDE DEF r
  <2>3. QED
    BY <1>1, <1>5, <2>1, <2>2, CallerStep DEF Begin
<1>6. QED
  BY <1>2, <1>3, <1>4, <1>5

\* What the provider hands out for a refresh token that it takes.
Granted(c) == {NoOne, call[c].read.rt, [acc |-> call[c].read.rt.acc, n |-> issued + 1]}

\* A renewal leaves its caller with the token of the row or a granted one.
LEMMA RenewKeeps ==
    ASSUME CrmHolds, NEW c \in Callers, NEW granted \in Granted(c), Renew(c, granted)
    PROVE  CrmHolds'
<1> DEFINE old == call[c]
<1>1. /\ old \in Call /\ row \in Row \cup {NoOne} /\ now \in Nat
      /\ live \subseteq RefreshToken /\ issued \in Nat /\ raced \in BOOLEAN /\ lost \in BOOLEAN
  BY DEF CrmHolds, CrmTypeOK
<1>2. old.pc = "refresh" /\ old.read \in Row /\ old.at \in AccessToken /\ row \in Row
  BY DEF Renew, CrmHolds, CallsHold
<1> HIDE DEF old
<1>3. CASE ~\E r \in {[old EXCEPT !.pc = "cache"]} : call' = [call EXCEPT ![c] = r]
  <2>1. /\ Accepts(c)
        /\ call' = [call EXCEPT ![c].pc = "store", ![c].rt = granted,
                                ![c].at = [acc |-> old.read.rt.acc, exp |-> now + Life]]
        /\ live' = IF granted = NoOne THEN live ELSE (live \ {old.read.rt}) \cup ({granted} \ {NoOne})
        /\ issued' = IF granted \in {NoOne, old.read.rt} THEN issued ELSE issued + 1
        /\ UNCHANGED <<crm, row, cache, now, back, raced, lost>>
    BY <1>3 DEF Renew, old
  <2>2. old.read.rt \in RefreshToken
    BY <1>1, <2>1 DEF Accepts, old
  <2>3. granted \in RefreshToken \cup {NoOne}
    <3>1. [acc |-> old.read.rt.acc, n |-> issued + 1] \in RefreshToken
      BY <1>1, <2>2 DEF RefreshToken
    <3>2. QED
      BY <2>2, <3>1 DEF Granted, old
  <2>4. live' \subseteq RefreshToken /\ issued' \in Nat
    BY <1>1, <2>1, <2>3
  <2>5. [acc |-> old.read.rt.acc, exp |-> now + Life] \in AccessToken
    BY <1>1, <2>2, CrmAssumption DEF RefreshToken, AccessToken
  <2> DEFINE r == [old EXCEPT !.pc = "store", !.rt = granted, !.at = [acc |-> old.read.rt.acc, exp |-> now + Life]]
  <2>6. r \in Call /\ r.pc = "store" /\ r.read \in Row /\ r.at \in AccessToken
    BY <1>1, <1>2, <2>3, <2>5 DEF Call
  <2>7. call' = [call EXCEPT ![c] = r]
    BY <2>1 DEF old
  <2> HIDE DEF r
  <2>8. QED
    BY <1>1, <1>2, <2>1, <2>4, <2>6, <2>7, CallerStep
<1>4. CASE call' = [call EXCEPT ![c] = [old EXCEPT !.pc = "cache"]]
  <2> DEFINE r == [old EXCEPT !.pc = "cache"]
  <2>1. r \in Call /\ r.pc = "cache" /\ r.read \in Row /\ r.at \in AccessToken
    BY <1>1, <1>2 DEF Call
  <2>2. live' \subseteq RefreshToken /\ issued' \in Nat /\ lost' \in BOOLEAN
    <3>1. CASE Accepts(c)
      <4>1. old.read.rt \in RefreshToken
        BY <1>1, <3>1 DEF Accepts, old
      <4>2. [acc |-> old.read.rt.acc, n |-> issued + 1] \in RefreshToken
        BY <1>1, <4>1 DEF RefreshToken
      <4>3. granted \in RefreshToken \cup {NoOne}
        BY <4>1, <4>2 DEF Granted, old
      <4>4. /\ live' \in {live, (live \ {old.read.rt}) \cup ({granted} \ {NoOne})}
            /\ issued' \in {issued, issued + 1}
            /\ lost' \in {lost, TRUE}
        BY DEF Renew, old
      <4>5. live' \subseteq RefreshToken
        <5>1. (live \ {old.read.rt}) \cup ({granted} \ {NoOne}) \subseteq RefreshToken
          BY <1>1, <4>3
        <5>2. QED
          BY <1>1, <4>4, <5>1
      <4>6. issued' \in Nat
        BY <1>1, <4>4
      <4>7. lost' \in BOOLEAN
        BY <1>1, <4>4
      <4>8. QED
        BY <4>5, <4>6, <4>7
    <3>2. CASE ~Accepts(c)
      BY <1>1, <3>2 DEF Renew
    <3>3. QED
      BY <3>1, <3>2
  <2>3. UNCHANGED <<crm, row, cache, now, back, raced>>
    BY DEF Renew
  <2> HIDE DEF r
  <2>4. call' = [call EXCEPT ![c] = r]
    BY <1>4 DEF r
  <2>5. QED
    BY <1>1, <2>1, <2>2, <2>3, <2>4, CallerStep
<1>5. QED
  BY <1>3, <1>4

\* The UPDATE of a renewal leaves a row of the right shape.
LEMMA StoreKeeps ==
    ASSUME CrmHolds, NEW c \in Callers, NEW rt \in RefreshToken \cup {NoOne}, Store(c, rt)
    PROVE  CrmHolds'
<1>1. /\ call[c] \in Call /\ raced \in BOOLEAN /\ lost \in BOOLEAN
      /\ call[c].pc = "store" /\ call[c].read \in Row /\ call[c].at \in AccessToken /\ row \in Row
  BY DEF CrmHolds, CrmTypeOK, CallsHold, Store
<1>2. row' \in Row /\ raced' \in BOOLEAN /\ lost' \in BOOLEAN
  <2>1. row' \in {row, [row EXCEPT !.at = call[c].at, !.rt = rt]}
    BY DEF Store
  <2>2. [row EXCEPT !.at = call[c].at, !.rt = rt] \in Row
    BY <1>1 DEF Row
  <2>3. raced' \in BOOLEAN /\ lost' \in BOOLEAN
    BY <1>1 DEF Store
  <2>4. QED
    BY <1>1, <2>1, <2>2, <2>3
<1> DEFINE r == [call[c] EXCEPT !.pc = "cache"]
<1>3. r \in Call /\ r.pc = "cache" /\ r.read \in Row /\ r.at \in AccessToken
  BY <1>1 DEF Call
<1>4. /\ call' = [call EXCEPT ![c] = r]
      /\ UNCHANGED <<crm, cache, live, issued, now, back>>
  BY DEF Store
<1> HIDE DEF r
<1>5. CrmTypeOK'
  <2>1. call' \in [Callers -> Call]
    BY <1>3, <1>4 DEF CrmHolds, CrmTypeOK
  <2>2. QED
    BY <1>2, <1>4, <2>1 DEF CrmHolds, CrmTypeOK
<1>6. CallsHold'
  BY <1>2, <1>3, <1>4 DEF CrmHolds, CrmTypeOK, CallsHold
<1>7. CallbacksHold' /\ CacheBounded'
  BY <1>4 DEF CrmHolds, CallbacksHold, CacheBounded
<1>8. QED
  BY <1>5, <1>6, <1>7 DEF CrmHolds

\* What is put into the cache ends before it would have to be renewed.
LEMMA SetCachedKeeps ==
    ASSUME CrmHolds, NEW host \in Accounts, NEW at \in AccessToken, SetCachedToken(host, at)
    PROVE  cache' \in CacheEntry \cup {NoOne} /\ CacheBounded'
<1>1. CASE cache' = cache
  BY <1>1 DEF CrmHolds, CrmTypeOK, CacheBounded
<1>2. CASE cache' = [host |-> host, at |-> at, until |-> CacheUntil(at)]
  <2>1. now \in Nat /\ at.exp \in Nat
    BY DEF CrmHolds, CrmTypeOK, AccessToken
  <2>2. CacheUntil(at) \in Int /\ CacheUntil(at) <= at.exp - 1
    BY <2>1 DEF CacheUntil, Least
  <2>3. cache' \in CacheEntry /\ cache'.until = CacheUntil(at) /\ cache'.at = at
    BY <1>2, <2>2 DEF CacheEntry
  <2>4. QED
    BY <2>2, <2>3 DEF CacheBounded
<1>3. QED
  BY <1>1, <1>2 DEF SetCachedToken

\* A caller that caches its token keeps the invariant.
LEMMA CacheTokenKeeps ==
    ASSUME CrmHolds, NEW c \in Callers, CacheToken(c)
    PROVE  CrmHolds'
<1>1. call[c] \in Call /\ call[c].pc = "cache" /\ call[c].read \in Row /\ call[c].at \in AccessToken
  BY DEF CrmHolds, CrmTypeOK, CallsHold, CacheToken
<1>2. cache' \in CacheEntry \cup {NoOne} /\ CacheBounded'
  BY <1>1, SetCachedKeeps DEF CacheToken, Row
<1> DEFINE r == [call[c] EXCEPT !.pc = "api"]
<1>3. r \in Call /\ r.pc = "api" /\ r.read \in Row /\ r.at \in AccessToken
  BY <1>1 DEF Call
<1>4. /\ call' = [call EXCEPT ![c] = r]
      /\ UNCHANGED <<crm, row, live, issued, now, back, raced, lost>>
  BY DEF CacheToken
<1> HIDE DEF r
<1>5. call' \in [Callers -> Call]
  BY <1>3, <1>4 DEF CrmHolds, CrmTypeOK
<1>6. CrmTypeOK'
  BY <1>2, <1>4, <1>5 DEF CrmHolds, CrmTypeOK
<1>7. CallsHold'
  BY <1>3, <1>4 DEF CrmHolds, CrmTypeOK, CallsHold
<1>8. CallbacksHold'
  BY <1>4 DEF CrmHolds, CallbacksHold
<1>9. QED
  BY <1>2, <1>6, <1>7, <1>8 DEF CrmHolds

\* A callback exchanges, saves and warms the cache within the invariant.
LEMMA CallbackKeeps ==
    ASSUME CrmHolds, NEW k \in Callbacks,
           Exchange(k) \/ SaveIntegration(k, "cache") \/ SaveIntegration(k, "done") \/ WarmCache(k)
    PROVE  CrmHolds'
<1> DEFINE Back == [pc : {"idle", "save", "cache", "done"}, new : Row \cup {NoOne}]
<1>1. /\ back \in [Callbacks -> Back] /\ live \subseteq RefreshToken /\ issued \in Nat /\ now \in Nat
      /\ lost \in BOOLEAN /\ raced \in BOOLEAN /\ row \in Row \cup {NoOne}
  BY DEF CrmHolds, CrmTypeOK
<1>2. CASE Exchange(k)
  <2>1. PICK a \in Accounts :
          LET rt == [acc |-> a, n |-> issued + 1]
          IN  /\ issued' = issued + 1
              /\ live' = live \cup {rt}
              /\ back' = [back EXCEPT ![k] =
                    [pc |-> "save", new |-> [host |-> a, at |-> [acc |-> a, exp |-> now + Life],
                                             rt |-> rt]]]
    BY <1>2 DEF Exchange
  <2> DEFINE rt == [acc |-> a, n |-> issued + 1]
             new == [host |-> a, at |-> [acc |-> a, exp |-> now + Life], rt |-> rt]
  <2>2. issued + 1 \in Nat /\ rt \in RefreshToken
    BY <1>1 DEF RefreshToken
  <2>3. new \in Row
    <3>1. [acc |-> a, exp |-> now + Life] \in AccessToken
      BY <1>1, CrmAssumption DEF AccessToken
    <3> HIDE DEF rt
    <3>2. QED
      BY <2>2, <3>1 DEF Row
  <2>4. back' = [back EXCEPT ![k] = [pc |-> "save", new |-> new]] /\ live' = live \cup {rt} /\ issued' = issued + 1
    BY <2>1
  <2> HIDE DEF rt, new
  <2>5. back' \in [Callbacks -> Back] /\ live' \subseteq RefreshToken /\ issued' \in Nat
    BY <1>1, <2>2, <2>3, <2>4
  <2>6. UNCHANGED <<crm, row, cache, now, call, raced, lost>>
    BY <1>2 DEF Exchange
  <2>7. CrmTypeOK'
    BY <2>5, <2>6 DEF CrmHolds, CrmTypeOK
  <2>8. CallbacksHold'
    BY <1>1, <2>3, <2>4 DEF CrmHolds, CallbacksHold
  <2>9. CallsHold' /\ CacheBounded'
    BY <2>6 DEF CrmHolds, CallsHold, CacheBounded
  <2>10. QED
    BY <2>7, <2>8, <2>9 DEF CrmHolds
<1>3. ASSUME NEW then \in {"cache", "done"}, SaveIntegration(k, then) PROVE CrmHolds'
  <2>1. back[k].pc = "save" /\ back[k].new \in Row
    BY <1>3 DEF SaveIntegration, CrmHolds, CallbacksHold
  <2>2. row' \in {row, back[k].new}
    BY <1>3 DEF SaveIntegration
  <2>3. PICK pc \in {"cache", "done"} : back' = [back EXCEPT ![k].pc = pc]
    BY <1>3 DEF SaveIntegration
  <2>4. UNCHANGED <<crm, cache, live, issued, now, call, raced, lost>>
    BY <1>3 DEF SaveIntegration
  <2>5. back' \in [Callbacks -> Back]
    BY <1>1, <2>3
  <2>6. CrmTypeOK'
    BY <1>1, <2>1, <2>2, <2>4, <2>5 DEF CrmHolds, CrmTypeOK
  <2>7. CallbacksHold'
    BY <1>1, <2>1, <2>3 DEF CrmHolds, CallbacksHold
  <2>8. CallsHold' /\ CacheBounded'
    BY <2>1, <2>2, <2>4 DEF CrmHolds, CallsHold, CacheBounded
  <2>9. QED
    BY <2>6, <2>7, <2>8 DEF CrmHolds
<1>4. CASE WarmCache(k)
  <2>1. back[k].new \in Row
    BY <1>4 DEF WarmCache, CrmHolds, CallbacksHold
  <2>2. cache' \in CacheEntry \cup {NoOne} /\ CacheBounded'
    BY <1>4, <2>1, SetCachedKeeps DEF WarmCache, Row
  <2>3. back' = [back EXCEPT ![k].pc = "done"] /\ UNCHANGED <<crm, row, live, issued, now, call, raced, lost>>
    BY <1>4 DEF WarmCache
  <2>4. back' \in [Callbacks -> Back]
    BY <1>1, <2>3
  <2>5. CrmTypeOK'
    BY <2>2, <2>3, <2>4 DEF CrmHolds, CrmTypeOK
  <2>6. CallbacksHold' /\ CallsHold'
    BY <1>1, <2>3 DEF CrmHolds, CallbacksHold, CallsHold
  <2>7. QED
    BY <2>2, <2>5, <2>6 DEF CrmHolds
<1>5. QED
  BY <1>2, <1>3, <1>4

\* Every move of the token store keeps what callers and callbacks hold.
LEMMA CrmMoveHolds == CrmHolds /\ CrmMove => CrmHolds'
<1> SUFFICES ASSUME CrmHolds, CrmMove PROVE CrmHolds'
  OBVIOUS
<1>1. ASSUME NEW c \in Callers, NEW creates \in BOOLEAN, NEW notes \in BOOLEAN, Begin(c, creates, notes)
      PROVE  CrmHolds'
  BY <1>1, CallerKeeps
<1>2. ASSUME NEW c \in Callers, HandOn(c) PROVE CrmHolds'
  BY <1>2, CallerKeeps
<1>3. ASSUME NEW c \in Callers, CrmStep(c) PROVE CrmHolds'
  <2>1. CASE GetCachedToken(c) \/ SelectRow(c)
    BY <2>1, CallerKeeps
  <2>2. CASE CacheToken(c)
    BY <2>2, CacheTokenKeeps
  <2>3. CASE AmoRefresh(c) \/ ZohoRefresh(c) \/ GoogleRefresh(c)
    BY <2>3, RenewKeeps DEF AmoRefresh, ZohoRefresh, GoogleRefresh, Granted
  <2>4. CASE AmoStore(c) \/ ZohoStore(c) \/ GoogleStore(c)
    <3>1. call[c] \in Call /\ (call[c].pc = "store" => row \in Row)
      BY DEF CrmHolds, CrmTypeOK, CallsHold
    <3>2. call[c].rt \in RefreshToken \cup {NoOne}
      BY <3>1 DEF Call
    <3>3. call[c].pc = "store"
      BY <2>4 DEF AmoStore, ZohoStore, GoogleStore, Store
    <3>4. row.rt \in RefreshToken \cup {NoOne}
      BY <3>1, <3>3 DEF Row
    <3>5. QED
      BY <2>4, <3>2, <3>4, StoreKeeps DEF AmoStore, ZohoStore, GoogleStore
  <2>5. CASE AmoRequest(c) \/ ZohoRequest(c) \/ GoogleRequest(c)
    <3>1. Request(c)
      BY <2>5 DEF AmoRequest, ZohoRequest, GoogleRequest
    <3>2. PICK r \in Call :
            /\ call' = [call EXCEPT ![c] = r]
            /\ \/ r.pc \in {"token", "done"}
               \/ r.pc = "api" /\ r.read = call[c].read /\ r.at = call[c].at
      BY <3>1, RequestType
    <3>3. /\ call[c].pc = "api" /\ UNCHANGED <<crm, row, cache, live, issued, now, back, raced, lost>>
      BY <3>1 DEF Request
    <3>4. call[c].read \in Row /\ call[c].at \in AccessToken
      BY <3>3 DEF CrmHolds, CallsHold
    <3>5. live \subseteq RefreshToken /\ issued \in Nat /\ raced \in BOOLEAN /\ lost \in BOOLEAN
      BY DEF CrmHolds, CrmTypeOK
    <3>6. QED
      BY <3>2, <3>3, <3>4, <3>5, CallerStep
  <2>6. QED
    BY <1>3, <2>1, <2>2, <2>3, <2>4, <2>5 DEF CrmStep
<1>4. ASSUME NEW k \in Callbacks, CrmCallback(k) PROVE CrmHolds'
  BY <1>4, CallbackKeeps DEF CrmCallback, AmoCallback, ZohoCallback, GoogleCallback
<1>5. CASE Tick
  BY <1>5 DEF Tick, CrmHolds, CrmTypeOK, CallsHold, CallbacksHold, CacheBounded
<1>6. CASE UNCHANGED crmVars
  BY <1>6 DEF crmVars, CrmHolds, CrmTypeOK, CallsHold, CallbacksHold, CacheBounded
<1>7. QED
  BY <1>1, <1>2, <1>3, <1>4, <1>5, <1>6 DEF CrmMove

\* An entry that ends before its token is due serves no token that is.
LEMMA CrmHoldsFresh == CrmHolds => CachedTokenIsFresh
<1> SUFFICES ASSUME CrmHolds, Cached PROVE cache.at.exp - now >= 1
  BY DEF CachedTokenIsFresh
<1>1. cache \in CacheEntry /\ now \in Nat /\ cache.until <= cache.at.exp - 1 /\ now <= cache.until
  BY DEF CrmHolds, CrmTypeOK, CacheBounded, Cached
<1>2. cache.until \in Int /\ cache.at.exp \in Nat
  BY <1>1 DEF CacheEntry, AccessToken
<1>3. QED
  BY <1>1, <1>2

-----------------------------------------------------------------------------
(* The pair of tokens of an amoCRM row. Each refresh token is used by the   *)
(* one caller that renews it first, so a token that was granted and is not  *)
(* stored yet is nobody else's, and a caller whose token is still that of   *)
(* the row has read the row as it is.                                       *)

Saving  == {k \in Callbacks : back[k].pc = "save"}
Reading == {c \in Callers : call[c].pc \in {"refresh", "store"}}
Storing == {c \in Callers : call[c].pc = "store"}

Known(rt) == rt \in RefreshToken /\ rt.n <= issued

TokensKnown ==
    /\ row # NoOne => Known(row.rt)
    /\ \A k \in Saving : Known(back[k].new.rt) /\ back[k].new.rt \in live
                         /\ back[k].new.rt.acc = back[k].new.host /\ back[k].new.at.acc = back[k].new.host
    /\ \A c \in Reading : Known(call[c].read.rt)
                          /\ (row # NoOne /\ row.rt = call[c].read.rt => row = call[c].read)
    /\ \A c \in Storing : Known(call[c].rt) /\ call[c].rt \in live
                          /\ call[c].rt.acc = call[c].read.host /\ call[c].at.acc = call[c].read.host

TokensApart ==
    /\ \A k \in Saving :
          /\ row # NoOne => back[k].new.rt # row.rt
          /\ \A c \in Reading : back[k].new.rt # call[c].read.rt
          /\ \A c \in Storing : back[k].new.rt # call[c].rt
          /\ \A l \in Saving : l # k => back[k].new.rt # back[l].new.rt
    /\ \A c \in Storing :
          /\ row # NoOne => call[c].rt # row.rt
          /\ \A d \in Reading : call[c].rt # call[d].read.rt
          /\ \A d \in Storing : d # c => call[c].rt # call[d].rt

PairKept ==
    row # NoOne /\ ~raced /\ ~lost =>
        /\ row.at.acc = row.host
        /\ row.rt.acc = row.host
        /\ row.rt \in live \/ \E c \in Storing : call[c].read = row

AmoHolds == crm = "amocrm" => TokensKnown /\ TokensApart /\ PairKept

\* A process that starts has one good pair, or none.
LEMMA AmoInitHolds == CrmInit => AmoHolds
<1> SUFFICES ASSUME CrmInit PROVE TokensKnown /\ TokensApart /\ PairKept
  BY DEF AmoHolds
<1>1. Saving = {} /\ Reading = {} /\ Storing = {}
  BY DEF CrmInit, Saving, Reading, Storing, Idle
<1>2. row # NoOne => /\ Known(row.rt) /\ row.rt \in live
                     /\ row.at.acc = row.host /\ row.rt.acc = row.host
  BY DEF CrmInit, Known, RefreshToken
<1>3. QED
  BY <1>1, <1>2 DEF TokensKnown, TokensApart, PairKept

\* An integration is of one kind for good.
LEMMA KindStays == CrmMove => crm' = crm
  BY DEF CrmMove, Begin, HandOn, CrmStep, GetCachedToken, SelectRow, CacheToken, AmoRefresh, ZohoRefresh,
         GoogleRefresh, Renew, AmoStore, ZohoStore, GoogleStore, Store, AmoRequest, ZohoRequest,
         GoogleRequest, Request, CrmCallback, AmoCallback, ZohoCallback, GoogleCallback, Exchange,
         SaveIntegration, WarmCache, Tick, crmVars

\* A step of a caller that neither renews nor stores, before it or after it.
LEMMA AmoCallerStep ==
    ASSUME TokensKnown, TokensApart, PairKept, call \in [Callers -> Call],
           NEW c \in Callers, NEW r, call' = [call EXCEPT ![c] = r],
           call[c].pc # "store", r.pc \notin {"refresh", "store"},
           UNCHANGED <<row, live, issued, back, raced>>, lost => lost'
    PROVE  (TokensKnown /\ TokensApart /\ PairKept)'
<1>1. Saving' = Saving
  BY DEF Saving
<1>2. Reading' \subseteq Reading /\ c \notin Reading' /\ Storing' = Storing /\ c \notin Storing
  BY DEF Reading, Storing
<1>3. \A d \in Reading' \cup Storing' : call'[d] = call[d] /\ d \in Callers
  BY <1>2 DEF Reading, Storing
<1>4. TokensKnown'
  BY <1>1, <1>2, <1>3 DEF TokensKnown, Known
<1>5. TokensApart'
  BY <1>1, <1>2, <1>3 DEF TokensApart
<1>6. PairKept'
  BY <1>2, <1>3 DEF PairKept
<1>7. QED
  BY <1>4, <1>5, <1>6

\* A caller that reads the row reads its pair.
LEMMA AmoSelect ==
    ASSUME CrmHolds, TokensKnown, TokensApart, PairKept, NEW c \in Callers, SelectRow(c)
    PROVE  (TokensKnown /\ TokensApart /\ PairKept)'
<1>1. call \in [Callers -> Call] /\ call[c] \in Call /\ call[c].pc = "select"
  BY DEF CrmHolds, CrmTypeOK, SelectRow
<1>2. UNCHANGED <<row, live, issued, back, raced, lost>>
  BY DEF SelectRow
<1>3. CASE row = NoOne
  <2>1. call' = [call EXCEPT ![c] = Ended(call[c], FALSE)]
    BY <1>3 DEF SelectRow
  <2>2. Ended(call[c], FALSE).pc \in {"token", "done"}
    BY <1>1, EndedType
  <2>3. QED
    BY <1>1, <1>2, <2>1, <2>2, AmoCallerStep
<1>4. CASE row # NoOne
  <2> DEFINE r == [call[c] EXCEPT !.read = row, !.at = row.at,
                                  !.pc = IF MustRenew(row.at) THEN "refresh" ELSE "cache"]
  <2>1. call' = [call EXCEPT ![c] = r]
    BY <1>4 DEF SelectRow
  <2>2. r.read = row /\ r.pc \in {"refresh", "cache"}
    BY <1>1 DEF Call
  <2> HIDE DEF r
  <2>3. Saving' = Saving /\ Storing' = Storing /\ c \notin Storing /\ Reading' \subseteq Reading \cup {c}
    BY <1>1, <1>2, <2>1, <2>2 DEF Saving, Storing, Reading
  <2>4. \A d \in Storing' \cup (Reading' \ {c}) : call'[d] = call[d] /\ d \in Callers
    BY <1>1, <2>1, <2>3 DEF Storing, Reading
  <2>5. call'[c].read = row
    BY <1>1, <2>1, <2>2
  <2>6. TokensKnown'
    BY <1>2, <1>4, <2>3, <2>4, <2>5 DEF TokensKnown, Known
  <2>7. TokensApart'
    BY <1>2, <1>4, <2>3, <2>4, <2>5 DEF TokensApart
  <2>8. PairKept'
    BY <1>2, <2>3, <2>4 DEF PairKept
  <2>9. QED
    BY <2>6, <2>7, <2>8
<1>5. QED
  BY <1>3, <1>4

\* A renewal takes the refresh token away from all who read it but its caller.
LEMMA AmoRenew ==
    ASSUME CrmHolds, TokensKnown, TokensApart, PairKept, NEW c \in Callers, crm = "amocrm", AmoRefresh(c)
    PROVE  (TokensKnown /\ TokensApart /\ PairKept)'
<1> DEFINE rt == call[c].read.rt
           granted == [acc |-> rt.acc, n |-> issued + 1]
<1>1. /\ call \in [Callers -> Call] /\ call[c] \in Call /\ call[c].pc = "refresh" /\ c \in Reading
      /\ issued \in Nat /\ live \subseteq RefreshToken
  BY DEF CrmHolds, CrmTypeOK, AmoRefresh, Renew, Reading
<1>2. Renew(c, granted) /\ UNCHANGED <<row, back, raced>>
  BY DEF AmoRefresh, Renew
<1>3. CASE UNCHANGED <<live, issued, lost>> /\ call' = [call EXCEPT ![c].pc = "cache"]
  <2>1. call' = [call EXCEPT ![c] = [call[c] EXCEPT !.pc = "cache"]] /\ [call[c] EXCEPT !.pc = "cache"].pc = "cache"
    BY <1>1, <1>3 DEF Call
  <2>2. QED
    BY <1>1, <1>2, <1>3, <2>1, AmoCallerStep
<1>4. CASE /\ Accepts(c)
           /\ live' = IF granted = NoOne THEN live ELSE (live \ {rt}) \cup ({granted} \ {NoOne})
           /\ issued' = IF granted \in {NoOne, rt} THEN issued ELSE issued + 1
           /\ \/ /\ call' = [call EXCEPT ![c].pc = "store", ![c].rt = granted,
                                         ![c].at = [acc |-> rt.acc, exp |-> now + Life]]
                 /\ UNCHANGED lost
              \/ call' = [call EXCEPT ![c].pc = "cache"] /\ lost' = TRUE
  <2>1. rt \in live /\ rt \in RefreshToken /\ rt.acc = call[c].read.host /\ rt.n \in Nat /\ rt.n <= issued
    BY <1>1, <1>4 DEF Accepts, TokensKnown, Known, RefreshToken
  <2>2. granted \in RefreshToken /\ granted # NoOne /\ granted.n = issued + 1 /\ granted.acc = rt.acc /\ granted # rt
    BY <1>1, <2>1, CrmAssumption DEF RefreshToken
  <2> HIDE DEF granted
  <2>3. live' = (live \ {rt}) \cup {granted} /\ issued' = issued + 1
    BY <1>4, <2>2
  <2>4. \A t \in RefreshToken : t.n <= issued => t # granted /\ t.n <= issued'
    BY <1>1, <2>2, <2>3 DEF RefreshToken
  <2>5. /\ Saving' = Saving /\ Reading' \subseteq Reading /\ Storing' \subseteq Storing \cup {c}
        /\ c \notin Storing /\ Storing \subseteq Storing'
    BY <1>1, <1>2, <1>4 DEF Saving, Reading, Storing
  <2>6. \A d \in Callers : d # c => call'[d] = call[d]
    BY <1>1, <1>4
  <2>7. call'[c].read = call[c].read
    BY <1>1, <1>4 DEF Call
  <2>8. c \in Storing' => /\ call'[c].rt = granted /\ call'[c].at.acc = rt.acc
    BY <1>1, <1>4 DEF Storing, Call
  <2>9. /\ \A t \in RefreshToken : Known(t) => Known(t)' /\ t # granted
        /\ granted \in RefreshToken /\ granted.n <= issued'
    BY <1>1, <2>2, <2>3, <2>4 DEF Known, RefreshToken
  <2>10. Reading \subseteq Callers /\ Storing \subseteq Reading
    BY DEF Reading, Storing
  <2>11. TokensKnown'
    <3>1. row' # NoOne => Known(row.rt)'
      BY <1>2, <2>9 DEF TokensKnown, Known
    <3>2. ASSUME NEW k \in Saving'
          PROVE  /\ Known(back[k].new.rt)' /\ back'[k].new.rt \in live'
                 /\ back'[k].new.rt.acc = back'[k].new.host /\ back'[k].new.at.acc = back'[k].new.host
      <4>1. Known(back[k].new.rt) /\ back[k].new.rt \in live /\ back[k].new.rt # rt
        BY <1>1, <2>5, <3>2 DEF TokensKnown, TokensApart
      <4>2. QED
        BY <1>2, <2>3, <2>5, <2>9, <4>1, <3>2 DEF TokensKnown, Known
    <3>3. ASSUME NEW d \in Reading'
          PROVE  /\ Known(call[d].read.rt)'
                 /\ row' # NoOne /\ row'.rt = call'[d].read.rt => row' = call'[d].read
      <4>1. d \in Reading /\ call'[d].read = call[d].read
        BY <2>5, <2>6, <2>7, <2>10
      <4>2. QED
        BY <1>2, <2>9, <4>1 DEF TokensKnown, Known
    <3>4. ASSUME NEW d \in Storing'
          PROVE  /\ Known(call[d].rt)' /\ call'[d].rt \in live'
                 /\ call'[d].rt.acc = call'[d].read.host /\ call'[d].at.acc = call'[d].read.host
      <4>1. CASE d = c
        BY <2>1, <2>2, <2>3, <2>7, <2>8, <2>9, <4>1, <3>4 DEF Known
      <4>2. CASE d # c
        <5>1. d \in Storing /\ call'[d] = call[d] /\ call[d].rt # rt
          BY <1>1, <2>5, <2>6, <2>10, <4>2, <3>4 DEF TokensApart
        <5>2. QED
          BY <2>3, <2>9, <5>1 DEF TokensKnown, Known
      <4>3. QED
        BY <4>1, <4>2
    <3>5. QED
      BY <3>1, <3>2, <3>3, <3>4 DEF TokensKnown
  <2>12. \A d \in Reading' : d \in Reading /\ call'[d].read = call[d].read /\ Known(call[d].read.rt)
    BY <2>5, <2>6, <2>7, <2>10 DEF TokensKnown
  <2>13. \A d \in Storing' : \/ d = c /\ call'[d].rt = granted
                             \/ d # c /\ d \in Storing /\ call'[d].rt = call[d].rt /\ Known(call[d].rt)
    BY <2>5, <2>6, <2>8, <2>10 DEF TokensKnown
  <2>14. \A k \in Saving : Known(back[k].new.rt)
    BY DEF TokensKnown
  <2>15. \A t : Known(t) => t # granted
    BY <2>9 DEF Known
  <2>16. TokensApart'
    <3>1. ASSUME NEW k \in Saving'
          PROVE  /\ row' # NoOne => back'[k].new.rt # row'.rt
                 /\ \A d \in Reading' : back'[k].new.rt # call'[d].read.rt
                 /\ \A d \in Storing' : back'[k].new.rt # call'[d].rt
                 /\ \A l \in Saving' : l # k => back'[k].new.rt # back'[l].new.rt
      BY <1>2, <2>5, <2>12, <2>13, <2>14, <2>15, <3>1 DEF TokensApart
    <3>2. ASSUME NEW d \in Storing'
          PROVE  /\ row' # NoOne => call'[d].rt # row'.rt
                 /\ \A e \in Reading' : call'[d].rt # call'[e].read.rt
                 /\ \A e \in Storing' : e # d => call'[d].rt # call'[e].rt
      <4>1. row # NoOne => Known(row.rt)
        BY DEF TokensKnown
      <4>2. QED
        BY <1>2, <2>12, <2>13, <2>15, <3>2, <4>1 DEF TokensApart
    <3>3. QED
      BY <3>1, <3>2 DEF TokensApart
  <2>17. PairKept'
    <3> SUFFICES ASSUME row' # NoOne, ~raced', ~lost'
                 PROVE  /\ row'.at.acc = row'.host
                        /\ row'.rt.acc = row'.host
                        /\ row'.rt \in live' \/ \E d \in Storing' : call'[d].read = row'
      BY DEF PairKept
    <3>1. /\ row # NoOne /\ ~raced /\ ~lost /\ row' = row
          /\ row.at.acc = row.host /\ row.rt.acc = row.host
          /\ row.rt \in live \/ \E d \in Storing : call[d].read = row
      BY <1>2, <1>4 DEF PairKept
    <3>2. c \in Storing'
      BY <1>1, <1>4 DEF Storing, Call
    <3>3. CASE row.rt = rt
      <4>1. call[c].read = row
        BY <1>1, <3>1, <3>3 DEF TokensKnown
      <4>2. QED
        BY <2>7, <3>1, <3>2, <4>1
    <3>4. CASE row.rt # rt
      BY <2>3, <2>5, <2>6, <2>10, <3>1, <3>4
    <3>5. QED
      BY <3>3, <3>4
  <2>18. QED
    BY <2>11, <2>16, <2>17
<1>5. QED
  BY <1>2, <1>3, <1>4 DEF Renew

\* The UPDATE of a renewal puts the new pair in place of the used one.
LEMMA AmoStores ==
    ASSUME CrmHolds, TokensKnown, TokensApart, PairKept, NEW c \in Callers, crm = "amocrm", AmoStore(c)
    PROVE  (TokensKnown /\ TokensApart /\ PairKept)'
<1>1. /\ call \in [Callers -> Call] /\ call[c] \in Call /\ call[c].pc = "store" /\ row \in Row
      /\ c \in Storing /\ c \in Reading
  BY DEF CrmHolds, CrmTypeOK, CallsHold, AmoStore, Store, Reading, Storing
<1>2. /\ UNCHANGED <<live, issued, back>>
      /\ call' = [call EXCEPT ![c].pc = "cache"]
      /\ \/ /\ row' = [row EXCEPT !.at = call[c].at, !.rt = call[c].rt]
            /\ raced' = (raced \/ row # call[c].read)
            /\ UNCHANGED lost
         \/ lost' = TRUE /\ UNCHANGED <<row, raced>>
  BY DEF AmoStore, Store
<1>3. Saving' = Saving /\ Reading' = Reading \ {c} /\ Storing' = Storing \ {c}
  BY <1>1, <1>2 DEF Saving, Reading, Storing
<1>4. \A d \in Callers : d # c => call'[d] = call[d]
  BY <1>1, <1>2
<1>5. Reading \subseteq Callers /\ Storing \subseteq Reading
  BY DEF Reading, Storing
<1>6. \A t : Known(t)' <=> Known(t)
  BY <1>2 DEF Known
<1>7. \A d \in Reading' : d \in Reading /\ d # c /\ call'[d] = call[d] /\ d \in Callers
  BY <1>3, <1>4, <1>5
<1>8. \A d \in Storing' : d \in Storing /\ d # c /\ call'[d] = call[d]
  BY <1>3, <1>4, <1>5
<1>9. row' = row \/ (row'.rt = call[c].rt /\ row'.at = call[c].at /\ row'.host = row.host)
  BY <1>1, <1>2 DEF Row
<1>10. TokensKnown'
  <2>1. row' # NoOne => Known(row'.rt)
    BY <1>1, <1>9 DEF TokensKnown
  <2>2. \A d \in Reading' : row' # NoOne /\ row'.rt = call[d].read.rt => row' = call[d].read
    BY <1>1, <1>7, <1>9 DEF TokensKnown, TokensApart
  <2>3. QED
    BY <1>2, <1>3, <1>6, <1>7, <1>8, <2>1, <2>2 DEF TokensKnown, Known
<1>11. TokensApart'
  <2>1. row' # NoOne => \A k \in Saving : back[k].new.rt # row'.rt
    BY <1>1, <1>9 DEF TokensApart
  <2>2. row' # NoOne => \A d \in Storing' : call[d].rt # row'.rt
    BY <1>1, <1>8, <1>9 DEF TokensApart
  <2>3. QED
    BY <1>2, <1>3, <1>7, <1>8, <2>1, <2>2 DEF TokensApart
<1>12. PairKept'
  <2> SUFFICES ASSUME row' # NoOne, ~raced', ~lost'
               PROVE  row'.at.acc = row'.host /\ row'.rt.acc = row'.host /\ row'.rt \in live'
    BY DEF PairKept
  <2>1. row'.rt = call[c].rt /\ row'.at = call[c].at /\ row'.host = row.host /\ row = call[c].read
    BY <1>1, <1>2 DEF Row
  <2>2. QED
    BY <1>1, <1>2, <2>1 DEF TokensKnown
<1>13. QED
  BY <1>10, <1>11, <1>12

\* A callback is granted a refresh token that nobody else has.
LEMMA AmoExchange ==
    ASSUME CrmHolds, TokensKnown, TokensApart, PairKept, NEW k \in Callbacks, Exchange(k)
    PROVE  (TokensKnown /\ TokensApart /\ PairKept)'
<1>1. back[k].pc = "idle" /\ issued \in Nat /\ live \subseteq RefreshToken /\ now \in Nat
      /\ DOMAIN back = Callbacks /\ back = [l \in Callbacks |-> back[l]]
  BY DEF CrmHolds, CrmTypeOK, Exchange
<1>2. PICK a \in Accounts, rt \in RefreshToken :
        /\ rt.n = issued + 1 /\ rt.acc = a
        /\ issued' = issued + 1
        /\ live' = live \cup {rt}
        /\ back' = [back EXCEPT ![k] =
              [pc |-> "save", new |-> [host |-> a, at |-> [acc |-> a, exp |-> now + Life], rt |-> rt]]]
  <2>1. PICK a \in Accounts :
          LET rt == [acc |-> a, n |-> issued + 1]
          IN  /\ issued' = issued + 1
              /\ live' = live \cup {rt}
              /\ back' = [back EXCEPT ![k] =
                    [pc |-> "save", new |-> [host |-> a, at |-> [acc |-> a, exp |-> now + Life],
                                             rt |-> rt]]]
    BY DEF Exchange
  <2>2. [acc |-> a, n |-> issued + 1] \in RefreshToken
    BY <1>1 DEF RefreshToken
  <2>3. QED
    BY <2>1, <2>2
<1>3. UNCHANGED <<row, call, raced, lost>>
  BY DEF Exchange
<1>4. Saving' = Saving \cup {k} /\ k \notin Saving /\ Reading' = Reading /\ Storing' = Storing
  BY <1>1, <1>2, <1>3 DEF Saving, Reading, Storing
<1>5. \A l \in Callbacks : l # k => back'[l] = back[l]
  BY <1>1, <1>2
<1>6. back'[k].new.rt = rt /\ back'[k].new.host = a /\ back'[k].new.at.acc = a
  BY <1>1, <1>2
<1>7. \A t : Known(t) => Known(t)' /\ t # rt
  BY <1>1, <1>2 DEF Known, RefreshToken
<1>8. rt.n <= issued'
  BY <1>1, <1>2
<1>9. Saving \subseteq Callbacks
  BY DEF Saving
<1>10. TokensKnown'
  <2>1. \A l \in Saving : l # k /\ back'[l] = back[l] /\ Known(back[l].new.rt)
    BY <1>4, <1>5, <1>9 DEF TokensKnown
  <2>2. ASSUME NEW l \in Saving'
        PROVE  /\ Known(back[l].new.rt)' /\ back'[l].new.rt \in live'
               /\ back'[l].new.rt.acc = back'[l].new.host /\ back'[l].new.at.acc = back'[l].new.host
    <3>1. CASE l = k
      BY <1>2, <1>6, <1>8, <3>1 DEF Known
    <3>2. CASE l \in Saving
      BY <1>2, <1>7, <2>1, <3>2 DEF TokensKnown, Known
    <3>3. QED
      BY <1>4, <2>2, <3>1, <3>2
  <2>3. row' # NoOne => Known(row.rt)'
    BY <1>3, <1>7 DEF TokensKnown, Known
  <2>4. \A d \in Reading' : /\ Known(call[d].read.rt)'
                            /\ row' # NoOne /\ row'.rt = call'[d].read.rt => row' = call'[d].read
    BY <1>3, <1>4, <1>7 DEF TokensKnown, Known
  <2>5. \A d \in Storing' : /\ Known(call[d].rt)' /\ call'[d].rt \in live'
                            /\ call'[d].rt.acc = call'[d].read.host /\ call'[d].at.acc = call'[d].read.host
    BY <1>2, <1>3, <1>4, <1>7 DEF TokensKnown, Known
  <2>6. QED
    BY <2>2, <2>3, <2>4, <2>5 DEF TokensKnown
<1>11. TokensApart'
  <2>1. \A l \in Saving : l # k /\ back'[l] = back[l] /\ back[l].new.rt # rt
    BY <1>4, <1>5, <1>7, <1>9 DEF TokensKnown
  <2>2. /\ row # NoOne => row.rt # rt
        /\ \A d \in Reading : call[d].read.rt # rt
        /\ \A d \in Storing : call[d].rt # rt
    BY <1>7 DEF TokensKnown
  <2>3. QED
    BY <1>3, <1>4, <1>6, <2>1, <2>2 DEF TokensApart
<1>12. PairKept'
  BY <1>2, <1>3, <1>4 DEF PairKept
<1>13. QED
  BY <1>10, <1>11, <1>12

\* A callback puts its own good pair in the row.
LEMMA AmoSave ==
    ASSUME CrmHolds, TokensKnown, TokensApart, PairKept, NEW k \in Callbacks,
           NEW then \in {"cache", "done"}, SaveIntegration(k, then)
    PROVE  (TokensKnown /\ TokensApart /\ PairKept)'
<1>1. /\ back[k].pc = "save" /\ k \in Saving /\ back = [l \in Callbacks |-> back[l]]
      /\ \A l \in Callbacks : back[l] \in [pc : {"idle", "save", "cache", "done"}, new : Row \cup {NoOne}]
  BY DEF CrmHolds, CrmTypeOK, SaveIntegration, Saving
<1>2. row' \in {row, back[k].new} /\ UNCHANGED <<live, issued, call, raced, lost>>
  BY DEF SaveIntegration
<1>3. PICK pc \in {"cache", "done"} : back' = [back EXCEPT ![k].pc = pc]
  BY DEF SaveIntegration
<1>4. Saving' = Saving \ {k} /\ Reading' = Reading /\ Storing' = Storing
  BY <1>1, <1>2, <1>3 DEF Saving, Reading, Storing
<1>5. \A l \in Saving' : l \in Saving /\ l # k /\ back'[l] = back[l]
  BY <1>1, <1>3, <1>4 DEF Saving
<1>6. \A t : Known(t)' <=> Known(t)
  BY <1>2 DEF Known
<1>7. TokensKnown'
  <2>1. row' # NoOne => Known(row'.rt)
    BY <1>1, <1>2 DEF TokensKnown
  <2>2. \A d \in Reading : row' # NoOne /\ row'.rt = call[d].read.rt => row' = call[d].read
    BY <1>1, <1>2 DEF TokensKnown, TokensApart
  <2>3. QED
    BY <1>2, <1>4, <1>5, <1>6, <2>1, <2>2 DEF TokensKnown, Known
<1>8. TokensApart'
  <2>1. row' # NoOne => /\ \A l \in Saving' : back[l].new.rt # row'.rt
                        /\ \A d \in Storing : call[d].rt # row'.rt
    BY <1>1, <1>2, <1>5 DEF TokensApart
  <2>2. QED
    BY <1>2, <1>4, <1>5, <2>1 DEF TokensApart
<1>9. PairKept'
  BY <1>1, <1>2, <1>4 DEF PairKept, TokensKnown
<1>10. QED
  BY <1>7, <1>8, <1>9

\* Every move keeps the pair of amoCRM good or about to be replaced.
LEMMA AmoMoveHolds == CrmHolds /\ AmoHolds /\ CrmMove => AmoHolds'
<1> SUFFICES ASSUME CrmHolds, AmoHolds, CrmMove, crm' = "amocrm"
             PROVE  (TokensKnown /\ TokensApart /\ PairKept)'
  BY DEF AmoHolds
<1>1. crm = "amocrm" /\ TokensKnown /\ TokensApart /\ PairKept
  BY KindStays DEF AmoHolds
<1>2. call \in [Callers -> Call]
  BY DEF CrmHolds, CrmTypeOK
<1>3. ASSUME NEW c \in Callers, NEW creates \in BOOLEAN, NEW notes \in BOOLEAN, Begin(c, creates, notes)
      PROVE  (TokensKnown /\ TokensApart /\ PairKept)'
  <2> DEFINE r == [Idle EXCEPT !.pc = "token", !.creates = creates, !.notes = notes]
  <2>1. call' = [call EXCEPT ![c] = r] /\ call[c].pc = "idle" /\ UNCHANGED <<row, live, issued, back, raced, lost>>
    BY <1>3 DEF Begin
  <2>2. r.pc = "token"
    BY DEF Idle
  <2> HIDE DEF r
  <2>3. QED
    BY <1>1, <1>2, <2>1, <2>2, AmoCallerStep
<1>4. ASSUME NEW c \in Callers, HandOn(c) PROVE (TokensKnown /\ TokensApart /\ PairKept)'
  <2>1. Idle.pc = "idle"
    BY DEF Idle
  <2>2. QED
    BY <1>1, <1>2, <1>4, <2>1, AmoCallerStep DEF HandOn
<1>5. ASSUME NEW c \in Callers, CrmStep(c) PROVE (TokensKnown /\ TokensApart /\ PairKept)'
  <2>1. CASE GetCachedToken(c)
    <3> DEFINE r == IF Cached
                    THEN [call[c] EXCEPT !.pc = "api", !.at = cache.at,
                           !.read = [host |-> cache.host, at |-> cache.at, rt |-> NoOne]]
                    ELSE [call[c] EXCEPT !.pc = "select"]
    <3>1. /\ call' = [call EXCEPT ![c] = r] /\ call[c].pc = "token"
          /\ UNCHANGED <<row, live, issued, back, raced, lost>>
      BY <2>1 DEF GetCachedToken
    <3>2. r.pc \in {"api", "select"}
      BY <1>2 DEF Call
    <3> HIDE DEF r
    <3>3. QED
      BY <1>1, <1>2, <3>1, <3>2, AmoCallerStep
  <2>2. CASE SelectRow(c)
    BY <1>1, <2>2, AmoSelect
  <2>3. CASE CacheToken(c)
    <3>1. call' = [call EXCEPT ![c] = [call[c] EXCEPT !.pc = "api"]] /\ call[c].pc = "cache"
          /\ UNCHANGED <<row, live, issued, back, raced, lost>>
      BY <2>3 DEF CacheToken
    <3>2. [call[c] EXCEPT !.pc = "api"].pc = "api"
      BY <1>2 DEF Call
    <3>3. QED
      BY <1>1, <1>2, <3>1, <3>2, AmoCallerStep
  <2>4. CASE AmoRefresh(c)
    BY <1>1, <2>4, AmoRenew
  <2>5. CASE AmoStore(c)
    BY <1>1, <2>5, AmoStores
  <2>6. CASE AmoRequest(c)
    <3>1. Request(c)
      BY <2>6 DEF AmoRequest
    <3>2. PICK r \in Call : call' = [call EXCEPT ![c] = r] /\ r.pc \in {"token", "done", "api"}
      BY <3>1, RequestType
    <3>3. call[c].pc = "api" /\ UNCHANGED <<row, live, issued, back, raced, lost>>
      BY <3>1 DEF Request
    <3>4. QED
      BY <1>1, <1>2, <3>2, <3>3, AmoCallerStep
  <2>7. QED
    BY <1>1, <1>5, <2>1, <2>2, <2>3, <2>4, <2>5, <2>6
    DEF CrmStep, ZohoRefresh, GoogleRefresh, ZohoStore, GoogleStore, ZohoRequest, GoogleRequest
<1>6. ASSUME NEW k \in Callbacks, CrmCallback(k) PROVE (TokensKnown /\ TokensApart /\ PairKept)'
  <2>1. CASE Exchange(k)
    BY <1>1, <2>1, AmoExchange
  <2>2. CASE SaveIntegration(k, "cache")
    BY <1>1, <2>2, AmoSave
  <2>3. CASE WarmCache(k)
    <3>1. /\ back[k].pc = "cache" /\ back' = [back EXCEPT ![k].pc = "done"]
          /\ UNCHANGED <<row, live, issued, call, raced, lost>>
      BY <2>3 DEF WarmCache
    <3>2. /\ back = [l \in Callbacks |-> back[l]]
          /\ \A l \in Callbacks : back[l] \in [pc : {"idle", "save", "cache", "done"}, new : Row \cup {NoOne}]
      BY DEF CrmHolds, CrmTypeOK
    <3>3. Saving' = Saving /\ Reading' = Reading /\ Storing' = Storing /\ \A l \in Saving : back'[l] = back[l]
      BY <3>1, <3>2 DEF Saving, Reading, Storing
    <3>4. QED
      BY <1>1, <3>1, <3>3 DEF TokensKnown, TokensApart, PairKept, Known
  <2>4. QED
    BY <1>1, <1>6, <2>1, <2>2, <2>3 DEF CrmCallback, AmoCallback, ZohoCallback, GoogleCallback
<1>7. CASE Tick \/ UNCHANGED crmVars
  BY <1>1, <1>7 DEF Tick, crmVars, TokensKnown, TokensApart, PairKept, Known, Saving, Reading, Storing
<1>8. QED
  BY <1>3, <1>4, <1>5, <1>6, <1>7 DEF CrmMove

\* The invariant of the pairs gives the property.
LEMMA AmoHoldsUsable == AmoHolds => StoredPairIsUsable
<1> SUFFICES ASSUME AmoHolds, crm = "amocrm", row # NoOne, ~raced, ~lost
             PROVE  /\ row.at.acc = row.host
                    /\ row.rt # NoOne
                    /\ row.rt.acc = row.host
                    /\ \/ row.rt \in live
                       \/ \E c \in Callers : call[c].pc = "store" /\ call[c].read = row
  BY DEF StoredPairIsUsable
<1>1. NoOne \notin RefreshToken
  BY CrmAssumption DEF RefreshToken
<1>2. QED
  BY <1>1 DEF AmoHolds, TokensKnown, Known, PairKept, Storing

-----------------------------------------------------------------------------
(* What a caller counts: while nothing was reported yet, as many records as *)
(* answers that got lost; the attempt that is reported adds one to them.    *)

Balanced(r) == r.made = r.unheard + (IF r.creates /\ r.ok THEN 1 ELSE 0)

AllBalanced == \A c \in Callers : Balanced(call[c])

\* A call that ends reports what it counted.
LEMMA EndedBalanced ==
    ASSUME NEW r \in Call, NEW ok \in BOOLEAN,
           IF ok /\ r.creates /\ ~r.ok THEN r.made = r.unheard + 1 ELSE Balanced(r)
    PROVE  Balanced(Ended(r, ok))
<1> DEFINE e == Ended(r, ok)
<1>1. e.made = r.made /\ e.unheard = r.unheard /\ e.creates = r.creates
  BY DEF Ended, Call
<1>2. CASE ok
  <2>1. e.ok
    BY <1>2 DEF Ended, Call
  <2> HIDE DEF e
  <2>2. QED
    BY <1>1, <1>2, <2>1 DEF Balanced, Call, e
<1>3. CASE ~ok
  <2>1. e.ok = r.ok
    BY <1>3 DEF Ended, Call
  <2> HIDE DEF e
  <2>2. QED
    BY <1>1, <1>3, <2>1 DEF Balanced, Call, e
<1>4. QED
  BY <1>2, <1>3

\* An attempt counts the record it made, and its answer if nobody read it.
LEMMA RequestBalanced ==
    ASSUME CrmHolds, AllBalanced, NEW c \in Callers, Request(c)
    PROVE  AllBalanced'
<1> DEFINE r == call[c]
<1>1. r \in Call /\ r.pc = "api" /\ Balanced(r) /\ call \in [Callers -> Call]
  BY DEF CrmHolds, CrmTypeOK, Request, AllBalanced
<1> HIDE DEF r
<1>2. PICK outcome \in Outcomes(r) :
        LET done == Attempted(r, outcome)
        IN  \/ call' = [call EXCEPT ![c] =
                  IF isRetryable(outcome) THEN Again(done) ELSE Ended(done, outcome = "ok")]
            \/ outcome # "ok" /\ call' = [call EXCEPT ![c] = Ended(done, FALSE)]
  BY DEF Request, r
<1>3. PICK next :
        /\ LET done == Attempted(r, outcome)
           IN  \/ next = IF isRetryable(outcome) THEN Again(done) ELSE Ended(done, outcome = "ok")
               \/ outcome # "ok" /\ next = Ended(done, FALSE)
        /\ call' = [call EXCEPT ![c] = next]
  BY <1>2
<1> DEFINE made == Made(r)
           unheard == [made EXCEPT !.unheard = IF Counts(r) THEN @ + 1 ELSE @]
           done == Attempted(r, outcome)
<1>4. /\ outcome = "ok" => done = made
      /\ outcome # "ok" => done \in {unheard, r}
  BY DEF Attempted
<1> HIDE DEF done
<1>5. /\ made \in Call /\ made.pc = "api" /\ made.unheard = r.unheard /\ made.creates = r.creates /\ made.ok = r.ok
      /\ made.made = IF Counts(r) THEN r.made + 1 ELSE r.made
  <2>1. r.made + 1 \in Nat
    BY <1>1 DEF Call
  <2>2. QED
    BY <1>1, <2>1 DEF Made, Call
<1> HIDE DEF made
<1>6. /\ unheard \in Call /\ unheard.pc = "api" /\ unheard.made = made.made
      /\ unheard.creates = r.creates /\ unheard.ok = r.ok
      /\ unheard.unheard = IF Counts(r) THEN r.unheard + 1 ELSE r.unheard
  <2>1. made.unheard \in Nat /\ made.unheard + 1 \in Nat
    BY <1>5 DEF Call
  <2>2. QED
    BY <1>5, <2>1 DEF Call
<1> HIDE DEF unheard
<1>7. Balanced(unheard)
  BY <1>1, <1>5, <1>6 DEF Balanced, Counts, Call
<1>8. Balanced(next)
  <2>1. CASE outcome = "ok"
    <3>1. next = Ended(made, TRUE)
      BY <1>3, <1>4, <2>1 DEF isRetryable, done
    <3>2. IF made.creates /\ ~made.ok THEN made.made = made.unheard + 1 ELSE Balanced(made)
      BY <1>1, <1>5 DEF Balanced, Counts, Call
    <3>3. QED
      BY <1>5, <3>1, <3>2, EndedBalanced
  <2>2. CASE outcome # "ok"
    <3>1. done \in Call /\ Balanced(done)
      BY <1>1, <1>4, <1>6, <1>7, <2>2
    <3>2. Balanced(Ended(done, FALSE))
      BY <3>1, EndedBalanced
    <3>3. Balanced([done EXCEPT !.tries = @ + 1])
      BY <3>1 DEF Balanced, Call
    <3>4. Balanced(Again(done))
      BY <3>2, <3>3 DEF Again
    <3>5. next \in {Again(done), Ended(done, FALSE)}
      BY <1>3, <2>2 DEF done
    <3>6. QED
      BY <3>2, <3>4, <3>5
  <2>3. QED
    BY <2>1, <2>2
<1>9. QED
  BY <1>1, <1>3, <1>8 DEF AllBalanced

\* Any other step of a caller leaves its counts alone, or starts them anew.
LEMMA OtherBalanced ==
    ASSUME CrmHolds, AllBalanced, NEW c \in Callers,
           \/ GetCachedToken(c) \/ SelectRow(c) \/ CacheToken(c) \/ HandOn(c)
           \/ \E creates, notes \in BOOLEAN : Begin(c, creates, notes)
           \/ \E granted : Renew(c, granted)
           \/ \E rt : Store(c, rt)
    PROVE  AllBalanced'
<1>1. call[c] \in Call /\ Balanced(call[c]) /\ call \in [Callers -> Call]
  BY DEF CrmHolds, CrmTypeOK, AllBalanced
<1>2. CASE call' = [call EXCEPT ![c] = Ended(call[c], FALSE)]
  BY <1>1, <1>2, EndedBalanced DEF AllBalanced
<1>3. CASE ~ call' = [call EXCEPT ![c] = Ended(call[c], FALSE)]
  <2>1. \/ /\ call'[c].made = call[c].made /\ call'[c].unheard = call[c].unheard
           /\ call'[c].creates = call[c].creates /\ call'[c].ok = call[c].ok
        \/ call'[c].made = 0 /\ call'[c].unheard = 0 /\ ~call'[c].ok
    <3>1. CASE GetCachedToken(c)
      BY <1>1, <3>1 DEF GetCachedToken, Call
    <3>2. CASE SelectRow(c)
      BY <1>1, <1>3, <3>2 DEF SelectRow, Call
    <3>3. CASE CacheToken(c)
      BY <1>1, <3>3 DEF CacheToken, Call
    <3>4. CASE HandOn(c) \/ \E creates, notes \in BOOLEAN : Begin(c, creates, notes)
      <4>1. CASE HandOn(c)
        BY <1>1, <4>1 DEF HandOn, Idle
      <4>2. ASSUME NEW creates \in BOOLEAN, NEW notes \in BOOLEAN, Begin(c, creates, notes)
            PROVE  call'[c].made = 0 /\ call'[c].unheard = 0 /\ ~call'[c].ok
        <5>1. call' = [call EXCEPT ![c] = [Idle EXCEPT !.pc = "token", !.creates = creates, !.notes = notes]]
          BY <4>2 DEF Begin
        <5>2. QED
          BY <1>1, <5>1 DEF Idle
      <4>3. QED
        BY <3>4, <4>1, <4>2
    <3>5. CASE \E granted : Renew(c, granted)
      <4>1. PICK granted : Renew(c, granted)
        BY <3>5
      <4>2. \/ call' = [call EXCEPT ![c].pc = "store", ![c].rt = granted,
                                    ![c].at = [acc |-> call[c].read.rt.acc, exp |-> now + Life]]
            \/ call' = [call EXCEPT ![c].pc = "cache"]
        BY <4>1 DEF Renew
      <4>3. QED
        BY <1>1, <4>2 DEF Call
    <3>6. CASE \E rt : Store(c, rt)
      BY <1>1, <3>6 DEF Store, Call
    <3>7. QED
      BY <3>1, <3>2, <3>3, <3>4, <3>5, <3>6
  <2>2. \A d \in Callers : d # c => call'[d] = call[d]
    BY <1>1 DEF GetCachedToken, SelectRow, CacheToken, HandOn, Begin, Renew, Store
  <2>3. Balanced(call[c])'
    BY <1>1, <2>1 DEF Balanced
  <2>4. QED
    BY <2>2, <2>3 DEF AllBalanced, Balanced
<1>4. QED
  BY <1>2, <1>3

\* Every move keeps the books of every call.
LEMMA CrmMoveBalanced == CrmHolds /\ AllBalanced /\ CrmMove => AllBalanced'
<1> SUFFICES ASSUME CrmHolds, AllBalanced, CrmMove PROVE AllBalanced'
  OBVIOUS
<1>1. ASSUME NEW c \in Callers, CrmStep(c) PROVE AllBalanced'
  <2>1. CASE AmoRequest(c) \/ ZohoRequest(c) \/ GoogleRequest(c)
    BY <2>1, RequestBalanced DEF AmoRequest, ZohoRequest, GoogleRequest
  <2>2. CASE GetCachedToken(c) \/ SelectRow(c) \/ CacheToken(c)
    BY <2>2, OtherBalanced
  <2>3. CASE AmoRefresh(c) \/ ZohoRefresh(c) \/ GoogleRefresh(c)
    BY <2>3, OtherBalanced DEF AmoRefresh, ZohoRefresh, GoogleRefresh
  <2>4. CASE AmoStore(c) \/ ZohoStore(c) \/ GoogleStore(c)
    BY <2>4, OtherBalanced DEF AmoStore, ZohoStore, GoogleStore
  <2>5. QED
    BY <1>1, <2>1, <2>2, <2>3, <2>4 DEF CrmStep
<1>2. ASSUME NEW c \in Callers, HandOn(c) \/ \E creates, notes \in BOOLEAN : Begin(c, creates, notes)
      PROVE  AllBalanced'
  BY <1>2, OtherBalanced
<1>3. CASE UNCHANGED call
  BY <1>3 DEF AllBalanced, Balanced
<1>4. QED
  BY <1>1, <1>2, <1>3 DEF CrmMove, CrmCallback, AmoCallback, ZohoCallback, GoogleCallback, Exchange,
     SaveIntegration, WarmCache, Tick, crmVars

\* Balanced books give the property.
LEMMA BalancedReports == CrmHolds /\ AllBalanced => CreatedAsReported
  BY DEF AllBalanced, Balanced, CreatedAsReported, CrmHolds, CrmTypeOK, Call
=============================================================================
