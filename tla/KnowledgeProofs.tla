---------------------------- MODULE KnowledgeProofs ----------------------------
(***************************************************************************)
(* Proofs about the knowledge base, for any number of requests, sources,   *)
(* namespaces, states and callbacks: first its Google connection, then the *)
(* rows, texts and vectors of its sources.                                 *)
(***************************************************************************)
EXTENDS Knowledge, KnowledgeTextProofs

\* What the requests of Knowledge do with the connection beside its own steps: a
\* sync asks for the token, takes it, or gives up.
UseMove ==
    /\ \E u \in Users, pc \in {"idle", "select"} :
          user' = [user EXCEPT ![u] = IF pc = "idle" THEN NoUse ELSE [@ EXCEPT !.pc = "select"]]
    /\ UNCHANGED <<states, grant, callback, exchanged, owner, revived>>

GrantMove ==
    \/ GrantNext
    \/ \E u \in Users : GrantStep(u)
    \/ UseMove
    \/ UNCHANGED grantVars

\* Every step of Knowledge is one of these moves of the connection.
LEMMA NextMoves == [Next]_vars => GrantMove
<1> SUFFICES ASSUME [Next]_vars PROVE GrantMove
  OBVIOUS
<1> USE KnowledgeAssumption
<1>1. ASSUME NEW j \in Jobs, FetchSheet(j) \/ Abandon(j) PROVE GrantMove
  <2>0. j \in Users
    OBVIOUS
  <2>1. CASE user' = [user EXCEPT ![j] = NoUse]
    <3>1. UseMove
      BY <1>1, <2>0, <2>1 DEF UseMove, FetchSheet, Abandon
    <3>2. QED
      BY <3>1 DEF GrantMove
  <2>2. CASE user' = [user EXCEPT ![j].pc = "select"]
    <3>1. user' = [user EXCEPT ![j] = [user[j] EXCEPT !.pc = "select"]]
      BY <2>2
    <3>2. UseMove
      BY <1>1, <2>0, <3>1 DEF UseMove, FetchSheet, Abandon
    <3>3. QED
      BY <3>2 DEF GrantMove
  <2>3. CASE UNCHANGED user
    <3>1. UNCHANGED grantVars
      BY <1>1, <2>3 DEF FetchSheet, Abandon, grantVars
    <3>2. QED
      BY <3>1 DEF GrantMove
  <2>4. QED
    BY <1>1, <2>1, <2>2, <2>3 DEF FetchSheet, Abandon
<1>2. ASSUME NEW j \in Jobs, Start(j) PROVE UNCHANGED grantVars
  BY <1>2 DEF Start, CreateDocument, AddPage, CreateQA, SyncSheet, Reindex, DeleteDocument,
     DeleteQA, DeleteNamespace, Begin
<1>3. ASSUME NEW j \in Jobs, Step(j), ~FetchSheet(j) PROVE UNCHANGED grantVars
  <2>1. CASE \/ GetNamespace(j) \/ EmbedBatch(j) \/ UpsertVectors(j) \/ SkipVectors(j)
             \/ SetStatus(j) \/ InsertDocument(j) \/ InsertChunk(j) \/ ReadChunks(j) \/ ReadIds(j)
             \/ DeleteVectors(j) \/ DeleteRow(j)
    BY <2>1 DEF GetNamespace, EmbedBatch, UpsertVectors, SkipVectors, SetStatus,
       InsertDocument, InsertChunk, ReadChunks, ReadIds, DeleteVectors, DeleteRow
  <2>2. CASE \/ UpsertPage(j) \/ crawlAndChunk(j) \/ InsertQA(j) \/ SetPineconeID(j)
             \/ fetchCSVMatrix(j) \/ resolveGoogleSheetRef(j) \/ fetchSheetMatrixWithOAuth(j)
    BY <2>2 DEF UpsertPage, crawlAndChunk, InsertQA, SetPineconeID, fetchCSVMatrix,
       resolveGoogleSheetRef, fetchSheetMatrixWithOAuth, fetchGoogleSheetsAPI
  <2>3. CASE \/ ParseSheet(j) \/ UpsertTable(j) \/ ClearTable(j) \/ InsertTableRow(j)
             \/ DeleteAllVectors(j) \/ DropNamespace(j)
    BY <2>3 DEF ParseSheet, UpsertTable, ClearTable, InsertTableRow, DeleteAllVectors,
       DropNamespace
  <2>4. QED
    BY <1>3, <2>1, <2>2, <2>3 DEF Step
<1>4. CASE DeletePage \/ DeleteSheet \/ CreateNamespace \/ UNCHANGED vars
  <2>1. UNCHANGED grantVars
    BY <1>4 DEF DeletePage, DeleteSheet, CreateNamespace, vars
  <2>2. QED
    BY <2>1 DEF GrantMove
<1>5. CASE GrantNext \/ \E j \in Jobs : GrantStep(j)
  BY <1>5 DEF GrantMove
<1>6. CASE \E j \in Jobs : Start(j) \/ Step(j) \/ Abandon(j)
  BY <1>1, <1>2, <1>3, <1>6 DEF GrantMove
<1>7. QED
  BY <1>4, <1>5, <1>6 DEF Next

-----------------------------------------------------------------------------
(* Whoever has taken a state is alone with it, and it is exchanged once.   *)

\* A connection brings its own refresh token or none.
OwnToken(t) == t.rt \in {t.of, NoGrant}

Renewable == {t \in Grant : t.rt # NoGrant}

CallbacksHold ==
    \A k \in Callbacks :
        /\ callback[k].pc \in {"exchange", "save"} => callback[k].state \in States
        /\ callback[k].pc = "save" => /\ callback[k].token \in Grant
                                      /\ OwnToken(callback[k].token)

UsersHold ==
    \A u \in Users : user[u].pc \in {"refresh", "save"} => user[u].read \in Renewable

Exchanging(s) == {k \in Callbacks : callback[k].pc = "exchange" /\ callback[k].state = s}

StatesOnce ==
    \A s \in States :
        /\ exchanged[s] <= 1
        /\ states[s] # "gone" => exchanged[s] = 0 /\ Exchanging(s) = {}
        /\ exchanged[s] = 1 => Exchanging(s) = {}
        /\ \A k, l \in Exchanging(s) : k = l

OwnerHolds ==
    /\ owner # NoGrant => OwnToken(owner)
    /\ ~revived =>
          /\ owner = NoGrant => grant = NoGrant
          /\ owner # NoGrant => grant # NoGrant
          /\ owner # NoGrant /\ owner.rt # NoGrant => grant.of = owner.of /\ grant.rt = owner.rt
          /\ owner # NoGrant /\ owner.rt = NoGrant => grant.of \in {owner.of, grant.rt}

GrantHolds == GrantTypeOK /\ CallbacksHold /\ UsersHold /\ StatesOnce /\ OwnerHolds

\* A connection that was never made satisfies the invariant.
LEMMA GrantInitHolds == GrantInit => GrantHolds
<1> SUFFICES ASSUME GrantInit PROVE GrantHolds
  OBVIOUS
<1> USE DEF GrantInit, NoUse
<1>1. GrantTypeOK
  BY DEF GrantTypeOK
<1>2. CallbacksHold /\ UsersHold /\ OwnerHolds
  BY DEF CallbacksHold, UsersHold, OwnerHolds
<1>3. StatesOnce
  BY DEF StatesOnce, Exchanging
<1>4. QED
  BY <1>1, <1>2, <1>3 DEF GrantHolds

Frame == UNCHANGED <<states, grant, callback, exchanged, owner, revived>>

\* A sync that uses the token, or stops to, keeps the invariant.
LEMMA UserKeeps ==
    ASSUME GrantHolds, Frame, NEW u \in Users,
           NEW r \in [pc : {"idle", "select", "refresh", "save", "ok", "error"},
                      read : Grant \cup {NoGrant}],
           r.pc \in {"refresh", "save"} => r.read \in Renewable,
           user' = [user EXCEPT ![u] = r]
    PROVE  GrantHolds'
<1> USE DEF Frame
<1>1. GrantTypeOK'
  BY DEF GrantHolds, GrantTypeOK
<1>2. UsersHold'
  BY DEF GrantHolds, GrantTypeOK, UsersHold
<1>3. CallbacksHold' /\ OwnerHolds'
  BY DEF GrantHolds, CallbacksHold, OwnerHolds
<1>4. StatesOnce'
  BY DEF GrantHolds, StatesOnce, Exchanging
<1>5. QED
  BY <1>1, <1>2, <1>3, <1>4 DEF GrantHolds

\* What the upsert of a token leaves is a token of the same connection, with its
\* refresh token if it has one.
LEMMA SavedToken ==
    ASSUME GrantTypeOK, NEW t \in Grant, saveToken(t)
    PROVE  /\ grant' \in Grant /\ grant' # NoGrant /\ grant'.of = t.of
           /\ t.rt # NoGrant => grant'.rt = t.rt
<1>1. CASE grant # NoGrant /\ t.rt = NoGrant
  <2>1. grant \in Grant
    BY <1>1 DEF GrantTypeOK
  <2>2. grant' = [t EXCEPT !.rt = grant.rt]
    BY <1>1 DEF saveToken
  <2>3. QED
    BY <1>1, <2>1, <2>2, GrantAssumption DEF Grant
<1>2. CASE ~(grant # NoGrant /\ t.rt = NoGrant)
  BY <1>2, GrantAssumption DEF saveToken, Grant
<1>3. QED
  BY <1>1, <1>2

\* The steps of a sync with the token.
LEMMA StepKeeps ==
    ASSUME GrantHolds, NEW u \in Users, GrantStep(u) \/ UseMove
    PROVE  GrantHolds'
<1> DEFINE Use == [pc : {"idle", "select", "refresh", "save", "ok", "error"},
                   read : Grant \cup {NoGrant}]
<1>1. user \in [Users -> Use] /\ grant \in Grant \cup {NoGrant} /\ GrantTypeOK
  BY DEF GrantHolds, GrantTypeOK
<1>2. CASE UseMove
  <2>1. PICK w \in Users, pc \in {"idle", "select"} :
          user' = [user EXCEPT ![w] = IF pc = "idle" THEN NoUse ELSE [user[w] EXCEPT !.pc = "select"]]
    BY <1>2 DEF UseMove
  <2> DEFINE r == IF pc = "idle" THEN NoUse ELSE [user[w] EXCEPT !.pc = "select"]
  <2>2. r \in Use /\ r.pc \in {"idle", "select"}
    BY <1>1 DEF NoUse
  <2>3. user' = [user EXCEPT ![w] = r]
    BY <2>1
  <2>4. Frame
    BY <1>2 DEF UseMove, Frame
  <2> HIDE DEF r
  <2>5. QED
    BY <2>2, <2>3, <2>4, UserKeeps
<1>3. CASE GetValidToken(u)
  <2> DEFINE pc == CASE grant = NoGrant -> "error"
                     [] grant # NoGrant /\ grant.due /\ grant.rt # NoGrant -> "refresh"
                     [] OTHER -> "ok"
             r == [read |-> grant, pc |-> pc]
  <2>1. /\ pc \in {"error", "refresh", "ok"}
        /\ pc = "refresh" => grant # NoGrant /\ grant.rt # NoGrant
    OBVIOUS
  <2>2. user' = [user EXCEPT ![u] = r] /\ Frame
    BY <1>3 DEF GetValidToken, Frame
  <2> HIDE DEF pc
  <2>3. r \in Use /\ (r.pc \in {"refresh", "save"} => r.read \in Renewable)
    BY <1>1, <2>1 DEF Renewable
  <2> HIDE DEF r
  <2>4. QED
    BY <2>2, <2>3, UserKeeps
<1>4. CASE refreshToken(u)
  <2>1. PICK pc \in {"save", "error"} : user' = [user EXCEPT ![u] = [user[u] EXCEPT !.pc = pc]]
    BY <1>4 DEF refreshToken
  <2>2. user[u].read \in Renewable
    BY <1>4 DEF refreshToken, GrantHolds, UsersHold
  <2> DEFINE r == [user[u] EXCEPT !.pc = pc]
  <2>3. r \in Use /\ r.read \in Renewable
    BY <1>1, <2>2 DEF Renewable
  <2>4. user' = [user EXCEPT ![u] = r] /\ Frame
    BY <1>4, <2>1 DEF refreshToken, Frame
  <2> HIDE DEF r
  <2>5. QED
    BY <2>3, <2>4, UserKeeps
<1>5. CASE SaveRenewal(u)
  <2> DEFINE rt == user[u].read.rt
             t == [of |-> rt, rt |-> rt, due |-> FALSE]
  <2>1. rt \in States /\ rt # NoGrant
    BY <1>5 DEF SaveRenewal, GrantHolds, UsersHold, Renewable, Grant
  <2>2. t \in Grant /\ t.of = rt /\ t.rt = rt
    BY <2>1 DEF Grant
  <2>3. UNCHANGED <<states, callback, exchanged, owner>>
    BY <1>5 DEF SaveRenewal
  <2>4. PICK pc \in {"ok", "error"} : user' = [user EXCEPT ![u] = [user[u] EXCEPT !.pc = pc]]
    BY <1>5 DEF SaveRenewal
  <2>5. CASE UNCHANGED <<grant, revived>>
    <3> DEFINE r == [user[u] EXCEPT !.pc = pc]
    <3>1. r \in Use /\ r.pc \notin {"refresh", "save"}
      BY <1>1
    <3>2. user' = [user EXCEPT ![u] = r] /\ Frame
      BY <2>3, <2>4, <2>5 DEF Frame
    <3> HIDE DEF r
    <3>3. QED
      BY <3>1, <3>2, UserKeeps
  <2>6. CASE /\ saveToken(t)
             /\ revived' = (revived \/ grant = NoGrant \/ (grant # NoGrant /\ grant.rt # rt))
    <3> HIDE DEF rt
    <3>1. grant' \in Grant /\ grant' # NoGrant /\ grant'.of = rt /\ grant'.rt = rt
      BY <1>1, <2>1, <2>2, <2>6, SavedToken
    <3>2. OwnerHolds'
      BY <2>3, <2>6, <3>1 DEF OwnerHolds, OwnToken, GrantHolds
    <3>3. user' \in [Users -> Use] /\ UsersHold'
      BY <1>1, <2>4 DEF UsersHold, GrantHolds
    <3>4. revived' \in BOOLEAN
      BY <2>6, <1>1 DEF GrantTypeOK
    <3>5. GrantTypeOK'
      BY <1>1, <2>3, <3>1, <3>3, <3>4 DEF GrantTypeOK
    <3>6. CallbacksHold'
      BY <2>3 DEF CallbacksHold, GrantHolds
    <3>7. StatesOnce'
      BY <2>3 DEF StatesOnce, Exchanging, GrantHolds
    <3>8. QED
      BY <3>2, <3>3, <3>5, <3>6, <3>7 DEF GrantHolds
  <2>7. QED
    BY <1>5, <2>5, <2>6 DEF SaveRenewal
<1>6. QED
  BY <1>2, <1>3, <1>4, <1>5 DEF GrantStep

\* The owner asks for a state, disconnects, or time passes.
LEMMA OwnerKeeps ==
    ASSUME GrantHolds, StartOAuth \/ Disconnect \/ Age
    PROVE  GrantHolds'
<1>1. GrantTypeOK /\ UNCHANGED <<callback, user, exchanged>>
  BY DEF GrantHolds, StartOAuth, Disconnect, Age
<1>2. CallbacksHold' /\ UsersHold'
  BY <1>1 DEF GrantHolds, CallbacksHold, UsersHold
<1>3. CASE UNCHANGED states /\ (Disconnect \/ Age)
  <2>1. StatesOnce'
    BY <1>1, <1>3 DEF GrantHolds, StatesOnce, Exchanging
  <2>2. /\ grant' \in Grant \cup {NoGrant} /\ owner' \in Grant \cup {NoGrant}
        /\ revived' \in BOOLEAN /\ OwnerHolds'
    <3>1. CASE Disconnect
      BY <1>1, <3>1 DEF Disconnect, OwnerHolds, GrantTypeOK
    <3>2. CASE Age /\ UNCHANGED grant
      BY <1>1, <3>2 DEF Age, OwnerHolds, GrantTypeOK, GrantHolds
    <3>3. CASE Age /\ grant # NoGrant /\ grant' = [grant EXCEPT !.due = TRUE]
      <4>1. grant \in Grant
        BY <1>1, <3>3 DEF GrantTypeOK
      <4>2. grant' \in Grant /\ grant'.of = grant.of /\ grant'.rt = grant.rt
        BY <4>1, <3>3 DEF Grant
      <4>3. grant' # NoGrant
        BY <4>2, GrantAssumption DEF Grant
      <4>4. owner' = owner /\ revived' = revived
        BY <3>3 DEF Age
      <4>5. QED
        BY <1>1, <3>3, <4>2, <4>3, <4>4 DEF OwnerHolds, GrantTypeOK, GrantHolds
    <3>4. QED
      BY <1>3, <3>1, <3>2, <3>3 DEF Age
  <2>3. GrantTypeOK'
    BY <1>1, <1>3, <2>2 DEF GrantTypeOK
  <2>4. QED
    BY <1>2, <2>1, <2>2, <2>3 DEF GrantHolds
<1>4. CASE /\ UNCHANGED <<grant, owner, revived>>
           /\ states' \in [States -> {"none", "open", "old", "gone"}]
           /\ \A s \in States : states[s] = "gone" => states'[s] = "gone"
  <2>1. StatesOnce'
    BY <1>1, <1>4 DEF GrantHolds, StatesOnce, Exchanging
  <2>2. GrantTypeOK' /\ OwnerHolds'
    BY <1>1, <1>4 DEF GrantTypeOK, OwnerHolds, GrantHolds
  <2>3. QED
    BY <1>2, <2>1, <2>2 DEF GrantHolds
<1>5. CASE StartOAuth
  <2>1. UNCHANGED <<grant, owner, revived>>
    BY <1>5 DEF StartOAuth
  <2>2. PICK s \in States :
          /\ states[s] = "none"
          /\ states' = [x \in States |-> CASE x = s             -> "open"
                                           [] states[x] = "old" -> "gone"
                                           [] OTHER             -> states[x]]
    BY <1>5 DEF StartOAuth
  <2>3. ASSUME NEW x \in States
        PROVE  /\ states'[x] \in {"none", "open", "old", "gone"}
               /\ states[x] = "gone" => states'[x] = "gone"
    <3>0. states[x] \in {"none", "open", "old", "gone"}
      BY <1>1 DEF GrantTypeOK
    <3>1. CASE x = s
      BY <2>2, <3>1
    <3>2. CASE x # s /\ states[x] = "old"
      BY <2>2, <3>2
    <3>3. CASE x # s /\ states[x] # "old"
      BY <2>2, <3>0, <3>3
    <3>4. QED
      BY <3>1, <3>2, <3>3
  <2>4. states' \in [States -> {"none", "open", "old", "gone"}]
    BY <2>2, <2>3
  <2>5. QED
    BY <1>4, <2>1, <2>3, <2>4
<1>6. CASE Age /\ ~UNCHANGED states
  <2>1. PICK s \in States : states[s] = "open" /\ states' = [states EXCEPT ![s] = "old"]
    BY <1>6 DEF Age
  <2>2. UNCHANGED <<grant, owner, revived>>
    BY <1>6 DEF Age
  <2>3. QED
    BY <1>1, <1>4, <2>1, <2>2 DEF GrantTypeOK
<1>7. QED
  BY <1>3, <1>5, <1>6 DEF Disconnect

Callback == [pc : {"idle", "exchange", "save", "done", "error"},
             state : States \cup {NoGrant}, token : Grant \cup {NoGrant}]

\* A callback takes a state that nobody took, exchanges its code, and saves.
LEMMA CallbackKeeps ==
    ASSUME GrantHolds, NEW k \in Callbacks,
           ExchangeCode(k) \/ exchangeCode(k) \/ SaveConnection(k)
    PROVE  GrantHolds'
<1>0. /\ GrantTypeOK /\ callback \in [Callbacks -> Callback] /\ UNCHANGED user
      /\ callback[k] \in Callback
  BY DEF GrantHolds, GrantTypeOK, Callback, ExchangeCode, exchangeCode, SaveConnection
<1>1. UsersHold'
  BY <1>0 DEF GrantHolds, UsersHold
<1>2. CASE ExchangeCode(k)
  <2>1. UNCHANGED <<grant, exchanged, owner, revived>> /\ callback[k].pc = "idle"
    BY <1>2 DEF ExchangeCode
  <2>2. OwnerHolds'
    BY <1>0, <2>1 DEF OwnerHolds, GrantHolds
  <2>3. PICK s \in States :
          \/ /\ states[s] \in {"open", "old"}
             /\ states' = [states EXCEPT ![s] = "gone"]
             /\ callback' = [callback EXCEPT
                   ![k] = [callback[k] EXCEPT !.state = s,
                               !.pc = IF states[s] = "open" THEN "exchange" ELSE "error"]]
          \/ /\ UNCHANGED states
             /\ callback' = [callback EXCEPT ![k] = [callback[k] EXCEPT !.pc = "error"]]
    BY <1>2 DEF ExchangeCode, TakeState
  <2>4. CASE /\ UNCHANGED states
             /\ callback' = [callback EXCEPT ![k] = [callback[k] EXCEPT !.pc = "error"]]
    <3> DEFINE r == [callback[k] EXCEPT !.pc = "error"]
    <3>1. r \in Callback /\ r.pc = "error"
      BY <1>0 DEF Callback
    <3>2. callback' = [callback EXCEPT ![k] = r]
      BY <2>4
    <3> HIDE DEF r
    <3>3. callback' \in [Callbacks -> Callback]
      BY <1>0, <3>1, <3>2
    <3>4. GrantTypeOK'
      BY <1>0, <2>1, <2>4, <3>3 DEF GrantTypeOK, Callback
    <3>5. CallbacksHold'
      BY <1>0, <3>1, <3>2 DEF CallbacksHold, GrantHolds
    <3>6. \A s1 \in States : Exchanging(s1)' \subseteq Exchanging(s1)
      BY <1>0, <3>1, <3>2 DEF Exchanging
    <3>7. StatesOnce'
      BY <2>1, <2>4, <3>6 DEF StatesOnce, GrantHolds
    <3>8. QED
      BY <1>1, <2>2, <3>4, <3>5, <3>7 DEF GrantHolds
  <2>5. CASE /\ states[s] \in {"open", "old"}
             /\ states' = [states EXCEPT ![s] = "gone"]
             /\ callback' = [callback EXCEPT
                   ![k] = [callback[k] EXCEPT !.state = s,
                               !.pc = IF states[s] = "open" THEN "exchange" ELSE "error"]]
    <3> DEFINE pc == IF states[s] = "open" THEN "exchange" ELSE "error"
               r == [callback[k] EXCEPT !.state = s, !.pc = pc]
    <3>1. r \in Callback /\ r.pc \in {"exchange", "error"} /\ r.state = s
      BY <1>0 DEF Callback
    <3>2. callback' = [callback EXCEPT ![k] = r]
      BY <2>5
    <3> HIDE DEF r
    <3>3. callback' \in [Callbacks -> Callback]
      BY <1>0, <3>1, <3>2
    <3>4. states' \in [States -> {"none", "open", "old", "gone"}]
      BY <1>0, <2>5 DEF GrantTypeOK
    <3>5. GrantTypeOK'
      BY <1>0, <2>1, <3>3, <3>4 DEF GrantTypeOK, Callback
    <3>6. CallbacksHold'
      BY <1>0, <3>1, <3>2 DEF CallbacksHold, GrantHolds
    <3>7. Exchanging(s)' \subseteq {k} /\ exchanged[s] = 0 /\ states'[s] = "gone"
      BY <1>0, <2>5, <3>1, <3>2 DEF Exchanging, StatesOnce, GrantHolds, GrantTypeOK
    <3>8. \A s1 \in States \ {s} : Exchanging(s1)' \subseteq Exchanging(s1) /\ states'[s1] = states[s1]
      BY <1>0, <2>5, <3>1, <3>2 DEF Exchanging, GrantTypeOK
    <3>9. StatesOnce'
      BY <2>1, <3>7, <3>8 DEF StatesOnce, GrantHolds
    <3>10. QED
      BY <1>1, <2>2, <3>5, <3>6, <3>9 DEF GrantHolds
  <2>6. QED
    BY <2>3, <2>4, <2>5
<1>3. CASE exchangeCode(k)
  <2>0. PICK s \in States : s = callback[k].state
    BY <1>3 DEF exchangeCode, GrantHolds, CallbacksHold
  <2>1. /\ UNCHANGED <<states, grant, owner, revived>> /\ k \in Exchanging(s)
        /\ states[s] = "gone" /\ exchanged[s] = 0
    <3>1. UNCHANGED <<states, grant, owner, revived>> /\ callback[k].pc = "exchange"
      BY <1>3 DEF exchangeCode
    <3>2. k \in Exchanging(s)
      BY <2>0, <3>1 DEF Exchanging
    <3>3. exchanged[s] \in Nat
      BY <1>0 DEF GrantTypeOK
    <3>4. QED
      BY <3>1, <3>2, <3>3 DEF GrantHolds, StatesOnce
  <2>2. OwnerHolds'
    BY <1>0, <2>1 DEF OwnerHolds, GrantHolds
  <2>3. PICK r \in Callback, n \in {0, 1} :
          /\ callback' = [callback EXCEPT ![k] = r]
          /\ r.pc \in {"save", "error"}
          /\ r.pc = "save" => r.state \in States /\ r.token \in Grant /\ OwnToken(r.token)
          /\ exchanged' = [exchanged EXCEPT ![s] = n]
    <3>1. CASE /\ callback' = [callback EXCEPT ![k].pc = "error"]
               /\ UNCHANGED exchanged
      <4>1. exchanged' = [exchanged EXCEPT ![s] = 0]
        BY <1>0, <2>1, <3>1 DEF GrantTypeOK
      <4>2. [callback[k] EXCEPT !.pc = "error"] \in Callback
        BY <1>0 DEF Callback
      <4>3. [callback[k] EXCEPT !.pc = "error"].pc = "error"
        BY <1>0 DEF Callback
      <4>4. callback' = [callback EXCEPT ![k] = [callback[k] EXCEPT !.pc = "error"]]
        BY <3>1
      <4>5. QED
        BY <4>1, <4>2, <4>3, <4>4
    <3>2. CASE /\ \E rt \in {s, NoGrant} :
                     callback' = [callback EXCEPT
                        ![k] = [callback[k] EXCEPT !.pc = "save",
                                         !.token = [of |-> s, rt |-> rt, due |-> FALSE]]]
               /\ exchanged' = [exchanged EXCEPT ![s] = @ + 1]
      <4>1. PICK rt \in {s, NoGrant} :
              callback' = [callback EXCEPT
                 ![k] = [callback[k] EXCEPT !.pc = "save",
                                  !.token = [of |-> s, rt |-> rt, due |-> FALSE]]]
        BY <3>2
      <4> DEFINE t == [of |-> s, rt |-> rt, due |-> FALSE]
                 r == [callback[k] EXCEPT !.pc = "save", !.token = t]
      <4>2. t \in Grant /\ OwnToken(t)
        BY <2>1 DEF Grant, OwnToken
      <4>3. callback' = [callback EXCEPT ![k] = r]
        BY <4>1
      <4> HIDE DEF t
      <4>4. r \in Callback /\ r.pc = "save" /\ r.token = t /\ r.state = s
        BY <1>0, <2>0, <4>2 DEF Callback
      <4> HIDE DEF r
      <4>5. exchanged' = [exchanged EXCEPT ![s] = 1]
        BY <2>1, <3>2
      <4>6. QED
        BY <2>1, <4>2, <4>3, <4>4, <4>5
    <3>3. QED
      BY <1>3, <2>0, <3>1, <3>2 DEF exchangeCode
  <2>4. callback' \in [Callbacks -> Callback] /\ exchanged' \in [States -> Nat]
    BY <1>0, <2>1, <2>3 DEF GrantTypeOK
  <2>5. GrantTypeOK'
    BY <1>0, <2>1, <2>4 DEF GrantTypeOK, Callback
  <2>6. CallbacksHold'
    BY <1>0, <2>3 DEF CallbacksHold, GrantHolds
  <2>7. Exchanging(s)' = {} /\ exchanged'[s] \in {0, 1}
    <3>1. Exchanging(s) = {k}
      BY <2>1 DEF StatesOnce, GrantHolds
    <3>2. QED
      BY <1>0, <2>1, <2>3, <3>1 DEF Exchanging, GrantTypeOK
  <2>8. \A s1 \in States \ {s} :
          Exchanging(s1)' \subseteq Exchanging(s1) /\ exchanged'[s1] = exchanged[s1]
    BY <1>0, <2>3 DEF Exchanging, GrantTypeOK
  <2>9. StatesOnce'
    BY <2>1, <2>7, <2>8 DEF StatesOnce, GrantHolds
  <2>10. QED
    BY <1>1, <2>2, <2>5, <2>6, <2>9 DEF GrantHolds
<1>4. CASE SaveConnection(k)
  <2> DEFINE t == callback[k].token
  <2>1. /\ UNCHANGED <<states, exchanged>> /\ callback[k].state \in States
        /\ t \in Grant /\ OwnToken(t)
    BY <1>4 DEF SaveConnection, GrantHolds, CallbacksHold
  <2>2. PICK pc \in {"done", "error"} : callback' = [callback EXCEPT ![k] = [callback[k] EXCEPT !.pc = pc]]
    BY <1>4 DEF SaveConnection
  <2> DEFINE r == [callback[k] EXCEPT !.pc = pc]
  <2>3. r \in Callback /\ r.pc \in {"done", "error"} /\ callback' = [callback EXCEPT ![k] = r]
    BY <1>0, <2>2 DEF Callback
  <2> HIDE DEF r
  <2>4. /\ grant' \in Grant \cup {NoGrant} /\ owner' \in Grant \cup {NoGrant}
        /\ revived' \in BOOLEAN /\ OwnerHolds'
    <3>1. CASE UNCHANGED <<grant, owner, revived>>
      BY <1>0, <3>1 DEF OwnerHolds, GrantHolds, GrantTypeOK
    <3>2. CASE saveToken(t) /\ owner' = t /\ revived' = (revived /\ t.rt = NoGrant)
      <4> HIDE DEF t
      <4>1. /\ grant' \in Grant /\ grant' # NoGrant /\ grant'.of = t.of
            /\ t.rt # NoGrant => grant'.rt = t.rt
        BY <1>0, <2>1, <3>2, SavedToken
      <4>2. t # NoGrant
        BY <2>1, GrantAssumption DEF Grant
      <4>3. revived' \in BOOLEAN
        BY <1>0, <3>2 DEF GrantTypeOK
      <4>4. OwnerHolds'
        BY <2>1, <3>2, <4>1, <4>2 DEF OwnerHolds, OwnToken
      <4>5. QED
        BY <2>1, <3>2, <4>1, <4>3, <4>4
    <3>3. QED
      BY <1>4, <3>1, <3>2 DEF SaveConnection
  <2>5. callback' \in [Callbacks -> Callback]
    BY <1>0, <2>3
  <2>6. GrantTypeOK'
    BY <1>0, <2>1, <2>4, <2>5 DEF GrantTypeOK, Callback
  <2>7. CallbacksHold'
    BY <1>0, <2>3 DEF CallbacksHold, GrantHolds
  <2>8. \A s \in States : Exchanging(s)' \subseteq Exchanging(s)
    BY <1>0, <2>3 DEF Exchanging
  <2>9. StatesOnce'
    BY <2>1, <2>8 DEF StatesOnce, GrantHolds
  <2>10. QED
    BY <1>1, <2>4, <2>6, <2>7, <2>9 DEF GrantHolds
<1>5. QED
  BY <1>2, <1>3, <1>4

-----------------------------------------------------------------------------

\* The inductive invariant of the connection.
LEMMA GrantInvariant == Spec => []GrantHolds
<1>1. Init => GrantHolds
  BY GrantInitHolds DEF Init
<1>2. GrantHolds /\ [Next]_vars => GrantHolds'
  <2> SUFFICES ASSUME GrantHolds, [Next]_vars PROVE GrantHolds'
    OBVIOUS
  <2>1. GrantMove
    BY NextMoves
  <2>2. CASE GrantNext
    BY <2>2, OwnerKeeps, CallbackKeeps DEF GrantNext
  <2>3. CASE \E u \in Users : GrantStep(u)
    BY <2>3, StepKeeps
  <2>4. CASE UseMove
    <3>1. PICK u \in Users : TRUE
      BY <2>4 DEF UseMove
    <3>2. QED
      BY <2>4, <3>1, StepKeeps
  <2>5. CASE UNCHANGED grantVars
    BY <2>5 DEF grantVars, GrantHolds, GrantTypeOK, CallbacksHold, UsersHold, StatesOnce,
       Exchanging, OwnerHolds
  <2>6. QED
    BY <2>1, <2>2, <2>3, <2>4, <2>5 DEF GrantMove
<1>3. QED
  BY <1>1, <1>2, PTL DEF Spec

\* States, tokens, callbacks and syncs keep their shape.
THEOREM GrantTypeInvariant == Spec => []GrantTypeOK
<1>1. GrantHolds => GrantTypeOK
  BY DEF GrantHolds
<1>2. QED
  BY <1>1, GrantInvariant, PTL

\* However many callbacks, disconnects and renewals interleave, a state is
\* exchanged once at most. Until a renewal is stored over a row with another
\* refresh token, there is no token after a disconnect, that of the last
\* connection after one that brought a refresh token, and after one that brought
\* none a token of that connection or of the refresh token it kept.
THEOREM GrantSafety == Spec => []GrantsAreConsented
<1>1. GrantHolds => GrantsAreConsented
  BY DEF GrantHolds, StatesOnce, OwnerHolds, GrantsAreConsented
<1>2. QED
  BY <1>1, GrantInvariant, PTL

-----------------------------------------------------------------------------
(* The knowledge base. The inductive invariant says of each request where  *)
(* it stands and what it knows of its source, of each source what its row, *)
(* texts and vectors have to do with each other.                           *)

Stores == {"create", "web", "qa", "sync"}
Deletes == {"deletedoc", "deleteqa"}

Pcs(op) ==
    CASE op = "create"    -> {"ns", "row", "embed", "texts", "vectors", "status"}
      [] op = "reindex"   -> {"chunks", "embed", "vectors", "status"}
      [] op = "deletedoc" -> {"ids", "vectors", "drop"}
      [] op = "web"       -> {"ns", "row", "crawl", "embed", "vectors", "status"}
      [] op = "qa"        -> {"ns", "embed", "row", "pid", "vectors"}
      [] op = "deleteqa"  -> {"vectors", "drop"}
      [] op = "sync"      -> {"ns", "fetch", "csv", "ref", "values", "matrix", "row", "clear",
                              "texts", "embed", "vectors", "status"}
      [] op = "deletens"  -> {"vectors", "drop"}

\* What a request may be about.
Subjects(op) ==
    CASE op \in {"create", "reindex", "deletedoc"} -> Docs
      [] op = "web"                                -> Pages
      [] op \in {"qa", "deleteqa"}                 -> Questions
      [] op = "sync"                               -> Sheets
      [] op = "deletens"                           -> {None}

\* The request r knows the id of a row of its source, or the name of a namespace.
HasRow(r) == \/ r.op = "reindex" /\ r.pc # "idle"
             \/ r.op \in {"create", "web"} /\ r.pc \notin {"idle", "ns", "row"}
             \/ r.op = "qa" /\ r.pc \in {"pid", "vectors"}
             \/ r.op = "sync" /\ r.pc \in {"clear", "texts", "embed", "vectors", "status"}

Named(r) == \/ r.op \in Stores /\ r.pc \notin {"idle", "ns"}
            \/ r.op \in {"reindex", "deletedoc", "deletens"} /\ r.pc # "idle"
            \/ r.op = "deleteqa" /\ r.pc = "vectors"

There(r) == rows[r.item] # None /\ rows[r.item].gen = r.gen

Fields == {"op", "item", "ns", "src", "pc", "name", "gen", "ids", "next", "embedded", "status"}

JobTyped(r) ==
    /\ DOMAIN r = Fields
    /\ r.ids \in SUBSET Nat /\ IsFiniteSet(r.ids)
    /\ r.next \in Nat \ {0} /\ r.gen \in Nat /\ r.embedded \in BOOLEAN
    /\ r.status \in Statuses \ {"indexing"}
    /\ r.pc = "idle" => r.item = None
    /\ r.pc # "idle" =>
          /\ r.op \in Stores \cup Deletes \cup {"reindex", "deletens"}
          /\ r.pc \in Pcs(r.op) /\ r.item \in Subjects(r.op)
          /\ r.op \in Stores => r.src \in Source(r.item)
          /\ r.op \in Stores \cup {"deletens"} => r.ns \in Namespaces
          /\ Named(r) => r.name \in Names
          /\ HasRow(r) => r.gen \in 1..made[r.item]
          /\ r.op \in Deletes => made[r.item] > 0

\* A document or a question is stored by one request, before it has a row.
Makes(r) == r.pc # "idle" /\ r.op \in {"create", "qa"}

MakerHolds(r) ==
    Makes(r) => IF HasRow(r) THEN r.gen = made[r.item]
                ELSE made[r.item] = 0 /\ r.ids = {} /\ r.next = 1

\* A namespace that a request has read has the name it read, or is gone.
Home(i) == namespaces[rows[i].ns]

NameHolds(r) ==
    /\ r.op \in Stores \cup {"deletens"} /\ r.pc # "idle" => namespaces[r.ns] # "new"
    /\ r.op \in Stores \cup {"deletens"} /\ Named(r) /\ Stored(r.ns) => namespaces[r.ns] = r.name
    /\ r.op \in Deletes /\ Named(r) /\ rows[r.item] # None => Home(r.item) = r.name

\* Documents and questions, whose vectors are deleted with them.
Single == Docs \cup Questions
Writes(r) == r.op \in {"create", "reindex", "qa"} /\ HasRow(r)
Clean(i) == gaps[i] \cap {"kept", "late"} = {}
VectorsOf(i) == {v \in vectors : v.item = i}
Have(i) == IF i \in Docs THEN Ids(i) ELSE {1}

\* While its row is there, a request upserts what the texts of a document say,
\* where the document is.
WriterHolds(r) ==
    Writes(r) /\ There(r) =>
        /\ Home(r.item) = r.name /\ r.ids \subseteq Have(r.item)
        /\ r.op = "create" /\ r.pc \in {"embed", "texts"} => 1..(r.next - 1) \subseteq Ids(r.item)

\* A request that deletes knows of all vectors, and then there are none.
DeleterHolds(r) ==
    /\ r.op = "deletedoc" /\ r.pc = "vectors" /\ Clean(r.item) =>
          \A v \in VectorsOf(r.item) : v.ns = r.name /\ v.idx \in r.ids
    /\ r.op = "deleteqa" /\ r.pc = "vectors" => r.ids = {1}
    /\ r.op \in Deletes /\ r.pc = "drop" /\ Clean(r.item) => VectorsOf(r.item) = {}
    /\ r.op = "deletens" /\ r.pc = "drop" =>
          \A v \in vectors : v.item \in Single /\ v.ns = r.name => ~Clean(v.item)

\* Nothing happened to the source that leaves it without its vectors.
Sound(i) == gaps[i] \cap {"unsent", "unready", "removed", "moved", "overlap"} = {}
Want(i) == IF i \in Questions THEN {} ELSE DOMAIN PartsOf(i, rows[i].src)
AllSent(i) ==
    \A x \in Want(i) : [ns |-> Home(i), item |-> i, gen |-> rows[i].gen, idx |-> x] \in vectors
Complete(d) == DOMAIN PartsOf(d, rows[d].src) \subseteq Ids(d)

Sends(r) == \/ r.op = "create" /\ r.pc = "vectors"
            \/ r.op \in {"web", "sync"} /\ r.pc \in {"embed", "vectors"}
Refreshes(r) == r.pc # "idle" /\ r.op \in {"web", "sync"}

\* What a request is to send is what the row of its source says, unless another
\* request for the page or the sheet overlaps with it.
SenderHolds(r) ==
    /\ r.op = "create" /\ r.pc = "texts" => r.embedded \/ r.status # "indexed"
    /\ Sends(r) => r.ids = DOMAIN PartsOf(r.item, r.src)
    /\ r.op = "create" /\ HasRow(r) /\ There(r) =>
          /\ rows[r.item].src = r.src
          /\ r.pc \in {"vectors", "status"} => Complete(r.item)
    /\ Refreshes(r) /\ HasRow(r) /\ There(r) /\ gaps[r.item] \cap {"overlap", "moved"} = {} =>
          rows[r.item].src = r.src /\ Home(r.item) = r.name
    /\ r.op = "reindex" /\ HasRow(r) /\ There(r) /\ "unready" \notin gaps[r.item] =>
          /\ Complete(r.item)
          /\ r.pc \in {"embed", "vectors"} => Want(r.item) \subseteq r.ids
    /\ HasRow(r) /\ There(r) /\ r.pc = "status" /\ r.status = "indexed" /\ Sound(r.item) =>
          AllSent(r.item)

JobHolds(r) ==
    JobTyped(r) /\ MakerHolds(r) /\ NameHolds(r) /\ WriterHolds(r) /\ DeleterHolds(r) /\ SenderHolds(r)

\* One maker per source; two requests that refresh one are marked.
OneMaker ==
    \A j, k \in Jobs : Makes(job[j]) /\ Makes(job[k]) /\ job[j].item = job[k].item => j = k

OverlapsMarked ==
    \A j, k \in Jobs :
        Refreshes(job[j]) /\ Refreshes(job[k]) /\ job[j].item = job[k].item =>
            j = k \/ "overlap" \in gaps[job[j].item]

JobsHold == DOMAIN job = Jobs /\ (\A j \in Jobs : JobHolds(job[j])) /\ OneMaker /\ OverlapsMarked

RowHolds(i) ==
    \/ rows[i] = None
    \/ rows[i] \in Row(i) /\ rows[i].gen = made[i] /\ made[i] > 0 /\ Stored(rows[i].ns)

\* The vectors of a source are in its namespace and have the ids of its texts.
VectorsAtHome(i) ==
    Clean(i) => \A v \in VectorsOf(i) : rows[i] # None /\ v.ns = Home(i) /\ v.idx \in Have(i)

\* A stored document has its texts, an indexed source its vectors.
Indexed(i) == rows[i] # None /\ rows[i].status = "indexed" /\ Sound(i) => AllSent(i)
Finished(d) == rows[d] # None /\ rows[d].status # "indexing" /\ "unready" \notin gaps[d] => Complete(d)

ItemHolds(i) ==
    /\ RowHolds(i) /\ Indexed(i)
    /\ i \in Single => VectorsAtHome(i)
    /\ i \in Docs => Finished(i)

TextsHold ==
    /\ \A t \in texts : /\ t.item \in Items /\ rows[t.item] # None /\ rows[t.item].gen = t.gen
                        /\ t.idx \in Nat \ {0}
    /\ \E n \in Nat : \A t \in texts : t.idx <= n

NamesHold ==
    /\ namespaces \in [Namespaces -> Names \cup {"new", "gone"}]
    /\ \A m, n \in Namespaces : m # n /\ namespaces[m] = namespaces[n] => namespaces[m] \notin Names

VectorsHold == \A v \in vectors : v.ns \in Names /\ v.item \in Items /\ v.gen \in 1..made[v.item]

GapKinds == {"unsent", "unready", "removed", "moved", "overlap", "kept", "late", "unstored"}

StoreTyped ==
    /\ upload \in [Docs -> [text : Contents, size : ChunkSizes]]
    /\ DOMAIN rows = Items /\ made \in [Items -> Nat] /\ gaps \in [Items -> SUBSET GapKinds]
    /\ NamesHold /\ TextsHold /\ VectorsHold

BaseHolds == StoreTyped /\ (\A i \in Items : ItemHolds(i)) /\ JobsHold

-----------------------------------------------------------------------------
(* What a step may do to the rows, texts and vectors of a source without   *)
(* other requests taking notice.                                           *)

NamesStay ==
    \A n \in Namespaces :
        namespaces'[n] = namespaces[n] \/ namespaces[n] = "new" \/ namespaces'[n] = "gone"

\* The row goes, or is a new one, or is the same in what requests know of it.
RowStays(i) ==
    \/ rows'[i] = None
    \/ rows'[i].gen > made[i] /\ (i \in Single => made[i] = 0)
    \/ /\ rows[i] # None /\ rows'[i].gen = rows[i].gen
       /\ \/ rows'[i].ns = rows[i].ns /\ rows'[i].src = rows[i].src /\ Home(i)' = Home(i)
          \/ "overlap" \in gaps[i] /\ i \in Pages \cup Sheets

TextsStay(i) == i \in Docs /\ rows'[i] # None => Ids(i) \subseteq Ids(i)'
GapsStay(i) == gaps[i] \ {"unsent"} \subseteq gaps'[i]
SentStays(i) == /\ rows[i] # None /\ rows'[i] # None /\ rows'[i].gen = rows[i].gen
                /\ Sound(i)' /\ (Sound(i) => AllSent(i))
                => AllSent(i)'

SourceStays(i) == RowStays(i) /\ TextsStay(i) /\ GapsStay(i) /\ SentStays(i) /\ made[i] <= made'[i]

\* No vector of a document or a question comes unmarked.
VectorsStay(i) == Clean(i)' => Clean(i) /\ VectorsOf(i)' \subseteq VectorsOf(i)

\* A request that has not begun, or has ended, owes nothing.
LEMMA IdleHolds == JobHolds(NoJob) /\ JobHolds(NoJob)'
<1> USE DEF NoJob
<1>1. JobTyped(NoJob) /\ JobTyped(NoJob)'
  BY FS_EmptySet DEF JobTyped, Fields, Statuses
<1>2. /\ MakerHolds(NoJob) /\ NameHolds(NoJob) /\ WriterHolds(NoJob) /\ DeleterHolds(NoJob)
      /\ MakerHolds(NoJob)' /\ NameHolds(NoJob)' /\ WriterHolds(NoJob)' /\ DeleterHolds(NoJob)'
  BY DEF MakerHolds, Makes, NameHolds, Named, WriterHolds, Writes, HasRow, DeleterHolds
<1>3. SenderHolds(NoJob) /\ SenderHolds(NoJob)'
  BY DEF SenderHolds, Sends, Refreshes, HasRow
<1>4. QED
  BY <1>1, <1>2, <1>3 DEF JobHolds

\* What a request has to do with: a source, or nothing but a namespace.
LEMMA SubjectItem ==
    ASSUME NEW r, JobTyped(r)
    PROVE  /\ r.item \in Items \cup {None}
           /\ r.pc # "idle" /\ r.op # "deletens" => r.item \in Items
           /\ r.op \in {"create", "reindex", "deletedoc"} /\ r.pc # "idle" => r.item \in Docs
           /\ r.op = "web" /\ r.pc # "idle" => r.item \in Pages
           /\ r.op \in {"qa", "deleteqa"} /\ r.pc # "idle" => r.item \in Questions
           /\ r.op = "sync" /\ r.pc # "idle" => r.item \in Sheets
           /\ HasRow(r) \/ Named(r) \/ Sends(r) \/ Makes(r) \/ Refreshes(r) => r.pc # "idle"
<1>1. CASE r.pc = "idle"
  BY <1>1 DEF JobTyped, HasRow, Named, Sends, Makes, Refreshes
<1>2. CASE r.pc # "idle"
  BY <1>2 DEF JobTyped, Subjects, Items, Stores, Deletes
<1>3. QED
  BY <1>1, <1>2

\* Documents, pages, sheets and questions are different things.
LEMMA SourcesDiffer ==
    /\ Docs \cap (Pages \cup Sheets \cup Questions) = {} /\ Pages \cap (Sheets \cup Questions) = {}
    /\ Sheets \cap Questions = {} /\ None \notin Items
    /\ Docs \cup Pages \cup Sheets \cup Questions = Items /\ Single \subseteq Items
  BY KnowledgeAssumption DEF Items, Single

\* A request whose source stays as it is keeps what it knows of it.
LEMMA OthersHold ==
    ASSUME BaseHolds, NEW r, JobHolds(r), NamesStay, made' \in [Items -> Nat],
           r.item \in Items => SourceStays(r.item) /\ (Makes(r) => made'[r.item] = made[r.item]),
           DeleterHolds(r)'
    PROVE  JobHolds(r)'
<1>0. made \in [Items -> Nat] /\ JobTyped(r) /\ Items \cap {None} = {}
  BY SourcesDiffer DEF BaseHolds, StoreTyped, JobHolds
<1>1. JobTyped(r)'
  <2>1. CASE r.pc = "idle"
    BY <1>0, <2>1 DEF JobTyped, HasRow, Named
  <2>2. CASE r.pc # "idle" /\ r.op = "deletens"
    BY <1>0, <2>2 DEF JobTyped, HasRow, Named, Stores, Deletes
  <2>3. CASE r.pc # "idle" /\ r.op # "deletens"
    <3>1. r.item \in Items /\ made[r.item] \in Nat /\ made'[r.item] \in Nat /\ made[r.item] <= made'[r.item]
      BY <1>0, <2>3, SubjectItem DEF SourceStays
    <3>2. /\ HasRow(r) => r.gen \in 1..made'[r.item]
          /\ r.op \in Deletes => made'[r.item] > 0
      BY <1>0, <2>3, <3>1 DEF JobTyped
    <3>3. QED
      BY <1>0, <2>3, <3>2 DEF JobTyped
  <2>4. QED
    BY <2>1, <2>2, <2>3
<1>2. MakerHolds(r)'
  <2> SUFFICES ASSUME Makes(r) PROVE MakerHolds(r)'
    BY DEF MakerHolds
  <2>1. r.item \in Items
    BY <1>0, SubjectItem DEF Makes
  <2>2. QED
    BY <2>1 DEF MakerHolds, JobHolds
<1>3. ASSUME r.item \in Items, There(r)', HasRow(r)
      PROVE  /\ There(r) /\ rows'[r.item].gen = rows[r.item].gen
             /\ \/ /\ rows'[r.item].ns = rows[r.item].ns /\ rows'[r.item].src = rows[r.item].src
                   /\ Home(r.item)' = Home(r.item)
                \/ "overlap" \in gaps[r.item] /\ r.item \in Pages \cup Sheets
  <2>1. r.gen \in 1..made[r.item] /\ made[r.item] \in Nat
    BY <1>0, <1>3, SubjectItem DEF JobTyped
  <2>2. RowStays(r.item) /\ rows'[r.item].gen <= made[r.item]
    BY <1>3, <2>1 DEF SourceStays, There
  <2>3. ~(rows'[r.item].gen > made[r.item]) /\ rows'[r.item] # None
    BY <1>3, <2>1 DEF There
  <2>4. QED
    BY <1>3, <2>2, <2>3 DEF RowStays, There
<1>4. NameHolds(r)'
  <2>1. ASSUME r.op \in Stores \cup {"deletens"}, r.pc # "idle" PROVE r.ns \in Namespaces
    BY <1>0, <2>1 DEF JobTyped
  <2>2. r.op \in Stores \cup {"deletens"} /\ r.pc # "idle" => namespaces'[r.ns] # "new"
    BY <2>1 DEF JobHolds, NameHolds, NamesStay
  <2>3. r.op \in Stores \cup {"deletens"} /\ Named(r) /\ Stored(r.ns)' => namespaces'[r.ns] = r.name
    <3>1. Named(r) => r.pc # "idle"
      BY <1>0, SubjectItem
    <3>2. "new" \notin Names /\ "gone" \notin Names
      BY KnowledgeAssumption
    <3>3. QED
      BY <2>1, <3>1, <3>2 DEF JobHolds, NameHolds, NamesStay, Stored
  <2>4. ASSUME r.op \in Deletes, Named(r), rows'[r.item] # None PROVE Home(r.item)' = r.name
    <3>1. r.pc # "idle" /\ r.item \in Single /\ r.item \in Items /\ made[r.item] > 0
      BY <1>0, <2>4, SubjectItem DEF JobTyped, Deletes, Single
    <3>2. r.item \notin Pages \cup Sheets /\ made[r.item] # 0
      BY <1>0, <3>1, SourcesDiffer DEF Single
    <3>3. RowStays(r.item)
      BY <3>1 DEF SourceStays
    <3>4. Home(r.item)' = Home(r.item) /\ rows[r.item] # None
      BY <2>4, <3>1, <3>2, <3>3 DEF RowStays
    <3>5. QED
      BY <2>4, <3>4 DEF JobHolds, NameHolds
  <2>5. QED
    BY <2>2, <2>3, <2>4 DEF NameHolds
<1>5. WriterHolds(r)'
  <2> SUFFICES ASSUME Writes(r), There(r)' PROVE WriterHolds(r)'
    BY DEF WriterHolds
  <2>1. r.item \in Single /\ r.item \in Items /\ r.item \notin Pages \cup Sheets /\ HasRow(r)
    BY <1>0, SubjectItem, SourcesDiffer DEF Writes, Single
  <2>2. There(r) /\ Home(r.item)' = Home(r.item)
    BY <1>3, <2>1
  <2>3. r.item \in Docs => Ids(r.item) \subseteq Ids(r.item)'
    BY <2>1 DEF There, SourceStays, TextsStay
  <2>4. Home(r.item)' = r.name
    BY <2>2 DEF JobHolds, WriterHolds
  <2>5. r.ids \subseteq Have(r.item)'
    BY <2>2, <2>3 DEF JobHolds, WriterHolds, Have
  <2>6. r.op = "create" /\ r.pc \in {"embed", "texts"} => 1..(r.next - 1) \subseteq Ids(r.item)'
    <3>1. r.op = "create" => r.item \in Docs
      BY <1>0, <2>1, SubjectItem
    <3>2. QED
      BY <2>2, <2>3, <3>1 DEF JobHolds, WriterHolds
  <2>7. QED
    BY <2>4, <2>5, <2>6 DEF WriterHolds
<1>6. SenderHolds(r)'
  <2>1. CASE ~(HasRow(r) /\ There(r)')
    BY <2>1 DEF JobHolds, SenderHolds
  <2>2. CASE HasRow(r) /\ There(r)'
    <3>1. r.item \in Items /\ r.pc # "idle"
      <4>1. r.op # "deletens"
        BY <2>2 DEF HasRow
      <4>2. QED
        BY <1>0, <2>2, <4>1, SubjectItem
    <3>2. /\ There(r) /\ rows'[r.item].gen = rows[r.item].gen
          /\ \/ /\ rows'[r.item].ns = rows[r.item].ns /\ rows'[r.item].src = rows[r.item].src
                /\ Home(r.item)' = Home(r.item)
             \/ "overlap" \in gaps[r.item] /\ r.item \in Pages \cup Sheets
      BY <1>3, <2>2, <3>1
    <3>3. /\ "overlap" \in gaps[r.item] => "overlap" \in gaps'[r.item]
          /\ "moved" \in gaps[r.item] => "moved" \in gaps'[r.item]
          /\ "unready" \in gaps[r.item] => "unready" \in gaps'[r.item]
      BY <3>1 DEF SourceStays, GapsStay
    <3>4. r.op \in {"create", "reindex"} => /\ r.item \in Docs /\ r.item \notin Pages \cup Sheets
                                            /\ Ids(r.item) \subseteq Ids(r.item)'
      BY <1>0, <2>2, <3>1, SubjectItem, SourcesDiffer DEF SourceStays, TextsStay, There
    <3>5. r.op \in {"create", "reindex"} =>
             rows'[r.item].src = rows[r.item].src /\ (Complete(r.item) => Complete(r.item)')
      BY <3>2, <3>4 DEF Complete
    <3>6. r.op = "create" => /\ rows'[r.item].src = r.src
                             /\ r.pc \in {"vectors", "status"} => Complete(r.item)'
      BY <2>2, <3>2, <3>5 DEF JobHolds, SenderHolds
    <3>7. Refreshes(r) /\ gaps'[r.item] \cap {"overlap", "moved"} = {} =>
             rows'[r.item].src = r.src /\ Home(r.item)' = r.name
      BY <2>2, <3>2, <3>3 DEF JobHolds, SenderHolds
    <3>8. r.op = "reindex" /\ "unready" \notin gaps'[r.item] =>
             /\ Complete(r.item)'
             /\ r.pc \in {"embed", "vectors"} => Want(r.item)' \subseteq r.ids
      BY <2>2, <3>2, <3>3, <3>5 DEF JobHolds, SenderHolds, Want
    <3>9. r.pc = "status" /\ r.status = "indexed" /\ Sound(r.item)' => AllSent(r.item)'
      BY <2>2, <3>1, <3>2 DEF JobHolds, SenderHolds, SourceStays, SentStays, There
    <3>10. QED
      BY <2>2, <3>6, <3>7, <3>8, <3>9 DEF JobHolds, SenderHolds
  <2>3. QED
    BY <2>1, <2>2
<1>7. QED
  BY <1>1, <1>2, <1>4, <1>5, <1>6 DEF JobHolds

\* One that deletes does so unless vectors come.
LEMMA DeletersStay ==
    ASSUME NEW r, JobTyped(r), DeleterHolds(r), \A i \in Single : VectorsStay(i)
    PROVE  DeleterHolds(r)'
<1>1. r.op \in Deletes /\ r.pc # "idle" => r.item \in Single
  BY SubjectItem DEF Deletes, Single
<1>2. r.op \in Deletes /\ r.pc # "idle" /\ Clean(r.item)' =>
         Clean(r.item) /\ VectorsOf(r.item)' \subseteq VectorsOf(r.item)
  BY <1>1 DEF VectorsStay
<1>3. ASSUME NEW v \in vectors', v.item \in Single, Clean(v.item)' PROVE v \in vectors /\ Clean(v.item)
  <2>1. v \in VectorsOf(v.item)'
    BY <1>3 DEF VectorsOf
  <2>2. QED
    BY <1>3, <2>1 DEF VectorsStay, VectorsOf
<1>4. r.op = "deletedoc" /\ r.pc = "vectors" /\ Clean(r.item)' =>
         \A v \in VectorsOf(r.item)' : v.ns = r.name /\ v.idx \in r.ids
  BY <1>2 DEF DeleterHolds, Deletes
<1>5. r.op \in Deletes /\ r.pc = "drop" /\ Clean(r.item)' => VectorsOf(r.item)' = {}
  BY <1>2 DEF DeleterHolds
<1>6. r.op = "deletens" /\ r.pc = "drop" =>
         \A v \in vectors' : v.item \in Single /\ v.ns = r.name => ~Clean(v.item)'
  BY <1>3 DEF DeleterHolds
<1>7. QED
  BY <1>4, <1>5, <1>6 DEF DeleterHolds

\* The row, if it stays, says what it said, and vectors go only with their mark.
RowFixed(i) ==
    \/ rows'[i] = None
    \/ /\ rows[i] # None /\ rows'[i] \in Row(i) /\ Home(i)' = Home(i) /\ Home(i) \in Names
       /\ rows'[i].gen = rows[i].gen /\ rows'[i].ns = rows[i].ns /\ rows'[i].src = rows[i].src
       /\ rows'[i].status = rows[i].status /\ made'[i] = made[i]

VectorsFixed(i) == VectorsStay(i) /\ (rows[i] # None /\ rows'[i] = None /\ Clean(i)' => VectorsOf(i)' = {})

\* A source that stays as it is keeps what its row promises.
LEMMA ItemStays ==
    ASSUME BaseHolds, NEW i \in Items, RowFixed(i), TextsStay(i), GapsStay(i), SentStays(i),
           i \in Single => VectorsFixed(i)
    PROVE  ItemHolds(i)'
<1>1. ItemHolds(i)
  BY DEF BaseHolds
<1>2. CASE rows'[i] = None
  <2>1. i \in Single => VectorsAtHome(i)'
    <3> SUFFICES ASSUME i \in Single, Clean(i)' PROVE VectorsOf(i)' = {}
      BY DEF VectorsAtHome
    <3>1. CASE rows[i] = None
      BY <1>1, <3>1 DEF ItemHolds, VectorsAtHome, VectorsFixed, VectorsStay
    <3>2. CASE rows[i] # None
      BY <1>2, <3>2 DEF VectorsFixed
    <3>3. QED
      BY <3>1, <3>2
  <2>2. QED
    BY <1>2, <2>1 DEF ItemHolds, RowHolds, Indexed, Finished
<1>3. CASE rows'[i] # None
  <2>1. /\ rows[i] # None /\ rows'[i] \in Row(i) /\ Home(i)' = Home(i) /\ Home(i) \in Names
        /\ rows'[i].gen = rows[i].gen /\ rows'[i].ns = rows[i].ns /\ rows'[i].src = rows[i].src
        /\ rows'[i].status = rows[i].status /\ made'[i] = made[i]
    BY <1>3 DEF RowFixed
  <2>2. RowHolds(i)'
    BY <1>1, <2>1 DEF ItemHolds, RowHolds, Stored, Home
  <2>3. Indexed(i)'
    BY <1>1, <1>3, <2>1 DEF ItemHolds, Indexed, SentStays
  <2>4. i \in Docs => Finished(i)'
    BY <1>1, <1>3, <2>1 DEF ItemHolds, Finished, Complete, TextsStay, GapsStay
  <2>5. ASSUME i \in Single PROVE VectorsAtHome(i)'
    <3>1. i \in Docs => Ids(i) \subseteq Ids(i)'
      BY <1>3 DEF TextsStay
    <3>2. Have(i) \subseteq Have(i)'
      BY <3>1 DEF Have
    <3>3. QED
      BY <1>1, <1>3, <2>1, <2>5, <3>2 DEF ItemHolds, VectorsAtHome, VectorsFixed, VectorsStay
  <2>6. QED
    BY <2>2, <2>3, <2>4, <2>5 DEF ItemHolds
<1>4. QED
  BY <1>2, <1>3

\* A step of a request that goes on as it began.
Continues(q, r) == /\ Makes(r) => Makes(q) /\ r.item = q.item
                   /\ Refreshes(r) => Refreshes(q) /\ r.item = q.item

\* Makers stay alone, and requests that overlap stay marked.
LEMMA MarksStay ==
    ASSUME BaseHolds, \A i \in Items : GapsStay(i), NEW j \in Jobs, NEW r, Continues(job[j], r),
           job' = [job EXCEPT ![j] = r]
    PROVE  OneMaker' /\ OverlapsMarked'
<1>1. DOMAIN job = Jobs /\ OneMaker /\ OverlapsMarked /\ \A k \in Jobs : JobTyped(job[k])
  BY DEF BaseHolds, JobsHold, JobHolds
<1>2. DOMAIN job' = Jobs /\ \A k \in Jobs : job'[k] = IF k = j THEN r ELSE job[k]
  BY <1>1
<1>3. OneMaker'
  BY <1>1, <1>2 DEF OneMaker, Continues
<1>4. OverlapsMarked'
  <2>1. \A k \in Jobs : Refreshes(job[k]) => job[k].item \in Items
    <3> SUFFICES ASSUME NEW k \in Jobs, Refreshes(job[k]) PROVE job[k].item \in Items
      OBVIOUS
    <3>1. JobTyped(job[k]) /\ job[k].pc # "idle" /\ job[k].op # "deletens"
      BY <1>1 DEF Refreshes
    <3>2. QED
      BY <3>1, SubjectItem
  <2>2. \A i \in Items : "overlap" \in gaps[i] => "overlap" \in gaps'[i]
    BY DEF GapsStay
  <2>3. SUFFICES ASSUME NEW k \in Jobs, NEW l \in Jobs, k # l, Refreshes(job'[k]), Refreshes(job'[l]),
                        job'[k].item = job'[l].item
                 PROVE  "overlap" \in gaps'[job'[k].item]
    BY DEF OverlapsMarked
  <2>4. /\ Refreshes(job[k]) /\ job'[k].item = job[k].item
        /\ Refreshes(job[l]) /\ job'[l].item = job[l].item
    BY <1>2, <2>3 DEF Continues
  <2>5. "overlap" \in gaps[job[k].item]
    BY <1>1, <2>3, <2>4 DEF OverlapsMarked
  <2>6. QED
    BY <2>1, <2>2, <2>4, <2>5
<1>5. QED
  BY <1>3, <1>4

\* All that a step of a request owes the invariant.
LEMMA StepHolds ==
    ASSUME BaseHolds, StoreTyped', NamesStay, NEW j \in Jobs, NEW r, job' = [job EXCEPT ![j] = r],
           JobHolds(r)', OneMaker', OverlapsMarked', \A i \in Items : ItemHolds(i)',
           \A k \in Jobs \ {j} :
              /\ \A q : q = job[k] => DeleterHolds(q)'
              /\ job[k].item \in Items =>
                    /\ SourceStays(job[k].item)
                    /\ Makes(job[k]) => made'[job[k].item] = made[job[k].item]
    PROVE  BaseHolds'
<1>1. DOMAIN job = Jobs /\ made' \in [Items -> Nat] /\ \A k \in Jobs : JobHolds(job[k])
  BY DEF BaseHolds, JobsHold, StoreTyped
<1>2. DOMAIN job' = Jobs /\ \A k \in Jobs : job'[k] = IF k = j THEN r ELSE job[k]
  BY <1>1
<1>3. ASSUME NEW k \in Jobs \ {j} PROVE JobHolds(job[k])'
  <2>1. PICK q : q = job[k]
    OBVIOUS
  <2>2. q = job'[k]
    BY <1>2, <2>1
  <2>3. JobHolds(q)'
    <3>1. JobHolds(q) /\ DeleterHolds(q)'
      BY <1>1, <2>1
    <3>2. q.item \in Items => SourceStays(q.item) /\ (Makes(q) => made'[q.item] = made[q.item])
      BY <2>1
    <3>3. QED
      BY <1>1, <3>1, <3>2, OthersHold
  <2>4. QED
    BY <2>2, <2>3
<1>4. JobHolds(job[j])'
  BY <1>2
<1>5. JobsHold'
  BY <1>2, <1>3, <1>4 DEF JobsHold
<1>6. QED
  BY <1>5 DEF BaseHolds

\* A step that changes no row but by deleting it.
FixedStep ==
    /\ NamesStay /\ made' = made
    /\ \A i \in Items : /\ RowFixed(i) /\ TextsStay(i) /\ GapsStay(i) /\ SentStays(i)
                        /\ i \in Single => VectorsFixed(i)

\* Where only vectors and texts come and go, every source and request keeps its part.
LEMMA FixedStays ==
    ASSUME BaseHolds, StoreTyped', FixedStep
    PROVE  /\ \A i \in Items : ItemHolds(i)' /\ SourceStays(i)
           /\ \A k \in Jobs : \A q : q = job[k] => DeleterHolds(q)' /\ JobHolds(q)'
<1>1. \A i \in Items : ItemHolds(i)'
  BY ItemStays DEF FixedStep
<1>2. made \in [Items -> Nat] /\ made' \in [Items -> Nat] /\ \A k \in Jobs : JobHolds(job[k])
  BY DEF BaseHolds, JobsHold, StoreTyped
<1>3. ASSUME NEW i \in Items PROVE SourceStays(i)
  BY <1>2, <1>3 DEF FixedStep, RowFixed, SourceStays, RowStays
<1>4. \A i \in Single : VectorsStay(i)
  BY SourcesDiffer DEF FixedStep, VectorsFixed
<1>5. ASSUME NEW k \in Jobs, NEW q, q = job[k] PROVE DeleterHolds(q)' /\ JobHolds(q)'
  <2>1. JobHolds(q) /\ JobTyped(q) /\ DeleterHolds(q)
    BY <1>2, <1>5 DEF JobHolds
  <2>2. DeleterHolds(q)'
    BY <1>4, <2>1, DeletersStay
  <2>3. QED
    BY <1>2, <1>3, <2>1, <2>2, OthersHold DEF FixedStep
<1>6. QED
  BY <1>1, <1>3, <1>5

\* The same for a step of a request.
LEMMA FixedStepHolds ==
    ASSUME BaseHolds, StoreTyped', FixedStep, NEW j \in Jobs, NEW r, job' = [job EXCEPT ![j] = r],
           JobHolds(r)', OneMaker', OverlapsMarked'
    PROVE  BaseHolds'
<1>1. /\ \A i \in Items : ItemHolds(i)' /\ SourceStays(i)
      /\ \A k \in Jobs : \A q : q = job[k] => DeleterHolds(q)'
  BY FixedStays
<1>2. NamesStay /\ made' = made
  BY DEF FixedStep
<1>3. QED
  BY <1>1, <1>2, StepHolds

\* The owner's deletions and a new namespace: no request is involved.
LEMMA FixedWithoutJob ==
    ASSUME BaseHolds, StoreTyped', FixedStep, job' = job
    PROVE  BaseHolds'
<1>1. /\ \A i \in Items : ItemHolds(i)' /\ GapsStay(i)
      /\ \A k \in Jobs : \A q : q = job[k] => JobHolds(q)'
  BY FixedStays DEF FixedStep
<1>2. \A k \in Jobs : JobHolds(job[k])'
  <2> SUFFICES ASSUME NEW k \in Jobs PROVE JobHolds(job[k])'
    OBVIOUS
  <2>1. PICK q : q = job[k]
    OBVIOUS
  <2>2. q = job'[k] /\ JobHolds(q)'
    BY <1>1, <2>1
  <2>3. QED
    BY <2>2
<1>3. OneMaker' /\ OverlapsMarked' /\ DOMAIN job' = Jobs
  <2>1. DOMAIN job = Jobs /\ OneMaker /\ OverlapsMarked
    BY DEF BaseHolds, JobsHold
  <2>2. \A k \in Jobs : Refreshes(job[k]) => gaps[job[k].item] \ {"unsent"} \subseteq gaps'[job[k].item]
    <3> SUFFICES ASSUME NEW k \in Jobs, Refreshes(job[k]) PROVE job[k].item \in Items
      BY <1>1 DEF GapsStay
    <3>1. JobTyped(job[k]) /\ job[k].pc # "idle" /\ job[k].op # "deletens"
      BY DEF Refreshes, BaseHolds, JobsHold, JobHolds
    <3>2. QED
      BY <3>1, SubjectItem
  <2>3. QED
    BY <2>1, <2>2 DEF OneMaker, OverlapsMarked
<1>4. QED
  BY <1>1, <1>2, <1>3 DEF BaseHolds, JobsHold

\* A step that touches nothing but a request and the marks.
LEMMA StoreStays ==
    ASSUME BaseHolds, UNCHANGED <<upload, namespaces, rows, made, texts, vectors>>,
           gaps' \in [Items -> SUBSET GapKinds], \A i \in Items : gaps[i] \subseteq gaps'[i]
    PROVE  StoreTyped' /\ FixedStep
<1>1. StoreTyped'
  BY DEF BaseHolds, StoreTyped, NamesHold, TextsHold, VectorsHold
<1>2. ASSUME NEW i \in Items
      PROVE  /\ RowFixed(i) /\ TextsStay(i) /\ GapsStay(i) /\ SentStays(i) /\ VectorsFixed(i)
  <2>1. gaps[i] \subseteq gaps'[i]
    OBVIOUS
  <2>2. RowFixed(i)
    BY DEF BaseHolds, ItemHolds, RowHolds, RowFixed, Home, Stored
  <2>3. TextsStay(i)
    BY DEF TextsStay, Ids
  <2>4. GapsStay(i) /\ (Sound(i)' => Sound(i)) /\ (Clean(i)' => Clean(i))
    BY <2>1 DEF GapsStay, Sound, Clean
  <2>5. SentStays(i)
    BY <2>4 DEF SentStays, AllSent, Want, Home
  <2>6. VectorsFixed(i)
    BY <2>4 DEF VectorsFixed, VectorsStay, VectorsOf
  <2>7. QED
    BY <2>2, <2>3, <2>4, <2>5, <2>6
<1>3. QED
  BY <1>1, <1>2 DEF FixedStep, NamesStay

\* A step of a request that writes nothing.
LEMMA JobOnly ==
    ASSUME BaseHolds, UNCHANGED <<upload, namespaces, rows, made, texts, vectors>>,
           gaps' \in [Items -> SUBSET GapKinds], \A i \in Items : gaps[i] \subseteq gaps'[i],
           NEW j \in Jobs, NEW r, job' = [job EXCEPT ![j] = r],
           JobHolds(r)', OneMaker', OverlapsMarked'
    PROVE  BaseHolds'
  BY StoreStays, FixedStepHolds

\* A step of the connection.
LEMMA KnowledgeStutters ==
    ASSUME BaseHolds, UNCHANGED <<upload, namespaces, rows, made, texts, vectors, job, gaps>>
    PROVE  BaseHolds'
<1>1. gaps' \in [Items -> SUBSET GapKinds] /\ \A i \in Items : gaps[i] \subseteq gaps'[i]
  BY DEF BaseHolds, StoreTyped
<1>2. StoreTyped' /\ FixedStep
  BY <1>1, StoreStays
<1>3. QED
  BY <1>2, FixedWithoutJob

-----------------------------------------------------------------------------
(* The requests begin. *)

\* What happened to a source is not forgotten.
LEMMA GapKeeps ==
    ASSUME BaseHolds, NEW i \in Items, NEW g \in SUBSET GapKinds, Gap(i, g)
    PROVE  /\ gaps' \in [Items -> SUBSET GapKinds] /\ g \subseteq gaps'[i]
           /\ \A k \in Items : gaps[k] \subseteq gaps'[k]
  BY DEF BaseHolds, StoreTyped, Gap

\* Nor where nothing happens.
LEMMA NoGap ==
    ASSUME BaseHolds, UNCHANGED gaps
    PROVE  gaps' \in [Items -> SUBSET GapKinds] /\ \A k \in Items : gaps[k] \subseteq gaps'[k]
  BY DEF BaseHolds, StoreTyped

\* No request is under way where one begins.
LEMMA BeginKeeps ==
    ASSUME BaseHolds, NEW j \in Jobs, NEW op \in Stores, NEW i \in Subjects(op), NEW n \in Namespaces,
           NEW src \in Source(i), Begin(j, op, i, n, src), op \in {"create", "qa"} => Fresh(i)
    PROVE  BaseHolds'
<1>1. PICK r : r = [NoJob EXCEPT !.op = op, !.item = i, !.ns = n, !.src = src, !.pc = "ns"]
  OBVIOUS
<1>2. /\ DOMAIN r = Fields /\ r.op = op /\ r.item = i /\ r.ns = n /\ r.src = src /\ r.pc = "ns"
      /\ r.gen = 0 /\ r.ids = {} /\ r.next = 1 /\ r.embedded \in BOOLEAN /\ r.status = "indexed"
  BY <1>1 DEF NoJob, Fields
<1>3. job' = [job EXCEPT ![j] = r] /\ UNCHANGED <<upload, namespaces, rows, made, texts, vectors>>
  BY <1>1 DEF Begin, Set
<1>4. i \in Items /\ ~HasRow(r) /\ ~Named(r) /\ ~Sends(r)
  <2>1. i \in Items
    BY DEF Subjects, Stores, Items
  <2>2. QED
    BY <1>2, <2>1 DEF HasRow, Named, Sends, Stores
<1>5. PICK g \in SUBSET {"overlap"} :
        /\ Gap(i, g)
        /\ op \in {"web", "sync"} /\ (\E k \in Jobs : job[k].op = op /\ job[k].item = i) => "overlap" \in g
  <2>1. Gap(i, IF op \in {"web", "sync"} /\ \E k \in Jobs : job[k].op = op /\ job[k].item = i
               THEN {"overlap"} ELSE {})
    BY DEF Begin
  <2>2. QED
    BY <2>1
<1>6. /\ gaps' \in [Items -> SUBSET GapKinds] /\ g \subseteq gaps'[i]
      /\ \A k \in Items : gaps[k] \subseteq gaps'[k]
  <2>1. g \in SUBSET GapKinds
    BY DEF GapKinds
  <2>2. QED
    BY <1>4, <1>5, <2>1, GapKeeps
<1>7. JobHolds(r)'
  <2>1. JobTyped(r)'
    <3>1. r.pc \in Pcs(r.op) /\ r.item \in Subjects(r.op)
      BY <1>2 DEF Pcs, Stores
    <3>2. r.op \notin Deletes /\ IsFiniteSet(r.ids)
      BY <1>2, FS_EmptySet DEF Stores, Deletes
    <3>3. r.op \in Stores /\ r.src \in Source(r.item) /\ r.ns \in Namespaces
      BY <1>2
    <3>4. r.status \in Statuses \ {"indexing"}
      BY <1>2 DEF Statuses
    <3>5. QED
      BY <1>2, <1>4, <3>1, <3>2, <3>3, <3>4 DEF JobTyped
  <2>2. MakerHolds(r)'
    BY <1>2, <1>3, <1>4 DEF MakerHolds, Makes, HasRow, Fresh
  <2>3. NameHolds(r)'
    BY <1>2, <1>3, <1>4 DEF NameHolds, Named, Begin
  <2>4. WriterHolds(r)' /\ DeleterHolds(r)'
    BY <1>2, <1>4 DEF WriterHolds, Writes, HasRow, DeleterHolds
  <2>5. SenderHolds(r)'
    BY <1>2, <1>4 DEF SenderHolds, HasRow, Sends
  <2>6. QED
    BY <2>1, <2>2, <2>3, <2>4, <2>5 DEF JobHolds
<1>8. DOMAIN job = Jobs /\ OneMaker /\ OverlapsMarked /\ \A k \in Jobs : JobTyped(job[k])
  BY DEF BaseHolds, JobsHold, JobHolds
<1>9. \A k \in Jobs : job'[k] = IF k = j THEN r ELSE job[k]
  BY <1>3, <1>8
<1>10. OneMaker'
  <2>1. ASSUME NEW k \in Jobs, Makes(r) PROVE job[k].item # r.item
    BY <1>2, <2>1 DEF Makes, Fresh
  <2>2. QED
    BY <1>8, <1>9, <2>1 DEF OneMaker
<1>11. OverlapsMarked'
  <2>1. ASSUME NEW k \in Jobs, Refreshes(job[k]), Refreshes(r), job[k].item = r.item
        PROVE  "overlap" \in gaps'[i]
    <3>1. JobTyped(job[k]) /\ job[k].pc # "idle" /\ job[k].op \in {"web", "sync"} /\ op \in {"web", "sync"}
      BY <1>2, <1>8, <2>1 DEF Refreshes
    <3>2. job[k].op = op
      BY <1>2, <2>1, <3>1, SubjectItem, SourcesDiffer DEF Subjects
    <3>3. QED
      BY <1>2, <1>5, <1>6, <2>1, <3>1, <3>2
  <2>2. ASSUME NEW k \in Jobs, Refreshes(job[k]) PROVE gaps[job[k].item] \subseteq gaps'[job[k].item]
    <3>1. JobTyped(job[k]) /\ job[k].pc # "idle" /\ job[k].op # "deletens"
      BY <1>8, <2>2 DEF Refreshes
    <3>2. QED
      BY <1>6, <3>1, SubjectItem
  <2>3. QED
    BY <1>2, <1>8, <1>9, <2>1, <2>2 DEF OverlapsMarked
<1>12. QED
  BY <1>3, <1>6, <1>7, <1>10, <1>11, JobOnly

\* A document, a page, a question or a sheet is asked for.
LEMMA BeginsKeep ==
    ASSUME BaseHolds, NEW j \in Jobs, CreateDocument(j) \/ AddPage(j) \/ CreateQA(j) \/ SyncSheet(j)
    PROVE  BaseHolds'
<1>1. CASE CreateDocument(j)
  <2>1. PICK d \in Docs : \E n \in Namespaces :
          Fresh(d) /\ Begin(j, "create", d, n, [upload[d] EXCEPT !.size = Size(@)])
    BY <1>1 DEF CreateDocument
  <2>2. PICK n \in Namespaces : Fresh(d) /\ Begin(j, "create", d, n, [upload[d] EXCEPT !.size = Size(@)])
    BY <2>1
  <2>3. PICK src : src = [upload[d] EXCEPT !.size = Size(@)]
    OBVIOUS
  <2>4. upload[d] \in [text : Contents, size : ChunkSizes]
    BY DEF BaseHolds, StoreTyped
  <2>5. src = [upload[d] EXCEPT !.size = Size(upload[d].size)]
    BY <2>3
  <2>6. src \in [text : Contents, size : {Size(m) : m \in ChunkSizes}]
    BY <2>4, <2>5
  <2>7. src \in Source(d)
    <3>1. Source(d) = [text : Contents, size : {Size(m) : m \in ChunkSizes}]
      BY SourcesDiffer DEF Source
    <3>2. QED
      BY <2>6, <3>1
  <2>8. QED
    BY <2>2, <2>3, <2>7, BeginKeeps DEF Stores, Subjects
<1>2. CASE AddPage(j)
  <2>1. PICK p \in Pages : \E n \in Namespaces, words \in PageWords : Begin(j, "web", p, n, words)
    BY <1>2 DEF AddPage
  <2>2. PICK n \in Namespaces : \E words \in PageWords : Begin(j, "web", p, n, words)
    BY <2>1
  <2>3. PICK words \in PageWords : Begin(j, "web", p, n, words)
    BY <2>2
  <2>4. words \in Source(p)
    BY SourcesDiffer DEF Source
  <2>5. QED
    BY <2>3, <2>4, BeginKeeps DEF Stores, Subjects
<1>3. CASE CreateQA(j)
  <2>1. PICK q \in Questions : \E n \in Namespaces : Fresh(q) /\ Begin(j, "qa", q, n, q)
    BY <1>3 DEF CreateQA
  <2>2. PICK n \in Namespaces : Fresh(q) /\ Begin(j, "qa", q, n, q)
    BY <2>1
  <2>3. q \in Source(q)
    BY SourcesDiffer DEF Source
  <2>4. QED
    BY <2>2, <2>3, BeginKeeps DEF Stores, Subjects
<1>4. CASE SyncSheet(j)
  <2>1. PICK s \in Sheets : \E n \in Namespaces, m \in Matrices : Begin(j, "sync", s, n, m)
    BY <1>4 DEF SyncSheet
  <2>2. PICK n \in Namespaces : \E m \in Matrices : Begin(j, "sync", s, n, m)
    BY <2>1
  <2>3. PICK m \in Matrices : Begin(j, "sync", s, n, m)
    BY <2>2
  <2>4. m \in Source(s)
    BY SourcesDiffer DEF Source
  <2>5. QED
    BY <2>3, <2>4, BeginKeeps DEF Stores, Subjects
<1>5. QED
  BY <1>1, <1>2, <1>3, <1>4

\* A row as it is stored.
LEMMA RowType ==
    ASSUME BaseHolds, NEW i \in Items, rows[i] # None
    PROVE  /\ rows[i] \in Row(i) /\ rows[i].gen = made[i] /\ made[i] \in Nat \ {0}
           /\ rows[i].gen \in Nat /\ rows[i].ns \in Namespaces /\ Stored(rows[i].ns)
           /\ Home(i) \in Names /\ rows[i].status \in Statuses /\ rows[i].src \in Source(i)
<1>1. rows[i] \in Row(i) /\ rows[i].gen = made[i] /\ made[i] > 0 /\ Stored(rows[i].ns)
  BY DEF BaseHolds, ItemHolds, RowHolds
<1>2. made[i] \in Nat
  BY DEF BaseHolds, StoreTyped
<1>3. QED
  BY <1>1, <1>2 DEF Row, Home, Stored

\* Reindex begins with a document that is complete, or marked.
LEMMA ReindexKeeps ==
    ASSUME BaseHolds, NEW j \in Jobs, Reindex(j)
    PROVE  BaseHolds'
<1>1. PICK d \in Docs :
        /\ rows[d] # None
        /\ Set(j, [NoJob EXCEPT !.op = "reindex", !.item = d, !.pc = "chunks", !.gen = rows[d].gen,
                                !.ns = rows[d].ns, !.name = namespaces[rows[d].ns]])
        /\ Gap(d, IF rows[d].status = "indexing" THEN {"unready"} ELSE {})
  BY DEF Reindex
<1>2. PICK r : r = [NoJob EXCEPT !.op = "reindex", !.item = d, !.pc = "chunks", !.gen = rows[d].gen,
                                 !.ns = rows[d].ns, !.name = namespaces[rows[d].ns]]
  OBVIOUS
<1>3. /\ DOMAIN r = Fields /\ r.op = "reindex" /\ r.item = d /\ r.pc = "chunks" /\ r.gen = rows[d].gen
      /\ r.name = namespaces[rows[d].ns] /\ r.ids = {} /\ r.next = 1 /\ r.embedded \in BOOLEAN
      /\ r.status = "indexed"
  BY <1>2 DEF NoJob, Fields
<1>4. job' = [job EXCEPT ![j] = r] /\ UNCHANGED <<upload, namespaces, rows, made, texts, vectors>>
  BY <1>1, <1>2 DEF Reindex, Set
<1>5. d \in Items
  BY DEF Items
<1>6. /\ gaps' \in [Items -> SUBSET GapKinds] /\ \A k \in Items : gaps[k] \subseteq gaps'[k]
      /\ rows[d].status = "indexing" => "unready" \in gaps'[d]
  <2>1. PICK g \in SUBSET {"unready"} : Gap(d, g) /\ (rows[d].status = "indexing" => "unready" \in g)
    BY <1>1
  <2>2. g \in SUBSET GapKinds
    BY DEF GapKinds
  <2>3. QED
    BY <1>5, <2>1, <2>2, GapKeeps
<1>7. /\ made[d] \in Nat \ {0} /\ rows[d].gen = made[d] /\ Home(d) \in Names
  BY <1>1, <1>5, RowType
<1>8. ~(r.op \in Stores \cup {"deletens"}) /\ r.op \notin Deletes /\ ~Makes(r) /\ ~Refreshes(r) /\ ~Sends(r)
  BY <1>3 DEF Stores, Deletes, Makes, Refreshes, Sends
<1>9. JobHolds(r)'
  <2>1. JobTyped(r)'
    <3>1. r.pc \in Pcs(r.op) /\ r.item \in Subjects(r.op)
      BY <1>3 DEF Pcs, Subjects
    <3>2. IsFiniteSet(r.ids)
      BY <1>3, FS_EmptySet
    <3>3. r.gen \in Nat /\ r.gen \in 1..made[d] /\ r.name \in Names
      BY <1>3, <1>7 DEF Home
    <3>4. QED
      BY <1>3, <1>4, <1>8, <3>1, <3>2, <3>3 DEF JobTyped, Statuses
  <2>2. MakerHolds(r)' /\ NameHolds(r)' /\ DeleterHolds(r)'
    BY <1>3, <1>8 DEF MakerHolds, Makes, NameHolds, DeleterHolds
  <2>3. WriterHolds(r)'
    BY <1>3, <1>4 DEF WriterHolds, Home
  <2>4. "unready" \notin gaps'[d] => Complete(d)
    BY <1>1, <1>5, <1>6 DEF BaseHolds, ItemHolds, Finished
  <2>5. Complete(d)' <=> Complete(d)
    BY <1>4 DEF Complete, Ids
  <2>6. SenderHolds(r)'
    BY <1>3, <1>8, <2>4, <2>5 DEF SenderHolds, Refreshes, Sends
  <2>7. QED
    BY <2>1, <2>2, <2>3, <2>6 DEF JobHolds
<1>10. OneMaker' /\ OverlapsMarked'
  BY <1>4, <1>6, <1>8, MarksStay DEF Continues, GapsStay
<1>11. QED
  BY <1>4, <1>6, <1>9, <1>10, JobOnly

\* A document, a question or a namespace is to be deleted.
LEMMA DeleteBegins ==
    ASSUME BaseHolds, NEW j \in Jobs, DeleteDocument(j) \/ DeleteQA(j) \/ DeleteNamespace(j)
    PROVE  BaseHolds'
<1>0. UNCHANGED <<upload, namespaces, rows, made, texts, vectors>>
  BY DEF DeleteDocument, DeleteQA, DeleteNamespace
<1>1. ASSUME NEW r, job' = [job EXCEPT ![j] = r], r.op \in Deletes \cup {"deletens"}, JobHolds(r)',
             gaps' \in [Items -> SUBSET GapKinds], \A k \in Items : gaps[k] \subseteq gaps'[k]
      PROVE  BaseHolds'
  <2>1. Continues(job[j], r)
    BY <1>1 DEF Continues, Makes, Refreshes, Deletes
  <2>2. OneMaker' /\ OverlapsMarked'
    BY <1>1, <2>1, MarksStay DEF GapsStay
  <2>3. QED
    BY <1>0, <1>1, <2>2, JobOnly
<1>2. ASSUME NEW i \in Items, rows[i] # None PROVE made[i] > 0 /\ Home(i) \in Names
  BY <1>2, RowType
<1>3. IsFiniteSet({}) /\ IsFiniteSet({1})
  BY FS_EmptySet, FS_Singleton
<1>4. CASE DeleteDocument(j)
  <2>1. PICK d \in Docs :
          /\ rows[d] # None
          /\ Set(j, [NoJob EXCEPT !.op = "deletedoc", !.item = d, !.pc = "ids",
                                  !.name = namespaces[rows[d].ns]])
    BY <1>4 DEF DeleteDocument
  <2>2. PICK r : r = [NoJob EXCEPT !.op = "deletedoc", !.item = d, !.pc = "ids",
                                   !.name = namespaces[rows[d].ns]]
    OBVIOUS
  <2>3. /\ DOMAIN r = Fields /\ r.op = "deletedoc" /\ r.item = d /\ r.pc = "ids" /\ r.name = Home(d)
        /\ r.ids = {} /\ r.next = 1 /\ r.gen = 0 /\ r.embedded \in BOOLEAN /\ r.status = "indexed"
    BY <2>2 DEF NoJob, Fields, Home
  <2>4. made[d] > 0 /\ Home(d) \in Names
    BY <1>2, <2>1 DEF Items
  <2>5. r.pc \in Pcs(r.op) /\ r.item \in Subjects(r.op)
    BY <2>3 DEF Pcs, Subjects
  <2>6. JobTyped(r)'
    BY <1>0, <1>3, <2>3, <2>4, <2>5 DEF JobTyped, HasRow, Stores, Deletes, Statuses
  <2>7. MakerHolds(r)' /\ WriterHolds(r)' /\ DeleterHolds(r)'
    BY <2>3 DEF MakerHolds, Makes, WriterHolds, Writes, DeleterHolds
  <2>8. NameHolds(r)'
    BY <1>0, <2>3 DEF NameHolds, Stores, Home
  <2>9. SenderHolds(r)'
    BY <2>3 DEF SenderHolds, Sends, HasRow
  <2>10. JobHolds(r)' /\ job' = [job EXCEPT ![j] = r] /\ UNCHANGED gaps
    BY <1>4, <2>1, <2>2, <2>6, <2>7, <2>8, <2>9 DEF JobHolds, Set, DeleteDocument
  <2>11. QED
    BY <1>1, <2>3, <2>10, NoGap DEF Deletes
<1>5. CASE DeleteQA(j)
  <2>1. PICK q \in Questions :
          /\ rows[q] # None
          /\ \/ /\ Set(j, [NoJob EXCEPT !.op = "deleteqa", !.item = q, !.pc = "vectors", !.ids = {1},
                                        !.name = namespaces[rows[q].ns]])
                /\ UNCHANGED gaps
             \/ /\ Set(j, [NoJob EXCEPT !.op = "deleteqa", !.item = q, !.pc = "drop"])
                /\ Gap(q, {"kept"})
    BY <1>5 DEF DeleteQA
  <2>2. q \in Items /\ made[q] > 0 /\ Home(q) \in Names
    BY <1>2, <2>1 DEF Items
  <2>3. CASE /\ Set(j, [NoJob EXCEPT !.op = "deleteqa", !.item = q, !.pc = "vectors", !.ids = {1},
                                     !.name = namespaces[rows[q].ns]])
             /\ UNCHANGED gaps
    <3>1. PICK r : r = [NoJob EXCEPT !.op = "deleteqa", !.item = q, !.pc = "vectors", !.ids = {1},
                                     !.name = namespaces[rows[q].ns]]
      OBVIOUS
    <3>2. /\ DOMAIN r = Fields /\ r.op = "deleteqa" /\ r.item = q /\ r.pc = "vectors" /\ r.name = Home(q)
          /\ r.ids = {1} /\ r.next = 1 /\ r.gen = 0 /\ r.embedded \in BOOLEAN /\ r.status = "indexed"
      BY <3>1 DEF NoJob, Fields, Home
    <3>3. r.pc \in Pcs(r.op) /\ r.item \in Subjects(r.op)
      BY <3>2 DEF Pcs, Subjects
    <3>4. JobTyped(r)'
      BY <1>0, <1>3, <2>2, <3>2, <3>3 DEF JobTyped, HasRow, Stores, Deletes, Statuses
    <3>5. MakerHolds(r)' /\ WriterHolds(r)' /\ DeleterHolds(r)'
      BY <3>2 DEF MakerHolds, Makes, WriterHolds, Writes, DeleterHolds
    <3>6. NameHolds(r)'
      BY <1>0, <3>2 DEF NameHolds, Stores, Home
    <3>7. SenderHolds(r)'
      BY <3>2 DEF SenderHolds, Sends, HasRow
    <3>8. JobHolds(r)' /\ job' = [job EXCEPT ![j] = r]
      BY <2>3, <3>1, <3>4, <3>5, <3>6, <3>7 DEF JobHolds, Set
    <3>9. QED
      BY <1>1, <2>3, <3>2, <3>8, NoGap DEF Deletes
  <2>4. CASE /\ Set(j, [NoJob EXCEPT !.op = "deleteqa", !.item = q, !.pc = "drop"])
             /\ Gap(q, {"kept"})
    <3>1. PICK r : r = [NoJob EXCEPT !.op = "deleteqa", !.item = q, !.pc = "drop"]
      OBVIOUS
    <3>2. /\ DOMAIN r = Fields /\ r.op = "deleteqa" /\ r.item = q /\ r.pc = "drop"
          /\ r.ids = {} /\ r.next = 1 /\ r.gen = 0 /\ r.embedded \in BOOLEAN /\ r.status = "indexed"
      BY <3>1 DEF NoJob, Fields
    <3>3. r.pc \in Pcs(r.op) /\ r.item \in Subjects(r.op) /\ ~Named(r)
      BY <3>2 DEF Pcs, Subjects, Named, Stores
    <3>4. /\ gaps' \in [Items -> SUBSET GapKinds] /\ {"kept"} \subseteq gaps'[q]
          /\ \A k \in Items : gaps[k] \subseteq gaps'[k]
      BY <2>2, <2>4, GapKeeps DEF GapKinds
    <3>5. JobTyped(r)'
      BY <1>0, <1>3, <2>2, <3>2, <3>3 DEF JobTyped, HasRow, Stores, Deletes, Statuses
    <3>6. MakerHolds(r)' /\ WriterHolds(r)' /\ DeleterHolds(r)'
      BY <3>2, <3>4 DEF MakerHolds, Makes, WriterHolds, Writes, DeleterHolds, Clean
    <3>7. NameHolds(r)'
      BY <3>2, <3>3 DEF NameHolds, Stores
    <3>8. SenderHolds(r)'
      BY <3>2 DEF SenderHolds, Sends, HasRow
    <3>9. JobHolds(r)' /\ job' = [job EXCEPT ![j] = r]
      BY <2>4, <3>1, <3>5, <3>6, <3>7, <3>8 DEF JobHolds, Set
    <3>10. QED
      BY <1>1, <3>2, <3>4, <3>9 DEF Deletes
  <2>5. QED
    BY <2>1, <2>3, <2>4
<1>6. CASE DeleteNamespace(j)
  <2>1. PICK n \in Namespaces :
          /\ Stored(n)
          /\ Set(j, [NoJob EXCEPT !.op = "deletens", !.ns = n, !.name = namespaces[n], !.pc = "vectors"])
    BY <1>6 DEF DeleteNamespace
  <2>2. PICK r : r = [NoJob EXCEPT !.op = "deletens", !.ns = n, !.name = namespaces[n], !.pc = "vectors"]
    OBVIOUS
  <2>3. /\ DOMAIN r = Fields /\ r.op = "deletens" /\ r.item = None /\ r.pc = "vectors" /\ r.ns = n
        /\ r.name = namespaces[n] /\ r.ids = {} /\ r.next = 1 /\ r.gen = 0 /\ r.embedded \in BOOLEAN
        /\ r.status = "indexed"
    BY <2>2 DEF NoJob, Fields
  <2>4. r.pc \in Pcs(r.op) /\ r.item \in Subjects(r.op)
    BY <2>3 DEF Pcs, Subjects
  <2>5. JobTyped(r)'
    BY <1>0, <1>3, <2>1, <2>3, <2>4 DEF JobTyped, HasRow, Stores, Deletes, Statuses, Stored
  <2>6. MakerHolds(r)' /\ WriterHolds(r)' /\ DeleterHolds(r)'
    BY <2>3 DEF MakerHolds, Makes, WriterHolds, Writes, DeleterHolds, Deletes
  <2>7. NameHolds(r)'
    BY <1>0, <2>1, <2>3, KnowledgeAssumption DEF NameHolds, Deletes, Stored
  <2>8. SenderHolds(r)'
    BY <2>3 DEF SenderHolds, Sends, HasRow, Refreshes
  <2>9. JobHolds(r)' /\ job' = [job EXCEPT ![j] = r] /\ UNCHANGED gaps
    BY <1>6, <2>1, <2>2, <2>5, <2>6, <2>7, <2>8 DEF JobHolds, Set, DeleteNamespace
  <2>10. QED
    BY <1>1, <2>3, <2>9, NoGap
<1>7. QED
  BY <1>4, <1>5, <1>6

-----------------------------------------------------------------------------
(* Steps that touch nothing but the request. *)

Goes(q, r) == DOMAIN r = Fields /\ r.op = q.op /\ r.item = q.item /\ r.ns = q.ns /\ r.src = q.src
Keeps(q, r) == /\ Goes(q, r) /\ r.name = q.name /\ r.gen = q.gen /\ r.ids = q.ids /\ r.next = q.next
               /\ r.embedded = q.embedded /\ r.status = q.status

\* A request that goes on with what it has.
LEMMA PcOnly ==
    ASSUME NEW q, DOMAIN q = Fields, NEW pc, NEW r, r = [q EXCEPT !.pc = pc]
    PROVE  Keeps(q, r) /\ r.pc = pc
  BY DEF Keeps, Goes, Fields

\* What the invariant says of a request.
LEMMA JobType ==
    ASSUME BaseHolds, NEW j \in Jobs
    PROVE  JobHolds(job[j]) /\ JobTyped(job[j]) /\ DOMAIN job[j] = Fields /\ DOMAIN job = Jobs
  BY DEF BaseHolds, JobsHold, JobHolds, JobTyped

\* A request writes nothing and goes on.
LEMMA StepOn ==
    ASSUME BaseHolds, UNCHANGED <<upload, namespaces, rows, made, texts, vectors>>,
           gaps' \in [Items -> SUBSET GapKinds], \A i \in Items : gaps[i] \subseteq gaps'[i],
           NEW j \in Jobs, NEW r, job' = [job EXCEPT ![j] = r], JobHolds(r)',
           r.pc # "idle" => r.op = job[j].op /\ r.item = job[j].item /\ job[j].pc # "idle"
    PROVE  BaseHolds'
<1>1. Continues(job[j], r)
  BY DEF Continues, Makes, Refreshes
<1>2. OneMaker' /\ OverlapsMarked'
  BY <1>1, MarksStay DEF GapsStay
<1>3. QED
  BY <1>2, JobOnly

\* A request writes nothing and ends.
LEMMA JobEnds ==
    ASSUME BaseHolds, UNCHANGED <<upload, namespaces, rows, made, texts, vectors>>,
           gaps' \in [Items -> SUBSET GapKinds], \A i \in Items : gaps[i] \subseteq gaps'[i],
           NEW j \in Jobs, Set(j, NoJob)
    PROVE  BaseHolds'
<1>1. NoJob.pc = "idle"
  BY DEF NoJob
<1>2. QED
  BY <1>1, IdleHolds, StepOn DEF Set

\* The namespace is read, and with it its name.
LEMMA GetNamespaceKeeps ==
    ASSUME BaseHolds, NEW j \in Jobs, GetNamespace(j)
    PROVE  BaseHolds'
<1>0. /\ UNCHANGED <<upload, namespaces, rows, made, texts, vectors, gaps>> /\ job[j].pc = "ns"
      /\ gaps' \in [Items -> SUBSET GapKinds] /\ \A i \in Items : gaps[i] \subseteq gaps'[i]
  BY NoGap DEF GetNamespace
<1>1. CASE Set(j, NoJob)
  BY <1>0, <1>1, JobEnds
<1>2. CASE Stored(job[j].ns) /\ ~Set(j, NoJob)
  <2>1. PICK q : q = job[j]
    OBVIOUS
  <2>2. JobHolds(q) /\ JobTyped(q) /\ DOMAIN q = Fields /\ q.pc = "ns"
    BY <1>0, <2>1, JobType
  <2>3. q.op \in Stores /\ ~HasRow(q)
    BY <2>2 DEF JobTyped, Pcs, Stores, Deletes, HasRow
  <2>4. PICK pc : /\ pc = CASE q.op = "qa" -> "embed" [] q.op = "sync" -> "fetch" [] OTHER -> "row"
                  /\ pc \in {"embed", "fetch", "row"}
    OBVIOUS
  <2>5. PICK r : r = [q EXCEPT !.name = namespaces[q.ns], !.pc = pc]
    OBVIOUS
  <2>6. /\ Goes(q, r) /\ r.name = namespaces[q.ns] /\ r.pc = pc /\ r.gen = q.gen /\ r.ids = q.ids
        /\ r.next = q.next /\ r.embedded = q.embedded /\ r.status = q.status
    BY <2>2, <2>5 DEF Goes, Fields
  <2>7. job' = [job EXCEPT ![j] = r]
    BY <1>0, <1>2, <2>1, <2>4, <2>5 DEF GetNamespace, Set
  <2>8. r.pc \in Pcs(r.op) /\ ~HasRow(r) /\ ~Sends(r) /\ r.op \in Stores
    BY <2>3, <2>4, <2>6 DEF Goes, Pcs, Stores, HasRow, Sends
  <2>9. r.op \notin Deletes /\ r.pc \notin {"idle", "ns"} /\ r.name \in Names
    BY <1>2, <2>1, <2>3, <2>4, <2>6 DEF Goes, Deletes, Stores, Stored
  <2>10. JobTyped(r)'
    BY <1>0, <2>2, <2>3, <2>6, <2>8, <2>9 DEF JobTyped, Goes
  <2>11. MakerHolds(r)'
    BY <1>0, <2>2, <2>3, <2>6, <2>8 DEF MakerHolds, JobHolds, Goes, Makes
  <2>12. NameHolds(r)'
    BY <1>0, <2>2, <2>3, <2>6, <2>9 DEF NameHolds, JobHolds, Goes
  <2>13. WriterHolds(r)' /\ DeleterHolds(r)' /\ SenderHolds(r)'
    BY <2>4, <2>6, <2>8, <2>9 DEF WriterHolds, Writes, DeleterHolds, SenderHolds, Goes, Stores, Deletes
  <2>14. QED
    BY <1>0, <2>1, <2>2, <2>6, <2>7, <2>10, <2>11, <2>12, <2>13, StepOn DEF JobHolds, Goes
<1>3. QED
  BY <1>1, <1>2 DEF GetNamespace

\* Texts are embedded, or not.
LEMMA EmbedBatchKeeps ==
    ASSUME BaseHolds, NEW j \in Jobs, EmbedBatch(j)
    PROVE  BaseHolds'
<1>0. /\ UNCHANGED <<upload, namespaces, rows, made, texts, vectors, gaps>> /\ job[j].pc = "embed"
      /\ gaps' \in [Items -> SUBSET GapKinds] /\ \A i \in Items : gaps[i] \subseteq gaps'[i]
  BY NoGap DEF EmbedBatch
<1>1. PICK q : q = job[j]
  OBVIOUS
<1>2. JobHolds(q) /\ JobTyped(q) /\ DOMAIN q = Fields /\ q.pc = "embed"
  BY <1>0, <1>1, JobType
<1>3. PICK ok \in BOOLEAN :
        Set(j, AfterEmbedding([q EXCEPT !.embedded = ok, !.status = IF ok THEN "indexed" ELSE "pending"], ok))
  BY <1>1 DEF EmbedBatch
<1>4. PICK status \in {"indexed", "pending"} : status = (IF ok THEN "indexed" ELSE "pending")
  OBVIOUS
<1>5. PICK e : e = [q EXCEPT !.embedded = ok, !.status = status]
  OBVIOUS
<1>6. /\ Goes(q, e) /\ e.name = q.name /\ e.gen = q.gen /\ e.ids = q.ids /\ e.next = q.next
      /\ e.embedded = ok /\ e.status = status
  BY <1>2, <1>5 DEF Goes, Fields
<1>7. Set(j, AfterEmbedding(e, ok)) /\ q.op \in {"create", "reindex", "web", "qa", "sync"}
  BY <1>2, <1>3, <1>4, <1>5 DEF JobTyped, Pcs, Stores, Deletes
<1>8. CASE Set(j, NoJob)
  BY <1>0, <1>8, JobEnds
<1>9. CASE ~Set(j, NoJob)
  <2>1. PICK pc : /\ Set(j, [e EXCEPT !.pc = pc])
                  /\ \/ q.op = "create" /\ pc = "texts"
                     \/ q.op = "qa" /\ pc = "row"
                     \/ q.op = "web" /\ pc = "status" /\ ~ok
                     \/ q.op \in {"web", "reindex", "sync"} /\ pc = "vectors"
    BY <1>6, <1>7, <1>9 DEF AfterEmbedding, PageEmbedded, Goes
  <2>2. PICK r : r = [e EXCEPT !.pc = pc]
    OBVIOUS
  <2>3. DOMAIN e = Fields
    BY <1>6 DEF Goes
  <2>4. Keeps(e, r) /\ r.pc = pc
    BY <2>2, <2>3, PcOnly
  <2>5. /\ Goes(q, r) /\ r.name = q.name /\ r.gen = q.gen /\ r.ids = q.ids /\ r.next = q.next
        /\ r.embedded = ok /\ r.status = status
    BY <1>6, <2>4 DEF Keeps, Goes
  <2>6. job' = [job EXCEPT ![j] = r] /\ r.pc # "idle" /\ r.op = q.op /\ r.item = q.item
    BY <2>1, <2>2, <2>4, <2>5 DEF Set, Goes
  <2>7. r.pc \in Pcs(r.op)
    BY <2>1, <2>4, <2>6 DEF Pcs
  <2>8. /\ HasRow(r) <=> HasRow(q)
        /\ Named(r) <=> Named(q)
        /\ Sends(r) => Sends(q)
        /\ There(r) <=> There(q)
    BY <1>2, <2>1, <2>4, <2>5, <2>6 DEF HasRow, Named, Sends, There, Stores
  <2>9. JobTyped(r)'
    BY <1>0, <1>2, <1>4, <2>5, <2>6, <2>7, <2>8 DEF JobTyped, Statuses, Goes
  <2>10. MakerHolds(r)' /\ NameHolds(r)'
    BY <1>0, <1>2, <2>5, <2>6, <2>8 DEF MakerHolds, NameHolds, JobHolds, Makes, Goes, Home, Stored
  <2>11. WriterHolds(r)'
    BY <1>0, <1>2, <2>4, <2>5, <2>6, <2>8 DEF WriterHolds, JobHolds, Writes, There, Home, Have, Ids
  <2>12. DeleterHolds(r)'
    BY <1>7, <2>6 DEF DeleterHolds, Deletes
  <2>13. SenderHolds(r)'
    <3>1. r.op = "create" /\ r.pc = "texts" => r.embedded \/ r.status # "indexed"
      BY <1>4, <2>5
    <3>2. Sends(r) => r.ids = DOMAIN PartsOf(r.item, r.src)
      BY <1>2, <2>5, <2>6, <2>8 DEF JobHolds, SenderHolds, Goes
    <3>3. r.op = "create" /\ HasRow(r) /\ There(r)' =>
             rows'[r.item].src = r.src /\ r.pc \notin {"vectors", "status"}
      BY <1>0, <1>2, <2>1, <2>4, <2>5, <2>6, <2>8 DEF JobHolds, SenderHolds, Goes, There
    <3>4. Refreshes(r) /\ HasRow(r) /\ There(r)' /\ gaps'[r.item] \cap {"overlap", "moved"} = {} =>
             rows'[r.item].src = r.src /\ Home(r.item)' = r.name
      BY <1>0, <1>2, <2>5, <2>6, <2>8 DEF JobHolds, SenderHolds, Goes, There, Refreshes, Home
    <3>5. r.op = "reindex" /\ HasRow(r) /\ There(r)' /\ "unready" \notin gaps'[r.item] =>
             Complete(r.item)' /\ Want(r.item)' \subseteq r.ids
      BY <1>0, <1>2, <2>5, <2>6, <2>8 DEF JobHolds, SenderHolds, Goes, There, Complete, Want, Ids
    <3>6. ~(r.pc = "status" /\ r.status = "indexed")
      BY <1>4, <2>1, <2>4, <2>5
    <3>7. QED
      BY <3>1, <3>2, <3>3, <3>4, <3>5, <3>6 DEF SenderHolds
  <2>14. QED
    BY <1>0, <1>1, <1>2, <2>6, <2>9, <2>10, <2>11, <2>12, <2>13, StepOn DEF JobHolds
<1>10. QED
  BY <1>8, <1>9

\* The ids of the texts of a source, and of the texts that it is embedded as.
LEMMA IdsType ==
    ASSUME BaseHolds, NEW i
    PROVE  Ids(i) \in SUBSET Nat /\ IsFiniteSet(Ids(i))
<1>1. PICK n \in Nat : \A t \in texts : t.idx <= n
  BY DEF BaseHolds, StoreTyped, TextsHold
<1>2. \A x \in Ids(i) : x \in Nat \ {0} /\ x <= n
  BY <1>1 DEF Ids, BaseHolds, StoreTyped, TextsHold
<1>3. Ids(i) \in SUBSET Nat
  BY <1>2
<1>4. QED
  BY <1>2, <1>3, FS_BoundedSetOfNaturals

\* The chunks of a document cover what it says.
LEMMA DocumentParts ==
    ASSUME NEW d \in Docs, NEW src \in Source(d)
    PROVE  /\ PartsOf(d, src) \in Seq(Seq(Pieces(Sentences)))
           /\ ChunksCover(PartsOf(d, src), src.text, src.size)
<1>1. src.text \in Contents /\ src.size \in {Size(n) : n \in ChunkSizes}
  BY SourcesDiffer DEF Source
<1>2. src.text \in Seq(Sentences) /\ src.size \in Nat \ {0}
  BY <1>1, TextsAssumption, KnowledgeAssumption DEF Size
<1>3. IsSentences(Sentences)
  BY TextsAssumption DEF IsSentences
<1>4. PICK overlap \in Nat : overlap = IF src.size \div 5 < 50 THEN 0 ELSE src.size \div 5
  BY <1>2
<1>5. PICK text \in Seq(Sentences), size \in Nat \ {0} : text = src.text /\ size = src.size
  BY <1>2
<1>6. PartsOf(d, src) = chunkText(src.text, src.size)
  BY SourcesDiffer DEF PartsOf
<1>7. PartsOf(d, src) = chunkDocText(text, size, overlap)
  BY <1>4, <1>5, <1>6, Zenon DEF chunkText
<1>8. QED
  BY <1>3, <1>5, <1>7, DocumentCovered

\* The row texts of a sheet cover its cells.
LEMMA SheetParts ==
    ASSUME NEW s \in Sheets, NEW src \in Source(s)
    PROVE  /\ RowsCover(PartsOf(s, src), src)
           /\ \E R : PartsOf(s, src) \in Seq(R)
<1>1. src \in Seq(Seq(STRING))
  BY TextsAssumption, SourcesDiffer DEF Source
<1>2. PartsOf(s, src) = parseTableWithSmartAnalysis(src)
  BY SourcesDiffer DEF PartsOf
<1>3. QED
  BY <1>1, <1>2, SheetCovered

\* A source is embedded as a sequence of texts.
LEMMA PartsType ==
    ASSUME NEW i \in Docs \cup Pages \cup Sheets, NEW src \in Source(i)
    PROVE  \E n \in Nat : DOMAIN PartsOf(i, src) = 1..n /\ (i \notin Pages => n = Len(PartsOf(i, src)))
<1>1. CASE i \in Docs \cup Sheets
  <2>1. PICK R : PartsOf(i, src) \in Seq(R)
    BY <1>1, DocumentParts, SheetParts
  <2>2. QED
    BY <1>1, <2>1, SourcesDiffer
<1>2. CASE i \in Pages
  <2>1. src \in Nat /\ PartsOf(i, src) = chunkTextWithOverlap(src, 500, 50)
    BY <1>2, SourcesDiffer, KnowledgeAssumption DEF Source, PartsOf
  <2>2. CASE src = 0
    <3>1. PartsOf(i, src) = <<>>
      BY <2>1, <2>2 DEF chunkTextWithOverlap
    <3>2. DOMAIN PartsOf(i, src) = 1..0
      BY <3>1
    <3>3. QED
      BY <1>2, <3>2
  <2>3. CASE src # 0
    <3>1. PICK n \in Nat : n = IF src <= 500 THEN 1 ELSE (src - 500 + (500 - 50) - 1) \div (500 - 50) + 1
      BY <2>1
    <3>2. DOMAIN PartsOf(i, src) = 1..n
      BY <2>1, <2>3, <3>1 DEF chunkTextWithOverlap
    <3>3. QED
      BY <1>2, <3>2
  <2>4. QED
    BY <2>2, <2>3
<1>3. QED
  BY <1>1, <1>2

\* They are finitely many.
LEMMA PartsFinite ==
    ASSUME NEW i \in Docs \cup Pages \cup Sheets, NEW src \in Source(i)
    PROVE  DOMAIN PartsOf(i, src) \in SUBSET Nat /\ IsFiniteSet(DOMAIN PartsOf(i, src))
<1>1. PICK n \in Nat : DOMAIN PartsOf(i, src) = 1..n
  BY PartsType
<1>2. QED
  BY <1>1, FS_Interval

\* Reindex reads the chunks that are there.
LEMMA ReadChunksKeeps ==
    ASSUME BaseHolds, NEW j \in Jobs, ReadChunks(j)
    PROVE  BaseHolds'
<1>0. /\ UNCHANGED <<upload, namespaces, rows, made, texts, vectors, gaps>>
      /\ gaps' \in [Items -> SUBSET GapKinds] /\ \A i \in Items : gaps[i] \subseteq gaps'[i]
  BY NoGap DEF ReadChunks
<1>1. CASE Set(j, NoJob)
  BY <1>0, <1>1, JobEnds
<1>2. CASE ~Set(j, NoJob)
  <2>1. PICK q : q = job[j]
    OBVIOUS
  <2>2. JobHolds(q) /\ JobTyped(q) /\ DOMAIN q = Fields /\ q.op = "reindex" /\ q.pc = "chunks"
    BY <2>1, JobType DEF ReadChunks, At
  <2>3. PICK ids : ids = Ids(q.item)
    OBVIOUS
  <2>4. PICK r : r = [q EXCEPT !.pc = "embed", !.ids = ids]
    OBVIOUS
  <2>5. /\ Goes(q, r) /\ r.name = q.name /\ r.gen = q.gen /\ r.ids = ids /\ r.next = q.next
        /\ r.embedded = q.embedded /\ r.status = q.status /\ r.pc = "embed"
    BY <2>2, <2>4 DEF Goes, Fields
  <2>6. job' = [job EXCEPT ![j] = r]
    BY <1>2, <2>1, <2>3, <2>4 DEF ReadChunks, Set
  <2>7. ids \in SUBSET Nat /\ IsFiniteSet(ids)
    BY <2>3, IdsType
  <2>8. /\ r.op = "reindex" /\ r.item = q.item /\ q.item \in Docs /\ q.item \notin Questions
        /\ r.op \notin Stores \cup Deletes
    BY <2>2, <2>5, SubjectItem, SourcesDiffer DEF Goes, Stores, Deletes
  <2>9. HasRow(r) /\ HasRow(q) /\ Named(q) /\ ~Sends(r) /\ r.pc \in Pcs(r.op) /\ (There(r) <=> There(q))
    BY <2>2, <2>5, <2>8 DEF HasRow, Named, Sends, Pcs, There
  <2>10. JobTyped(r)'
    BY <1>0, <2>2, <2>5, <2>7, <2>8, <2>9 DEF JobTyped, Goes
  <2>11. MakerHolds(r)' /\ NameHolds(r)' /\ DeleterHolds(r)'
    BY <2>8 DEF MakerHolds, Makes, NameHolds, DeleterHolds
  <2>12. WriterHolds(r)'
    BY <1>0, <2>2, <2>3, <2>5, <2>8, <2>9 DEF WriterHolds, JobHolds, Writes, There, Home, Have, Ids
  <2>13. SenderHolds(r)'
    <3>1. There(r)' /\ "unready" \notin gaps'[r.item] => Complete(r.item)' /\ Want(r.item)' \subseteq r.ids
      BY <1>0, <2>2, <2>3, <2>5, <2>8, <2>9 DEF JobHolds, SenderHolds, There, Complete, Want, Ids
    <3>2. QED
      BY <2>5, <2>8, <2>9, <3>1 DEF SenderHolds, Refreshes
  <2>14. QED
    BY <1>0, <2>1, <2>2, <2>6, <2>8, <2>10, <2>11, <2>12, <2>13, StepOn DEF JobHolds
<1>3. QED
  BY <1>1, <1>2

\* As long as the row is there, its vectors are known to the one that deletes it.
LEMMA ReadIdsKeeps ==
    ASSUME BaseHolds, NEW j \in Jobs, ReadIds(j)
    PROVE  BaseHolds'
<1>0. UNCHANGED <<upload, namespaces, rows, made, texts, vectors>>
  BY DEF ReadIds
<1>1. PICK q : q = job[j]
  OBVIOUS
<1>2. JobHolds(q) /\ JobTyped(q) /\ DOMAIN q = Fields /\ q.op = "deletedoc" /\ q.pc = "ids"
  BY <1>1, JobType DEF ReadIds, At
<1>3. q.item \in Docs /\ q.item \in Items /\ q.item \in Single /\ Named(q)
  BY <1>2, SubjectItem DEF Single, Named
<1>4. ASSUME NEW r, Goes(q, r), r.name = q.name, r.gen = q.gen, r.next = q.next, r.embedded = q.embedded,
             r.status = q.status, r.pc \in {"vectors", "drop"}, r.ids \in SUBSET Nat, IsFiniteSet(r.ids),
             job' = [job EXCEPT ![j] = r], gaps' \in [Items -> SUBSET GapKinds],
             \A i \in Items : gaps[i] \subseteq gaps'[i], DeleterHolds(r)'
      PROVE  BaseHolds'
  <2>1. r.op = "deletedoc" /\ r.item = q.item /\ ~HasRow(r) /\ ~Sends(r) /\ r.pc \in Pcs(r.op)
    BY <1>2, <1>4 DEF Goes, HasRow, Sends, Pcs
  <2>2. JobTyped(r)'
    BY <1>0, <1>2, <1>3, <1>4, <2>1 DEF JobTyped, Goes, Stores
  <2>3. NameHolds(r)'
    BY <1>0, <1>2, <1>3, <1>4, <2>1 DEF NameHolds, JobHolds, Stores, Home
  <2>4. MakerHolds(r)' /\ WriterHolds(r)' /\ SenderHolds(r)'
    BY <2>1 DEF MakerHolds, Makes, WriterHolds, Writes, SenderHolds
  <2>5. QED
    BY <1>0, <1>1, <1>2, <1>4, <2>1, <2>2, <2>3, <2>4, StepOn DEF JobHolds
<1>5. CASE Set(j, [job[j] EXCEPT !.pc = "vectors", !.ids = Ids(job[j].item)]) /\ UNCHANGED gaps
  <2>1. PICK ids : ids = Ids(q.item)
    OBVIOUS
  <2>2. PICK r : r = [q EXCEPT !.pc = "vectors", !.ids = ids]
    OBVIOUS
  <2>3. /\ Goes(q, r) /\ r.name = q.name /\ r.gen = q.gen /\ r.ids = ids /\ r.next = q.next
        /\ r.embedded = q.embedded /\ r.status = q.status /\ r.pc = "vectors"
    BY <1>2, <2>2 DEF Goes, Fields
  <2>4. ids \in SUBSET Nat /\ IsFiniteSet(ids)
    BY <2>1, IdsType
  <2>5. Clean(q.item) => \A v \in VectorsOf(q.item) : v.ns = q.name /\ v.idx \in ids
    <3>1. VectorsAtHome(q.item)
      BY <1>3 DEF BaseHolds, ItemHolds
    <3>2. rows[q.item] # None => Home(q.item) = q.name
      BY <1>2, <1>3 DEF JobHolds, NameHolds, Deletes
    <3>3. QED
      BY <1>3, <2>1, <3>1, <3>2 DEF VectorsAtHome, Have
  <2>6. DeleterHolds(r)'
    BY <1>0, <1>2, <1>5, <2>3, <2>5 DEF DeleterHolds, Goes, Clean, VectorsOf
  <2>7. QED
    BY <1>1, <1>4, <1>5, <2>1, <2>2, <2>3, <2>4, <2>6, NoGap DEF Set
<1>6. CASE To(j, "drop") /\ Gap(job[j].item, {"kept"})
  <2>1. PICK r : r = [q EXCEPT !.pc = "drop"]
    OBVIOUS
  <2>2. Keeps(q, r) /\ r.pc = "drop"
    BY <1>2, <2>1, PcOnly
  <2>3. /\ gaps' \in [Items -> SUBSET GapKinds] /\ {"kept"} \subseteq gaps'[q.item]
        /\ \A k \in Items : gaps[k] \subseteq gaps'[k]
    BY <1>1, <1>3, <1>6, GapKeeps DEF GapKinds
  <2>4. DeleterHolds(r)'
    BY <1>2, <2>2, <2>3 DEF DeleterHolds, Keeps, Goes, Clean
  <2>5. r.ids \in SUBSET Nat /\ IsFiniteSet(r.ids) /\ job' = [job EXCEPT ![j] = r]
    BY <1>1, <1>2, <1>6, <2>1, <2>2 DEF Keeps, JobTyped, To, Set
  <2>6. QED
    BY <1>4, <2>2, <2>3, <2>4, <2>5 DEF Keeps
<1>7. QED
  BY <1>5, <1>6 DEF ReadIds

\* A page is fetched, or it is an error.
LEMMA crawlKeeps ==
    ASSUME BaseHolds, NEW j \in Jobs, crawlAndChunk(j)
    PROVE  BaseHolds'
<1>0. /\ UNCHANGED <<upload, namespaces, rows, made, texts, vectors, gaps>>
      /\ gaps' \in [Items -> SUBSET GapKinds] /\ \A i \in Items : gaps[i] \subseteq gaps'[i]
  BY NoGap DEF crawlAndChunk
<1>1. PICK q : q = job[j]
  OBVIOUS
<1>2. JobHolds(q) /\ JobTyped(q) /\ DOMAIN q = Fields /\ q.op = "web" /\ q.pc = "crawl"
  BY <1>1, JobType DEF crawlAndChunk, At
<1>3. q.item \in Pages /\ q.src \in Source(q.item) /\ HasRow(q) /\ Named(q) /\ Refreshes(q)
  BY <1>2, SubjectItem DEF HasRow, Named, Refreshes, Stores, JobTyped
<1>4. PICK ids : ids = DOMAIN PartsOf(q.item, q.src)
  OBVIOUS
<1>5. ids \in SUBSET Nat /\ IsFiniteSet(ids)
  BY <1>3, <1>4, PartsFinite
<1>6. ASSUME NEW r, Goes(q, r), r.name = q.name, r.gen = q.gen, r.next = q.next, r.embedded = q.embedded,
             \/ r.pc = "embed" /\ r.ids = ids /\ r.status = q.status
             \/ r.pc = "status" /\ r.ids = q.ids /\ r.status = "error",
             job' = [job EXCEPT ![j] = r]
      PROVE  BaseHolds'
  <2>1. r.op = "web" /\ r.item = q.item /\ HasRow(r) /\ r.pc \in Pcs(r.op) /\ (There(r) <=> There(q))
    BY <1>2, <1>6 DEF Goes, HasRow, Pcs, There
  <2>2. r.op \in Stores /\ r.op \notin Deletes \cup {"create", "reindex", "qa", "deletens"}
    BY <2>1 DEF Stores, Deletes
  <2>3. r.ids \in SUBSET Nat /\ IsFiniteSet(r.ids) /\ r.status \in Statuses \ {"indexing"}
    BY <1>2, <1>5, <1>6 DEF JobTyped, Statuses
  <2>4. JobTyped(r)'
    BY <1>0, <1>2, <1>3, <1>6, <2>1, <2>2, <2>3 DEF JobTyped, Goes
  <2>5. NameHolds(r)'
    BY <1>0, <1>2, <1>3, <1>6, <2>2 DEF NameHolds, JobHolds, Stored, Goes
  <2>6. MakerHolds(r)' /\ WriterHolds(r)' /\ DeleterHolds(r)'
    BY <2>1 DEF MakerHolds, Makes, WriterHolds, Writes, DeleterHolds, Deletes
  <2>7. SenderHolds(r)'
    <3>1. Sends(r) => r.ids = DOMAIN PartsOf(r.item, r.src)
      BY <1>4, <1>6, <2>1 DEF Sends, Goes
    <3>2. There(r)' /\ gaps'[r.item] \cap {"overlap", "moved"} = {} =>
             rows'[r.item].src = r.src /\ Home(r.item)' = r.name
      BY <1>0, <1>2, <1>3, <1>6, <2>1 DEF JobHolds, SenderHolds, Goes, There, Home
    <3>3. ~(r.pc = "status" /\ r.status = "indexed")
      BY <1>6
    <3>4. QED
      BY <2>2, <3>1, <3>2, <3>3 DEF SenderHolds
  <2>8. QED
    BY <1>0, <1>1, <1>2, <1>6, <2>1, <2>4, <2>5, <2>6, <2>7, StepOn DEF JobHolds
<1>7. CASE Set(j, [job[j] EXCEPT !.pc = "embed", !.ids = DOMAIN Parts(j)])
  <2>1. PICK r : r = [q EXCEPT !.pc = "embed", !.ids = ids]
    OBVIOUS
  <2>2. /\ Goes(q, r) /\ r.name = q.name /\ r.gen = q.gen /\ r.ids = ids /\ r.next = q.next
        /\ r.embedded = q.embedded /\ r.status = q.status /\ r.pc = "embed"
    BY <1>2, <2>1 DEF Goes, Fields
  <2>3. job' = [job EXCEPT ![j] = r]
    BY <1>1, <1>4, <1>7, <2>1 DEF Set, Parts
  <2>4. QED
    BY <1>6, <2>2, <2>3
<1>8. CASE Set(j, [job[j] EXCEPT !.pc = "status", !.status = "error"])
  <2>1. PICK r : r = [q EXCEPT !.pc = "status", !.status = "error"]
    OBVIOUS
  <2>2. /\ Goes(q, r) /\ r.name = q.name /\ r.gen = q.gen /\ r.ids = q.ids /\ r.next = q.next
        /\ r.embedded = q.embedded /\ r.status = "error" /\ r.pc = "status"
    BY <1>2, <2>1 DEF Goes, Fields
  <2>3. job' = [job EXCEPT ![j] = r]
    BY <1>1, <1>8, <2>1 DEF Set
  <2>4. QED
    BY <1>6, <2>2, <2>3
<1>9. QED
  BY <1>7, <1>8 DEF crawlAndChunk

\* A sync before it writes.
LEMMA SyncGoes ==
    ASSUME BaseHolds, NEW j \in Jobs, UNCHANGED <<upload, namespaces, rows, made, texts, vectors, gaps>>,
           job[j].op = "sync", job[j].pc \in {"fetch", "csv", "ref", "values", "matrix"},
           NEW pc \in {"csv", "ref", "values", "matrix", "row"}, To(j, pc)
    PROVE  BaseHolds'
<1>1. PICK q : q = job[j]
  OBVIOUS
<1>2. /\ JobHolds(q) /\ JobTyped(q) /\ DOMAIN q = Fields /\ q.op = "sync"
      /\ q.pc \in {"fetch", "csv", "ref", "values", "matrix"}
  BY <1>1, JobType
<1>3. PICK r : r = [q EXCEPT !.pc = pc]
  OBVIOUS
<1>4. Keeps(q, r) /\ r.pc = pc /\ job' = [job EXCEPT ![j] = r]
  BY <1>1, <1>2, <1>3, PcOnly DEF To, Set
<1>5. /\ r.op = "sync" /\ r.item = q.item /\ ~HasRow(r) /\ ~Sends(r) /\ r.pc \in Pcs(r.op)
      /\ Named(q) /\ Named(r) /\ r.pc # "idle"
  BY <1>2, <1>4 DEF Keeps, Goes, HasRow, Sends, Pcs, Named, Stores
<1>6. JobTyped(r)'
  BY <1>2, <1>4, <1>5 DEF JobTyped, Keeps, Goes, Deletes
<1>7. NameHolds(r)'
  BY <1>2, <1>4, <1>5 DEF NameHolds, JobHolds, Stored, Keeps, Goes, Deletes, Stores
<1>8. MakerHolds(r)' /\ WriterHolds(r)' /\ DeleterHolds(r)' /\ SenderHolds(r)'
  BY <1>5 DEF MakerHolds, Makes, WriterHolds, Writes, DeleterHolds, Deletes, SenderHolds
<1>9. QED
  BY <1>1, <1>2, <1>4, <1>5, <1>6, <1>7, <1>8, StepOn, NoGap DEF JobHolds

\* A sheet is fetched.
LEMMA SyncBeginsKeep ==
    ASSUME BaseHolds, NEW j \in Jobs,
           FetchSheet(j) \/ fetchCSVMatrix(j) \/ resolveGoogleSheetRef(j)
             \/ fetchSheetMatrixWithOAuth(j) \/ ParseSheet(j)
    PROVE  BaseHolds'
<1>1. /\ UNCHANGED <<upload, namespaces, rows, made, texts, vectors, gaps>>
      /\ job[j].op = "sync" /\ job[j].pc \in {"fetch", "csv", "ref", "values", "matrix"}
      /\ \/ UNCHANGED job \/ Set(j, NoJob)
         \/ To(j, "csv") \/ To(j, "ref") \/ To(j, "values") \/ To(j, "matrix") \/ To(j, "row")
  BY DEF FetchSheet, fetchCSVMatrix, resolveGoogleSheetRef, fetchSheetMatrixWithOAuth,
     fetchGoogleSheetsAPI, ParseSheet, At
<1>2. CASE UNCHANGED job
  BY <1>1, <1>2, KnowledgeStutters
<1>3. CASE Set(j, NoJob)
  BY <1>1, <1>3, JobEnds, NoGap
<1>4. QED
  BY <1>1, <1>2, <1>3, SyncGoes

\* The service stops in the middle of a request.
LEMMA AbandonKeeps ==
    ASSUME BaseHolds, NEW j \in Jobs, Abandon(j)
    PROVE  BaseHolds'
<1>1. UNCHANGED <<upload, namespaces, rows, made, texts, vectors>> /\ Set(j, NoJob) /\ job[j].pc # "idle"
  BY DEF Abandon
<1>2. CASE UNCHANGED gaps
  BY <1>1, <1>2, JobEnds, NoGap
<1>3. CASE job[j].op = "sync" /\ gaps' = [gaps EXCEPT ![job[j].item] = gaps[job[j].item] \cup {"unstored"}]
  <2>1. job[j].item \in Items
    <3>1. JobTyped(job[j]) /\ job[j].op # "deletens"
      BY <1>3, JobType
    <3>2. QED
      BY <1>1, <3>1, SubjectItem
  <2>2. Gap(job[j].item, {"unstored"})
    BY <1>3 DEF Gap
  <2>3. gaps' \in [Items -> SUBSET GapKinds] /\ \A i \in Items : gaps[i] \subseteq gaps'[i]
    BY <2>1, <2>2, GapKeeps DEF GapKinds
  <2>4. QED
    BY <1>1, <2>3, JobEnds
<1>4. QED
  BY <1>2, <1>3 DEF Abandon

-----------------------------------------------------------------------------
(* Steps that change rows, texts or vectors. *)

\* The parts of StoreTyped that a step on one of them leaves alone.
LEMMA StoreParts ==
    ASSUME BaseHolds
    PROVE  /\ UNCHANGED upload => upload' \in [Docs -> [text : Contents, size : ChunkSizes]]
           /\ UNCHANGED made => made' \in [Items -> Nat]
           /\ UNCHANGED namespaces => NamesHold' /\ NamesStay
           /\ UNCHANGED <<vectors, made>> => VectorsHold'
  BY DEF BaseHolds, StoreTyped, NamesHold, VectorsHold, NamesStay

\* Rows that go take their texts with them.
LEMMA DropTexts ==
    ASSUME BaseHolds, NEW S \in SUBSET Items, Drop(S)
    PROVE  /\ DOMAIN rows' = Items /\ TextsHold'
           /\ \A i \in Items : /\ rows'[i] = IF i \in S THEN None ELSE rows[i]
                               /\ TextsStay(i)
<1>1. \A i \in Items : rows'[i] = IF i \in S THEN None ELSE rows[i]
  BY DEF Drop
<1>2. DOMAIN rows' = Items /\ texts' = {t \in texts : t.item \notin S}
  BY DEF Drop
<1>3. TextsHold'
  BY <1>1, <1>2 DEF BaseHolds, StoreTyped, TextsHold
<1>4. ASSUME NEW i \in Items PROVE TextsStay(i)
  <2>1. CASE i \in S
    BY <1>1, <2>1 DEF TextsStay
  <2>2. CASE i \notin S
    BY <1>2, <2>2 DEF TextsStay, Ids
  <2>3. QED
    BY <2>1, <2>2
<1>5. QED
  BY <1>1, <1>2, <1>3, <1>4

\* A step that drops rows without a vector left of documents and questions.
LEMMA DropFixed ==
    ASSUME BaseHolds, NEW S \in SUBSET Items, Drop(S), UNCHANGED <<upload, made, vectors, gaps>>,
           NamesHold', NamesStay, \A i \in S \cap Single : Clean(i) => VectorsOf(i) = {},
           \A i \in Items \ S : rows[i] # None => Home(i)' = Home(i)
    PROVE  StoreTyped' /\ FixedStep
<1>1. /\ DOMAIN rows' = Items /\ TextsHold'
      /\ \A i \in Items : /\ rows'[i] = IF i \in S THEN None ELSE rows[i]
                          /\ TextsStay(i)
  BY DropTexts
<1>2. StoreTyped'
  BY <1>1, StoreParts DEF StoreTyped, BaseHolds
<1>3. ASSUME NEW i \in Items
      PROVE  /\ RowFixed(i) /\ GapsStay(i) /\ SentStays(i) /\ (i \in Single => VectorsFixed(i))
  <2>1. GapsStay(i) /\ (Sound(i)' <=> Sound(i)) /\ (Clean(i)' <=> Clean(i)) /\ VectorsOf(i)' = VectorsOf(i)
    BY DEF GapsStay, Sound, Clean, VectorsOf
  <2>2. RowFixed(i)
    <3>1. CASE i \in S \/ rows[i] = None
      BY <1>1, <3>1 DEF RowFixed
    <3>2. CASE i \notin S /\ rows[i] # None
      BY <1>1, <3>2, RowType DEF RowFixed
    <3>3. QED
      BY <3>1, <3>2
  <2>3. SentStays(i)
    BY <1>1, <2>1 DEF SentStays, AllSent, Want
  <2>4. i \in Single => VectorsFixed(i)
    BY <1>1, <2>1 DEF VectorsFixed, VectorsStay
  <2>5. QED
    BY <2>1, <2>2, <2>3, <2>4
<1>4. QED
  BY <1>1, <1>2, <1>3 DEF FixedStep

\* The row of a page or a sheet goes, whatever its vectors.
LEMMA DeletePageKeeps ==
    ASSUME BaseHolds, DeletePage \/ DeleteSheet
    PROVE  BaseHolds'
<1>1. PICK i \in Pages \cup Sheets : Drop({i})
  BY DEF DeletePage, DeleteSheet
<1>2. {i} \in SUBSET Items /\ {i} \cap Single = {}
  BY SourcesDiffer DEF Single
<1>3. UNCHANGED <<upload, namespaces, made, vectors, job, gaps>>
  BY DEF DeletePage, DeleteSheet
<1>4. \A k \in Items \ {i} : rows[k] # None => Home(k)' = Home(k)
  BY <1>1, <1>3 DEF Home, Drop
<1>5. StoreTyped' /\ FixedStep
  BY <1>1, <1>2, <1>3, <1>4, StoreParts, DropFixed
<1>6. QED
  BY <1>3, <1>5, FixedWithoutJob

\* A request that ends a step in which rows may go.
LEMMA FixedEnds ==
    ASSUME BaseHolds, StoreTyped', FixedStep, NEW j \in Jobs, Set(j, NoJob)
    PROVE  BaseHolds'
<1>1. Continues(job[j], NoJob)
  BY DEF Continues, Makes, Refreshes, NoJob
<1>2. OneMaker' /\ OverlapsMarked'
  BY <1>1, MarksStay DEF FixedStep, Set
<1>3. QED
  BY <1>2, IdleHolds, FixedStepHolds DEF Set

\* The vectors have gone before the row.
LEMMA DeleteRowKeeps ==
    ASSUME BaseHolds, NEW j \in Jobs, DeleteRow(j)
    PROVE  BaseHolds'
<1>1. /\ UNCHANGED <<upload, namespaces, made, vectors, gaps>> /\ Set(j, NoJob)
      /\ job[j].pc = "drop" /\ job[j].op # "deletens"
  BY DEF DeleteRow
<1>2. CASE UNCHANGED <<rows, texts>>
  BY <1>1, <1>2, JobEnds, NoGap
<1>3. CASE Drop({job[j].item})
  <2>1. PICK i : i = job[j].item
    OBVIOUS
  <2>2. JobTyped(job[j]) /\ DeleterHolds(job[j])
    BY JobType DEF JobHolds
  <2>3. i \in Items /\ job[j].op \in Deletes
    BY <1>1, <2>1, <2>2, SubjectItem DEF JobTyped, Pcs, Stores, Deletes
  <2>4. Clean(i) => VectorsOf(i) = {}
    BY <1>1, <2>1, <2>2, <2>3 DEF DeleterHolds
  <2>5. {i} \in SUBSET Items /\ Drop({i})
    BY <1>3, <2>1, <2>3
  <2>6. \A k \in Items \ {i} : rows[k] # None => Home(k)' = Home(k)
    BY <1>1, <2>5 DEF Home, Drop
  <2>7. StoreTyped' /\ FixedStep
    BY <1>1, <2>4, <2>5, <2>6, StoreParts, DropFixed
  <2>8. QED
    BY <1>1, <2>7, FixedEnds
<1>4. QED
  BY <1>2, <1>3 DEF DeleteRow

\* A namespace goes with the rows in it, after their vectors.
LEMMA DropNamespaceKeeps ==
    ASSUME BaseHolds, NEW j \in Jobs, DropNamespace(j)
    PROVE  BaseHolds'
<1>1. /\ UNCHANGED <<upload, made, vectors, gaps>> /\ Set(j, NoJob)
      /\ job[j].op = "deletens" /\ job[j].pc = "drop"
  BY DEF DropNamespace, At
<1>2. CASE UNCHANGED <<namespaces, rows, texts>>
  BY <1>1, <1>2, JobEnds, NoGap
<1>3. CASE /\ namespaces' = [namespaces EXCEPT ![job[j].ns] = "gone"]
           /\ Drop({i \in Items : rows[i] # None /\ rows[i].ns = job[j].ns})
  <2>1. PICK n : n = job[j].ns
    OBVIOUS
  <2>2. PICK S \in SUBSET Items : S = {i \in Items : rows[i] # None /\ rows[i].ns = n}
    OBVIOUS
  <2>3. JobTyped(job[j]) /\ DeleterHolds(job[j]) /\ NameHolds(job[j])
    BY JobType DEF JobHolds
  <2>4. n \in Namespaces /\ (Stored(n) => namespaces[n] = job[j].name)
    BY <1>1, <2>1, <2>3 DEF JobTyped, NameHolds, Named
  <2>5. NamesHold /\ namespaces \in [Namespaces -> Names \cup {"new", "gone"}] /\ "gone" \notin Names
    BY KnowledgeAssumption DEF BaseHolds, StoreTyped, NamesHold
  <2>6. NamesHold' /\ NamesStay
    BY <1>3, <2>1, <2>4, <2>5 DEF NamesHold, NamesStay
  <2>7. ASSUME NEW i \in S \cap Single, Clean(i) PROVE VectorsOf(i) = {}
    <3>1. i \in Items /\ rows[i] # None /\ Home(i) = job[j].name
      BY <2>1, <2>2, <2>4, <2>7, RowType DEF Home
    <3>2. \A v \in VectorsOf(i) : v.ns = job[j].name
      BY <2>7, <3>1 DEF BaseHolds, ItemHolds, VectorsAtHome
    <3>3. \A v \in vectors : v.item \in Single /\ v.ns = job[j].name => ~Clean(v.item)
      BY <1>1, <2>3 DEF DeleterHolds
    <3>4. QED
      BY <2>7, <3>2, <3>3 DEF VectorsOf
  <2>8. \A i \in Items \ S : rows[i] # None => Home(i)' = Home(i)
    <3> SUFFICES ASSUME NEW i \in Items \ S, rows[i] # None PROVE Home(i)' = Home(i)
      OBVIOUS
    <3>1. rows'[i] = rows[i] /\ rows[i].ns # n
      BY <1>3, <2>1, <2>2 DEF Drop
    <3>2. rows[i].ns \in Namespaces
      BY RowType
    <3>3. QED
      BY <1>3, <2>1, <2>5, <3>1, <3>2 DEF Home
  <2>9. StoreTyped' /\ FixedStep
    <3>1. Drop(S)
      BY <1>3, <2>1, <2>2
    <3>2. QED
      BY <1>1, <2>6, <2>7, <2>8, <3>1, DropFixed
  <2>10. QED
    BY <1>1, <2>9, FixedEnds
<1>4. QED
  BY <1>2, <1>3 DEF DropNamespace

\* A new namespace takes a name that nobody has.
LEMMA CreateNamespaceKeeps ==
    ASSUME BaseHolds, CreateNamespace
    PROVE  BaseHolds'
<1>1. UNCHANGED <<upload, rows, made, texts, vectors, job, gaps>>
  BY DEF CreateNamespace
<1>2. PICK n \in Namespaces : \E name \in Names :
        /\ namespaces[n] = "new" /\ \A m \in Namespaces : namespaces[m] # name
        /\ namespaces' = [namespaces EXCEPT ![n] = name]
  BY DEF CreateNamespace
<1>3. PICK name \in Names :
        /\ namespaces[n] = "new" /\ \A m \in Namespaces : namespaces[m] # name
        /\ namespaces' = [namespaces EXCEPT ![n] = name]
  BY <1>2
<1>4. NamesHold' /\ NamesStay
  BY <1>3 DEF BaseHolds, StoreTyped, NamesHold, NamesStay
<1>5. StoreTyped'
  BY <1>1, <1>4 DEF BaseHolds, StoreTyped, TextsHold, VectorsHold
<1>6. ASSUME NEW i \in Items, rows[i] # None PROVE Home(i)' = Home(i)
  <2>1. rows[i].ns \in Namespaces /\ Stored(rows[i].ns) /\ "new" \notin Names
    BY <1>6, RowType, KnowledgeAssumption
  <2>2. rows[i].ns # n
    BY <1>3, <2>1 DEF Stored
  <2>3. QED
    BY <1>1, <1>3, <2>1, <2>2 DEF Home, BaseHolds, StoreTyped, NamesHold
<1>7. ASSUME NEW i \in Items
      PROVE  RowFixed(i) /\ TextsStay(i) /\ GapsStay(i) /\ SentStays(i) /\ VectorsFixed(i)
  <2>1. RowFixed(i)
    BY <1>1, <1>6, RowType DEF RowFixed
  <2>2. TextsStay(i) /\ GapsStay(i)
    BY <1>1 DEF TextsStay, GapsStay, Ids
  <2>3. SentStays(i)
    BY <1>1, <1>6 DEF SentStays, AllSent, Want, Sound
  <2>4. VectorsFixed(i)
    BY <1>1 DEF VectorsFixed, VectorsStay, VectorsOf, Clean
  <2>5. QED
    BY <2>1, <2>2, <2>3, <2>4
<1>8. FixedStep
  BY <1>1, <1>4, <1>7 DEF FixedStep
<1>9. QED
  BY <1>1, <1>5, <1>8, FixedWithoutJob

\* A request that goes on after a step in which rows stay.
LEMMA FixedGoes ==
    ASSUME BaseHolds, StoreTyped', FixedStep, NEW j \in Jobs, NEW r, job' = [job EXCEPT ![j] = r],
           JobHolds(r)', r.pc # "idle" => r.op = job[j].op /\ r.item = job[j].item /\ job[j].pc # "idle"
    PROVE  BaseHolds'
<1>1. Continues(job[j], r)
  BY DEF Continues, Makes, Refreshes
<1>2. OneMaker' /\ OverlapsMarked'
  BY <1>1, MarksStay DEF FixedStep
<1>3. QED
  BY <1>2, FixedStepHolds

\* Texts come, or go from sheets.
LEMMA TextsChange ==
    ASSUME BaseHolds, UNCHANGED <<upload, namespaces, rows, made, vectors>>, TextsHold',
           gaps' \in [Items -> SUBSET GapKinds], \A i \in Items : gaps[i] \subseteq gaps'[i],
           \A d \in Docs : Ids(d) \subseteq Ids(d)'
    PROVE  StoreTyped' /\ FixedStep
<1>1. StoreTyped'
  BY DEF BaseHolds, StoreTyped, NamesHold, VectorsHold
<1>2. ASSUME NEW i \in Items
      PROVE  /\ RowFixed(i) /\ TextsStay(i) /\ GapsStay(i) /\ SentStays(i) /\ VectorsFixed(i)
  <2>1. gaps[i] \subseteq gaps'[i]
    OBVIOUS
  <2>2. RowFixed(i) /\ TextsStay(i)
    BY DEF BaseHolds, ItemHolds, RowHolds, RowFixed, Home, Stored, TextsStay
  <2>3. GapsStay(i) /\ (Sound(i)' => Sound(i)) /\ (Clean(i)' => Clean(i))
    BY <2>1 DEF GapsStay, Sound, Clean
  <2>4. SentStays(i)
    BY <2>3 DEF SentStays, AllSent, Want, Home
  <2>5. VectorsFixed(i)
    BY <2>3 DEF VectorsFixed, VectorsStay, VectorsOf
  <2>6. QED
    BY <2>2, <2>3, <2>4, <2>5
<1>3. QED
  BY <1>1, <1>2 DEF FixedStep, NamesStay

\* One more text of a row that is there.
LEMMA TextAdded ==
    ASSUME BaseHolds, NEW t, t.item \in Items, rows[t.item] # None, rows[t.item].gen = t.gen,
           t.idx \in Nat \ {0}, texts' = texts \cup {t}, UNCHANGED rows
    PROVE  TextsHold' /\ \A i : Ids(i) \subseteq Ids(i)' /\ (i = t.item => t.idx \in Ids(i)')
<1>1. PICK n \in Nat : \A u \in texts : u.idx <= n
  BY DEF BaseHolds, StoreTyped, TextsHold
<1>2. \A u \in texts : u.idx \in Nat
  BY DEF BaseHolds, StoreTyped, TextsHold
<1>3. PICK m \in Nat : m = IF t.idx > n THEN t.idx ELSE n
  OBVIOUS
<1>4. \A u \in texts' : u.idx <= m
  BY <1>1, <1>2, <1>3
<1>5. TextsHold'
  BY <1>4 DEF BaseHolds, StoreTyped, TextsHold
<1>6. QED
  BY <1>5 DEF Ids

\* Its chunks, one by one: at the end every one of them is there.
LEMMA InsertChunkKeeps ==
    ASSUME BaseHolds, NEW j \in Jobs, InsertChunk(j)
    PROVE  BaseHolds'
<1>0. /\ UNCHANGED <<upload, namespaces, rows, made, vectors, gaps>>
      /\ gaps' \in [Items -> SUBSET GapKinds] /\ \A i \in Items : gaps[i] \subseteq gaps'[i]
  BY NoGap DEF InsertChunk
<1>1. PICK q : q = job[j]
  OBVIOUS
<1>2. JobHolds(q) /\ JobTyped(q) /\ DOMAIN q = Fields /\ q.op = "create" /\ q.pc = "texts"
  BY <1>1, JobType DEF InsertChunk, At
<1>3. /\ q.item \in Docs /\ q.item \in Items /\ q.src \in Source(q.item) /\ HasRow(q) /\ Named(q) /\ Makes(q)
      /\ q.next \in Nat \ {0} /\ Writes(q)
  BY <1>2, SubjectItem DEF HasRow, Named, Makes, Stores, JobTyped, Writes
<1>4. PICK chunks : chunks = PartsOf(q.item, q.src)
  OBVIOUS
<1>5. PICK n \in Nat : n = Len(chunks) /\ DOMAIN chunks = 1..n
  <2>1. q.item \notin Pages
    BY <1>3, SourcesDiffer
  <2>2. QED
    BY <1>3, <1>4, <2>1, PartsType
<1>6. ASSUME NEW r, Goes(q, r), r.name = q.name, r.gen = q.gen, r.embedded = q.embedded,
             r.status = q.status, r.pc \in {"texts", "vectors", "status"}, r.ids \in SUBSET Nat,
             IsFiniteSet(r.ids), r.next \in Nat \ {0}, There(r) => r.ids \subseteq Ids(r.item)',
             r.pc = "texts" /\ There(r) => 1..(r.next - 1) \subseteq Ids(r.item)',
             r.pc = "vectors" => r.ids = DOMAIN chunks,
             r.pc = "status" => ~r.embedded,
             r.pc \in {"vectors", "status"} /\ There(r) => DOMAIN chunks \subseteq Ids(r.item)'
      PROVE  JobHolds(r)' /\ r.op = job[j].op /\ r.item = job[j].item /\ job[j].pc # "idle"
  <2>1. r.op = "create" /\ r.item = q.item /\ HasRow(r) /\ r.pc \in Pcs(r.op) /\ (There(r) <=> There(q))
    BY <1>2, <1>6 DEF Goes, HasRow, Pcs, There
  <2>2. r.op \in Stores /\ r.op \notin Deletes \cup {"reindex", "deletens", "web", "sync"}
    BY <2>1 DEF Stores, Deletes
  <2>3. JobTyped(r)'
    BY <1>0, <1>2, <1>3, <1>6, <2>1, <2>2 DEF JobTyped, Goes
  <2>4. MakerHolds(r)' /\ DeleterHolds(r)'
    BY <1>0, <1>2, <1>3, <1>6, <2>1, <2>2 DEF MakerHolds, JobHolds, DeleterHolds, Goes
  <2>5. NameHolds(r)'
    BY <1>0, <1>2, <1>3, <1>6, <2>2 DEF NameHolds, JobHolds, Stored, Goes
  <2>6. WriterHolds(r)'
    BY <1>0, <1>2, <1>3, <1>6, <2>1 DEF WriterHolds, JobHolds, There, Home, Have
  <2>7. SenderHolds(r)'
    <3>1. There(r) => rows[r.item].src = r.src
      BY <1>2, <1>3, <1>6, <2>1 DEF JobHolds, SenderHolds, Goes
    <3>2. r.pc \in {"vectors", "status"} /\ There(r) => Complete(r.item)'
      BY <1>0, <1>4, <1>6, <2>1, <3>1 DEF Complete, Goes
    <3>3. r.embedded \/ r.status # "indexed"
      BY <1>2, <1>6 DEF JobHolds, SenderHolds
    <3>4. Sends(r) => r.ids = DOMAIN PartsOf(r.item, r.src)
      BY <1>4, <1>6, <2>1 DEF Sends, Goes
    <3>5. QED
      BY <1>0, <1>6, <2>1, <2>2, <3>1, <3>2, <3>3, <3>4 DEF SenderHolds, Refreshes, There
  <2>8. QED
    BY <1>1, <1>2, <2>1, <2>3, <2>4, <2>5, <2>6, <2>7 DEF JobHolds
<1>7. CASE Set(j, NoJob) /\ UNCHANGED texts
  BY <1>0, <1>7, JobEnds
<1>8. CASE /\ q.next > Len(chunks) /\ UNCHANGED texts
           /\ Set(j, [q EXCEPT !.pc = IF q.embedded THEN "vectors" ELSE "status", !.ids = DOMAIN chunks])
  <2>1. PICK pc : pc = IF q.embedded THEN "vectors" ELSE "status"
    OBVIOUS
  <2>2. PICK ids : ids = DOMAIN chunks
    OBVIOUS
  <2>3. PICK r : r = [q EXCEPT !.pc = pc, !.ids = ids]
    OBVIOUS
  <2>4. /\ Goes(q, r) /\ r.name = q.name /\ r.gen = q.gen /\ r.ids = ids /\ r.next = q.next
        /\ r.embedded = q.embedded /\ r.status = q.status /\ r.pc = pc
    BY <1>2, <2>3 DEF Goes, Fields
  <2>5. job' = [job EXCEPT ![j] = r]
    BY <1>8, <2>1, <2>2, <2>3 DEF Set
  <2>6. There(q) => ids \subseteq Ids(q.item)'
    <3>1. ids \subseteq 1..(q.next - 1)
      BY <1>3, <1>5, <1>8, <2>2
    <3>2. There(q) => 1..(q.next - 1) \subseteq Ids(q.item)
      BY <1>2, <1>3 DEF JobHolds, WriterHolds
    <3>3. QED
      BY <1>8, <3>1, <3>2 DEF Ids
  <2>7. ids \in SUBSET Nat /\ IsFiniteSet(ids)
    BY <1>3, <1>4, <2>2, PartsFinite
  <2>8. r.item = q.item /\ (There(r) <=> There(q))
    BY <2>4 DEF Goes, There
  <2>9. pc \in {"vectors", "status"} /\ (pc = "status" => ~r.embedded)
    BY <2>1, <2>4
  <2>10. JobHolds(r)' /\ r.op = job[j].op /\ r.item = job[j].item /\ job[j].pc # "idle"
    BY <1>3, <1>6, <2>2, <2>4, <2>6, <2>7, <2>8, <2>9
  <2>11. QED
    BY <1>0, <1>8, <2>5, <2>10, StepOn
<1>9. CASE /\ Alive(j) /\ Set(j, [q EXCEPT !.next = q.next + 1])
           /\ texts' = texts \cup {[item |-> q.item, gen |-> q.gen, idx |-> q.next,
                                    text |-> chunks[q.next], by |-> j]}
  <2>1. PICK t : t = [item |-> q.item, gen |-> q.gen, idx |-> q.next, text |-> chunks[q.next], by |-> j]
    OBVIOUS
  <2>2. t.item = q.item /\ t.gen = q.gen /\ t.idx = q.next /\ texts' = texts \cup {t}
    BY <1>9, <2>1
  <2>3. rows[q.item] # None /\ rows[q.item].gen = q.gen
    BY <1>1, <1>9 DEF Alive
  <2>4. TextsHold' /\ \A i : Ids(i) \subseteq Ids(i)' /\ (i = q.item => q.next \in Ids(i)')
    BY <1>0, <1>3, <2>2, <2>3, TextAdded
  <2>5. StoreTyped' /\ FixedStep
    BY <1>0, <2>4, TextsChange
  <2>6. PICK next \in Nat \ {0} : next = q.next + 1
    BY <1>3
  <2>7. PICK r : r = [q EXCEPT !.next = next]
    OBVIOUS
  <2>8. /\ Goes(q, r) /\ r.name = q.name /\ r.gen = q.gen /\ r.ids = q.ids /\ r.next = next
        /\ r.embedded = q.embedded /\ r.status = q.status /\ r.pc = q.pc
    BY <1>2, <2>7 DEF Goes, Fields
  <2>9. job' = [job EXCEPT ![j] = r]
    BY <1>9, <2>6, <2>7 DEF Set
  <2>10. There(q) /\ r.item = q.item
    BY <2>3, <2>8 DEF Goes, There
  <2>11. q.ids \subseteq Ids(q.item)' /\ 1..(next - 1) \subseteq Ids(q.item)'
    <3>1. q.ids \subseteq Ids(q.item) /\ 1..(q.next - 1) \subseteq Ids(q.item)
      BY <1>2, <1>3, <2>10 DEF JobHolds, WriterHolds, Have
    <3>2. 1..(next - 1) = 1..(q.next - 1) \cup {q.next}
      BY <1>3, <2>6
    <3>3. QED
      BY <2>4, <3>1, <3>2
  <2>12. JobHolds(r)' /\ r.op = job[j].op /\ r.item = job[j].item /\ job[j].pc # "idle"
    BY <1>2, <1>6, <2>8, <2>10, <2>11 DEF JobTyped
  <2>13. QED
    BY <2>5, <2>9, <2>12, FixedGoes
<1>10. QED
  BY <1>1, <1>4, <1>7, <1>8, <1>9 DEF InsertChunk, Parts

\* A sync between its row and its vectors.
LEMMA SyncWrites ==
    ASSUME BaseHolds, NEW j \in Jobs, UNCHANGED <<upload, namespaces, rows, made, vectors>>, TextsHold',
           gaps' \in [Items -> SUBSET GapKinds], \A i \in Items : gaps[i] \subseteq gaps'[i],
           \A d \in Docs : Ids(d) \subseteq Ids(d)',
           NEW q, q = job[j], q.op = "sync", q.pc \in {"clear", "texts"},
           NEW r, Goes(q, r), r.name = q.name, r.gen = q.gen, r.embedded = q.embedded, r.status = q.status,
           r.pc \in {"texts", "embed"}, r.ids \in SUBSET Nat, IsFiniteSet(r.ids), r.next \in Nat \ {0},
           r.pc = "embed" => r.ids = DOMAIN PartsOf(q.item, q.src), job' = [job EXCEPT ![j] = r]
    PROVE  BaseHolds'
<1>1. StoreTyped' /\ FixedStep
  BY TextsChange
<1>2. JobHolds(q) /\ JobTyped(q)
  BY JobType
<1>3. /\ q.item \in Items /\ HasRow(q) /\ Named(q) /\ Refreshes(q) /\ r.op = "sync" /\ r.item = q.item
      /\ HasRow(r) /\ r.pc \in Pcs(r.op) /\ (There(r) <=> There(q))
  BY <1>2, SubjectItem DEF HasRow, Named, Refreshes, Stores, Goes, Pcs, There
<1>4. r.op \in Stores /\ r.op \notin Deletes \cup {"create", "reindex", "qa", "deletens"}
  BY <1>3 DEF Stores, Deletes
<1>5. JobTyped(r)'
  BY <1>2, <1>3, <1>4 DEF JobTyped, Goes
<1>6. NameHolds(r)'
  BY <1>2, <1>3, <1>4 DEF NameHolds, JobHolds, Stored, Goes
<1>7. MakerHolds(r)' /\ WriterHolds(r)' /\ DeleterHolds(r)'
  BY <1>3 DEF MakerHolds, Makes, WriterHolds, Writes, DeleterHolds, Deletes
<1>8. SenderHolds(r)'
  <2>1. Sends(r) => r.ids = DOMAIN PartsOf(r.item, r.src)
    BY <1>3 DEF Sends, Goes
  <2>2. There(r)' /\ gaps'[r.item] \cap {"overlap", "moved"} = {} =>
           rows'[r.item].src = r.src /\ Home(r.item)' = r.name
    <3>1. gaps[q.item] \subseteq gaps'[q.item]
      BY <1>3
    <3>2. QED
      BY <1>2, <1>3, <3>1 DEF JobHolds, SenderHolds, Goes, There, Home
  <2>3. QED
    BY <1>4, <2>1, <2>2 DEF SenderHolds
<1>9. QED
  BY <1>1, <1>3, <1>5, <1>6, <1>7, <1>8, FixedGoes DEF JobHolds

\* The rows that a sheet had go.
LEMMA ClearTableKeeps ==
    ASSUME BaseHolds, NEW j \in Jobs, ClearTable(j)
    PROVE  BaseHolds'
<1>0. UNCHANGED <<upload, namespaces, rows, made, vectors>> /\ To(j, "texts")
  BY DEF ClearTable
<1>1. PICK q : q = job[j]
  OBVIOUS
<1>2. JobTyped(q) /\ DOMAIN q = Fields /\ q.op = "sync" /\ q.pc = "clear"
  BY <1>1, JobType DEF ClearTable, At
<1>3. q.item \in Items /\ q.item \notin Docs
  BY <1>2, SubjectItem, SourcesDiffer
<1>4. PICK r : r = [q EXCEPT !.pc = "texts"]
  OBVIOUS
<1>5. Keeps(q, r) /\ r.pc = "texts" /\ job' = [job EXCEPT ![j] = r]
  BY <1>0, <1>1, <1>2, <1>4, PcOnly DEF To, Set
<1>6. TextsHold' /\ \A d \in Docs : Ids(d) \subseteq Ids(d)'
  <2>1. CASE UNCHANGED texts
    BY <1>0, <2>1 DEF BaseHolds, StoreTyped, TextsHold, Ids
  <2>2. CASE texts' = {t \in texts : ~(t.item = q.item /\ t.gen = q.gen)}
    BY <1>0, <1>3, <2>2 DEF BaseHolds, StoreTyped, TextsHold, Ids
  <2>3. QED
    BY <1>1, <2>1, <2>2 DEF ClearTable
<1>7. gaps' \in [Items -> SUBSET GapKinds] /\ \A i \in Items : gaps[i] \subseteq gaps'[i]
  <2>1. CASE UNCHANGED gaps
    BY <2>1, NoGap
  <2>2. CASE Gap(q.item, {"unstored"})
    BY <1>3, <2>2, GapKeeps DEF GapKinds
  <2>3. QED
    BY <1>1, <2>1, <2>2 DEF ClearTable
<1>8. QED
  BY <1>0, <1>1, <1>2, <1>5, <1>6, <1>7, SyncWrites DEF Keeps, JobTyped

\* The rows that it has come, one by one.
LEMMA InsertTableRowKeeps ==
    ASSUME BaseHolds, NEW j \in Jobs, InsertTableRow(j)
    PROVE  BaseHolds'
<1>0. UNCHANGED <<upload, namespaces, rows, made, vectors>>
  BY DEF InsertTableRow
<1>1. PICK q : q = job[j]
  OBVIOUS
<1>2. JobTyped(q) /\ DOMAIN q = Fields /\ q.op = "sync" /\ q.pc = "texts" /\ q.next \in Nat \ {0}
  BY <1>1, JobType DEF InsertTableRow, At, JobTyped
<1>3. q.item \in Items /\ q.item \in Sheets /\ q.item \notin Docs /\ q.src \in Source(q.item)
  BY <1>2, SubjectItem, SourcesDiffer DEF JobTyped, Stores
<1>4. CASE Set(j, NoJob) /\ UNCHANGED <<texts, gaps>>
  BY <1>0, <1>4, JobEnds, NoGap
<1>5. CASE /\ Set(j, [q EXCEPT !.pc = "embed", !.ids = DOMAIN PartsOf(q.item, q.src)])
           /\ UNCHANGED <<texts, gaps>>
  <2>1. PICK ids : ids = DOMAIN PartsOf(q.item, q.src)
    OBVIOUS
  <2>2. PICK r : r = [q EXCEPT !.pc = "embed", !.ids = ids]
    OBVIOUS
  <2>3. /\ Goes(q, r) /\ r.name = q.name /\ r.gen = q.gen /\ r.ids = ids /\ r.next = q.next
        /\ r.embedded = q.embedded /\ r.status = q.status /\ r.pc = "embed"
    BY <1>2, <2>2 DEF Goes, Fields
  <2>4. job' = [job EXCEPT ![j] = r]
    BY <1>5, <2>1, <2>2 DEF Set
  <2>5. ids \in SUBSET Nat /\ IsFiniteSet(ids)
    BY <1>3, <2>1, PartsFinite
  <2>6. TextsHold' /\ \A d \in Docs : Ids(d) \subseteq Ids(d)'
    BY <1>0, <1>5 DEF BaseHolds, StoreTyped, TextsHold, Ids
  <2>7. QED
    BY <1>0, <1>1, <1>2, <1>5, <2>1, <2>3, <2>4, <2>5, <2>6, NoGap, SyncWrites
<1>6. CASE /\ Set(j, [q EXCEPT !.next = q.next + 1])
           /\ \/ UNCHANGED texts
              \/ /\ Alive(j)
                 /\ \E text : texts' = texts \cup {[item |-> q.item, gen |-> q.gen, idx |-> q.next,
                                                    text |-> text, by |-> j]}
           /\ UNCHANGED gaps \/ Gap(q.item, {"unstored"})
  <2>1. PICK next \in Nat \ {0} : next = q.next + 1
    BY <1>2
  <2>2. PICK r : r = [q EXCEPT !.next = next]
    OBVIOUS
  <2>3. /\ Goes(q, r) /\ r.name = q.name /\ r.gen = q.gen /\ r.ids = q.ids /\ r.next = next
        /\ r.embedded = q.embedded /\ r.status = q.status /\ r.pc = q.pc
    BY <1>2, <2>2 DEF Goes, Fields
  <2>4. job' = [job EXCEPT ![j] = r]
    BY <1>6, <2>1, <2>2 DEF Set
  <2>5. gaps' \in [Items -> SUBSET GapKinds] /\ \A i \in Items : gaps[i] \subseteq gaps'[i]
    BY <1>3, <1>6, NoGap, GapKeeps DEF GapKinds
  <2>6. TextsHold' /\ \A d \in Docs : Ids(d) \subseteq Ids(d)'
    <3>1. CASE UNCHANGED texts
      BY <1>0, <3>1 DEF BaseHolds, StoreTyped, TextsHold, Ids
    <3>2. CASE /\ Alive(j)
               /\ \E text : texts' = texts \cup {[item |-> q.item, gen |-> q.gen, idx |-> q.next,
                                                  text |-> text, by |-> j]}
      <4>0. PICK text : texts' = texts \cup {[item |-> q.item, gen |-> q.gen, idx |-> q.next,
                                              text |-> text, by |-> j]}
        BY <3>2
      <4> DEFINE added == [item |-> q.item, gen |-> q.gen, idx |-> q.next, text |-> text, by |-> j]
      <4>1. PICK t : t = added
        OBVIOUS
      <4>2. texts' = texts \cup {t} /\ t.item = q.item /\ t.gen = q.gen /\ t.idx = q.next
        BY <4>0, <4>1
      <4>3. rows[q.item] # None /\ rows[q.item].gen = q.gen
        BY <1>1, <3>2 DEF Alive
      <4>4. QED
        BY <1>0, <1>2, <1>3, <4>2, <4>3, TextAdded
    <3>3. QED
      BY <1>6, <3>1, <3>2
  <2>7. q.ids \in SUBSET Nat /\ IsFiniteSet(q.ids)
    BY <1>2 DEF JobTyped
  <2>8. QED
    BY <1>0, <1>1, <1>2, <2>3, <2>4, <2>5, <2>6, <2>7, SyncWrites
<1>7. QED
  <2>1. CASE job[j].next > Len(Parts(j))
    BY <1>1, <1>4, <1>5, <2>1 DEF InsertTableRow, Parts
  <2>2. CASE ~(job[j].next > Len(Parts(j)))
    BY <1>1, <1>6, <2>2 DEF InsertTableRow
  <2>3. QED
    BY <2>1, <2>2

-----------------------------------------------------------------------------
(* Vectors go. *)

\* Not without a mark.
LEMMA VectorsGo ==
    ASSUME BaseHolds, UNCHANGED <<upload, namespaces, rows, made, texts>>, vectors' \subseteq vectors,
           gaps' \in [Items -> SUBSET GapKinds], \A i \in Items : gaps[i] \subseteq gaps'[i],
           \A v \in vectors \ vectors' : "removed" \in gaps'[v.item]
    PROVE  StoreTyped' /\ FixedStep
<1>1. StoreTyped'
  BY DEF BaseHolds, StoreTyped, NamesHold, VectorsHold, TextsHold
<1>2. ASSUME NEW i \in Items
      PROVE  /\ RowFixed(i) /\ TextsStay(i) /\ GapsStay(i) /\ SentStays(i) /\ VectorsFixed(i)
  <2>1. gaps[i] \subseteq gaps'[i]
    OBVIOUS
  <2>2. RowFixed(i) /\ TextsStay(i)
    BY DEF BaseHolds, ItemHolds, RowHolds, RowFixed, Home, Stored, TextsStay, Ids
  <2>3. GapsStay(i) /\ (Sound(i)' => Sound(i)) /\ (Clean(i)' => Clean(i))
    BY <2>1 DEF GapsStay, Sound, Clean
  <2>4. SentStays(i)
    <3> SUFFICES ASSUME Sound(i)', AllSent(i) PROVE AllSent(i)'
      BY <2>3 DEF SentStays
    <3>1. "removed" \notin gaps'[i] /\ Want(i)' = Want(i) /\ Home(i)' = Home(i)
      BY DEF Sound, Want, Home
    <3>2. ASSUME NEW x \in Want(i)
          PROVE  [ns |-> Home(i), item |-> i, gen |-> rows[i].gen, idx |-> x] \in vectors'
      <4>1. PICK v : v = [ns |-> Home(i), item |-> i, gen |-> rows[i].gen, idx |-> x]
        OBVIOUS
      <4>2. v \in vectors /\ v.item = i
        BY <4>1 DEF AllSent
      <4>3. QED
        BY <3>1, <4>1, <4>2
    <3>3. QED
      BY <3>1, <3>2 DEF AllSent
  <2>5. VectorsFixed(i)
    BY <2>3 DEF VectorsFixed, VectorsStay, VectorsOf
  <2>6. QED
    BY <2>2, <2>3, <2>4, <2>5
<1>3. QED
  BY <1>1, <1>2 DEF FixedStep, NamesStay

\* The vectors of a document or a question, all of them or none.
LEMMA DeleteVectorsKeeps ==
    ASSUME BaseHolds, NEW j \in Jobs, DeleteVectors(j)
    PROVE  BaseHolds'
<1>0. UNCHANGED <<upload, namespaces, rows, made, texts>> /\ To(j, "drop")
  BY DEF DeleteVectors
<1>1. PICK q : q = job[j]
  OBVIOUS
<1>2. JobHolds(q) /\ JobTyped(q) /\ DOMAIN q = Fields /\ q.op \in Deletes /\ q.pc = "vectors" /\ Named(q)
  BY <1>1, JobType DEF DeleteVectors, Deletes, Named
<1>3. q.item \in Items /\ q.item \in Single
  BY <1>2, SubjectItem DEF Deletes, Single
<1>4. PICK r : r = [q EXCEPT !.pc = "drop"]
  OBVIOUS
<1>5. Keeps(q, r) /\ r.pc = "drop" /\ job' = [job EXCEPT ![j] = r]
  BY <1>0, <1>1, <1>2, <1>4, PcOnly DEF To, Set
<1>6. /\ r.op \in Deletes /\ r.op \notin Stores \cup {"reindex", "deletens"} /\ r.op = q.op /\ r.item = q.item
      /\ ~HasRow(r) /\ ~Sends(r) /\ ~Makes(r) /\ ~Refreshes(r) /\ r.pc \in Pcs(r.op)
  BY <1>2, <1>5 DEF Keeps, Goes, Deletes, Stores, HasRow, Sends, Makes, Refreshes, Pcs
<1>7. /\ gaps' \in [Items -> SUBSET GapKinds] /\ \A i \in Items : gaps[i] \subseteq gaps'[i]
      /\ vectors' \subseteq vectors
      /\ \A v \in vectors \ vectors' : "removed" \in gaps'[v.item]
      /\ Clean(r.item)' => VectorsOf(r.item)' = {}
  <2>1. CASE UNCHANGED vectors /\ Gap(q.item, {"kept"})
    <3>1. /\ gaps' \in [Items -> SUBSET GapKinds] /\ {"kept"} \subseteq gaps'[q.item]
          /\ \A i \in Items : gaps[i] \subseteq gaps'[i]
      BY <1>3, <2>1, GapKeeps DEF GapKinds
    <3>2. QED
      BY <1>6, <2>1, <3>1 DEF Clean
  <2>2. CASE /\ vectors' = {v \in vectors : ~(v.ns = q.name /\ v.item = q.item /\ v.idx \in q.ids)}
             /\ Gap(q.item, {"removed"})
    <3>1. /\ gaps' \in [Items -> SUBSET GapKinds] /\ {"removed"} \subseteq gaps'[q.item]
          /\ \A i \in Items : gaps[i] \subseteq gaps'[i]
      BY <1>3, <2>2, GapKeeps DEF GapKinds
    <3>2. Clean(q.item) => \A v \in VectorsOf(q.item) : v.ns = q.name /\ v.idx \in q.ids
      <4>1. CASE q.op = "deletedoc"
        BY <1>2, <4>1 DEF JobHolds, DeleterHolds
      <4>2. CASE q.op = "deleteqa"
        <5>1. VectorsAtHome(q.item) /\ q.item \in Questions
          BY <1>2, <1>3, <4>2, SubjectItem DEF BaseHolds, ItemHolds
        <5>2. q.ids = {1} /\ (rows[q.item] # None => Home(q.item) = q.name)
          BY <1>2, <4>2 DEF JobHolds, DeleterHolds, NameHolds
        <5>3. Have(q.item) = {1}
          BY <5>1, SourcesDiffer DEF Have
        <5>4. QED
          BY <5>1, <5>2, <5>3 DEF VectorsAtHome
      <4>3. QED
        BY <1>2, <4>1, <4>2 DEF Deletes
    <3>3. Clean(q.item)' => Clean(q.item)
      BY <1>3, <3>1 DEF Clean
    <3>4. Clean(q.item)' => VectorsOf(q.item)' = {}
      BY <2>2, <3>2, <3>3 DEF VectorsOf
    <3>5. QED
      BY <1>6, <2>2, <3>1, <3>4
  <2>3. QED
    BY <1>1, <2>1, <2>2 DEF DeleteVectors
<1>8. StoreTyped' /\ FixedStep
  BY <1>0, <1>7, VectorsGo
<1>9. JobHolds(r)'
  <2>1. JobTyped(r)'
    BY <1>0, <1>2, <1>5, <1>6 DEF JobTyped, Keeps, Goes, Named
  <2>2. NameHolds(r)'
    BY <1>0, <1>2, <1>5, <1>6 DEF NameHolds, JobHolds, Keeps, Goes, Home
  <2>3. MakerHolds(r)' /\ WriterHolds(r)' /\ SenderHolds(r)'
    BY <1>5, <1>6 DEF MakerHolds, Makes, WriterHolds, Writes, SenderHolds, Deletes
  <2>4. DeleterHolds(r)'
    BY <1>5, <1>6, <1>7 DEF DeleterHolds, Deletes
  <2>5. QED
    BY <2>1, <2>2, <2>3, <2>4 DEF JobHolds
<1>10. QED
  BY <1>1, <1>2, <1>5, <1>6, <1>8, <1>9, FixedGoes

\* All vectors of a namespace, or all of them marked.
LEMMA DeleteAllVectorsKeeps ==
    ASSUME BaseHolds, NEW j \in Jobs, DeleteAllVectors(j)
    PROVE  BaseHolds'
<1>0. UNCHANGED <<upload, namespaces, rows, made, texts>> /\ To(j, "drop")
  BY DEF DeleteAllVectors
<1>1. PICK q : q = job[j]
  OBVIOUS
<1>2. JobHolds(q) /\ JobTyped(q) /\ DOMAIN q = Fields /\ q.op = "deletens" /\ q.pc = "vectors" /\ Named(q)
  BY <1>1, JobType DEF DeleteAllVectors, At, Named
<1>3. PICK r : r = [q EXCEPT !.pc = "drop"]
  OBVIOUS
<1>4. Keeps(q, r) /\ r.pc = "drop" /\ job' = [job EXCEPT ![j] = r] /\ r.op = "deletens" /\ r.item = q.item
  BY <1>0, <1>1, <1>2, <1>3, PcOnly DEF To, Set, Keeps, Goes
<1>5. r.op \notin Stores \cup Deletes /\ ~HasRow(r) /\ Named(r) /\ r.pc \in Pcs(r.op)
  BY <1>4 DEF Deletes, Stores, HasRow, Named, Pcs
<1>6. PICK there : there = {v.item : v \in {u \in vectors : u.ns = q.name}}
  OBVIOUS
<1>7. PICK g \in {"removed", "kept"} :
        /\ gaps' = [i \in Items |-> IF i \in there THEN gaps[i] \cup {g} ELSE gaps[i]]
        /\ \/ g = "removed" /\ vectors' = {v \in vectors : v.ns # q.name}
           \/ g = "kept" /\ UNCHANGED vectors
  BY <1>1, <1>6 DEF DeleteAllVectors
<1>8. /\ gaps' \in [Items -> SUBSET GapKinds] /\ \A i \in Items : gaps[i] \subseteq gaps'[i]
      /\ \A i \in Items \cap there : g \in gaps'[i]
  BY <1>7 DEF BaseHolds, StoreTyped, GapKinds
<1>9. \A v \in vectors : v.item \in Items /\ (v.ns = q.name => v.item \in there)
  BY <1>6 DEF BaseHolds, StoreTyped, VectorsHold
<1>10. StoreTyped' /\ FixedStep
  <2>1. vectors' \subseteq vectors /\ \A v \in vectors \ vectors' : "removed" \in gaps'[v.item]
    BY <1>7, <1>8, <1>9
  <2>2. QED
    BY <1>0, <1>8, <2>1, VectorsGo
<1>11. JobHolds(r)'
  <2>1. JobTyped(r)'
    BY <1>0, <1>2, <1>4, <1>5 DEF JobTyped, Keeps, Goes
  <2>2. NameHolds(r)'
    BY <1>0, <1>2, <1>4, <1>5 DEF NameHolds, JobHolds, Keeps, Goes, Stored
  <2>3. MakerHolds(r)' /\ WriterHolds(r)' /\ SenderHolds(r)'
    BY <1>4, <1>5 DEF MakerHolds, Makes, WriterHolds, Writes, SenderHolds, Sends, Refreshes
  <2>4. \A v \in vectors' : v.item \in Single /\ v.ns = q.name => ~Clean(v.item)'
    BY <1>7, <1>8, <1>9 DEF Clean
  <2>5. DeleterHolds(r)'
    BY <1>4, <1>5, <2>4 DEF DeleterHolds, Keeps, Deletes
  <2>6. QED
    BY <2>1, <2>2, <2>3, <2>5 DEF JobHolds
<1>12. QED
  BY <1>1, <1>2, <1>4, <1>10, <1>11, FixedGoes

-----------------------------------------------------------------------------
(* Steps that write a row. *)

\* One row changes, and no other request for its source is misled by that.
LEMMA RowStepHolds ==
    ASSUME BaseHolds, UNCHANGED <<upload, namespaces, texts, vectors>>,
           gaps' \in [Items -> SUBSET GapKinds], \A k \in Items : gaps[k] \subseteq gaps'[k],
           NEW i \in Items, NEW row \in Row(i), rows' = [rows EXCEPT ![i] = row],
           rows[i] # None => row.gen = rows[i].gen,
           NEW n \in Nat, made' = [made EXCEPT ![i] = n], made[i] <= n, ItemHolds(i)',
           NEW j \in Jobs, NEW r, job' = [job EXCEPT ![j] = r], JobHolds(r)',
           r.pc # "idle" => r.op = job[j].op /\ r.item = job[j].item /\ job[j].pc # "idle",
           \A k \in Jobs \ {j} :
              job[k].item = i => SourceStays(i) /\ (Makes(job[k]) => made'[i] = made[i])
    PROVE  BaseHolds'
<1>1. made \in [Items -> Nat] /\ DOMAIN rows = Items /\ row # None
  BY KnowledgeAssumption DEF BaseHolds, StoreTyped
<1>2. /\ DOMAIN rows' = Items /\ made' \in [Items -> Nat] /\ rows'[i] = row
      /\ \A k \in Items \ {i} : rows'[k] = rows[k] /\ made'[k] = made[k]
      /\ \A k \in Items : made[k] \in Nat /\ made'[k] \in Nat /\ made[k] <= made'[k]
  BY <1>1
<1>3. StoreTyped'
  <2>1. TextsHold'
    BY <1>1, <1>2 DEF BaseHolds, StoreTyped, TextsHold
  <2>2. VectorsHold'
    BY <1>2 DEF BaseHolds, StoreTyped, VectorsHold
  <2>3. QED
    BY <1>2, <2>1, <2>2 DEF BaseHolds, StoreTyped, NamesHold
<1>4. ASSUME NEW k \in Items
      PROVE  /\ TextsStay(k) /\ GapsStay(k) /\ (Sound(k)' => Sound(k)) /\ (Clean(k)' => Clean(k))
             /\ VectorsStay(k)
  <2>1. gaps[k] \subseteq gaps'[k]
    OBVIOUS
  <2>2. QED
    BY <2>1 DEF TextsStay, Ids, GapsStay, Sound, Clean, VectorsStay, VectorsOf
<1>5. ASSUME NEW k \in Items \ {i} PROVE ItemHolds(k)' /\ SourceStays(k)
  <2>1. RowFixed(k)
    BY <1>2 DEF BaseHolds, ItemHolds, RowHolds, RowFixed, Home, Stored
  <2>2. SentStays(k)
    BY <1>2, <1>4 DEF SentStays, AllSent, Want, Home
  <2>3. VectorsFixed(k)
    BY <1>2, <1>4 DEF VectorsFixed
  <2>4. ItemHolds(k)'
    BY <1>4, <2>1, <2>2, <2>3, ItemStays
  <2>5. RowStays(k)
    BY <2>1 DEF RowFixed, RowStays
  <2>6. QED
    BY <1>2, <1>4, <2>2, <2>4, <2>5 DEF SourceStays
<1>6. NamesStay
  BY DEF NamesStay
<1>7. OneMaker' /\ OverlapsMarked'
  <2>1. Continues(job[j], r)
    BY DEF Continues, Makes, Refreshes
  <2>2. QED
    BY <1>4, <2>1, MarksStay
<1>8. ASSUME NEW k \in Jobs \ {j}
      PROVE  /\ \A q : q = job[k] => DeleterHolds(q)'
             /\ job[k].item \in Items =>
                   /\ SourceStays(job[k].item)
                   /\ Makes(job[k]) => made'[job[k].item] = made[job[k].item]
  <2>1. ASSUME NEW q, q = job[k] PROVE DeleterHolds(q)'
    <3>1. JobTyped(q) /\ DeleterHolds(q)
      BY <2>1, JobType DEF JobHolds
    <3>2. QED
      BY <1>4, <3>1, DeletersStay, SourcesDiffer
  <2>2. QED
    BY <1>2, <1>5, <2>1
<1>9. \A k \in Items : ItemHolds(k)'
  BY <1>5
<1>10. QED
  BY <1>3, <1>6, <1>7, <1>8, <1>9, StepHolds

\* A row gets another status, or its pinecone_id.
LEMMA StatusKeeps ==
    ASSUME BaseHolds, UNCHANGED <<upload, namespaces, made, texts, vectors, gaps>>,
           NEW i \in Items, rows[i] # None, NEW row \in Row(i), rows' = [rows EXCEPT ![i] = row],
           row.gen = rows[i].gen, row.ns = rows[i].ns, row.src = rows[i].src,
           row.status = "indexed" => rows[i].status = "indexed" \/ (Sound(i) => AllSent(i)),
           i \in Docs /\ row.status # "indexing" => rows[i].status # "indexing"
                                                  \/ ("unready" \notin gaps[i] => Complete(i)),
           NEW j \in Jobs, NEW r, job' = [job EXCEPT ![j] = r], JobHolds(r)',
           r.pc # "idle" => r.op = job[j].op /\ r.item = job[j].item /\ job[j].pc # "idle"
    PROVE  BaseHolds'
<1>1. /\ made \in [Items -> Nat] /\ DOMAIN rows = Items /\ rows'[i] = row /\ row # None /\ ItemHolds(i)
      /\ made[i] \in Nat /\ made' = [made EXCEPT ![i] = made[i]]
  BY KnowledgeAssumption DEF BaseHolds, StoreTyped
<1>2. /\ Home(i)' = Home(i) /\ (Sound(i)' <=> Sound(i)) /\ (Clean(i)' <=> Clean(i))
      /\ Have(i)' = Have(i) /\ VectorsOf(i)' = VectorsOf(i)
  BY <1>1 DEF Home, Sound, Clean, Have, Ids, VectorsOf
<1>3. (AllSent(i)' <=> AllSent(i)) /\ (Complete(i)' <=> Complete(i))
  BY <1>1, <1>2 DEF AllSent, Want, Complete, Ids
<1>4. ItemHolds(i)'
  <2>1. RowHolds(i)'
    BY <1>1, <1>2 DEF ItemHolds, RowHolds, Stored, Home
  <2>2. Indexed(i)'
    BY <1>1, <1>2, <1>3 DEF ItemHolds, Indexed
  <2>3. i \in Single => VectorsAtHome(i)'
    BY <1>1, <1>2 DEF ItemHolds, VectorsAtHome
  <2>4. i \in Docs => Finished(i)'
    BY <1>1, <1>3 DEF ItemHolds, Finished
  <2>5. QED
    BY <2>1, <2>2, <2>3, <2>4 DEF ItemHolds
<1>5. SourceStays(i)
  BY <1>1, <1>2, <1>3 DEF SourceStays, RowStays, TextsStay, Ids, GapsStay, SentStays
<1>6. PICK n \in Nat : n = made[i]
  BY <1>1
<1>7. made' = [made EXCEPT ![i] = n] /\ made[i] <= n /\ made'[i] = made[i]
  <2>1. made' = [made EXCEPT ![i] = n]
    BY <1>1, <1>6
  <2>2. made'[i] = made[i]
    OBVIOUS
  <2>3. made[i] <= n
    BY <1>6
  <2>4. QED
    BY <2>1, <2>2, <2>3
<1>8. gaps' \in [Items -> SUBSET GapKinds] /\ \A k \in Items : gaps[k] \subseteq gaps'[k]
  BY NoGap
<1>9. UNCHANGED <<upload, namespaces, texts, vectors>> /\ (rows[i] # None => row.gen = rows[i].gen)
  OBVIOUS
<1>10. QED
  BY <1>4, <1>5, <1>7, <1>8, <1>9, RowStepHolds

\* The last UPDATE tells the truth: a request that was not disturbed has sent all.
LEMMA SetStatusKeeps ==
    ASSUME BaseHolds, NEW j \in Jobs, SetStatus(j)
    PROVE  BaseHolds'
<1>0. /\ UNCHANGED <<upload, namespaces, made, texts, vectors, gaps>> /\ Set(j, NoJob)
      /\ NoJob.pc = "idle" /\ job' = [job EXCEPT ![j] = NoJob]
  BY DEF SetStatus, NoJob, Set
<1>1. CASE UNCHANGED rows
  BY <1>0, <1>1, JobEnds, NoGap
<1>2. CASE Alive(j) /\ rows' = [rows EXCEPT ![job[j].item].status = job[j].status]
  <2>1. PICK q : q = job[j]
    OBVIOUS
  <2>2. JobHolds(q) /\ JobTyped(q) /\ q.pc = "status"
    BY <2>1, JobType DEF SetStatus
  <2>3. /\ q.op \in {"create", "reindex", "web", "sync"} /\ HasRow(q)
        /\ q.status \in Statuses \ {"indexing"}
    BY <2>2 DEF JobTyped, Pcs, Stores, Deletes, HasRow
  <2>4. PICK i \in Items : i = q.item
    BY <2>2, <2>3, SubjectItem
  <2>5. There(q) /\ rows[i] # None /\ rows' = [rows EXCEPT ![i].status = q.status]
    BY <1>2, <2>1, <2>4 DEF Alive, There
  <2>6. rows[i] \in Row(i)
    BY <2>5, RowType
  <2>7. PICK row : row = [rows[i] EXCEPT !.status = q.status]
    OBVIOUS
  <2>8. /\ row \in Row(i) /\ row.gen = rows[i].gen /\ row.ns = rows[i].ns /\ row.src = rows[i].src
        /\ row.status = q.status
    BY <2>3, <2>6, <2>7 DEF Row
  <2>9. rows' = [rows EXCEPT ![i] = row]
    BY <2>5, <2>7
  <2>10. row.status = "indexed" => (Sound(i) => AllSent(i))
    BY <2>2, <2>3, <2>4, <2>5, <2>8 DEF JobHolds, SenderHolds
  <2>11. i \in Docs => ("unready" \notin gaps[i] => Complete(i))
    <3>1. i \in Docs => q.op \in {"create", "reindex"}
      BY <2>2, <2>3, <2>4, SubjectItem, SourcesDiffer
    <3>2. QED
      BY <2>2, <2>3, <2>4, <2>5, <3>1 DEF JobHolds, SenderHolds
  <2>12. QED
    BY <1>0, <2>5, <2>8, <2>9, <2>10, <2>11, IdleHolds, StatusKeeps
<1>3. QED
  BY <1>1, <1>2 DEF SetStatus

\* A question remembers that it has a vector before it has it.
LEMMA SetPineconeIDKeeps ==
    ASSUME BaseHolds, NEW j \in Jobs, SetPineconeID(j)
    PROVE  BaseHolds'
<1>0. UNCHANGED <<upload, namespaces, made, texts, vectors, gaps>>
  BY DEF SetPineconeID
<1>1. PICK q : q = job[j]
  OBVIOUS
<1>2. JobHolds(q) /\ JobTyped(q) /\ DOMAIN q = Fields /\ q.op = "qa" /\ q.pc = "pid"
  BY <1>1, JobType DEF SetPineconeID, At
<1>3. q.item \in Items /\ q.item \in Questions /\ q.item \notin Docs
  BY <1>2, SubjectItem, SourcesDiffer
<1>4. PICK r : r = IF q.embedded THEN [q EXCEPT !.pc = "vectors", !.ids = {1}] ELSE NoJob
  OBVIOUS
<1>5. job' = [job EXCEPT ![j] = r]
  BY <1>1, <1>4 DEF SetPineconeID, Set
<1>6. CASE UNCHANGED rows \/ \E i \in Items : \E row \in Row(i) :
              /\ rows[i] # None /\ rows' = [rows EXCEPT ![i] = row] /\ row.gen = rows[i].gen
              /\ row.ns = rows[i].ns /\ row.src = rows[i].src /\ row.status = rows[i].status
  <2>1. \A k \in Items : /\ rows'[k] = None <=> rows[k] = None
                         /\ rows[k] # None => rows'[k].gen = rows[k].gen /\ Home(k)' = Home(k)
    <3>1. CASE UNCHANGED rows
      BY <1>0, <3>1 DEF Home
    <3>2. CASE ~UNCHANGED rows
      <4>1. PICK i \in Items : \E row \in Row(i) :
              /\ rows[i] # None /\ rows' = [rows EXCEPT ![i] = row] /\ row.gen = rows[i].gen
              /\ row.ns = rows[i].ns /\ row.src = rows[i].src /\ row.status = rows[i].status
        BY <1>6, <3>2
      <4>2. PICK row \in Row(i) : /\ rows' = [rows EXCEPT ![i] = row] /\ row.gen = rows[i].gen
                                  /\ row.ns = rows[i].ns
        BY <4>1
      <4>3. DOMAIN rows = Items /\ row # None
        BY KnowledgeAssumption DEF BaseHolds, StoreTyped
      <4>4. QED
        BY <1>0, <4>1, <4>2, <4>3 DEF Home
    <3>3. QED
      BY <3>1, <3>2
  <2>2. JobHolds(r)' /\ (r.pc # "idle" => r.op = q.op /\ r.item = q.item /\ q.pc # "idle")
    <3>1. CASE ~q.embedded
      BY <1>4, <3>1, IdleHolds DEF NoJob
    <3>2. CASE q.embedded
      <4>1. /\ Goes(q, r) /\ r.name = q.name /\ r.gen = q.gen /\ r.ids = {1} /\ r.next = q.next
            /\ r.embedded = q.embedded /\ r.status = q.status /\ r.pc = "vectors"
        BY <1>2, <1>4, <3>2 DEF Goes, Fields
      <4>2. /\ r.op = "qa" /\ r.item = q.item /\ HasRow(r) /\ HasRow(q) /\ Named(q) /\ r.pc \in Pcs(r.op)
            /\ Makes(q) /\ Writes(q) /\ (There(r)' => There(q)) /\ ~Sends(r) /\ ~Refreshes(r)
        BY <1>2, <1>3, <2>1, <4>1
           DEF Goes, HasRow, Pcs, Named, Stores, Makes, Writes, There, Sends, Refreshes
      <4>3. r.op \in Stores /\ r.op \notin Deletes \cup {"deletens", "reindex", "create"}
        BY <4>2 DEF Stores, Deletes
      <4>4. JobTyped(r)'
        <5>1. IsFiniteSet(r.ids) /\ r.ids \in SUBSET Nat
          BY <4>1, FS_Singleton
        <5>2. QED
          BY <1>0, <1>2, <4>1, <4>2, <4>3, <5>1 DEF JobTyped, Goes
      <4>5. MakerHolds(r)' /\ NameHolds(r)'
        BY <1>0, <1>2, <4>1, <4>2, <4>3 DEF MakerHolds, NameHolds, JobHolds, Goes, Stored
      <4>6. WriterHolds(r)'
        BY <1>2, <1>3, <2>1, <4>1, <4>2, <4>3 DEF WriterHolds, JobHolds, Have, There
      <4>7. DeleterHolds(r)' /\ SenderHolds(r)'
        BY <4>1, <4>2, <4>3 DEF DeleterHolds, SenderHolds
      <4>8. QED
        BY <1>2, <4>1, <4>2, <4>4, <4>5, <4>6, <4>7 DEF JobHolds
    <3>3. QED
      BY <3>1, <3>2
  <2>3. CASE UNCHANGED rows
    BY <1>0, <1>1, <1>5, <2>2, <2>3, NoGap, StepOn
  <2>4. CASE ~UNCHANGED rows
    <3>1. PICK i \in Items : \E row \in Row(i) :
            /\ rows[i] # None /\ rows' = [rows EXCEPT ![i] = row] /\ row.gen = rows[i].gen
            /\ row.ns = rows[i].ns /\ row.src = rows[i].src /\ row.status = rows[i].status
      BY <1>6, <2>4
    <3>2. PICK row \in Row(i) :
            /\ rows' = [rows EXCEPT ![i] = row] /\ row.gen = rows[i].gen
            /\ row.ns = rows[i].ns /\ row.src = rows[i].src /\ row.status = rows[i].status
      BY <3>1
    <3>3. QED
      BY <1>0, <1>1, <1>5, <2>2, <3>1, <3>2, StatusKeeps
  <2>5. QED
    BY <2>3, <2>4
<1>7. CASE Alive(j) /\ rows' = [rows EXCEPT ![q.item].pid = TRUE]
  <2>1. PICK i \in Items : i = q.item
    BY <1>3
  <2>2. rows[i] # None /\ rows[i] \in Row(i)
    BY <1>1, <1>7, <2>1, RowType DEF Alive
  <2>3. PICK row : row = [rows[i] EXCEPT !.pid = TRUE]
    OBVIOUS
  <2>4. /\ row \in Row(i) /\ row.gen = rows[i].gen /\ row.ns = rows[i].ns /\ row.src = rows[i].src
        /\ row.status = rows[i].status /\ rows' = [rows EXCEPT ![i] = row]
    BY <1>7, <2>1, <2>2, <2>3 DEF Row
  <2>5. QED
    BY <1>6, <2>2, <2>4
<1>8. QED
  BY <1>1, <1>6, <1>7 DEF SetPineconeID

\* A new row is stored in a namespace that is there, with nothing before it.
LEMMA NewRow ==
    ASSUME BaseHolds, UNCHANGED <<namespaces, texts, vectors, gaps>>, NEW i \in Items, rows[i] = None,
           NEW row \in Row(i), rows' = [rows EXCEPT ![i] = row], Stored(row.ns),
           NEW n \in Nat, n = made[i] + 1, made' = [made EXCEPT ![i] = n], row.gen = n,
           i \in Docs => row.status = "indexing", row.status = "indexed" => i \in Questions,
           i \in Single => made[i] = 0
    PROVE  ItemHolds(i)' /\ SourceStays(i)
<1>1. /\ made \in [Items -> Nat] /\ DOMAIN rows = Items /\ rows'[i] = row /\ row # None
      /\ made'[i] = n /\ made[i] \in Nat
  BY KnowledgeAssumption DEF BaseHolds, StoreTyped
<1>2. RowHolds(i)'
  BY <1>1 DEF RowHolds, Stored
<1>3. Indexed(i)'
  BY <1>1, SourcesDiffer DEF Indexed, AllSent, Want
<1>4. i \in Single => VectorsAtHome(i)'
  <2>1. ASSUME i \in Single, NEW v \in vectors, v.item = i PROVE FALSE
    BY <1>1, <2>1 DEF BaseHolds, StoreTyped, VectorsHold
  <2>2. QED
    BY <2>1 DEF VectorsAtHome, VectorsOf
<1>5. i \in Docs => Finished(i)'
  BY <1>1 DEF Finished
<1>6. SourceStays(i)
  BY <1>1 DEF SourceStays, RowStays, TextsStay, Ids, GapsStay, SentStays
<1>7. QED
  BY <1>2, <1>3, <1>4, <1>5, <1>6 DEF ItemHolds

Inserts == {<<"create", "indexing", "embed">>, <<"web", "indexing", "crawl">>,
            <<"qa", "indexed", "pid">>, <<"sync", "pending", "clear">>}

\* A request stores its row, if the namespace is still there.
LEMMA InsertRowKeeps ==
    ASSUME BaseHolds, UNCHANGED <<upload, namespaces, texts, vectors, gaps>>, NEW j \in Jobs,
           NEW status, NEW then, job[j].pc = "row", <<job[j].op, status, then>> \in Inserts,
           job[j].op \in {"create", "qa"} \/ ~Stored(job[j].ns) \/ rows[job[j].item] = None,
           InsertRow(j, status, then)
    PROVE  BaseHolds'
<1>1. CASE ~Stored(job[j].ns)
  BY <1>1, JobEnds, NoGap DEF InsertRow
<1>2. CASE Stored(job[j].ns)
  <2>1. PICK q : q = job[j]
    OBVIOUS
  <2>2. /\ JobHolds(q) /\ JobTyped(q) /\ DOMAIN q = Fields /\ q.pc = "row"
        /\ q.op \in {"create", "web", "qa", "sync"} /\ DOMAIN job = Jobs
    BY <2>1, JobType DEF Inserts
  <2>3. /\ q.op \in Stores /\ q.op \notin Deletes \cup {"deletens", "reindex"}
        /\ ~HasRow(q) /\ Named(q) /\ q.src \in Source(q.item) /\ q.ns \in Namespaces
    BY <2>2 DEF Stores, Deletes, HasRow, Named, JobTyped
  <2>4. PICK i \in Items : i = q.item
    BY <2>2, <2>3, SubjectItem
  <2>5. /\ q.op = "create" => i \in Docs
        /\ q.op = "web" => i \in Pages
        /\ q.op = "qa" => i \in Questions
        /\ q.op = "sync" => i \in Sheets
    BY <2>2, <2>4, SubjectItem
  <2>6. Makes(q) <=> q.op \in {"create", "qa"}
    BY <2>2 DEF Makes
  <2>7. Makes(q) => made[i] = 0 /\ q.ids = {} /\ q.next = 1
    BY <2>2, <2>3, <2>4 DEF JobHolds, MakerHolds
  <2>8. rows[i] = None
    <3>1. CASE Makes(q)
      BY <2>7, <3>1, RowType
    <3>2. CASE ~Makes(q)
      BY <1>2, <2>1, <2>4, <2>6, <3>2
    <3>3. QED
      BY <3>1, <3>2
  <2>9. PICK n \in Nat : n = made[i] + 1
    BY DEF BaseHolds, StoreTyped
  <2>10. made[i] \in Nat /\ made[i] <= n /\ n > 0 /\ made \in [Items -> Nat]
    BY <2>9 DEF BaseHolds, StoreTyped
  <2>11. PICK row : row = [ns |-> q.ns, gen |-> n, status |-> status, pid |-> FALSE, src |-> q.src]
    OBVIOUS
  <2>12. row.ns = q.ns /\ row.gen = n /\ row.status = status /\ row.src = q.src /\ status \in Statuses
    BY <2>11 DEF Inserts, Statuses
  <2>13. row \in Row(i)
    BY <2>3, <2>4, <2>11, <2>12 DEF Row
  <2>14. /\ rows' = [rows EXCEPT ![i] = row] /\ made' = [made EXCEPT ![i] = n]
         /\ Set(j, [q EXCEPT !.pc = then, !.gen = n])
    BY <1>2, <2>1, <2>4, <2>9, <2>11 DEF InsertRow
  <2>15. ItemHolds(i)' /\ SourceStays(i)
    <3>1. (i \in Docs => status = "indexing") /\ (status = "indexed" => i \in Questions)
      BY <2>1, <2>5, SourcesDiffer DEF Inserts
    <3>2. i \in Single => made[i] = 0
      BY <2>2, <2>5, <2>6, <2>7, SourcesDiffer DEF Single
    <3>3. QED
      BY <1>2, <2>1, <2>8, <2>9, <2>12, <2>13, <2>14, <3>1, <3>2, NewRow
  <2>16. /\ rows'[i] = row /\ made'[i] = n /\ row # None /\ Home(i)' = namespaces[q.ns]
         /\ namespaces[q.ns] = q.name
    <3>1. rows'[i] = row /\ row # None /\ made'[i] = n
      BY <2>10, <2>13, <2>14, KnowledgeAssumption DEF BaseHolds, StoreTyped
    <3>2. namespaces[q.ns] = q.name
      BY <1>2, <2>1, <2>2, <2>3 DEF JobHolds, NameHolds
    <3>3. QED
      BY <2>12, <3>1, <3>2 DEF Home
  <2>17. PICK r : r = [q EXCEPT !.pc = then, !.gen = n]
    OBVIOUS
  <2>18. /\ Goes(q, r) /\ r.name = q.name /\ r.gen = n /\ r.ids = q.ids /\ r.next = q.next
         /\ r.embedded = q.embedded /\ r.status = q.status /\ r.pc = then
    BY <2>2, <2>17 DEF Goes, Fields
  <2>19. /\ r.op = q.op /\ r.item = i /\ r.ns = q.ns /\ r.src = q.src
         /\ r.pc \in Pcs(r.op) \ {"idle", "ns", "vectors", "status", "texts"}
         /\ ~Sends(r) /\ job' = [job EXCEPT ![j] = r]
    BY <2>1, <2>4, <2>14, <2>17, <2>18 DEF Goes, Pcs, Inserts, Sends, Set
  <2>20. JobHolds(r)'
    <3>0. HasRow(r) /\ r.gen \in 1..made'[r.item] /\ r.gen \in Nat
      BY <2>1, <2>10, <2>16, <2>18, <2>19 DEF HasRow, Inserts
    <3>1. JobTyped(r)'
      BY <2>2, <2>3, <2>4, <2>18, <2>19, <3>0 DEF JobTyped, Goes
    <3>2. MakerHolds(r)'
      BY <2>16, <2>18, <2>19, <3>0 DEF MakerHolds
    <3>3. NameHolds(r)' /\ DeleterHolds(r)'
      BY <2>2, <2>3, <2>16, <2>18, <2>19 DEF NameHolds, DeleterHolds, JobHolds
    <3>4. WriterHolds(r)'
      <4>1. Writes(r) => q.ids = {} /\ q.next = 1
        BY <2>3, <2>6, <2>7, <2>19 DEF Writes
      <4>2. Writes(r) => 1..(r.next - 1) = {} /\ r.ids = {}
        BY <2>18, <4>1
      <4>3. QED
        BY <2>16, <2>18, <2>19, <4>2 DEF WriterHolds
    <3>5. SenderHolds(r)'
      BY <2>3, <2>12, <2>16, <2>18, <2>19 DEF SenderHolds
    <3>6. QED
      BY <3>1, <3>2, <3>3, <3>4, <3>5 DEF JobHolds
  <2>21. ASSUME NEW k \in Jobs \ {j}, job[k].item = i
         PROVE  SourceStays(i) /\ (Makes(job[k]) => made'[i] = made[i])
    <3>1. ~Makes(job[k])
      <4>1. CASE Makes(q)
        BY <2>1, <2>4, <2>21, <4>1 DEF BaseHolds, JobsHold, OneMaker
      <4>2. CASE ~Makes(q)
        <5>1. JobTyped(job[k])
          BY JobType
        <5>2. Makes(job[k]) => i \in Docs \cup Questions
          BY <2>21, <5>1, SubjectItem DEF Makes
        <5>3. QED
          BY <2>2, <2>5, <2>6, <4>2, <5>2, SourcesDiffer
      <4>3. QED
        BY <4>1, <4>2
    <3>2. QED
      BY <2>15, <3>1
  <2>22. gaps' \in [Items -> SUBSET GapKinds] /\ \A k \in Items : gaps[k] \subseteq gaps'[k]
    BY NoGap
  <2>23. rows[i] # None => row.gen = rows[i].gen
    BY <2>8
  <2>24. r.pc # "idle" => r.op = job[j].op /\ r.item = job[j].item /\ job[j].pc # "idle"
    BY <2>1, <2>4, <2>19
  <2>25. QED
    BY <2>10, <2>13, <2>14, <2>15, <2>19, <2>20, <2>21, <2>22, <2>23, <2>24, RowStepHolds
<1>3. QED
  BY <1>1, <1>2

\* A document is stored before its chunks, a question after its embedding.
LEMMA InsertsKeep ==
    ASSUME BaseHolds, NEW j \in Jobs, InsertDocument(j) \/ InsertQA(j)
    PROVE  BaseHolds'
<1>1. CASE InsertDocument(j)
  BY <1>1, InsertRowKeeps DEF InsertDocument, At, Inserts
<1>2. CASE InsertQA(j)
  BY <1>2, InsertRowKeeps DEF InsertQA, At, Inserts
<1>3. QED
  BY <1>1, <1>2

\* The row of a page or a sheet is taken over by the request that reads it anew.
LEMMA RefreshKeeps ==
    ASSUME BaseHolds, UNCHANGED <<upload, namespaces, made, texts, vectors>>,
           gaps' \in [Items -> SUBSET GapKinds], \A k \in Items : gaps[k] \subseteq gaps'[k],
           NEW j \in Jobs, NEW q, q = job[j], q.pc = "row",
           q.op \in {"web", "sync"}, NEW i \in Items, i = q.item, rows[i] # None, NEW row \in Row(i),
           rows' = [rows EXCEPT ![i] = row], row.gen = rows[i].gen, row.src = q.src,
           row.status # "indexed", Stored(row.ns),
           row.ns = q.ns \/ "moved" \in gaps'[i],
           NEW r, Goes(q, r), r.name = q.name, r.gen = rows[i].gen, r.ids = q.ids, r.next = q.next,
           r.embedded = q.embedded, r.status = q.status,
           r.pc = (IF q.op = "web" THEN "crawl" ELSE "clear"), job' = [job EXCEPT ![j] = r]
    PROVE  BaseHolds'
<1>1. JobHolds(q) /\ JobTyped(q) /\ DOMAIN q = Fields /\ DOMAIN job = Jobs
  BY JobType
<1>2. /\ q.op \in {"web", "sync"} /\ q.op \in Stores
      /\ q.op \notin Deletes \cup {"deletens", "reindex", "create", "qa"}
      /\ Named(q) /\ Refreshes(q) /\ i \in Pages \cup Sheets /\ i \notin Single
  BY <1>1, SubjectItem, SourcesDiffer DEF Stores, Deletes, Named, Refreshes, Single
<1>3. /\ rows[i].gen = made[i] /\ made[i] \in Nat \ {0} /\ made \in [Items -> Nat]
      /\ rows'[i] = row /\ row # None /\ Home(i)' = namespaces[row.ns]
  <2>1. rows[i].gen = made[i] /\ made[i] \in Nat \ {0}
    BY RowType
  <2>2. rows'[i] = row /\ row # None /\ made \in [Items -> Nat]
    BY KnowledgeAssumption DEF BaseHolds, StoreTyped
  <2>3. QED
    BY <2>1, <2>2 DEF Home
<1>4. ItemHolds(i)'
  <2>1. RowHolds(i)' /\ Indexed(i)'
    BY <1>3 DEF RowHolds, Indexed, Stored
  <2>2. QED
    BY <1>2, <2>1 DEF ItemHolds, Single
<1>5. PICK n \in Nat : n = made[i]
  BY <1>3
<1>6. made' = [made EXCEPT ![i] = n] /\ made'[i] = made[i]
  BY <1>3, <1>5
<1>8. r.gen = n
  BY <1>3, <1>5
<1>9. /\ r.op = q.op /\ r.item = i /\ r.ns = q.ns /\ r.src = q.src /\ HasRow(r)
      /\ r.pc \in Pcs(r.op) \ {"idle", "ns", "vectors", "status", "texts", "embed"}
      /\ ~Sends(r)
  BY DEF Goes, Pcs, Sends, HasRow
<1>10. JobHolds(r)'
  <2>1. r.gen \in 1..made'[r.item] /\ r.gen \in Nat
    BY <1>3, <1>5, <1>6, <1>8, <1>9
  <2>2. JobTyped(r)'
    BY <1>1, <1>2, <1>8, <1>9, <2>1 DEF JobTyped, Goes
  <2>3. NameHolds(r)'
    BY <1>1, <1>2, <1>8, <1>9 DEF NameHolds, JobHolds, Stored
  <2>4. MakerHolds(r)' /\ WriterHolds(r)' /\ DeleterHolds(r)'
    BY <1>2, <1>9 DEF MakerHolds, Makes, WriterHolds, Writes, DeleterHolds
  <2>5. SenderHolds(r)'
    <3>1. "moved" \notin gaps'[i] => namespaces[row.ns] = q.name
      BY <1>1, <1>2 DEF JobHolds, NameHolds
    <3>2. QED
      BY <1>2, <1>3, <1>8, <1>9, <3>1 DEF SenderHolds
  <2>6. QED
    BY <2>2, <2>3, <2>4, <2>5 DEF JobHolds
<1>11. ASSUME NEW k \in Jobs \ {j}, job[k].item = i
       PROVE  SourceStays(i) /\ (Makes(job[k]) => made'[i] = made[i])
  <2>1. JobTyped(job[k])
    BY JobType
  <2>2. job[k].pc # "idle"
    BY <1>11, <2>1, SourcesDiffer DEF JobTyped
  <2>3. Refreshes(job[k])
    <3>1. PICK p : p = job[k]
      OBVIOUS
    <3>2. p.op \in {"create", "web", "qa", "sync", "deletedoc", "deleteqa", "reindex", "deletens"}
      BY <2>1, <2>2, <3>1 DEF JobTyped, Stores, Deletes
    <3>3. p.op # "deletens"
      BY <1>11, <2>1, <2>2, <3>1, SourcesDiffer DEF JobTyped, Subjects
    <3>4. p.op \notin {"create", "reindex", "deletedoc", "qa", "deleteqa"}
      BY <1>2, <1>11, <2>1, <2>2, <3>1, SubjectItem, SourcesDiffer
    <3>5. QED
      BY <2>2, <3>1, <3>2, <3>3, <3>4 DEF Refreshes
  <2>4. "overlap" \in gaps[i]
    BY <1>2, <1>11, <2>3 DEF BaseHolds, JobsHold, OverlapsMarked
  <2>5. "overlap" \in gaps'[i]
    BY <2>4
  <2>6. SentStays(i) /\ RowStays(i) /\ GapsStay(i)
    BY <1>2, <1>3, <2>4, <2>5 DEF SentStays, Sound, RowStays, GapsStay
  <2>7. TextsStay(i)
    BY DEF TextsStay, Ids
  <2>8. QED
    BY <1>3, <1>6, <2>6, <2>7 DEF SourceStays
<1>12. r.pc # "idle" => r.op = job[j].op /\ r.item = job[j].item /\ job[j].pc # "idle"
  BY <1>9
<1>13. made[i] <= n /\ UNCHANGED <<upload, namespaces, texts, vectors>>
  BY <1>3, <1>5
<1>14. QED
  BY <1>4, <1>6, <1>9, <1>10, <1>11, <1>12, <1>13, RowStepHolds

\* A page that is there moves to the namespace asked for.
LEMMA UpsertPageKeeps ==
    ASSUME BaseHolds, NEW j \in Jobs, UpsertPage(j)
    PROVE  BaseHolds'
<1>0. UNCHANGED <<upload, namespaces, texts, vectors, gaps>>
  BY DEF UpsertPage
<1>1. PICK q : q = job[j]
  OBVIOUS
<1>2. JobTyped(q) /\ DOMAIN q = Fields /\ q.op = "web" /\ q.pc = "row"
  BY <1>1, JobType DEF UpsertPage, At
<1>3. q.item \in Pages /\ q.item \in Items /\ q.ns \in Namespaces /\ q.src \in Source(q.item)
  BY <1>2, SubjectItem DEF JobTyped, Stores
<1>4. CASE rows[q.item] = None \/ ~Stored(q.ns)
  <2>1. InsertRow(j, "indexing", "crawl")
    BY <1>1, <1>4 DEF UpsertPage
  <2>2. QED
    BY <1>0, <1>1, <1>2, <1>4, <2>1, InsertRowKeeps DEF Inserts
<1>5. CASE rows[q.item] # None /\ Stored(q.ns)
  <2>1. PICK i \in Items : i = q.item
    BY <1>3
  <2>2. rows[i] \in Row(i) /\ rows[i] # None
    BY <1>5, <2>1, RowType
  <2>3. PICK row : row = [rows[i] EXCEPT !.ns = q.ns, !.status = "indexing", !.src = q.src]
    OBVIOUS
  <2>4. /\ row \in Row(i) /\ row.gen = rows[i].gen /\ row.ns = q.ns /\ row.src = q.src
        /\ row.status = "indexing"
    BY <1>3, <2>1, <2>2, <2>3 DEF Row, Statuses
  <2>5. /\ rows' = [rows EXCEPT ![i] = row] /\ UNCHANGED made
        /\ job' = [job EXCEPT ![j] = [q EXCEPT !.pc = "crawl", !.gen = rows[i].gen]]
    BY <1>1, <1>5, <2>1, <2>3 DEF UpsertPage, Set
  <2>6. gaps' \in [Items -> SUBSET GapKinds] /\ \A k \in Items : gaps[k] \subseteq gaps'[k]
    BY <1>0, NoGap
  <2>7. row.status # "indexed" /\ Stored(row.ns) /\ UNCHANGED <<upload, namespaces, made, texts, vectors>>
    BY <1>0, <1>5, <2>4, <2>5
  <2>8. PICK r : r = [q EXCEPT !.pc = "crawl", !.gen = rows[i].gen]
    OBVIOUS
  <2>9. /\ Goes(q, r) /\ r.name = q.name /\ r.gen = rows[i].gen /\ r.ids = q.ids /\ r.next = q.next
        /\ r.embedded = q.embedded /\ r.status = q.status /\ r.pc = "crawl"
    BY <1>2, <2>8 DEF Goes, Fields
  <2>10. job' = [job EXCEPT ![j] = r]
    BY <2>5, <2>8
  <2>11. QED
    BY <1>1, <1>2, <2>1, <2>2, <2>4, <2>5, <2>6, <2>7, <2>9, <2>10, RefreshKeeps
<1>6. QED
  BY <1>4, <1>5

\* A sheet that is there stays in its namespace.
LEMMA UpsertTableKeeps ==
    ASSUME BaseHolds, NEW j \in Jobs, UpsertTable(j)
    PROVE  BaseHolds'
<1>0. UNCHANGED <<upload, namespaces, texts, vectors>>
  BY DEF UpsertTable
<1>1. PICK q : q = job[j]
  OBVIOUS
<1>2. JobTyped(q) /\ DOMAIN q = Fields /\ q.op = "sync" /\ q.pc = "row"
  BY <1>1, JobType DEF UpsertTable, At
<1>3. q.item \in Sheets /\ q.item \in Items /\ q.ns \in Namespaces /\ q.src \in Source(q.item)
  BY <1>2, SubjectItem DEF JobTyped, Stores
<1>4. CASE rows[q.item] = None
  <2>1. InsertRow(j, "pending", "clear") /\ UNCHANGED gaps
    BY <1>1, <1>4 DEF UpsertTable
  <2>2. QED
    BY <1>0, <1>1, <1>2, <1>4, <2>1, InsertRowKeeps DEF Inserts
<1>5. CASE rows[q.item] # None
  <2>1. PICK i \in Items : i = q.item
    BY <1>3
  <2>2. rows[i] \in Row(i) /\ rows[i] # None /\ Stored(rows[i].ns)
    BY <1>5, <2>1, RowType
  <2>3. PICK row : row = [rows[i] EXCEPT !.status = "pending", !.src = q.src]
    OBVIOUS
  <2>4. /\ row \in Row(i) /\ row.gen = rows[i].gen /\ row.ns = rows[i].ns /\ row.src = q.src
        /\ row.status = "pending"
    BY <1>3, <2>1, <2>2, <2>3 DEF Row, Statuses
  <2>5. /\ rows' = [rows EXCEPT ![i] = row] /\ UNCHANGED made
        /\ job' = [job EXCEPT ![j] = [q EXCEPT !.pc = "clear", !.gen = rows[i].gen]]
        /\ Gap(i, IF rows[i].ns # q.ns THEN {"moved"} ELSE {})
    BY <1>1, <1>5, <2>1, <2>3 DEF UpsertTable, Set
  <2>6. PICK g \in SUBSET {"moved"} : Gap(i, g) /\ (rows[i].ns # q.ns => "moved" \in g)
    BY <2>5
  <2>7. /\ gaps' \in [Items -> SUBSET GapKinds] /\ g \subseteq gaps'[i]
        /\ \A k \in Items : gaps[k] \subseteq gaps'[k]
    <3>1. g \in SUBSET GapKinds
      BY DEF GapKinds
    <3>2. QED
      BY <2>6, <3>1, GapKeeps
  <2>8. /\ row.status # "indexed" /\ Stored(row.ns) /\ UNCHANGED <<upload, namespaces, made, texts, vectors>>
        /\ (row.ns = q.ns \/ "moved" \in gaps'[i])
    BY <1>0, <2>2, <2>4, <2>5, <2>6, <2>7
  <2>9. PICK r : r = [q EXCEPT !.pc = "clear", !.gen = rows[i].gen]
    OBVIOUS
  <2>10. /\ Goes(q, r) /\ r.name = q.name /\ r.gen = rows[i].gen /\ r.ids = q.ids /\ r.next = q.next
         /\ r.embedded = q.embedded /\ r.status = q.status /\ r.pc = "clear"
    BY <1>2, <2>9 DEF Goes, Fields
  <2>11. job' = [job EXCEPT ![j] = r]
    BY <2>5, <2>9
  <2>12. QED
    BY <1>1, <1>2, <2>1, <2>2, <2>4, <2>5, <2>7, <2>8, <2>10, <2>11, RefreshKeeps
<1>6. QED
  BY <1>4, <1>5

-----------------------------------------------------------------------------
(* Vectors come. *)

\* Batch by batch, from none of the vectors to all of them.
LEMMA FirstOfNone ==
    ASSUME NEW S \in SUBSET Nat, IsFiniteSet(S)
    PROVE  FirstOf(S, 0) = {}
<1> SUFFICES ASSUME NEW x \in FirstOf(S, 0) PROVE FALSE
  OBVIOUS
<1>1. PICK T \in SUBSET S : T = {y \in S : y <= x}
  OBVIOUS
<1>2. x \in S /\ x \in T /\ Cardinality(T) <= 0
  BY <1>1 DEF FirstOf
<1>3. IsFiniteSet(T) /\ Cardinality(T) \in Nat
  BY FS_Subset, FS_CardinalityType
<1>4. Cardinality(T) = 0
  BY <1>2, <1>3
<1>5. QED
  BY <1>2, <1>3, <1>4, FS_EmptySet

\* The last batch leaves none out.
LEMMA FirstOfAll ==
    ASSUME NEW S \in SUBSET Nat, IsFiniteSet(S)
    PROVE  FirstOf(S, Cardinality(S)) = S
<1> SUFFICES ASSUME NEW x \in S PROVE x \in FirstOf(S, Cardinality(S))
  BY DEF FirstOf
<1>1. PICK T \in SUBSET S : T = {y \in S : y <= x}
  OBVIOUS
<1>2. Cardinality(T) <= Cardinality(S)
  BY FS_Subset
<1>3. QED
  BY <1>1, <1>2 DEF FirstOf

\* What an undisturbed request upserts is all that search owes the source.
LEMMA SendsAll ==
    ASSUME BaseHolds, NEW j \in Jobs, NEW q, q = job[j], q.pc = "vectors",
           q.op \in {"create", "reindex", "web", "qa", "sync"}, There(q),
           gaps[q.item] \cap {"unready", "overlap", "moved"} = {}
    PROVE  \A x \in Want(q.item) : x \in q.ids /\ Home(q.item) = q.name
<1>1. JobHolds(q) /\ JobTyped(q) /\ HasRow(q)
  BY JobType DEF HasRow
<1>2. CASE q.op = "qa"
  <2>1. q.item \in Questions
    BY <1>1, <1>2, SubjectItem
  <2>2. QED
    BY <2>1 DEF Want
<1>3. CASE q.op = "create"
  <2>1. q.item \in Docs /\ q.item \notin Questions /\ Writes(q) /\ Sends(q)
    BY <1>1, <1>3, SubjectItem, SourcesDiffer DEF Writes, Sends
  <2>2. Home(q.item) = q.name /\ q.ids = DOMAIN PartsOf(q.item, q.src) /\ rows[q.item].src = q.src
    BY <1>1, <1>3, <2>1 DEF JobHolds, WriterHolds, SenderHolds
  <2>3. QED
    BY <2>1, <2>2 DEF Want
<1>4. CASE q.op = "reindex"
  <2>1. Writes(q)
    BY <1>1, <1>4 DEF Writes
  <2>2. Home(q.item) = q.name /\ Want(q.item) \subseteq q.ids
    BY <1>1, <1>4, <2>1 DEF JobHolds, WriterHolds, SenderHolds
  <2>3. QED
    BY <2>2
<1>5. CASE q.op \in {"web", "sync"}
  <2>1. q.item \notin Questions /\ Refreshes(q) /\ Sends(q)
    BY <1>1, <1>5, SubjectItem, SourcesDiffer DEF Refreshes, Sends
  <2>2. Home(q.item) = q.name /\ q.ids = DOMAIN PartsOf(q.item, q.src) /\ rows[q.item].src = q.src
    BY <1>1, <1>5, <2>1 DEF JobHolds, SenderHolds
  <2>3. QED
    BY <2>1, <2>2 DEF Want
<1>6. QED
  BY <1>2, <1>3, <1>4, <1>5

\* A document or a question is upserted only by who knows where it is.
LEMMA WritesHome ==
    ASSUME BaseHolds, NEW j \in Jobs, NEW q, q = job[j], q.pc = "vectors",
           q.op \in {"create", "reindex", "web", "qa", "sync"}, There(q), q.item \in Single
    PROVE  Home(q.item) = q.name /\ q.ids \subseteq Have(q.item)
<1>1. JobHolds(q) /\ JobTyped(q)
  BY JobType
<1>2. q.op \in {"create", "reindex", "qa"}
  BY <1>1, SubjectItem, SourcesDiffer DEF Single
<1>3. Writes(q)
  BY <1>2 DEF Writes, HasRow
<1>4. QED
  BY <1>1, <1>3 DEF JobHolds, WriterHolds

\* The vectors up of the texts ids come for the source of the request q.
Comes(q, ids, up) ==
    /\ vectors' = vectors \cup up /\ ids \subseteq q.ids
    /\ \A v \in up : v.ns = q.name /\ v.item = q.item /\ v.gen = q.gen /\ v.idx \in ids
    /\ \A x \in ids : [ns |-> q.name, item |-> q.item, gen |-> q.gen, idx |-> x] \in up

\* If the source is deleted that is marked; if all come, an earlier failure is made good.
Marks(j, q, ids) ==
    /\ gaps' \in [Items -> SUBSET GapKinds] /\ \A k \in Items : GapsStay(k)
    /\ \A k \in Items \ {q.item} : gaps'[k] = gaps[k]
    /\ ids # {} /\ Late(j) => "late" \in gaps'[q.item]
    /\ "unsent" \in gaps[q.item] /\ "unsent" \notin gaps'[q.item] => ids = q.ids /\ ~Late(j)

\* Vectors that come for a source that is not deleted, or with a mark.
LEMMA VectorsCome ==
    ASSUME BaseHolds, UNCHANGED <<upload, namespaces, rows, made, texts>>,
           NEW j \in Jobs, NEW q, q = job[j], q.pc = "vectors",
           q.op \in {"create", "reindex", "web", "qa", "sync"}, NEW i \in Items, i = q.item,
           NEW ids, NEW up, Comes(q, ids, up), Marks(j, q, ids),
           NEW r, job' = [job EXCEPT ![j] = r], JobHolds(r)',
           r.pc # "idle" => r.op = job[j].op /\ r.item = job[j].item /\ job[j].pc # "idle"
    PROVE  BaseHolds'
<1> USE DEF Comes, Marks
<1>1. JobHolds(q) /\ JobTyped(q) /\ HasRow(q) /\ Named(q) /\ q.name \in Names /\ q.gen \in 1..made[i]
  <2>1. JobHolds(q) /\ JobTyped(q) /\ HasRow(q) /\ Named(q)
    BY JobType DEF HasRow, Named, Stores
  <2>2. QED
    BY <2>1 DEF JobTyped
<1>2. ASSUME NEW v \in vectors', v \notin vectors
      PROVE  /\ v.ns = q.name /\ v.item = i /\ v.gen = q.gen /\ v.idx \in q.ids
             /\ Clean(i)' => ~Late(j)
  <2>1. v \in up /\ ids # {}
    BY <1>2
  <2>2. Clean(i)' => ~Late(j)
    BY <2>1 DEF Clean
  <2>3. QED
    BY <2>1, <2>2
<1>3. vectors \subseteq vectors'
  OBVIOUS
<1>4. ~Late(j) => There(q)
  BY DEF Late, Alive, There
<1>5. ASSUME NEW k \in Items
      PROVE  /\ Clean(k)' => Clean(k)
             /\ AllSent(k) => AllSent(k)'
             /\ k # i => VectorsOf(k)' = VectorsOf(k) /\ (Sound(k)' <=> Sound(k))
  <2>1. GapsStay(k) /\ Home(k)' = Home(k) /\ Want(k)' = Want(k)
    BY DEF Home, Want
  <2>2. Clean(k)' => Clean(k)
    BY <2>1 DEF GapsStay, Clean
  <2>3. AllSent(k) => AllSent(k)'
    BY <1>3, <2>1 DEF AllSent
  <2>4. k # i => VectorsOf(k)' = VectorsOf(k)
    BY <1>2, <1>3 DEF VectorsOf
  <2>5. k # i => (Sound(k)' <=> Sound(k))
    BY DEF Sound
  <2>6. QED
    BY <2>2, <2>3, <2>4, <2>5
<1>6. StoreTyped'
  <2>1. VectorsHold'
    BY <1>1, <1>2 DEF BaseHolds, StoreTyped, VectorsHold
  <2>2. QED
    BY <2>1 DEF BaseHolds, StoreTyped, NamesHold, TextsHold
<1>7. ASSUME NEW k \in Items PROVE SentStays(k)
  <2>1. CASE k # i
    BY <1>5, <2>1 DEF SentStays
  <2>2. CASE k = i
    <3> SUFFICES ASSUME rows[i] # None, Sound(i)', Sound(i) => AllSent(i) PROVE AllSent(i)'
      BY <2>2 DEF SentStays
    <3>1. CASE Sound(i)
      BY <1>5, <3>1
    <3>2. CASE ~Sound(i)
      <4>1. GapsStay(i)
        OBVIOUS
      <4>2. "unsent" \in gaps[i] /\ "unsent" \notin gaps'[i] /\ gaps[i] \cap {"unready", "overlap", "moved"} = {}
        BY <3>2, <4>1 DEF Sound, GapsStay
      <4>3. ids = q.ids /\ There(q)
        BY <1>4, <4>2
      <4>4. \A x \in Want(i) : x \in ids /\ Home(i) = q.name
        BY <4>2, <4>3, SendsAll
      <4>5. Want(i)' = Want(i) /\ Home(i)' = Home(i) /\ rows'[i].gen = q.gen
        BY <4>3 DEF Want, Home, There
      <4>6. QED
        BY <4>4, <4>5 DEF AllSent
    <3>3. QED
      BY <3>1, <3>2
  <2>3. QED
    BY <2>1, <2>2
<1>8. ASSUME NEW k \in Items PROVE SourceStays(k)
  <2>1. made[k] <= made'[k]
    BY DEF BaseHolds, StoreTyped
  <2>2. RowStays(k)
    BY DEF RowStays, Home
  <2>3. QED
    BY <1>7, <2>1, <2>2 DEF SourceStays, TextsStay, Ids
<1>9. ASSUME NEW k \in Items PROVE ItemHolds(k)'
  <2>1. ItemHolds(k)
    BY DEF BaseHolds
  <2>2. RowHolds(k)'
    BY <2>1 DEF ItemHolds, RowHolds, Stored
  <2>3. Indexed(k)'
    BY <1>7, <2>1 DEF ItemHolds, Indexed, SentStays
  <2>4. ASSUME k \in Docs PROVE Finished(k)'
    <3>1. GapsStay(k)
      OBVIOUS
    <3>2. QED
      BY <2>1, <2>4, <3>1 DEF ItemHolds, Finished, GapsStay, Complete, Ids
  <2>5. ASSUME k \in Single, Clean(k)', NEW v \in VectorsOf(k)'
        PROVE  rows'[k] # None /\ v.ns = Home(k)' /\ v.idx \in Have(k)'
    <3>1. Home(k)' = Home(k) /\ Have(k)' = Have(k)
      BY DEF Home, Have, Ids
    <3>2. CASE v \in vectors
      BY <1>5, <2>1, <2>5, <3>1, <3>2 DEF ItemHolds, VectorsAtHome, VectorsOf
    <3>3. CASE v \notin vectors
      <4>1. v \in vectors' /\ v.item = k
        BY <2>5 DEF VectorsOf
      <4>2. v.ns = q.name /\ k = i /\ v.idx \in q.ids /\ There(q)
        BY <1>2, <1>4, <2>5, <3>3, <4>1
      <4>3. Home(i) = q.name /\ q.ids \subseteq Have(i)
        BY <2>5, <4>2, WritesHome
      <4>4. QED
        BY <3>1, <4>2, <4>3 DEF There
    <3>4. QED
      BY <3>2, <3>3
  <2>6. k \in Single => VectorsAtHome(k)'
    BY <2>5 DEF VectorsAtHome
  <2>7. QED
    BY <2>2, <2>3, <2>4, <2>6 DEF ItemHolds
<1>10. ASSUME NEW k \in Jobs \ {j}, NEW p, p = job[k] PROVE DeleterHolds(p)'
  <2>1. JobTyped(p) /\ DeleterHolds(p)
    BY <1>10, JobType DEF JobHolds
  <2>2. p.op \in Deletes /\ p.pc # "idle" => p.item \in Items
    BY <2>1, SubjectItem DEF Deletes
  <2>3. ASSUME vectors' # vectors, Clean(i)'
        PROVE  /\ p.pc = "drop" => p.item # i
               /\ p.op = "deletedoc" /\ p.pc = "vectors" => p.item # i
               /\ p.op = "deletens" /\ p.pc = "drop" => p.name # q.name
    <3>1. PICK v \in vectors' : v \notin vectors
      BY <1>3, <2>3
    <3>2. ~Late(j)
      BY <1>2, <2>3, <3>1
    <3>3. QED
      BY <1>10, <3>2 DEF Late, At
  <2>4. ASSUME p.op \in Deletes, p.pc # "idle", Clean(p.item)',
               p.pc = "drop" \/ (p.op = "deletedoc" /\ p.pc = "vectors")
        PROVE  Clean(p.item) /\ VectorsOf(p.item)' = VectorsOf(p.item)
    <3>1. p.item \in Items /\ Clean(p.item)
      BY <1>5, <2>2, <2>4
    <3>2. CASE vectors' = vectors
      BY <3>1, <3>2 DEF VectorsOf
    <3>3. CASE vectors' # vectors
      <4>1. p.item # i
        BY <2>3, <2>4, <3>3
      <4>2. QED
        BY <1>5, <3>1, <4>1
    <3>4. QED
      BY <3>2, <3>3
  <2>5. p.op = "deletedoc" /\ p.pc = "vectors" /\ Clean(p.item)' =>
           \A v \in VectorsOf(p.item)' : v.ns = p.name /\ v.idx \in p.ids
    BY <2>1, <2>4 DEF DeleterHolds, Deletes
  <2>6. p.op \in Deletes /\ p.pc = "drop" /\ Clean(p.item)' => VectorsOf(p.item)' = {}
    BY <2>1, <2>4 DEF DeleterHolds
  <2>7. ASSUME p.op = "deletens", p.pc = "drop", NEW v \in vectors', v.item \in Single, v.ns = p.name
        PROVE  ~Clean(v.item)'
    <3>1. CASE v \in vectors
      BY <1>5, <2>1, <2>7, <3>1, SourcesDiffer DEF DeleterHolds
    <3>2. CASE v \notin vectors
      BY <1>2, <2>3, <2>7, <3>2
    <3>3. QED
      BY <3>1, <3>2
  <2>8. p.op = "deleteqa" /\ p.pc = "vectors" => p.ids = {1}
    BY <2>1 DEF DeleterHolds
  <2>9. QED
    BY <2>5, <2>6, <2>7, <2>8 DEF DeleterHolds
<1>11. OneMaker' /\ OverlapsMarked'
  <2>1. Continues(job[j], r)
    BY DEF Continues, Makes, Refreshes
  <2>2. QED
    BY <2>1, MarksStay
<1>12. NamesStay /\ made' = made
  BY DEF NamesStay
<1>13. QED
  BY <1>6, <1>8, <1>9, <1>10, <1>11, <1>12, StepHolds

\* What a request is to do when its vectors are there, or it has marked that they
\* are not.
LEMMA VectorsSent ==
    ASSUME BaseHolds, UNCHANGED <<upload, namespaces, rows, made, texts>>,
           NEW j \in Jobs, NEW q, q = job[j], q.pc = "vectors",
           q.op \in {"create", "reindex", "web", "qa", "sync"}, NEW i \in Items, i = q.item,
           NEW ids, NEW up, Comes(q, ids, up), Marks(j, q, ids),
           gaps[i] \ {"unsent"} \subseteq gaps'[i],
           \/ Set(j, NoJob)
           \/ q.op # "qa" /\ To(j, "status") /\ (ids = q.ids \/ "unsent" \in gaps'[i])
    PROVE  BaseHolds'
<1>1. JobHolds(q) /\ JobTyped(q) /\ DOMAIN q = Fields /\ HasRow(q) /\ Named(q)
  BY JobType DEF HasRow, Named, Stores
<1>2. CASE Set(j, NoJob)
  <2>1. PICK r : r = NoJob
    OBVIOUS
  <2>2. JobHolds(r)' /\ r.pc = "idle" /\ job' = [job EXCEPT ![j] = r]
    BY <1>2, <2>1, IdleHolds DEF NoJob, Set
  <2>3. QED
    BY <1>1, <2>2, VectorsCome
<1>3. CASE q.op # "qa" /\ To(j, "status") /\ (ids = q.ids \/ "unsent" \in gaps'[i])
  <2>1. PICK r : r = [q EXCEPT !.pc = "status"]
    OBVIOUS
  <2>2. Keeps(q, r) /\ r.pc = "status" /\ job' = [job EXCEPT ![j] = r]
    BY <1>1, <1>3, <2>1, PcOnly DEF To, Set
  <2>3. r.op = q.op /\ r.item = i /\ HasRow(r) /\ r.pc \in Pcs(r.op) /\ (There(r)' <=> There(q))
    BY <1>1, <1>3, <2>2 DEF Keeps, Goes, HasRow, Pcs, There
  <2>4. r.op \notin Deletes \cup {"deletens", "qa"} /\ ~Sends(r)
    BY <1>1, <1>3, <2>2, <2>3 DEF Deletes, Sends
  <2>5. JobTyped(r)'
    BY <1>1, <2>2, <2>3, <2>4 DEF JobTyped, Keeps, Goes, Named
  <2>6. NameHolds(r)' /\ DeleterHolds(r)'
    BY <1>1, <2>2, <2>3, <2>4 DEF NameHolds, JobHolds, DeleterHolds, Keeps, Goes, Stored
  <2>7. MakerHolds(r)'
    BY <1>1, <2>2, <2>3 DEF MakerHolds, JobHolds, Makes, Keeps, Goes
  <2>8. WriterHolds(r)'
    BY <1>1, <2>2, <2>3 DEF WriterHolds, JobHolds, Writes, Keeps, Goes, Home, Have, Ids
  <2>9. There(q) /\ Sound(i)' => AllSent(i)' \/ "unsent" \in gaps'[i]
    <3> SUFFICES ASSUME There(q), Sound(i)', "unsent" \notin gaps'[i] PROVE AllSent(i)'
      OBVIOUS
    <3>1. ids = q.ids
      BY <1>1, <1>3
    <3>2. gaps[i] \cap {"unready", "overlap", "moved"} = {}
      BY <1>1 DEF Sound
    <3>3. \A x \in Want(i) : x \in ids /\ Home(i) = q.name
      BY <1>1, <3>1, <3>2, SendsAll
    <3>4. Want(i)' = Want(i) /\ Home(i)' = Home(i) /\ rows'[i].gen = q.gen
      BY <1>1 DEF Want, Home, There
    <3>5. QED
      BY <3>3, <3>4 DEF AllSent, Comes
  <2>10. SenderHolds(r)'
    <3>1. r.op = "create" /\ There(q) => rows'[i].src = r.src /\ Complete(i)'
      BY <1>1, <2>2, <2>3 DEF SenderHolds, JobHolds, Keeps, Goes, Complete, Ids
    <3>2. Refreshes(r) /\ There(q) /\ gaps'[i] \cap {"overlap", "moved"} = {} =>
             rows'[i].src = r.src /\ Home(i)' = r.name
      <4>1. gaps'[i] \cap {"overlap", "moved"} = {} => gaps[i] \cap {"overlap", "moved"} = {}
        BY <1>1
      <4>2. QED
        BY <1>1, <2>2, <2>3, <4>1 DEF SenderHolds, JobHolds, Keeps, Goes, Refreshes, Home
    <3>3. r.op = "reindex" /\ There(q) /\ "unready" \notin gaps'[i] => Complete(i)'
      <4>1. "unready" \notin gaps'[i] => "unready" \notin gaps[i]
        BY <1>1
      <4>2. QED
        BY <1>1, <2>2, <2>3, <4>1 DEF SenderHolds, JobHolds, Complete, Ids
    <3>4. There(q) /\ Sound(i)' => AllSent(i)'
      BY <2>9 DEF Sound
    <3>5. QED
      BY <2>2, <2>3, <2>4, <3>1, <3>2, <3>3, <3>4 DEF SenderHolds
  <2>11. JobHolds(r)'
    BY <2>5, <2>6, <2>7, <2>8, <2>10 DEF JobHolds
  <2>12. r.pc # "idle" => r.op = job[j].op /\ r.item = job[j].item /\ job[j].pc # "idle"
    BY <1>1, <2>3
  <2>13. QED
    BY <1>1, <2>2, <2>11, <2>12, VectorsCome
<1>4. QED
  BY <1>2, <1>3

\* The vectors of a request, and what it is to do when they are there.
LEMMA UpsertVectorsKeeps ==
    ASSUME BaseHolds, NEW j \in Jobs, UpsertVectors(j)
    PROVE  BaseHolds'
<1>0. UNCHANGED <<upload, namespaces, rows, made, texts>>
  BY DEF UpsertVectors
<1>1. PICK q : q = job[j]
  OBVIOUS
<1>2. /\ JobHolds(q) /\ JobTyped(q) /\ DOMAIN q = Fields /\ q.pc = "vectors" /\ HasRow(q) /\ Named(q)
      /\ q.op \in {"create", "reindex", "web", "qa", "sync"}
  BY <1>1, JobType DEF UpsertVectors, HasRow, Named, Stores
<1>3. PICK i \in Items : i = q.item
  BY <1>2, SubjectItem
<1>4. PICK n \in 0..Cardinality(q.ids) :
        LET all == n = Cardinality(q.ids)
            failed == IF all \/ q.op \in {"sync", "reindex"} THEN {} ELSE {"unsent"}
            late == IF Late(j) /\ n > 0 THEN {"late"} ELSE {}
        IN  /\ vectors' = vectors \cup Upserted(j, n)
            /\ gaps' = [gaps EXCEPT ![i] =
                           (IF all /\ ~Late(j) THEN gaps[i] \ {"unsent"} ELSE gaps[i]) \cup failed \cup late]
            /\ IF q.op = "qa" \/ (~all /\ q.op \in {"sync", "reindex"})
               THEN Set(j, NoJob) ELSE To(j, "status")
  BY <1>1, <1>3 DEF UpsertVectors
<1>5. PICK all \in BOOLEAN : all <=> n = Cardinality(q.ids)
  OBVIOUS
<1>6. PICK failed \in SUBSET {"unsent"} :
        failed = (IF all \/ q.op \in {"sync", "reindex"} THEN {} ELSE {"unsent"})
  OBVIOUS
<1>7. PICK late \in SUBSET {"late"} : late = (IF Late(j) /\ n > 0 THEN {"late"} ELSE {})
  OBVIOUS
<1>8. PICK g : g = (IF all /\ ~Late(j) THEN gaps[i] \ {"unsent"} ELSE gaps[i]) \cup failed \cup late
  OBVIOUS
<1>9. /\ vectors' = vectors \cup Upserted(j, n) /\ gaps' = [gaps EXCEPT ![i] = g]
      /\ IF q.op = "qa" \/ (~all /\ q.op \in {"sync", "reindex"}) THEN Set(j, NoJob) ELSE To(j, "status")
  BY <1>4, <1>5, <1>6, <1>7, <1>8
<1>10. PICK ids : ids = FirstOf(q.ids, n)
  OBVIOUS
<1>11. /\ ids \in SUBSET q.ids
       /\ n = 0 => ids = {}
       /\ all => ids = q.ids
  <2>1. q.ids \in SUBSET Nat /\ IsFiniteSet(q.ids)
    BY <1>2 DEF JobTyped
  <2>2. FirstOf(q.ids, 0) = {} /\ FirstOf(q.ids, Cardinality(q.ids)) = q.ids
    BY <2>1, FirstOfNone, FirstOfAll
  <2>3. FirstOf(q.ids, n) \subseteq q.ids
    BY DEF FirstOf
  <2>4. QED
    BY <1>5, <1>10, <2>2, <2>3
<1>12. PICK up :
         /\ vectors' = vectors \cup up
         /\ \A v \in up : v.ns = q.name /\ v.item = i /\ v.gen = q.gen /\ v.idx \in ids
         /\ \A x \in ids : [ns |-> q.name, item |-> i, gen |-> q.gen, idx |-> x] \in up
  <2> DEFINE new(x) == [ns |-> q.name, item |-> i, gen |-> q.gen, idx |-> x]
  <2>1. PICK up : up = {new(x) : x \in ids}
    OBVIOUS
  <2>2. vectors' = vectors \cup up
    BY <1>1, <1>3, <1>9, <1>10, <2>1 DEF Upserted
  <2>3. \A x : new(x).ns = q.name /\ new(x).item = i /\ new(x).gen = q.gen /\ new(x).idx = x
    OBVIOUS
  <2>4. \A x \in ids : new(x) \in up
    BY <2>1
  <2> HIDE DEF new
  <2>5. \A v \in up : v.ns = q.name /\ v.item = i /\ v.gen = q.gen /\ v.idx \in ids
    BY <2>1, <2>3
  <2>6. QED
    BY <2>2, <2>4, <2>5 DEF new
<1>13. gaps \in [Items -> SUBSET GapKinds] /\ g \in SUBSET GapKinds
  <2>1. gaps \in [Items -> SUBSET GapKinds]
    BY DEF BaseHolds, StoreTyped
  <2>2. gaps[i] \in SUBSET GapKinds
    BY <2>1
  <2>3. QED
    BY <1>8, <2>1, <2>2 DEF GapKinds
<1>14. /\ gaps' \in [Items -> SUBSET GapKinds] /\ gaps'[i] = g
       /\ \A k \in Items \ {i} : gaps'[k] = gaps[k]
  BY <1>9, <1>13
<1>15. gaps[i] \ {"unsent"} \subseteq g
  BY <1>8
<1>16. \A k \in Items : GapsStay(k)
  BY <1>14, <1>15 DEF GapsStay
<1>17. ids # {} /\ Late(j) => "late" \in gaps'[i]
  <2>1. ids # {} => n > 0
    BY <1>11
  <2>2. QED
    BY <1>7, <1>8, <1>14, <2>1
<1>18. Comes(q, ids, up) /\ Marks(j, q, ids)
  <2>1. "unsent" \in gaps[i] /\ "unsent" \notin g => all /\ ~Late(j)
    BY <1>8
  <2>2. "unsent" \in gaps[i] /\ "unsent" \notin gaps'[i] => ids = q.ids /\ ~Late(j)
    BY <1>11, <1>14, <2>1
  <2>3. QED
    BY <1>3, <1>11, <1>12, <1>14, <1>16, <1>17, <2>2 DEF Comes, Marks
<1>19. ~all /\ q.op \in {"create", "web"} => "unsent" \in gaps'[i]
  BY <1>6, <1>8, <1>14
<1>20. CASE Set(j, NoJob)
  BY <1>0, <1>1, <1>2, <1>3, <1>14, <1>15, <1>18, <1>20, VectorsSent
<1>21. CASE q.op # "qa" /\ (q.op \in {"sync", "reindex"} => all) /\ To(j, "status")
  <2>1. ids = q.ids \/ "unsent" \in gaps'[i]
    BY <1>2, <1>11, <1>19, <1>21
  <2>2. QED
    BY <1>0, <1>1, <1>2, <1>3, <1>14, <1>15, <1>18, <1>21, <2>1, VectorsSent
<1>22. QED
  BY <1>9, <1>20, <1>21

\* Without Pinecone none come, and all are marked as missing.
LEMMA SkipVectorsKeeps ==
    ASSUME BaseHolds, NEW j \in Jobs, SkipVectors(j)
    PROVE  BaseHolds'
<1>0. UNCHANGED <<upload, namespaces, rows, made, texts, vectors>>
  BY DEF SkipVectors
<1>1. PICK q : q = job[j]
  OBVIOUS
<1>2. /\ JobHolds(q) /\ JobTyped(q) /\ q.pc = "vectors" /\ HasRow(q)
      /\ q.op \in {"create", "reindex", "web", "qa"}
  BY <1>1, JobType DEF SkipVectors, HasRow, Stores
<1>3. PICK i \in Items : i = q.item
  BY <1>2, SubjectItem
<1>4. PICK g : g = gaps[i] \cup {"unsent"}
  OBVIOUS
<1>5. gaps' = [gaps EXCEPT ![i] = g]
  BY <1>1, <1>3, <1>4 DEF SkipVectors, Gap
<1>6. gaps \in [Items -> SUBSET GapKinds] /\ g \in SUBSET GapKinds
  BY <1>4 DEF BaseHolds, StoreTyped, GapKinds
<1>7. /\ gaps' \in [Items -> SUBSET GapKinds] /\ gaps'[i] = g
      /\ \A k \in Items \ {i} : gaps'[k] = gaps[k]
  BY <1>5, <1>6
<1>8. \A k \in Items : GapsStay(k)
  BY <1>4, <1>7 DEF GapsStay
<1>9. Comes(q, {}, {}) /\ Marks(j, q, {}) /\ "unsent" \in gaps'[i]
  BY <1>0, <1>3, <1>4, <1>7, <1>8 DEF Comes, Marks
<1>10. Set(j, NoJob) \/ (q.op # "qa" /\ To(j, "status"))
  BY <1>1 DEF SkipVectors
<1>11. gaps[i] \ {"unsent"} \subseteq gaps'[i]
  BY <1>4, <1>7
<1>12. QED
  BY <1>0, <1>1, <1>2, <1>3, <1>9, <1>10, <1>11, VectorsSent

-----------------------------------------------------------------------------

\* An empty knowledge base satisfies the invariant.
LEMMA InitHolds == Init => BaseHolds
<1> SUFFICES ASSUME Init PROVE BaseHolds
  OBVIOUS
<1>1. \A i \in Items : rows[i] = None /\ gaps[i] = {} /\ made[i] = 0
  BY DEF Init
<1>2. StoreTyped
  <2>1. NamesHold
    BY KnowledgeAssumption DEF Init, NamesHold
  <2>2. TextsHold /\ VectorsHold
    BY DEF Init, TextsHold, VectorsHold
  <2>3. QED
    BY <2>1, <2>2 DEF StoreTyped, Init, GapKinds
<1>3. \A i \in Items : ItemHolds(i)
  BY <1>1 DEF ItemHolds, RowHolds, Indexed, VectorsAtHome, VectorsOf, Finished, Init
<1>4. JobsHold
  <2>1. DOMAIN job = Jobs /\ \A j \in Jobs : job[j] = NoJob
    BY DEF Init
  <2>2. NoJob.pc = "idle"
    BY DEF NoJob
  <2>3. OneMaker /\ OverlapsMarked
    BY <2>1, <2>2 DEF OneMaker, OverlapsMarked, Makes, Refreshes
  <2>4. JobHolds(NoJob)
    BY IdleHolds
  <2>5. QED
    BY <2>1, <2>3, <2>4 DEF JobsHold
<1>5. QED
  BY <1>2, <1>3, <1>4 DEF BaseHolds

\* The inductive invariant of the knowledge base.
LEMMA BaseInvariant == Spec => []BaseHolds
<1>1. Init => BaseHolds
  BY InitHolds
<1>2. BaseHolds /\ [Next]_vars => BaseHolds'
  <2> SUFFICES ASSUME BaseHolds, [Next]_vars PROVE BaseHolds'
    OBVIOUS
  <2>1. ASSUME NEW j \in Jobs, Start(j) PROVE BaseHolds'
    BY <2>1, BeginsKeep, ReindexKeeps, DeleteBegins DEF Start
  <2>2. ASSUME NEW j \in Jobs, Step(j) PROVE BaseHolds'
    <3>1. CASE \/ GetNamespace(j) \/ EmbedBatch(j) \/ UpsertVectors(j) \/ SkipVectors(j)
               \/ SetStatus(j)
      BY <3>1, GetNamespaceKeeps, EmbedBatchKeeps, UpsertVectorsKeeps, SkipVectorsKeeps,
         SetStatusKeeps
    <3>2. CASE \/ InsertDocument(j) \/ InsertQA(j) \/ InsertChunk(j) \/ ReadChunks(j) \/ ReadIds(j)
               \/ SetPineconeID(j)
      BY <3>2, InsertsKeep, InsertChunkKeeps, ReadChunksKeeps, ReadIdsKeeps, SetPineconeIDKeeps
    <3>3. CASE DeleteVectors(j) \/ DeleteRow(j) \/ DeleteAllVectors(j) \/ DropNamespace(j)
      BY <3>3, DeleteVectorsKeeps, DeleteRowKeeps, DeleteAllVectorsKeeps, DropNamespaceKeeps
    <3>4. CASE UpsertPage(j) \/ crawlAndChunk(j)
      BY <3>4, UpsertPageKeeps, crawlKeeps
    <3>5. CASE \/ FetchSheet(j) \/ fetchCSVMatrix(j) \/ resolveGoogleSheetRef(j)
               \/ fetchSheetMatrixWithOAuth(j) \/ ParseSheet(j)
      BY <3>5, SyncBeginsKeep
    <3>6. CASE UpsertTable(j) \/ ClearTable(j) \/ InsertTableRow(j)
      BY <3>6, UpsertTableKeeps, ClearTableKeeps, InsertTableRowKeeps
    <3>7. QED
      BY <2>2, <3>1, <3>2, <3>3, <3>4, <3>5, <3>6 DEF Step
  <2>3. ASSUME NEW j \in Jobs, Abandon(j) PROVE BaseHolds'
    BY <2>3, AbandonKeeps
  <2>4. CASE DeletePage \/ DeleteSheet \/ CreateNamespace
    BY <2>4, DeletePageKeeps, CreateNamespaceKeeps
  <2>5. CASE UNCHANGED knowledgeVars
    BY <2>5, KnowledgeStutters DEF knowledgeVars
  <2>6. CASE UNCHANGED vars
    BY <2>5, <2>6 DEF vars, knowledgeVars
  <2>7. QED
    BY <2>1, <2>2, <2>3, <2>4, <2>5, <2>6 DEF Next
<1>3. QED
  BY <1>1, <1>2, PTL DEF Spec

\* Whatever requests do to each other, every row is well-formed and in a
\* namespace that is there, every text belongs to the row of its source, every
\* vector to a row that its source has or had, and no two namespaces share a name.
THEOREM TypeInvariant == Spec => []TypeOK
<1>1. BaseHolds /\ GrantHolds => TypeOK
  <2> SUFFICES ASSUME BaseHolds, GrantHolds PROVE TypeOK
    OBVIOUS
  <2>1. \A i \in Items : rows[i] = None \/ (rows[i] \in Row(i) /\ namespaces[rows[i].ns] \in Names)
    BY RowType DEF Stored
  <2>2. \A t \in texts : rows[t.item] # None /\ rows[t.item].gen = t.gen
    BY DEF BaseHolds, StoreTyped, TextsHold
  <2>3. \A v \in vectors : v.ns \in Names /\ v.item \in Items /\ v.gen <= made[v.item]
    BY DEF BaseHolds, StoreTyped, VectorsHold
  <2>4. QED
    BY <2>1, <2>2, <2>3 DEF TypeOK, BaseHolds, StoreTyped, NamesHold, GapKinds, GrantHolds
<1>2. QED
  BY <1>1, BaseInvariant, GrantInvariant, PTL

\* A search by the id of its namespace finds every vector of an indexed source,
\* whatever failed and whoever interfered, with the exceptions the code makes.
THEOREM IndexSafety == Spec => []IndexedIsSearchable
<1>1. BaseHolds => IndexedIsSearchable
  <2> SUFFICES ASSUME BaseHolds, NEW i \in Items, rows[i] # None, rows[i].status = "indexed",
                      gaps[i] \cap {"unsent", "unready", "removed", "moved", "overlap"} = {},
                      NEW h \in Wanted(i)
               PROVE  h \in VectorHits([by |-> "id", ns |-> {rows[i].ns}])
    BY DEF IndexedIsSearchable
  <2>1. PICK x \in Want(i) : h = <<"vector", i, rows[i].gen, x>>
    BY DEF Wanted, Want
  <2>2. PICK v \in vectors : v = [ns |-> Home(i), item |-> i, gen |-> rows[i].gen, idx |-> x]
    BY DEF BaseHolds, ItemHolds, Indexed, Sound, AllSent
  <2>3. v.ns = Home(i) /\ h = <<"vector", v.item, v.gen, v.idx>>
    BY <2>1, <2>2
  <2>4. v \in QueryVectors(Home(i))
    BY <2>3 DEF QueryVectors
  <2>5. rows[i].ns \in Namespaces /\ Stored(rows[i].ns)
    BY RowType
  <2> DEFINE q == [by |-> "id", ns |-> {rows[i].ns}]
             asked == {n \in Namespaces : Stored(n) /\ (q.by = "all" \/ n \in q.ns)}
  <2>6. rows[i].ns \in asked
    BY <2>5
  <2>7. v \in UNION {QueryVectors(namespaces[n]) : n \in asked}
    BY <2>4, <2>6 DEF Home
  <2>8. QED
    BY <2>3, <2>7 DEF VectorHits
<1>2. QED
  BY <1>1, BaseInvariant, PTL

\* A search of all namespaces finds nothing of a document or a question that was
\* deleted, unless deleting its vectors failed or was skipped, or an upsert came
\* after it - in whatever order deletions, reindexing and storing interleave.
THEOREM DeletionSafety == Spec => []DeletedIsNotFound
<1>1. BaseHolds => DeletedIsNotFound
  <2> DEFINE q == [by |-> "all", ns |-> {}]
  <2> SUFFICES ASSUME BaseHolds, NEW h \in HybridSearch(q), h[2] \in Docs \cup Questions, rows[h[2]] = None
               PROVE  gaps[h[2]] \cap {"kept", "late"} # {}
    BY DEF DeletedIsNotFound
  <2>1. CASE h \in VectorHits(q)
    <3>1. PICK v \in vectors : h = <<"vector", v.item, v.gen, v.idx>>
      BY <2>1 DEF VectorHits, QueryVectors
    <3>2. h[2] = v.item /\ v \in VectorsOf(h[2])
      BY <3>1 DEF VectorsOf
    <3>3. VectorsAtHome(h[2])
      BY SourcesDiffer DEF BaseHolds, ItemHolds, Single
    <3>4. QED
      BY <3>2, <3>3 DEF VectorsAtHome, Clean
  <2>2. CASE h \in ChunkHits(q) \cup TableHits(q)
    <3>1. PICK t \in texts : h[2] = t.item /\ rows[t.item] # None
      BY <2>2 DEF ChunkHits, TableHits, InScope
    <3>2. QED
      BY <3>1
  <2>3. CASE h \in QAHits(q)
    <3>1. PICK i \in Questions : h[2] = i /\ rows[i] # None
      BY <2>3 DEF QAHits, InScope
    <3>2. QED
      BY <3>1
  <2>4. QED
    BY <2>1, <2>2, <2>3 DEF HybridSearch
<1>2. QED
  BY <1>1, BaseInvariant, PTL

-----------------------------------------------------------------------------
(* What is stored of a source is what it says. *)

StoredOf(i) == {t \in texts : t.item = i}

\* Of a source that has these parts, the first n are stored, each of them once.
Says(i, parts, n) ==
    /\ \A t \in StoredOf(i) : t.idx \in 1..n /\ t.text = parts[t.idx]
    /\ \A t, u \in StoredOf(i) : t.idx = u.idx => t = u
    /\ \A x \in 1..n : \E t \in StoredOf(i) : t.idx = x

\* Whatever is stored of a document is a chunk of it, at its place.
DocumentHolds(d) ==
    rows[d] # None =>
        \A t \in StoredOf(d) : /\ t.idx \in DOMAIN PartsOf(d, rows[d].src)
                               /\ t.text = PartsOf(d, rows[d].src)[t.idx]

Rewrites(r) == r.op = "sync" /\ r.pc \in {"clear", "texts"}
Untouched(s) == gaps[s] \cap {"overlap", "unstored"} = {}

\* A sync that is alone with its sheet has put its matrix into the row, and has
\* stored the row texts that it has come to.
SyncHolds(s, r) ==
    r.op = "sync" /\ HasRow(r) /\ r.item = s =>
        /\ r.gen = rows[s].gen /\ r.src = rows[s].src
        /\ r.pc = "clear" => r.next = 1
        /\ r.pc = "texts" => r.next - 1 <= Len(PartsOf(s, r.src)) /\ Says(s, PartsOf(s, r.src), r.next - 1)

SheetHolds(s) ==
    rows[s] # None /\ Untouched(s) =>
        /\ \A j \in Jobs : SyncHolds(s, job[j])
        /\ (\A j \in Jobs : job[j].item = s => ~Rewrites(job[j])) =>
              Says(s, PartsOf(s, rows[s].src), Len(PartsOf(s, rows[s].src)))

NextHolds(r) == r.op = "sync" /\ ~HasRow(r) => r.next = 1

StoredHolds ==
    /\ \A d \in Docs : DocumentHolds(d)
    /\ \A s \in Sheets : SheetHolds(s)
    /\ \A j \in Jobs : NextHolds(job[j])

\* A step that leaves the row of a source, as far as requests know of it, and its
\* texts; or that brings the row of a document.
SaysStays(i) ==
    /\ GapsStay(i)
    /\ \/ rows'[i] = None
       \/ /\ rows[i] # None \/ i \in Docs
          /\ rows[i] # None => rows'[i].gen = rows[i].gen /\ rows'[i].src = rows[i].src
          /\ StoredOf(i)' = StoredOf(i)

\* A sync goes on as it was, or has no part in the texts of the sheet.
SyncStays(s, q, r) ==
    /\ r.op = "sync" /\ HasRow(r) /\ r.item = s =>
          /\ q.op = "sync" /\ HasRow(q) /\ q.item = s /\ r.gen = q.gen /\ r.src = q.src
          /\ Rewrites(r) => r.pc = q.pc /\ r.next = q.next
    /\ Rewrites(q) /\ q.item = s /\ Untouched(s)' => Rewrites(r) /\ r.item = s

\* Chunks stay chunks of what the row says.
LEMMA DocumentStays ==
    ASSUME BaseHolds, NEW d \in Docs, DocumentHolds(d), SaysStays(d)
    PROVE  DocumentHolds(d)'
<1>1. CASE rows'[d] = None
  BY <1>1 DEF DocumentHolds
<1>2. CASE rows[d] # None /\ rows'[d].src = rows[d].src /\ StoredOf(d)' = StoredOf(d)
  BY <1>2 DEF DocumentHolds
<1>3. CASE rows[d] = None /\ StoredOf(d)' = StoredOf(d)
  <2>1. StoredOf(d) = {}
    BY <1>3 DEF StoredOf, BaseHolds, StoreTyped, TextsHold
  <2>2. QED
    BY <1>3, <2>1 DEF DocumentHolds
<1>4. QED
  BY <1>1, <1>2, <1>3 DEF SaysStays

\* And row texts those of their sheet.
LEMMA SheetStays ==
    ASSUME BaseHolds, NEW s \in Sheets, SheetHolds(s), SaysStays(s),
           \A j \in Jobs : \A q, r : q = job[j] /\ r = job'[j] => SyncStays(s, q, r)
    PROVE  SheetHolds(s)'
<1> SUFFICES ASSUME rows'[s] # None, Untouched(s)'
             PROVE  /\ \A j \in Jobs : SyncHolds(s, job[j])'
                    /\ (\A j \in Jobs : job'[j].item = s => ~Rewrites(job'[j])) =>
                          Says(s, PartsOf(s, rows[s].src), Len(PartsOf(s, rows[s].src)))'
  BY DEF SheetHolds
<1>1. /\ rows[s] # None /\ rows'[s].gen = rows[s].gen /\ rows'[s].src = rows[s].src
      /\ StoredOf(s)' = StoredOf(s)
  BY SourcesDiffer DEF SaysStays
<1>2. Untouched(s)
  BY DEF SaysStays, GapsStay, Untouched
<1>3. /\ \A j \in Jobs : SyncHolds(s, job[j])
      /\ (\A j \in Jobs : job[j].item = s => ~Rewrites(job[j])) =>
            Says(s, PartsOf(s, rows[s].src), Len(PartsOf(s, rows[s].src)))
  BY <1>1, <1>2 DEF SheetHolds
<1>4. \A parts, n : Says(s, parts, n) => Says(s, parts, n)'
  BY <1>1 DEF Says
<1>5. ASSUME NEW j \in Jobs PROVE SyncHolds(s, job[j])'
  <2>1. PICK q, r : q = job[j] /\ r = job'[j]
    OBVIOUS
  <2>2. SyncStays(s, q, r) /\ SyncHolds(s, q)
    BY <1>3, <2>1
  <2>3. SyncHolds(s, r)'
    BY <1>1, <1>4, <2>2 DEF SyncHolds, SyncStays, Rewrites
  <2>4. QED
    BY <2>1, <2>3
<1>6. ASSUME \A j \in Jobs : job'[j].item = s => ~Rewrites(job'[j])
      PROVE  Says(s, PartsOf(s, rows[s].src), Len(PartsOf(s, rows[s].src)))'
  <2>1. ASSUME NEW j \in Jobs, job[j].item = s PROVE ~Rewrites(job[j])
    <3>1. PICK q, r : q = job[j] /\ r = job'[j]
      OBVIOUS
    <3>2. SyncStays(s, q, r) /\ (r.item = s => ~Rewrites(r))
      BY <1>6, <3>1
    <3>3. QED
      BY <2>1, <3>1, <3>2 DEF SyncStays
  <2>2. Says(s, PartsOf(s, rows[s].src), Len(PartsOf(s, rows[s].src)))
    BY <1>3, <2>1
  <2>3. QED
    BY <1>1, <1>4, <2>2
<1>7. QED
  BY <1>5, <1>6

\* A request that has no part in the texts of a sheet, before a step and after it.
Quiet(q, r) ==
    /\ ~Rewrites(q)
    /\ \/ r.pc = "idle" /\ r.next = 1
       \/ r.op # "sync"
       \/ ~HasRow(r) /\ r.next = 1
       \/ /\ q.op = "sync" /\ HasRow(q) /\ HasRow(r) /\ ~Rewrites(r)
          /\ r.item = q.item /\ r.gen = q.gen /\ r.src = q.src

\* The step of such a request that leaves what is stored.
LEMMA QuietKeeps ==
    ASSUME BaseHolds, StoredHolds, \A i \in Docs \cup Sheets : SaysStays(i),
           NEW j \in Jobs, NEW r, job' = [job EXCEPT ![j] = r], Quiet(job[j], r)
    PROVE  StoredHolds'
<1>1. DOMAIN job = Jobs
  BY JobType
<1>2. \A k \in Jobs : job'[k] = IF k = j THEN r ELSE job[k]
  BY <1>1
<1>3. NextHolds(r) /\ \A s \in Sheets : \A q : q = job[j] => SyncStays(s, q, r)
  BY DEF Quiet, NextHolds, SyncStays, HasRow, Rewrites
<1>4. \A s \in Sheets : \A q : SyncStays(s, q, q)
  BY DEF SyncStays
<1>5. ASSUME NEW s \in Sheets, NEW k \in Jobs, NEW q, NEW p, q = job[k], p = job'[k]
      PROVE  SyncStays(s, q, p)
  BY <1>2, <1>3, <1>4, <1>5
<1>6. \A s \in Sheets : SheetHolds(s)'
  BY <1>5, SheetStays DEF StoredHolds
<1>7. \A d \in Docs : DocumentHolds(d)'
  BY DocumentStays DEF StoredHolds
<1>8. \A k \in Jobs : NextHolds(job'[k])
  BY <1>2, <1>3 DEF StoredHolds
<1>9. QED
  BY <1>6, <1>7, <1>8 DEF StoredHolds

\* Or of no request.
LEMMA OwnerActs ==
    ASSUME BaseHolds, StoredHolds, \A i \in Docs \cup Sheets : SaysStays(i), UNCHANGED job
    PROVE  StoredHolds'
<1>1. \A s \in Sheets : \A q, r : q = r => SyncStays(s, q, r)
  BY DEF SyncStays
<1>2. \A s \in Sheets : SheetHolds(s)'
  BY <1>1, SheetStays DEF StoredHolds
<1>3. \A d \in Docs : DocumentHolds(d)'
  BY DocumentStays DEF StoredHolds
<1>4. QED
  BY <1>2, <1>3 DEF StoredHolds

\* Where no row and no text changes.
LEMMA Unwritten ==
    ASSUME UNCHANGED <<rows, texts>>, \A i \in Items : GapsStay(i)
    PROVE  \A i \in Docs \cup Sheets : SaysStays(i)
<1>1. Docs \cup Sheets \subseteq Items
  BY DEF Items
<1>2. QED
  BY <1>1 DEF SaysStays, StoredOf

\* A request that is no sync, and goes on as none or ends.
LEMMA NoSyncQuiet ==
    ASSUME NEW q, q.op # "sync", NEW r, r = NoJob \/ r.op = q.op
    PROVE  Quiet(q, r)
<1>1. ~Rewrites(q)
  BY DEF Rewrites
<1>2. NoJob.pc = "idle" /\ NoJob.next = 1
  BY DEF NoJob
<1>3. QED
  BY <1>1, <1>2 DEF Quiet

\* A sync that ends before or after its part in the texts.
LEMMA EndQuiet ==
    ASSUME NEW q, ~Rewrites(q)
    PROVE  Quiet(q, NoJob)
  BY DEF Quiet, NoJob

\* Requests begin.
LEMMA BeginStores ==
    ASSUME BaseHolds, StoredHolds, NEW j \in Jobs, Start(j)
    PROVE  StoredHolds'
<1>1. UNCHANGED <<rows, texts>> /\ job[j].pc = "idle"
  BY DEF Start, CreateDocument, AddPage, CreateQA, SyncSheet, Reindex, DeleteDocument, DeleteQA,
     DeleteNamespace, Begin
<1>2. \A i \in Items : GapsStay(i)
  <2>1. UNCHANGED gaps \/ \E i \in Items : \E g : Gap(i, g)
    BY DEF Start, CreateDocument, AddPage, CreateQA, SyncSheet, Reindex, DeleteDocument, DeleteQA,
       DeleteNamespace, Begin, Items
  <2>2. QED
    BY <2>1 DEF Gap, GapsStay, BaseHolds, StoreTyped
<1>3. \E r : /\ job' = [job EXCEPT ![j] = r] /\ r.next = 1
             /\ r.op # "sync" \/ r.pc = "ns"
  <2>1. CASE \E op \in Stores : \E i, n, src : Begin(j, op, i, n, src)
    <3>1. PICK op, i, n, src : op \in Stores /\ Begin(j, op, i, n, src)
      BY <2>1
    <3>2. PICK r : r = [NoJob EXCEPT !.op = op, !.item = i, !.ns = n, !.src = src, !.pc = "ns"]
      OBVIOUS
    <3>3. r.pc = "ns" /\ r.next = 1
      BY <3>2 DEF NoJob
    <3>4. job' = [job EXCEPT ![j] = r]
      BY <3>1, <3>2 DEF Begin, Set
    <3>5. QED
      BY <3>3, <3>4
  <2>2. CASE CreateDocument(j) \/ AddPage(j) \/ CreateQA(j) \/ SyncSheet(j)
    BY <2>1, <2>2 DEF CreateDocument, AddPage, CreateQA, SyncSheet, Stores
  <2>3. CASE Reindex(j)
    <3>1. PICK d, r : /\ r = [NoJob EXCEPT !.op = "reindex", !.item = d, !.pc = "chunks", !.gen = rows[d].gen,
                                           !.ns = rows[d].ns, !.name = namespaces[rows[d].ns]]
                      /\ job' = [job EXCEPT ![j] = r]
      BY <2>3, Zenon DEF Reindex, Set
    <3>2. r.next = 1 /\ r.op # "sync"
      BY <3>1 DEF NoJob
    <3>3. QED
      BY <3>1, <3>2
  <2>4. CASE DeleteDocument(j)
    <3>1. PICK d, r : /\ r = [NoJob EXCEPT !.op = "deletedoc", !.item = d, !.pc = "ids",
                                           !.name = namespaces[rows[d].ns]]
                      /\ job' = [job EXCEPT ![j] = r]
      BY <2>4, Zenon DEF DeleteDocument, Set
    <3>2. r.next = 1 /\ r.op # "sync"
      BY <3>1 DEF NoJob
    <3>3. QED
      BY <3>1, <3>2
  <2>5. CASE DeleteQA(j)
    <3>1. PICK q, r : /\ \/ r = [NoJob EXCEPT !.op = "deleteqa", !.item = q, !.pc = "vectors", !.ids = {1},
                                              !.name = namespaces[rows[q].ns]]
                         \/ r = [NoJob EXCEPT !.op = "deleteqa", !.item = q, !.pc = "drop"]
                      /\ job' = [job EXCEPT ![j] = r]
      BY <2>5, Zenon DEF DeleteQA, Set
    <3>2. r.next = 1 /\ r.op # "sync"
      BY <3>1 DEF NoJob
    <3>3. QED
      BY <3>1, <3>2
  <2>6. CASE DeleteNamespace(j)
    <3>1. PICK n, r : /\ r = [NoJob EXCEPT !.op = "deletens", !.ns = n, !.name = namespaces[n],
                                           !.pc = "vectors"]
                      /\ job' = [job EXCEPT ![j] = r]
      BY <2>6, Zenon DEF DeleteNamespace, Set
    <3>2. r.next = 1 /\ r.op # "sync"
      BY <3>1 DEF NoJob
    <3>3. QED
      BY <3>1, <3>2
  <2>7. QED
    BY <2>2, <2>3, <2>4, <2>5, <2>6 DEF Start
<1>4. PICK r : job' = [job EXCEPT ![j] = r] /\ r.next = 1 /\ (r.op # "sync" \/ r.pc = "ns")
  BY <1>3
<1>5. Quiet(job[j], r)
  BY <1>1, <1>4 DEF Quiet, Rewrites, HasRow
<1>6. QED
  BY <1>1, <1>2, <1>4, <1>5, Unwritten, QuietKeeps

\* A sync that has no row yet goes on.
LEMMA SyncStores ==
    ASSUME BaseHolds, StoredHolds, NEW j \in Jobs,
           FetchSheet(j) \/ fetchCSVMatrix(j) \/ resolveGoogleSheetRef(j)
             \/ fetchSheetMatrixWithOAuth(j) \/ ParseSheet(j)
    PROVE  StoredHolds'
<1>1. /\ UNCHANGED <<rows, texts, gaps>>
      /\ job[j].op = "sync" /\ job[j].pc \in {"fetch", "csv", "ref", "values", "matrix"}
      /\ \/ UNCHANGED job \/ Set(j, NoJob)
         \/ \E pc \in {"csv", "ref", "values", "matrix", "row"} : To(j, pc)
  BY DEF FetchSheet, fetchCSVMatrix, resolveGoogleSheetRef, fetchSheetMatrixWithOAuth,
     fetchGoogleSheetsAPI, ParseSheet, At
<1>2. \A i \in Docs \cup Sheets : SaysStays(i)
  BY <1>1, Unwritten DEF GapsStay
<1>3. ~Rewrites(job[j]) /\ job[j].next = 1
  BY <1>1 DEF Rewrites, HasRow, StoredHolds, NextHolds
<1>4. CASE UNCHANGED job
  BY <1>2, <1>4, OwnerActs
<1>5. CASE Set(j, NoJob)
  BY <1>2, <1>3, <1>5, EndQuiet, QuietKeeps DEF Set
<1>6. CASE \E pc \in {"csv", "ref", "values", "matrix", "row"} : To(j, pc)
  <2>1. PICK pc \in {"csv", "ref", "values", "matrix", "row"} : To(j, pc)
    BY <1>6
  <2>2. PICK q, r : q = job[j] /\ r = [q EXCEPT !.pc = pc]
    OBVIOUS
  <2>3. Keeps(q, r) /\ r.pc = pc /\ job' = [job EXCEPT ![j] = r]
    BY <2>1, <2>2, JobType, PcOnly DEF To, Set
  <2>4. Quiet(q, r)
    BY <1>1, <1>3, <2>2, <2>3 DEF Quiet, Keeps, Goes, HasRow
  <2>5. QED
    BY <1>2, <2>2, <2>3, <2>4, QuietKeeps
<1>7. QED
  BY <1>1, <1>4, <1>5, <1>6

\* The namespace is read.
LEMMA GetNamespaceStores ==
    ASSUME BaseHolds, StoredHolds, NEW j \in Jobs, GetNamespace(j)
    PROVE  StoredHolds'
<1>1. UNCHANGED <<rows, texts, gaps>> /\ job[j].pc = "ns"
  BY DEF GetNamespace
<1>2. \A i \in Docs \cup Sheets : SaysStays(i)
  BY <1>1, Unwritten DEF GapsStay
<1>3. ~Rewrites(job[j])
  BY <1>1 DEF Rewrites
<1>4. CASE Set(j, NoJob)
  BY <1>2, <1>3, <1>4, EndQuiet, QuietKeeps DEF Set
<1>5. CASE ~Set(j, NoJob)
  <2>1. PICK q : q = job[j]
    OBVIOUS
  <2>2. PICK pc : /\ pc = CASE q.op = "qa" -> "embed" [] q.op = "sync" -> "fetch" [] OTHER -> "row"
                  /\ pc = "fetch" \/ q.op # "sync"
    OBVIOUS
  <2>3. PICK r : r = [q EXCEPT !.name = namespaces[q.ns], !.pc = pc]
    OBVIOUS
  <2>4. Goes(q, r) /\ r.pc = pc /\ r.next = q.next
    BY <2>1, <2>3, JobType DEF Goes, Fields
  <2>5. job' = [job EXCEPT ![j] = r]
    BY <1>5, <2>1, <2>2, <2>3 DEF GetNamespace, Set
  <2>6. q.op = "sync" => q.next = 1
    BY <1>1, <2>1 DEF StoredHolds, NextHolds, HasRow
  <2>7. Quiet(q, r)
    BY <1>3, <2>1, <2>2, <2>4, <2>6 DEF Quiet, Goes, HasRow
  <2>8. QED
    BY <1>2, <2>1, <2>5, <2>7, QuietKeeps
<1>6. QED
  BY <1>4, <1>5

\* A request goes on around its vectors.
LEMMA AfterQuiet ==
    ASSUME NEW q, q.pc \in {"embed", "vectors"}, NEW r, Goes(q, r), r.gen = q.gen,
           q.op = "sync" => r.pc \in {"vectors", "status"}
    PROVE  Quiet(q, r)
  BY DEF Quiet, Rewrites, HasRow, Goes

\* Its texts are embedded, or not.
LEMMA EmbedStores ==
    ASSUME BaseHolds, StoredHolds, NEW j \in Jobs, EmbedBatch(j)
    PROVE  StoredHolds'
<1>1. UNCHANGED <<rows, texts, gaps>> /\ job[j].pc = "embed"
  BY DEF EmbedBatch
<1>2. \A i \in Docs \cup Sheets : SaysStays(i)
  BY <1>1, Unwritten DEF GapsStay
<1>3. PICK q : q = job[j]
  OBVIOUS
<1>4. DOMAIN q = Fields /\ q.pc = "embed"
  BY <1>1, <1>3, JobType
<1>5. PICK ok \in BOOLEAN :
            Set(j, AfterEmbedding([q EXCEPT !.embedded = ok,
                                            !.status = IF ok THEN "indexed" ELSE "pending"], ok))
  BY <1>3 DEF EmbedBatch
<1>6. PICK e : e = [q EXCEPT !.embedded = ok, !.status = IF ok THEN "indexed" ELSE "pending"]
  OBVIOUS
<1>7. DOMAIN e = Fields /\ e.op = q.op /\ e.item = q.item /\ e.ns = q.ns /\ e.src = q.src /\ e.gen = q.gen
  BY <1>4, <1>6 DEF Fields
<1>8. CASE Set(j, NoJob)
  <2>1. ~Rewrites(q)
    BY <1>4 DEF Rewrites
  <2>2. QED
    BY <1>2, <1>3, <1>8, <2>1, EndQuiet, QuietKeeps DEF Set
<1>9. CASE ~Set(j, NoJob)
  <2>1. PICK pc : Set(j, [e EXCEPT !.pc = pc]) /\ (q.op = "sync" => pc = "vectors")
    BY <1>5, <1>6, <1>7, <1>9 DEF AfterEmbedding, PageEmbedded
  <2>2. PICK r : r = [e EXCEPT !.pc = pc]
    OBVIOUS
  <2>3. Goes(q, r) /\ r.pc = pc /\ r.gen = q.gen
    BY <1>7, <2>2 DEF Goes, Fields
  <2>4. Quiet(q, r)
    BY <1>4, <2>1, <2>3, AfterQuiet
  <2>5. QED
    BY <1>2, <1>3, <2>1, <2>2, <2>4, QuietKeeps DEF Set
<1>10. QED
  BY <1>8, <1>9

\* Its vectors are sent, or skipped.
LEMMA UpsertStores ==
    ASSUME BaseHolds, StoredHolds, NEW j \in Jobs, UpsertVectors(j) \/ SkipVectors(j)
    PROVE  StoredHolds'
<1>1. UNCHANGED <<rows, texts>> /\ job[j].pc = "vectors" /\ (Set(j, NoJob) \/ To(j, "status"))
  BY DEF UpsertVectors, SkipVectors
<1>2. \A i \in Items : GapsStay(i)
  <2>1. CASE UpsertVectors(j)
    <3>1. PICK i, n : /\ i = job[j].item
                      /\ gaps' = [gaps EXCEPT ![i] =
                            (IF n = Cardinality(job[j].ids) /\ ~Late(j) THEN @ \ {"unsent"} ELSE @)
                            \cup (IF n = Cardinality(job[j].ids) \/ job[j].op \in {"sync", "reindex"}
                                  THEN {} ELSE {"unsent"})
                            \cup (IF Late(j) /\ n > 0 THEN {"late"} ELSE {})]
      BY <2>1, Zenon DEF UpsertVectors
    <3>2. PICK g : /\ g = (IF n = Cardinality(job[j].ids) /\ ~Late(j) THEN gaps[i] \ {"unsent"} ELSE gaps[i])
                           \cup (IF n = Cardinality(job[j].ids) \/ job[j].op \in {"sync", "reindex"}
                                 THEN {} ELSE {"unsent"})
                           \cup (IF Late(j) /\ n > 0 THEN {"late"} ELSE {})
                   /\ gaps[i] \ {"unsent"} \subseteq g
      OBVIOUS
    <3>3. gaps' = [gaps EXCEPT ![i] = g]
      BY <3>1, <3>2
    <3>4. QED
      BY <3>2, <3>3 DEF GapsStay, BaseHolds, StoreTyped
  <2>2. CASE SkipVectors(j)
    BY <2>2 DEF SkipVectors, Gap, GapsStay, BaseHolds, StoreTyped
  <2>3. QED
    BY <2>1, <2>2
<1>3. PICK q : q = job[j]
  OBVIOUS
<1>4. DOMAIN q = Fields /\ q.pc = "vectors"
  BY <1>1, <1>3, JobType
<1>5. CASE Set(j, NoJob)
  <2>1. ~Rewrites(q)
    BY <1>4 DEF Rewrites
  <2>2. QED
    BY <1>1, <1>2, <1>3, <1>5, <2>1, EndQuiet, QuietKeeps, Unwritten DEF Set
<1>6. CASE To(j, "status")
  <2>1. PICK r : r = [q EXCEPT !.pc = "status"]
    OBVIOUS
  <2>2. Keeps(q, r) /\ r.pc = "status"
    BY <1>4, <2>1, PcOnly
  <2>3. Quiet(q, r)
    BY <1>4, <2>2, AfterQuiet DEF Keeps
  <2>4. job' = [job EXCEPT ![j] = r]
    BY <1>3, <1>6, <2>1 DEF To, Set
  <2>5. QED
    BY <1>1, <1>2, <1>3, <2>3, <2>4, QuietKeeps, Unwritten
<1>7. QED
  BY <1>1, <1>5, <1>6

\* A row changes in what no text depends on.
LEMMA RowSays ==
    ASSUME BaseHolds, NEW i \in Items, rows[i] # None, NEW row, row.gen = rows[i].gen, row.src = rows[i].src,
           rows' = [rows EXCEPT ![i] = row], UNCHANGED <<texts, gaps>>
    PROVE  \A k \in Docs \cup Sheets : SaysStays(k)
<1>1. Docs \cup Sheets \subseteq Items /\ DOMAIN rows = Items
  BY DEF Items, BaseHolds, StoreTyped
<1>2. QED
  BY <1>1 DEF SaysStays, GapsStay, StoredOf

\* The last UPDATE.
LEMMA SetStatusStores ==
    ASSUME BaseHolds, StoredHolds, NEW j \in Jobs, SetStatus(j)
    PROVE  StoredHolds'
<1>1. UNCHANGED <<texts, gaps>> /\ job[j].pc = "status" /\ Set(j, NoJob)
  BY DEF SetStatus
<1>2. CASE UNCHANGED rows
  BY <1>1, <1>2, Unwritten, EndQuiet, QuietKeeps DEF GapsStay, Set, Rewrites
<1>3. CASE Alive(j) /\ rows' = [rows EXCEPT ![job[j].item].status = job[j].status]
  <2>1. PICK i : i = job[j].item
    OBVIOUS
  <2>2. i \in Items
    <3>1. JobTyped(job[j]) /\ job[j].op # "deletens"
      BY <1>1, JobType DEF JobTyped, Pcs
    <3>2. QED
      BY <1>1, <2>1, <3>1, SubjectItem
  <2>3. rows[i] # None /\ rows[i] \in Row(i)
    BY <1>3, <2>1, <2>2, RowType DEF Alive
  <2>4. PICK row : row = [rows[i] EXCEPT !.status = job[j].status]
    OBVIOUS
  <2>5. row.gen = rows[i].gen /\ row.src = rows[i].src /\ rows' = [rows EXCEPT ![i] = row]
    BY <1>3, <2>1, <2>3, <2>4 DEF Row
  <2>6. \A k \in Docs \cup Sheets : SaysStays(k)
    BY <1>1, <2>2, <2>3, <2>5, RowSays
  <2>7. QED
    BY <1>1, <2>6, EndQuiet, QuietKeeps DEF Set, Rewrites
<1>4. QED
  BY <1>2, <1>3 DEF SetStatus

\* The step of a request that is no sync, and goes on as none or ends.
LEMMA OtherStep ==
    ASSUME BaseHolds, StoredHolds, \A i \in Docs \cup Sheets : SaysStays(i), NEW j \in Jobs,
           job[j].op # "sync", NEW r, job' = [job EXCEPT ![j] = r], r = NoJob \/ r.op = job[j].op
    PROVE  StoredHolds'
<1>1. PICK q : q = job[j]
  OBVIOUS
<1>2. Quiet(q, r)
  BY <1>1, NoSyncQuiet
<1>3. QED
  BY <1>1, <1>2, QuietKeeps

\* Requests read, and delete vectors.
LEMMA ReadsStore ==
    ASSUME BaseHolds, StoredHolds, NEW j \in Jobs,
           ReadChunks(j) \/ ReadIds(j) \/ DeleteVectors(j) \/ DeleteAllVectors(j) \/ crawlAndChunk(j)
    PROVE  StoredHolds'
<1>1. UNCHANGED <<rows, texts>> /\ job[j].op # "sync"
  BY DEF ReadChunks, ReadIds, DeleteVectors, DeleteAllVectors, crawlAndChunk, At
<1>2. \A i \in Items : GapsStay(i)
  <2>1. \/ UNCHANGED gaps
        \/ \E i, g : Gap(i, g)
        \/ \E there, g : gaps' = [i \in Items |-> IF i \in there THEN gaps[i] \cup {g} ELSE gaps[i]]
    <3>1. CASE ReadChunks(j) \/ crawlAndChunk(j)
      BY <3>1 DEF ReadChunks, crawlAndChunk
    <3>2. CASE ReadIds(j) \/ DeleteVectors(j)
      BY <3>2, Zenon DEF ReadIds, DeleteVectors
    <3>3. CASE DeleteAllVectors(j)
      BY <3>3, Zenon DEF DeleteAllVectors
    <3>4. QED
      BY <3>1, <3>2, <3>3
  <2>2. QED
    BY <2>1 DEF Gap, GapsStay, BaseHolds, StoreTyped
<1>3. PICK q : q = job[j]
  OBVIOUS
<1>4. DOMAIN q = Fields
  BY <1>3, JobType
<1>5. \E r : job' = [job EXCEPT ![j] = r] /\ (r = NoJob \/ r.op = q.op)
  <2>1. CASE Set(j, NoJob)
    BY <2>1 DEF Set
  <2>2. CASE \E pc : To(j, pc)
    <3>1. PICK pc : To(j, pc)
      BY <2>2
    <3>2. PICK r : r = [q EXCEPT !.pc = pc]
      OBVIOUS
    <3>3. r.op = q.op /\ job' = [job EXCEPT ![j] = r]
      BY <1>3, <1>4, <3>1, <3>2 DEF To, Set, Fields
    <3>4. QED
      BY <3>3
  <2>3. CASE \E pc, ids : Set(j, [q EXCEPT !.pc = pc, !.ids = ids])
    <3>1. PICK pc, ids : Set(j, [q EXCEPT !.pc = pc, !.ids = ids])
      BY <2>3
    <3>2. PICK r : r = [q EXCEPT !.pc = pc, !.ids = ids]
      OBVIOUS
    <3>3. r.op = q.op /\ job' = [job EXCEPT ![j] = r]
      BY <1>4, <3>1, <3>2 DEF Set, Fields
    <3>4. QED
      BY <3>3
  <2>4. CASE \E pc, status : Set(j, [q EXCEPT !.pc = pc, !.status = status])
    <3>1. PICK pc, status : Set(j, [q EXCEPT !.pc = pc, !.status = status])
      BY <2>4
    <3>2. PICK r : r = [q EXCEPT !.pc = pc, !.status = status]
      OBVIOUS
    <3>3. r.op = q.op /\ job' = [job EXCEPT ![j] = r]
      BY <1>4, <3>1, <3>2 DEF Set, Fields
    <3>4. QED
      BY <3>3
  <2>5. CASE ReadChunks(j)
    BY <1>3, <2>1, <2>3, <2>5, Zenon DEF ReadChunks
  <2>6. CASE ReadIds(j)
    BY <1>3, <2>2, <2>3, <2>6, Zenon DEF ReadIds
  <2>7. CASE DeleteVectors(j) \/ DeleteAllVectors(j)
    BY <2>2, <2>7, Zenon DEF DeleteVectors, DeleteAllVectors
  <2>8. CASE crawlAndChunk(j)
    BY <1>3, <2>3, <2>4, <2>8, Zenon DEF crawlAndChunk
  <2>9. QED
    BY <2>5, <2>6, <2>7, <2>8
<1>6. QED
  BY <1>1, <1>2, <1>3, <1>5, Unwritten, OtherStep

\* Rows that go take their texts with them, and nothing else.
LEMMA DropSays ==
    ASSUME BaseHolds, NEW S \in SUBSET Items, Drop(S), UNCHANGED gaps
    PROVE  \A i \in Docs \cup Sheets : SaysStays(i)
<1>1. \A i \in Items : rows'[i] = IF i \in S THEN None ELSE rows[i]
  BY DEF Drop
<1>2. texts' = {t \in texts : t.item \notin S}
  BY DEF Drop
<1>3. ASSUME NEW i \in Docs \cup Sheets PROVE SaysStays(i)
  <2>1. i \in Items /\ GapsStay(i)
    BY DEF Items, GapsStay
  <2>2. CASE i \in S \/ rows[i] = None
    BY <1>1, <2>1, <2>2 DEF SaysStays
  <2>3. CASE i \notin S /\ rows[i] # None
    <3>1. StoredOf(i)' = StoredOf(i)
      BY <1>2, <2>3 DEF StoredOf
    <3>2. QED
      BY <1>1, <2>1, <2>3, <3>1 DEF SaysStays
  <2>4. QED
    BY <2>2, <2>3
<1>4. QED
  BY <1>3

\* Rows go.
LEMMA DropsStore ==
    ASSUME BaseHolds, StoredHolds, NEW j \in Jobs, DeleteRow(j) \/ DropNamespace(j)
    PROVE  StoredHolds'
<1>1. UNCHANGED gaps /\ Set(j, NoJob) /\ job[j].pc = "drop"
  BY DEF DeleteRow, DropNamespace, At
<1>2. \A i \in Docs \cup Sheets : SaysStays(i)
  <2>1. CASE UNCHANGED <<rows, texts>>
    BY <1>1, <2>1, Unwritten DEF GapsStay
  <2>2. CASE \E S \in SUBSET Items : Drop(S)
    BY <1>1, <2>2, DropSays
  <2>3. CASE DeleteRow(j)
    <3>1. PICK i : i = job[j].item
      OBVIOUS
    <3>2. JobTyped(job[j]) /\ job[j].op # "deletens"
      BY <2>3, JobType DEF DeleteRow
    <3>3. i \in Items
      BY <1>1, <3>1, <3>2, SubjectItem
    <3>4. QED
      BY <2>1, <2>2, <2>3, <3>1, <3>3 DEF DeleteRow
  <2>4. CASE DropNamespace(j)
    BY <2>1, <2>2, <2>4 DEF DropNamespace
  <2>5. QED
    BY <2>3, <2>4
<1>3. QED
  BY <1>1, <1>2, EndQuiet, QuietKeeps DEF Set, Rewrites

\* The owner deletes, or makes a namespace.
LEMMA OwnersStore ==
    ASSUME BaseHolds, StoredHolds, DeletePage \/ DeleteSheet \/ CreateNamespace \/ UNCHANGED knowledgeVars
    PROVE  StoredHolds'
<1>1. UNCHANGED <<job, gaps>>
  BY DEF DeletePage, DeleteSheet, CreateNamespace, knowledgeVars
<1>2. CASE UNCHANGED <<rows, texts>>
  BY <1>1, <1>2, Unwritten, OwnerActs DEF GapsStay
<1>3. CASE DeletePage \/ DeleteSheet
  <2>1. PICK S \in SUBSET Items : Drop(S)
    BY <1>3 DEF DeletePage, DeleteSheet, Items
  <2>2. QED
    BY <1>1, <2>1, DropSays, OwnerActs
<1>4. QED
  BY <1>2, <1>3 DEF CreateNamespace, knowledgeVars

\* A row is written that is not the row of a sheet, nor of a document that has one.
LEMMA RowWritten ==
    ASSUME BaseHolds, UNCHANGED <<texts, gaps>>, NEW i \in Items, i \notin Sheets, i \in Docs => rows[i] = None,
           NEW row, rows' = [rows EXCEPT ![i] = row]
    PROVE  \A k \in Docs \cup Sheets : SaysStays(k)
<1>1. DOMAIN rows = Items /\ Docs \cup Sheets \subseteq Items
  BY DEF BaseHolds, StoreTyped, Items
<1>2. ASSUME NEW k \in Docs \cup Sheets PROVE SaysStays(k)
  <2>1. GapsStay(k) /\ StoredOf(k)' = StoredOf(k)
    BY DEF GapsStay, StoredOf
  <2>2. CASE k = i
    BY <2>1, <2>2 DEF SaysStays
  <2>3. CASE k # i
    <3>1. rows'[k] = rows[k]
      BY <1>1, <2>3
    <3>2. QED
      BY <2>1, <3>1 DEF SaysStays
  <2>4. QED
    BY <2>2, <2>3
<1>3. QED
  BY <1>2

\* The rows of documents, pages and questions.
LEMMA RowsStore ==
    ASSUME BaseHolds, StoredHolds, NEW j \in Jobs,
           InsertDocument(j) \/ InsertQA(j) \/ UpsertPage(j) \/ SetPineconeID(j)
    PROVE  StoredHolds'
<1>1. /\ UNCHANGED <<texts, gaps>> /\ job[j].op \in {"create", "qa", "web"} /\ job[j].pc \in {"row", "pid"}
      /\ job[j].op = "create" => job[j].pc = "row"
  BY DEF InsertDocument, InsertQA, UpsertPage, SetPineconeID, At
<1>2. PICK q : q = job[j]
  OBVIOUS
<1>3. DOMAIN q = Fields /\ JobTyped(q) /\ MakerHolds(q)
  BY <1>2, JobType DEF JobHolds
<1>4. PICK i \in Items : i = q.item
  BY <1>1, <1>2, <1>3, SubjectItem
<1>5. i \notin Sheets /\ (i \in Docs => rows[i] = None)
  <2>1. q.op = "create" => rows[i] = None
    <3>1. q.op = "create" => made[i] = 0
      BY <1>1, <1>2, <1>3, <1>4 DEF MakerHolds, Makes, HasRow
    <3>2. QED
      BY <3>1, RowType
  <2>2. QED
    BY <1>1, <1>2, <1>3, <1>4, <2>1, SubjectItem, SourcesDiffer
<1>6. \A k \in Docs \cup Sheets : SaysStays(k)
  <2>1. CASE UNCHANGED rows
    BY <1>1, <2>1, Unwritten DEF GapsStay
  <2>2. CASE \E row : rows' = [rows EXCEPT ![i] = row]
    BY <1>1, <1>5, <2>2, RowWritten
  <2>3. CASE \E status, then : InsertRow(j, status, then)
    BY <1>2, <1>4, <2>1, <2>2, <2>3, Zenon DEF InsertRow
  <2>4. CASE InsertDocument(j) \/ InsertQA(j)
    BY <2>3, <2>4 DEF InsertDocument, InsertQA
  <2>5. CASE UpsertPage(j)
    BY <1>2, <1>4, <2>2, <2>3, <2>5, Zenon DEF UpsertPage
  <2>6. CASE SetPineconeID(j)
    BY <1>2, <1>4, <2>1, <2>2, <2>6, Zenon DEF SetPineconeID
  <2>7. QED
    BY <2>4, <2>5, <2>6
<1>7. \E r : job' = [job EXCEPT ![j] = r] /\ (r = NoJob \/ r.op = q.op)
  <2>1. CASE Set(j, NoJob)
    BY <2>1 DEF Set
  <2>2. CASE \E pc, gen : Set(j, [q EXCEPT !.pc = pc, !.gen = gen])
    <3>1. PICK pc, gen : Set(j, [q EXCEPT !.pc = pc, !.gen = gen])
      BY <2>2
    <3>2. PICK r : r = [q EXCEPT !.pc = pc, !.gen = gen]
      OBVIOUS
    <3>3. r.op = q.op /\ job' = [job EXCEPT ![j] = r]
      BY <1>3, <3>1, <3>2 DEF Set, Fields
    <3>4. QED
      BY <3>3
  <2>3. CASE \E pc, ids : Set(j, [q EXCEPT !.pc = pc, !.ids = ids])
    <3>1. PICK pc, ids : Set(j, [q EXCEPT !.pc = pc, !.ids = ids])
      BY <2>3
    <3>2. PICK r : r = [q EXCEPT !.pc = pc, !.ids = ids]
      OBVIOUS
    <3>3. r.op = q.op /\ job' = [job EXCEPT ![j] = r]
      BY <1>3, <3>1, <3>2 DEF Set, Fields
    <3>4. QED
      BY <3>3
  <2>4. CASE \E status, then : InsertRow(j, status, then)
    BY <1>2, <2>1, <2>2, <2>4, Zenon DEF InsertRow
  <2>5. CASE InsertDocument(j) \/ InsertQA(j)
    BY <2>4, <2>5 DEF InsertDocument, InsertQA
  <2>6. CASE UpsertPage(j)
    BY <1>2, <2>2, <2>4, <2>6, Zenon DEF UpsertPage
  <2>7. CASE SetPineconeID(j)
    BY <1>2, <2>1, <2>3, <2>7, Zenon DEF SetPineconeID
  <2>8. QED
    BY <2>5, <2>6, <2>7
<1>8. QED
  BY <1>1, <1>2, <1>6, <1>7, OtherStep

\* A request that the service leaves behind: what a sync had yet to store is marked.
LEMMA AbandonStores ==
    ASSUME BaseHolds, StoredHolds, NEW j \in Jobs, Abandon(j)
    PROVE  StoredHolds'
<1>1. PICK q : q = job[j]
  OBVIOUS
<1>2. /\ UNCHANGED <<rows, texts>> /\ job' = [job EXCEPT ![j] = NoJob] /\ q.pc # "idle"
      /\ gaps' = IF Rewrites(q) THEN [gaps EXCEPT ![q.item] = @ \cup {"unstored"}] ELSE gaps
  BY <1>1 DEF Abandon, Set, Rewrites
<1>3. JobTyped(q) /\ DOMAIN job = Jobs /\ gaps \in [Items -> SUBSET GapKinds]
  BY <1>1, JobType DEF BaseHolds, StoreTyped
<1>4. Rewrites(q) => q.item \in Items
  BY <1>2, <1>3, SubjectItem DEF Rewrites
<1>5. \A i \in Items : GapsStay(i)
  BY <1>2, <1>3 DEF GapsStay
<1>6. \A i \in Docs \cup Sheets : SaysStays(i)
  BY <1>2, <1>5, Unwritten
<1>7. ASSUME NEW s \in Sheets PROVE SyncStays(s, q, NoJob)
  <2>1. ~HasRow(NoJob)
    BY DEF HasRow, NoJob
  <2>2. Rewrites(q) /\ q.item = s => ~Untouched(s)'
    <3> SUFFICES ASSUME Rewrites(q), q.item = s PROVE "unstored" \in gaps'[s]
      BY DEF Untouched
    <3>1. s \in Items /\ gaps' = [gaps EXCEPT ![s] = @ \cup {"unstored"}]
      BY <1>2, <1>4
    <3>2. QED
      BY <1>3, <3>1
  <2>3. QED
    BY <2>1, <2>2 DEF SyncStays
<1>8. \A k \in Jobs : job'[k] = IF k = j THEN NoJob ELSE job[k]
  BY <1>2, <1>3
<1>9. ASSUME NEW s \in Sheets, NEW k \in Jobs, NEW p, NEW r, p = job[k], r = job'[k] PROVE SyncStays(s, p, r)
  <2>1. CASE k = j
    BY <1>1, <1>7, <1>8, <1>9, <2>1
  <2>2. CASE k # j
    BY <1>8, <1>9, <2>2 DEF SyncStays
  <2>3. QED
    BY <2>1, <2>2
<1>10. \A s \in Sheets : SheetHolds(s)'
  BY <1>6, <1>9, SheetStays DEF StoredHolds
<1>11. \A d \in Docs : DocumentHolds(d)'
  BY <1>6, DocumentStays DEF StoredHolds
<1>12. \A k \in Jobs : NextHolds(job'[k])
  <2>1. NextHolds(NoJob)
    BY DEF NextHolds, NoJob
  <2>2. QED
    BY <1>8, <2>1 DEF StoredHolds
<1>13. QED
  BY <1>10, <1>11, <1>12 DEF StoredHolds

\* A chunk comes to its place.
LEMMA ChunkStored ==
    ASSUME BaseHolds, StoredHolds, NEW j \in Jobs, InsertChunk(j)
    PROVE  StoredHolds'
<1>1. PICK q : q = job[j]
  OBVIOUS
<1>2. /\ UNCHANGED <<rows, gaps>> /\ q.op = "create" /\ q.pc = "texts"
      /\ DOMAIN q = Fields /\ JobTyped(q) /\ SenderHolds(q) /\ DOMAIN job = Jobs
  BY <1>1, JobType DEF InsertChunk, At, JobHolds
<1>3. PICK i : i = q.item
  OBVIOUS
<1>4. i \in Docs /\ q.src \in Source(i) /\ HasRow(q) /\ q.next \in Nat \ {0}
  BY <1>2, <1>3, SubjectItem DEF JobTyped, Stores, HasRow
<1>5. PICK chunks : chunks = PartsOf(i, q.src)
  OBVIOUS
<1>6. PICK n \in Nat : n = Len(chunks) /\ DOMAIN chunks = 1..n
  BY <1>4, <1>5, PartsType, SourcesDiffer
<1>7. Parts(j) = chunks
  BY <1>1, <1>3, <1>5 DEF Parts
<1>8. CASE UNCHANGED texts
  <2>1. \A k \in Docs \cup Sheets : SaysStays(k)
    BY <1>2, <1>8, Unwritten DEF GapsStay
  <2>2. PICK r : job' = [job EXCEPT ![j] = r] /\ (r = NoJob \/ r.op = q.op)
    <3>1. CASE Set(j, NoJob)
      BY <3>1 DEF Set
    <3>2. CASE \E pc, ids : Set(j, [q EXCEPT !.pc = pc, !.ids = ids])
      <4>1. PICK pc, ids : Set(j, [q EXCEPT !.pc = pc, !.ids = ids])
        BY <3>2
      <4>2. PICK r : r = [q EXCEPT !.pc = pc, !.ids = ids]
        OBVIOUS
      <4>3. r.op = q.op /\ job' = [job EXCEPT ![j] = r]
        BY <1>2, <4>1, <4>2 DEF Set, Fields
      <4>4. QED
        BY <4>3
    <3>3. CASE \E next : Set(j, [q EXCEPT !.next = next])
      <4>1. PICK next : Set(j, [q EXCEPT !.next = next])
        BY <3>3
      <4>2. PICK r : r = [q EXCEPT !.next = next]
        OBVIOUS
      <4>3. r.op = q.op /\ job' = [job EXCEPT ![j] = r]
        BY <1>2, <4>1, <4>2 DEF Set, Fields
      <4>4. QED
        BY <4>3
    <3>4. QED
      BY <1>1, <1>7, <3>1, <3>2, <3>3 DEF InsertChunk
  <2>3. QED
    BY <1>1, <1>2, <2>1, <2>2, OtherStep
<1>9. CASE /\ q.next <= Len(chunks) /\ Alive(j) /\ Set(j, [q EXCEPT !.next = q.next + 1])
           /\ texts' = texts \cup {[item |-> i, gen |-> q.gen, idx |-> q.next,
                                    text |-> chunks[q.next], by |-> j]}
  <2>1. PICK t : t = [item |-> i, gen |-> q.gen, idx |-> q.next, text |-> chunks[q.next], by |-> j]
    OBVIOUS
  <2>2. t.item = i /\ t.idx = q.next /\ t.text = chunks[q.next] /\ texts' = texts \cup {t}
    BY <1>9, <2>1
  <2>3. rows[i] # None /\ rows[i].src = q.src
    BY <1>1, <1>2, <1>3, <1>4, <1>9 DEF Alive, SenderHolds, There
  <2>4. StoredOf(i)' = StoredOf(i) \cup {t} /\ \A k : k # i => StoredOf(k)' = StoredOf(k)
    BY <2>2 DEF StoredOf
  <2>5. DocumentHolds(i)'
    <3>1. t.idx \in DOMAIN PartsOf(i, rows[i].src) /\ t.text = PartsOf(i, rows[i].src)[t.idx]
      BY <1>4, <1>5, <1>6, <1>9, <2>2, <2>3
    <3>2. DocumentHolds(i)
      BY <1>4 DEF StoredHolds
    <3>3. QED
      BY <1>2, <2>3, <2>4, <3>1, <3>2 DEF DocumentHolds
  <2>6. \A k \in Docs \cup Sheets : k # i => SaysStays(k)
    BY <1>2, <2>4 DEF SaysStays, GapsStay
  <2>7. ASSUME NEW d \in Docs PROVE DocumentHolds(d)'
    <3>1. CASE d = i
      BY <2>5, <3>1
    <3>2. CASE d # i
      BY <2>6, <3>2, DocumentStays DEF StoredHolds
    <3>3. QED
      BY <3>1, <3>2
  <2>8. PICK next : next = q.next + 1
    OBVIOUS
  <2>9. PICK r : r = [q EXCEPT !.next = next]
    OBVIOUS
  <2>10. r.op = "create" /\ job' = [job EXCEPT ![j] = r]
    BY <1>2, <1>9, <2>8, <2>9 DEF Set, Fields
  <2>11. \A k \in Jobs : job'[k] = IF k = j THEN r ELSE job[k]
    BY <1>2, <2>10
  <2>12. ASSUME NEW s \in Sheets, NEW k \in Jobs, NEW p, NEW u, p = job[k], u = job'[k] PROVE SyncStays(s, p, u)
    BY <1>1, <1>2, <2>10, <2>11, <2>12 DEF SyncStays, Rewrites
  <2>13. \A s \in Sheets : SheetHolds(s)'
    BY <1>4, <2>6, <2>12, SheetStays, SourcesDiffer DEF StoredHolds
  <2>14. \A k \in Jobs : NextHolds(job'[k])
    BY <2>10, <2>11 DEF StoredHolds, NextHolds
  <2>15. QED
    BY <2>7, <2>13, <2>14 DEF StoredHolds
<1>10. QED
  BY <1>1, <1>3, <1>7, <1>8, <1>9 DEF InsertChunk

\* A sync writes what it stores of its sheet: the other sources stay as they are,
\* and another sync of the sheet would be marked.
LEMMA SheetWritten ==
    ASSUME BaseHolds, StoredHolds, NEW j \in Jobs, NEW q, q = job[j], q.op = "sync", q.pc # "idle",
           NEW s \in Sheets, s = q.item, \A i \in Docs \cup Sheets : i # s => SaysStays(i), GapsStay(s),
           NEW r, job' = [job EXCEPT ![j] = r], r = NoJob \/ (r.op = "sync" /\ r.item = s), NextHolds(r),
           rows'[s] # None /\ Untouched(s)' =>
              /\ SyncHolds(s, r)'
              /\ ~(Rewrites(r) /\ r.item = s) => Says(s, PartsOf(s, rows[s].src), Len(PartsOf(s, rows[s].src)))'
    PROVE  StoredHolds'
<1>1. DOMAIN job = Jobs /\ s \notin Docs
  BY JobType, SourcesDiffer
<1>2. \A k \in Jobs : job'[k] = IF k = j THEN r ELSE job[k]
  BY <1>1
<1>3. ~HasRow(NoJob) /\ ~Rewrites(NoJob)
  BY DEF HasRow, Rewrites, NoJob
<1>4. ASSUME NEW x \in Sheets, x # s PROVE SheetHolds(x)'
  <2>1. SyncStays(x, q, r)
    BY <1>3, <1>4 DEF SyncStays
  <2>2. \A p : SyncStays(x, p, p)
    BY DEF SyncStays
  <2>3. ASSUME NEW k \in Jobs, NEW p, NEW u, p = job[k], u = job'[k] PROVE SyncStays(x, p, u)
    BY <1>2, <2>1, <2>2, <2>3
  <2>4. SheetHolds(x) /\ SaysStays(x)
    BY <1>4 DEF StoredHolds
  <2>5. QED
    BY <2>3, <2>4, SheetStays
<1>5. SheetHolds(s)'
  <2> SUFFICES ASSUME rows'[s] # None, Untouched(s)'
               PROVE  /\ \A k \in Jobs : SyncHolds(s, job[k])'
                      /\ (\A k \in Jobs : job'[k].item = s => ~Rewrites(job'[k])) =>
                            Says(s, PartsOf(s, rows[s].src), Len(PartsOf(s, rows[s].src)))'
    BY DEF SheetHolds
  <2>1. "overlap" \notin gaps[s]
    BY DEF Untouched, GapsStay
  <2>2. ASSUME NEW k \in Jobs PROVE SyncHolds(s, job[k])'
    <3>1. CASE k = j
      <4>1. SyncHolds(s, r)'
        OBVIOUS
      <4>2. QED
        BY <1>2, <3>1, <4>1
    <3>2. CASE k # j
      <4>1. PICK p : p = job[k]
        OBVIOUS
      <4>2. JobTyped(p)
        BY <4>1, JobType
      <4>3. ~(p.op = "sync" /\ HasRow(p) /\ p.item = s)
        <5> SUFFICES ASSUME p.op = "sync", HasRow(p), p.item = s PROVE FALSE
          OBVIOUS
        <5>1. Refreshes(p) /\ Refreshes(q)
          BY <4>2, SubjectItem DEF Refreshes
        <5>2. QED
          BY <2>1, <3>2, <4>1, <5>1 DEF BaseHolds, JobsHold, OverlapsMarked
      <4>4. SyncHolds(s, p)'
        BY <4>3 DEF SyncHolds
      <4>5. job'[k] = p
        BY <1>2, <3>2, <4>1
      <4>6. QED
        BY <4>4, <4>5
    <3>3. QED
      BY <3>1, <3>2
  <2>3. ASSUME \A k \in Jobs : job'[k].item = s => ~Rewrites(job'[k])
        PROVE  Says(s, PartsOf(s, rows[s].src), Len(PartsOf(s, rows[s].src)))'
    <3>1. ~(Rewrites(r) /\ r.item = s)
      BY <1>2, <2>3
    <3>2. QED
      BY <3>1
  <2>4. QED
    BY <2>2, <2>3
<1>6. \A x \in Sheets : SheetHolds(x)'
  BY <1>4, <1>5
<1>7. \A d \in Docs : DocumentHolds(d)'
  BY <1>1, DocumentStays DEF StoredHolds
<1>8. \A k \in Jobs : NextHolds(job'[k])
  BY <1>2 DEF StoredHolds
<1>9. QED
  BY <1>6, <1>7, <1>8 DEF StoredHolds

\* The row of the sheet takes its matrix over, and its texts are to come.
LEMMA TableStored ==
    ASSUME BaseHolds, StoredHolds, NEW j \in Jobs, UpsertTable(j)
    PROVE  StoredHolds'
<1>1. PICK q : q = job[j]
  OBVIOUS
<1>2. UNCHANGED texts /\ q.op = "sync" /\ q.pc = "row" /\ DOMAIN q = Fields /\ JobTyped(q)
  BY <1>1, JobType DEF UpsertTable, At
<1>3. PICK s \in Sheets : s = q.item
  BY <1>2, SubjectItem
<1>4. q.next = 1 /\ s \in Items /\ ~Rewrites(q)
  BY <1>1, <1>2, <1>3 DEF StoredHolds, NextHolds, HasRow, Items, Rewrites
<1>5. CASE Set(j, NoJob) /\ UNCHANGED <<rows, gaps>>
  <2>1. \A k \in Docs \cup Sheets : SaysStays(k)
    BY <1>2, <1>5, Unwritten DEF GapsStay
  <2>2. QED
    BY <1>1, <1>4, <1>5, <2>1, EndQuiet, QuietKeeps DEF Set
<1>6. ASSUME NEW row, row.src = q.src, row # None, rows' = [rows EXCEPT ![s] = row],
             Set(j, [q EXCEPT !.pc = "clear", !.gen = row.gen]),
             \A i \in Items : GapsStay(i)
      PROVE  StoredHolds'
  <2>1. PICK gen : gen = row.gen
    OBVIOUS
  <2>2. PICK r : r = [q EXCEPT !.pc = "clear", !.gen = gen]
    OBVIOUS
  <2>3. /\ r.op = "sync" /\ r.item = s /\ r.pc = "clear" /\ r.gen = row.gen /\ r.src = q.src /\ r.next = 1
        /\ job' = [job EXCEPT ![j] = r]
    BY <1>2, <1>3, <1>4, <1>6, <2>1, <2>2 DEF Set, Fields
  <2>4. DOMAIN rows = Items /\ rows'[s] = row
    BY <1>4, <1>6 DEF BaseHolds, StoreTyped
  <2>5. \A i \in Docs \cup Sheets : i # s => SaysStays(i)
    <3> SUFFICES ASSUME NEW i \in Docs \cup Sheets, i # s PROVE SaysStays(i)
      OBVIOUS
    <3>1. rows'[i] = rows[i] /\ StoredOf(i)' = StoredOf(i) /\ GapsStay(i)
      BY <1>2, <1>6, <2>4 DEF StoredOf, Items
    <3>2. QED
      BY <3>1 DEF SaysStays
  <2>6. NextHolds(r) /\ SyncHolds(s, r)' /\ Rewrites(r)
    BY <1>6, <2>3, <2>4 DEF NextHolds, SyncHolds, Rewrites
  <2>7. GapsStay(s)
    BY <1>4, <1>6
  <2>8. QED
    BY <1>1, <1>2, <1>3, <2>3, <2>5, <2>6, <2>7, SheetWritten
<1>7. CASE rows[s] = None
  <2>1. InsertRow(j, "pending", "clear") /\ UNCHANGED gaps
    BY <1>1, <1>3, <1>7 DEF UpsertTable
  <2>2. CASE ~Stored(q.ns)
    BY <1>1, <1>5, <2>1, <2>2 DEF InsertRow
  <2>3. CASE Stored(q.ns)
    <3>1. PICK n : n = made[s] + 1
      OBVIOUS
    <3>2. PICK row : row = [ns |-> q.ns, gen |-> n, status |-> "pending", pid |-> FALSE, src |-> q.src]
      OBVIOUS
    <3>3. row.gen = n /\ row.src = q.src /\ rows' = [rows EXCEPT ![s] = row]
      BY <1>1, <1>3, <2>1, <2>3, <3>1, <3>2 DEF InsertRow
    <3>4. Set(j, [q EXCEPT !.pc = "clear", !.gen = n])
      BY <1>1, <1>3, <2>1, <2>3, <3>1 DEF InsertRow
    <3>5. row # None
      <4>1. n \in Nat
        BY <1>4, <3>1 DEF BaseHolds, StoreTyped
      <4>2. row \in Row(s)
        BY <1>2, <1>3, <3>2, <4>1 DEF Row, Statuses, JobTyped, Stores
      <4>3. QED
        BY <1>4, <4>2, KnowledgeAssumption
    <3>6. \A i \in Items : GapsStay(i)
      BY <2>1 DEF GapsStay
    <3>7. QED
      BY <1>6, <3>3, <3>4, <3>5, <3>6
  <2>4. QED
    BY <2>2, <2>3
<1>8. CASE rows[s] # None
  <2>1. PICK row : row = [rows[s] EXCEPT !.status = "pending", !.src = q.src]
    OBVIOUS
  <2>2. /\ rows' = [rows EXCEPT ![s] = row] /\ Set(j, [q EXCEPT !.pc = "clear", !.gen = rows[s].gen])
        /\ Gap(s, IF rows[s].ns # q.ns THEN {"moved"} ELSE {})
    BY <1>1, <1>3, <1>8, <2>1 DEF UpsertTable
  <2>3. rows[s] \in Row(s) /\ q.src \in Source(s)
    BY <1>2, <1>3, <1>4, <1>8, RowType DEF JobTyped, Stores
  <2>4. row \in Row(s) /\ row.gen = rows[s].gen /\ row.src = q.src
    BY <2>1, <2>3 DEF Row, Statuses
  <2>5. row # None
    BY <1>4, <2>4, KnowledgeAssumption
  <2>6. \A i \in Items : GapsStay(i)
    BY <2>2 DEF Gap, GapsStay, BaseHolds, StoreTyped
  <2>7. QED
    BY <1>6, <2>2, <2>4, <2>5, <2>6
<1>9. QED
  BY <1>7, <1>8

\* One more text is said.
LEMMA SaysMore ==
    ASSUME NEW i, NEW parts, NEW n \in Nat, NEW m, m = n + 1, Says(i, parts, n), NEW t, t.idx = m, t.text = parts[m],
           StoredOf(i)' = StoredOf(i) \cup {t}
    PROVE  Says(i, parts, m)'
<1>1. 1..m = 1..n \cup {m} /\ m \notin 1..n
  OBVIOUS
<1>2. \A u \in StoredOf(i)' : u.idx \in 1..m /\ u.text = parts[u.idx]
  BY <1>1 DEF Says
<1>3. \A u, v \in StoredOf(i)' : u.idx = v.idx => u = v
  <2> SUFFICES ASSUME NEW u \in StoredOf(i)', NEW v \in StoredOf(i)', u.idx = v.idx PROVE u = v
    OBVIOUS
  <2>1. \A w \in StoredOf(i) : w.idx # m
    BY <1>1 DEF Says
  <2>2. QED
    BY <2>1 DEF Says
<1>4. \A x \in 1..m : \E u \in StoredOf(i)' : u.idx = x
  BY <1>1 DEF Says
<1>5. QED
  BY <1>2, <1>3, <1>4 DEF Says

\* The texts that the sheet had go, or the sync is marked.
LEMMA TableCleared ==
    ASSUME BaseHolds, StoredHolds, NEW j \in Jobs, ClearTable(j)
    PROVE  StoredHolds'
<1>1. PICK q : q = job[j]
  OBVIOUS
<1>2. UNCHANGED rows /\ q.op = "sync" /\ q.pc = "clear" /\ DOMAIN q = Fields /\ JobTyped(q) /\ To(j, "texts")
  BY <1>1, JobType DEF ClearTable, At
<1>3. PICK s \in Sheets : s = q.item
  BY <1>2, SubjectItem
<1>4. s \in Items
  BY DEF Items
<1>5. PICK r : r = [q EXCEPT !.pc = "texts"]
  OBVIOUS
<1>6. Keeps(q, r) /\ r.pc = "texts" /\ job' = [job EXCEPT ![j] = r]
  BY <1>1, <1>2, <1>5, PcOnly DEF To, Set
<1>7. /\ r.op = "sync" /\ r.item = s /\ r.gen = q.gen /\ r.src = q.src /\ r.next = q.next
      /\ HasRow(q) /\ HasRow(r) /\ Rewrites(r) /\ NextHolds(r)
  BY <1>2, <1>3, <1>6 DEF Keeps, Goes, HasRow, Rewrites, NextHolds
<1>8. \A i \in Items : GapsStay(i)
  <2>1. UNCHANGED gaps \/ Gap(s, {"unstored"})
    BY <1>1, <1>3 DEF ClearTable
  <2>2. QED
    BY <2>1 DEF Gap, GapsStay, BaseHolds, StoreTyped
<1>9. \A i \in Docs \cup Sheets : i # s => SaysStays(i)
  <2> SUFFICES ASSUME NEW i \in Docs \cup Sheets, i # s PROVE SaysStays(i)
    OBVIOUS
  <2>1. UNCHANGED texts \/ texts' = {t \in texts : ~(t.item = s /\ t.gen = q.gen)}
    BY <1>1, <1>3 DEF ClearTable
  <2>2. StoredOf(i)' = StoredOf(i)
    BY <2>1 DEF StoredOf
  <2>3. QED
    BY <1>2, <1>8, <2>2 DEF SaysStays, Items
<1>10. ASSUME rows'[s] # None, Untouched(s)' PROVE SyncHolds(s, r)'
  <2>1. Untouched(s)
    BY <1>4, <1>8, <1>10 DEF GapsStay, Untouched
  <2>2. SyncHolds(s, q)
    BY <1>1, <1>2, <1>10, <2>1 DEF StoredHolds, SheetHolds
  <2>3. q.gen = rows[s].gen /\ q.src = rows[s].src /\ q.next = 1
    BY <1>2, <1>3, <1>7, <2>2 DEF SyncHolds
  <2>4. texts' = {t \in texts : ~(t.item = s /\ t.gen = q.gen)}
    <3>1. ~Gap(s, {"unstored"})
      BY <1>4, <1>10 DEF Gap, Untouched, BaseHolds, StoreTyped
    <3>2. QED
      BY <1>1, <1>3, <3>1 DEF ClearTable
  <2>5. StoredOf(s)' = {}
    BY <2>3, <2>4 DEF StoredOf, BaseHolds, StoreTyped, TextsHold
  <2>6. PICK parts : parts = PartsOf(s, r.src)
    OBVIOUS
  <2>7. Says(s, parts, 0)'
    BY <2>5 DEF Says
  <2>8. Len(parts) \in Nat
    <3>1. q.src \in Source(s)
      BY <1>2, <1>3 DEF JobTyped, Stores
    <3>2. QED
      BY <1>7, <2>6, <3>1, PartsType, SourcesDiffer
  <2>9. r.next - 1 = 0
    BY <1>7, <2>3
  <2>10. QED
    BY <1>2, <1>6, <1>7, <2>3, <2>6, <2>7, <2>8, <2>9 DEF SyncHolds
<1>11. GapsStay(s)
  BY <1>4, <1>8
<1>12. QED
  BY <1>1, <1>2, <1>3, <1>6, <1>7, <1>9, <1>10, <1>11, SheetWritten

\* A row text comes after those before it, or the sync is marked.
LEMMA TableRowStored ==
    ASSUME BaseHolds, StoredHolds, NEW j \in Jobs, InsertTableRow(j)
    PROVE  StoredHolds'
<1>1. PICK q : q = job[j]
  OBVIOUS
<1>2. UNCHANGED rows /\ q.op = "sync" /\ q.pc = "texts" /\ DOMAIN q = Fields /\ JobTyped(q)
  BY <1>1, JobType DEF InsertTableRow, At
<1>3. PICK s \in Sheets : s = q.item
  BY <1>2, SubjectItem
<1>4. s \in Items /\ q.src \in Source(s) /\ q.next \in Nat \ {0} /\ HasRow(q)
  BY <1>2, <1>3 DEF Items, JobTyped, Stores, HasRow
<1>5. PICK parts : parts = PartsOf(s, q.src)
  OBVIOUS
<1>6. PICK n \in Nat : n = Len(parts) /\ DOMAIN parts = 1..n
  BY <1>4, <1>5, PartsType, SourcesDiffer
<1>7. Parts(j) = parts
  BY <1>1, <1>3, <1>5 DEF Parts
<1>8. \A i \in Items : GapsStay(i)
  <2>1. UNCHANGED gaps \/ Gap(s, {"unstored"})
    BY <1>1, <1>3 DEF InsertTableRow
  <2>2. QED
    BY <2>1 DEF Gap, GapsStay, BaseHolds, StoreTyped
<1>9. \A i \in Docs \cup Sheets : i # s => SaysStays(i)
  <2> SUFFICES ASSUME NEW i \in Docs \cup Sheets, i # s PROVE SaysStays(i)
    OBVIOUS
  <2>1. UNCHANGED texts \/ \E t : t.item = s /\ texts' = texts \cup {t}
    <3>1. CASE UNCHANGED texts
      BY <3>1
    <3>2. CASE texts' = texts \cup {[item |-> s, gen |-> q.gen, idx |-> q.next, text |-> parts[q.next], by |-> j]}
      <4>1. PICK t : t = [item |-> s, gen |-> q.gen, idx |-> q.next, text |-> parts[q.next], by |-> j]
        OBVIOUS
      <4>2. QED
        BY <3>2, <4>1
    <3>3. QED
      BY <1>1, <1>3, <1>7, <3>1, <3>2 DEF InsertTableRow
  <2>2. StoredOf(i)' = StoredOf(i)
    BY <2>1 DEF StoredOf
  <2>3. QED
    BY <1>2, <1>8, <2>2 DEF SaysStays, Items
<1>10. ASSUME rows'[s] # None, Untouched(s)'
       PROVE  /\ q.gen = rows[s].gen /\ q.src = rows[s].src
              /\ q.next - 1 <= n /\ Says(s, parts, q.next - 1)
  <2>1. Untouched(s)
    BY <1>4, <1>8, <1>10 DEF GapsStay, Untouched
  <2>2. SyncHolds(s, q)
    BY <1>1, <1>2, <1>10, <2>1 DEF StoredHolds, SheetHolds
  <2>3. QED
    BY <1>2, <1>3, <1>4, <1>5, <1>6, <2>2 DEF SyncHolds
<1>11. GapsStay(s)
  BY <1>4, <1>8
<1>12. CASE q.next > n
  <2>1. UNCHANGED <<texts, gaps>>
    BY <1>1, <1>6, <1>7, <1>12 DEF InsertTableRow
  <2>2. PICK r : /\ job' = [job EXCEPT ![j] = r]
                 /\ \/ r = NoJob
                    \/ r.op = "sync" /\ r.item = s /\ r.pc = "embed" /\ r.gen = q.gen /\ r.src = q.src
    <3>1. CASE Set(j, NoJob)
      BY <3>1 DEF Set
    <3>2. CASE Set(j, [q EXCEPT !.pc = "embed", !.ids = DOMAIN parts])
      <4>1. PICK ids : ids = DOMAIN parts
        OBVIOUS
      <4>2. PICK r : r = [q EXCEPT !.pc = "embed", !.ids = ids]
        OBVIOUS
      <4>3. /\ job' = [job EXCEPT ![j] = r]
            /\ r.op = "sync" /\ r.item = s /\ r.pc = "embed" /\ r.gen = q.gen /\ r.src = q.src
        BY <1>2, <1>3, <3>2, <4>1, <4>2 DEF Set, Fields
      <4>4. QED
        BY <4>3
    <3>3. QED
      BY <1>1, <1>6, <1>7, <1>12, <3>1, <3>2 DEF InsertTableRow
  <2>3. NextHolds(r) /\ ~Rewrites(r) /\ (r = NoJob \/ (r.op = "sync" /\ r.item = s))
    <3>1. NextHolds(NoJob) /\ ~Rewrites(NoJob)
      BY DEF NextHolds, Rewrites, NoJob
    <3>2. r.pc = "embed" => NextHolds(r) /\ ~Rewrites(r)
      BY <2>2 DEF NextHolds, HasRow, Rewrites, NoJob
    <3>3. QED
      BY <2>2, <3>1, <3>2
  <2>4. ASSUME rows'[s] # None, Untouched(s)'
        PROVE  SyncHolds(s, r)' /\ Says(s, PartsOf(s, rows[s].src), Len(PartsOf(s, rows[s].src)))'
    <3>1. q.next - 1 = n /\ Says(s, parts, n)
      BY <1>4, <1>10, <1>12, <2>4
    <3>2. StoredOf(s)' = StoredOf(s) /\ PartsOf(s, rows[s].src)' = parts
      BY <1>2, <1>5, <1>10, <2>1, <2>4 DEF StoredOf
    <3>3. Says(s, parts, n)'
      BY <3>1, <3>2 DEF Says
    <3>4. SyncHolds(s, r)'
      <4>1. CASE r = NoJob
        BY <4>1 DEF SyncHolds, NoJob, HasRow
      <4>2. CASE r.pc = "embed" /\ r.gen = q.gen /\ r.src = q.src
        BY <1>2, <1>10, <2>4, <4>2 DEF SyncHolds
      <4>3. QED
        BY <2>2, <4>1, <4>2
    <3>5. QED
      BY <1>6, <3>2, <3>3, <3>4
  <2>5. QED
    BY <1>1, <1>2, <1>3, <1>9, <1>11, <2>2, <2>3, <2>4, SheetWritten
<1>13. CASE q.next <= n
  <2>1. PICK next : next = q.next + 1
    OBVIOUS
  <2>2. PICK r : r = [q EXCEPT !.next = next]
    OBVIOUS
  <2>3. /\ job' = [job EXCEPT ![j] = r]
        /\ r.op = "sync" /\ r.item = s /\ r.pc = "texts" /\ r.gen = q.gen /\ r.src = q.src /\ r.next = next
    <3>1. Set(j, [q EXCEPT !.next = q.next + 1])
      BY <1>1, <1>4, <1>6, <1>7, <1>13 DEF InsertTableRow
    <3>2. QED
      BY <1>2, <1>3, <2>1, <2>2, <3>1 DEF Set, Fields
  <2>4. NextHolds(r) /\ Rewrites(r) /\ next - 1 = q.next
    BY <1>4, <2>1, <2>3 DEF NextHolds, HasRow, Rewrites
  <2>5. ASSUME rows'[s] # None, Untouched(s)' PROVE SyncHolds(s, r)'
    <3>1. Alive(j)
      BY <1>1, <1>2, <1>3, <1>10, <2>5 DEF Alive
    <3>2. ~Gap(s, {"unstored"})
      BY <1>4, <2>5 DEF Gap, Untouched, BaseHolds, StoreTyped
    <3>3. texts' = texts \cup {[item |-> s, gen |-> q.gen, idx |-> q.next, text |-> parts[q.next], by |-> j]}
      BY <1>1, <1>3, <1>4, <1>6, <1>7, <1>13, <3>1, <3>2 DEF InsertTableRow
    <3>4. PICK t : t = [item |-> s, gen |-> q.gen, idx |-> q.next, text |-> parts[q.next], by |-> j]
      OBVIOUS
    <3>5. t.item = s /\ t.idx = q.next /\ t.text = parts[q.next] /\ texts' = texts \cup {t}
      BY <3>3, <3>4
    <3>6. StoredOf(s)' = StoredOf(s) \cup {t}
      BY <3>5 DEF StoredOf
    <3>7. PICK m \in Nat : m = q.next - 1
      BY <1>4
    <3>8. q.next = m + 1 /\ Says(s, parts, m)
      BY <1>4, <1>10, <2>5, <3>7
    <3>9. Says(s, parts, q.next)'
      BY <3>5, <3>6, <3>8, SaysMore
    <3>10. QED
      BY <1>2, <1>5, <1>6, <1>10, <1>13, <2>3, <2>4, <2>5, <3>9 DEF SyncHolds
  <2>6. QED
    BY <1>1, <1>2, <1>3, <1>9, <1>11, <2>3, <2>4, <2>5, SheetWritten
<1>14. QED
  BY <1>4, <1>6, <1>12, <1>13

\* At first nothing is stored.
LEMMA NothingStored == Init => StoredHolds
<1> SUFFICES ASSUME Init PROVE StoredHolds
  OBVIOUS
<1>1. Docs \cup Sheets \subseteq Items
  BY DEF Items
<1>2. \A i \in Docs \cup Sheets : rows[i] = None
  BY <1>1 DEF Init
<1>3. \A j \in Jobs : job[j] = NoJob
  BY DEF Init
<1>4. NextHolds(NoJob)
  BY DEF NextHolds, NoJob
<1>5. QED
  BY <1>2, <1>3, <1>4 DEF StoredHolds, DocumentHolds, SheetHolds

\* What is stored is what the sources say, all the time.
LEMMA StoredInvariant == Spec => []StoredHolds
<1>1. Init => StoredHolds
  BY NothingStored
<1>2. BaseHolds /\ StoredHolds /\ [Next]_vars => StoredHolds'
  <2> SUFFICES ASSUME BaseHolds, StoredHolds, [Next]_vars PROVE StoredHolds'
    OBVIOUS
  <2>1. ASSUME NEW j \in Jobs, Start(j) PROVE StoredHolds'
    BY <2>1, BeginStores
  <2>2. ASSUME NEW j \in Jobs, Step(j) PROVE StoredHolds'
    <3>1. CASE \/ GetNamespace(j) \/ EmbedBatch(j) \/ UpsertVectors(j) \/ SkipVectors(j)
               \/ SetStatus(j)
      BY <3>1, GetNamespaceStores, EmbedStores, UpsertStores, SetStatusStores
    <3>2. CASE \/ ReadChunks(j) \/ ReadIds(j) \/ DeleteVectors(j) \/ DeleteAllVectors(j) \/ crawlAndChunk(j)
               \/ DeleteRow(j) \/ DropNamespace(j)
      BY <3>2, ReadsStore, DropsStore
    <3>3. CASE InsertDocument(j) \/ InsertQA(j) \/ UpsertPage(j) \/ SetPineconeID(j) \/ InsertChunk(j)
      BY <3>3, RowsStore, ChunkStored
    <3>4. CASE \/ FetchSheet(j) \/ fetchCSVMatrix(j) \/ resolveGoogleSheetRef(j)
               \/ fetchSheetMatrixWithOAuth(j) \/ ParseSheet(j)
      BY <3>4, SyncStores
    <3>5. CASE UpsertTable(j) \/ ClearTable(j) \/ InsertTableRow(j)
      BY <3>5, TableStored, TableCleared, TableRowStored
    <3>6. QED
      BY <2>2, <3>1, <3>2, <3>3, <3>4, <3>5 DEF Step
  <2>3. ASSUME NEW j \in Jobs, Abandon(j) PROVE StoredHolds'
    BY <2>3, AbandonStores
  <2>4. CASE DeletePage \/ DeleteSheet \/ CreateNamespace \/ UNCHANGED knowledgeVars
    BY <2>4, OwnersStore
  <2>5. CASE UNCHANGED vars
    BY <2>4, <2>5 DEF vars, knowledgeVars
  <2>6. QED
    BY <2>1, <2>2, <2>3, <2>4, <2>5 DEF Next
<1>3. QED
  BY <1>1, <1>2, BaseInvariant, PTL DEF Spec

\* The first n numbers are n.
LEMMA UpTo ==
    ASSUME NEW n \in Nat PROVE IsFiniteSet(1..n) /\ Cardinality(1..n) = n
  BY FS_Interval

\* Texts that are the parts of a source, each at its place and all of them there.
LEMMA AllSaid ==
    ASSUME NEW i, NEW R, NEW parts \in Seq(R), NEW n \in Nat, n = Len(parts),
           \A t \in StoredOf(i) : t.idx \in 1..n /\ t.text = parts[t.idx],
           \A x \in 1..n : \E t \in StoredOf(i) : t.idx = x
    PROVE  /\ Ids(i) = 1..n /\ Cardinality(Ids(i)) = n
           /\ [x \in 1..Cardinality(Ids(i)) |-> TextOf(i, x)] = parts
<1>1. Ids(i) = 1..n
  BY DEF Ids, StoredOf
<1>2. Cardinality(Ids(i)) = n
  <2>1. Cardinality(1..n) = n
    BY UpTo
  <2>2. QED
    BY <1>1, <2>1
<1>3. ASSUME NEW x \in 1..n PROVE TextOf(i, x) = parts[x]
  <2>1. \E t \in texts : t.item = i /\ t.idx = x
    BY DEF StoredOf
  <2>2. PICK t : t = CHOOSE u \in texts : u.item = i /\ u.idx = x
    OBVIOUS
  <2>3. t \in texts /\ t.item = i /\ t.idx = x
    BY <2>1, <2>2
  <2>4. t.text = parts[x]
    BY <2>3 DEF StoredOf
  <2>5. QED
    BY <2>2, <2>4 DEF TextOf
<1>4. parts = [x \in 1..n |-> parts[x]]
  OBVIOUS
<1>5. [x \in 1..n |-> TextOf(i, x)] = [x \in 1..n |-> parts[x]]
  BY <1>3
<1>6. QED
  BY <1>1, <1>2, <1>4, <1>5

\* One text for each place.
LEMMA OnceEach ==
    ASSUME NEW i, NEW parts, NEW n \in Nat, Says(i, parts, n)
    PROVE  Cardinality(StoredOf(i)) = n
<1> DEFINE at(x) == CHOOSE t \in StoredOf(i) : t.idx = x
           f == [x \in 1..n |-> at(x)]
<1>1. \A x \in 1..n : at(x) \in StoredOf(i) /\ at(x).idx = x
  BY DEF Says
<1>2. \A t \in StoredOf(i) : t.idx \in 1..n /\ at(t.idx) = t
  BY <1>1 DEF Says
<1> HIDE DEF at
<1>3. f \in [1..n -> StoredOf(i)] /\ \A x \in 1..n : f[x] = at(x)
  BY <1>1
<1> HIDE DEF f
<1>4. \A x, y \in 1..n : f[x] = f[y] => x = y
  BY <1>1, <1>3
<1>5. \A t \in StoredOf(i) : \E x \in 1..n : f[x] = t
  BY <1>2, <1>3
<1>6. IsFiniteSet(1..n) /\ Cardinality(1..n) = n
  BY UpTo
<1>7. Cardinality(StoredOf(i)) = Cardinality(1..n)
  BY <1>3, <1>4, <1>5, <1>6, Matched, Zenon
<1>8. QED
  BY <1>6, <1>7

\* Whatever requests failed before and whoever interfered, the chunks of a document
\* that was stored to its end hold every sentence of its content, the spans of a
\* page all its words, and the row texts of a sheet that one request at a time has
\* synced every cell of it that has a key.
THEOREM CoverageSafety == Spec => []SourcesAreCovered
<1>1. BaseHolds /\ StoredHolds => SourcesAreCovered
  <2> SUFFICES ASSUME BaseHolds, StoredHolds PROVE SourcesAreCovered
    OBVIOUS
  <2>1. ASSUME NEW d \in Docs, rows[d] # None, "unready" \notin gaps[d], rows[d].status \in {"indexed", "pending"}
        PROVE  /\ Ids(d) = 1..Cardinality(Ids(d))
               /\ ChunksCover([x \in 1..Cardinality(Ids(d)) |-> TextOf(d, x)], rows[d].src.text, rows[d].src.size)
    <3>1. d \in Items
      BY DEF Items
    <3>2. PICK src \in Source(d) : src = rows[d].src
      BY <2>1, <3>1, RowType DEF Row
    <3>3. PICK parts \in Seq(Seq(Pieces(Sentences))) : parts = PartsOf(d, src)
      BY DocumentParts
    <3>4. ChunksCover(parts, src.text, src.size)
      BY <3>3, DocumentParts
    <3>5. PICK n \in Nat : n = Len(parts) /\ DOMAIN parts = 1..n
      OBVIOUS
    <3>6. \A t \in StoredOf(d) : t.idx \in 1..n /\ t.text = parts[t.idx]
      BY <2>1, <3>2, <3>3, <3>5 DEF StoredHolds, DocumentHolds
    <3>7. Complete(d)
      BY <2>1, <3>1 DEF BaseHolds, ItemHolds, Finished
    <3>8. \A x \in 1..n : \E t \in StoredOf(d) : t.idx = x
      BY <3>2, <3>3, <3>5, <3>7 DEF Complete, Ids, StoredOf
    <3>9. /\ Ids(d) = 1..n /\ Cardinality(Ids(d)) = n
          /\ [x \in 1..Cardinality(Ids(d)) |-> TextOf(d, x)] = parts
      BY <3>5, <3>6, <3>8, AllSaid
    <3>10. QED
      BY <3>2, <3>4, <3>9
  <2>2. ASSUME NEW p \in Pages, rows[p] # None
        PROVE  SpansCover(chunkTextWithOverlap(rows[p].src, 500, 50), rows[p].src)
    <3>1. p \in Items
      BY DEF Items
    <3>2. rows[p].src \in Source(p)
      BY <2>2, <3>1, RowType DEF Row
    <3>3. rows[p].src \in Nat
      BY <3>2, SourcesDiffer, KnowledgeAssumption DEF Source
    <3>4. QED
      BY <3>3, PageCovered
  <2>3. ASSUME NEW s \in Sheets, rows[s] # None, gaps[s] \cap {"overlap", "unstored"} = {},
               \A j \in Jobs : job[j].item = s => job[j].pc \notin {"clear", "texts"}
        PROVE  LET written == [x \in 1..Cardinality(Ids(s)) |-> TextOf(s, x)]
               IN  /\ Cardinality(StoredOf(s)) = Cardinality(Ids(s))
                   /\ written = parseTableWithSmartAnalysis(rows[s].src)
                   /\ RowsCover(written, rows[s].src)
    <3>1. s \in Items
      BY DEF Items
    <3>2. PICK src \in Source(s) : src = rows[s].src
      BY <2>3, <3>1, RowType DEF Row
    <3>3. PICK parts : parts = PartsOf(s, src)
      OBVIOUS
    <3>4. PICK R : parts \in Seq(R)
      BY <3>3, SheetParts
    <3>5. PICK n \in Nat : n = Len(parts)
      BY <3>4
    <3>6. Says(s, parts, n)
      <4>1. \A j \in Jobs : job[j].item = s => ~Rewrites(job[j])
        BY <2>3 DEF Rewrites
      <4>2. SheetHolds(s) /\ Untouched(s)
        BY <2>3 DEF StoredHolds, Untouched
      <4>3. QED
        BY <2>3, <3>2, <3>3, <3>5, <4>1, <4>2 DEF SheetHolds
    <3>7. /\ Ids(s) = 1..n /\ Cardinality(Ids(s)) = n
          /\ [x \in 1..Cardinality(Ids(s)) |-> TextOf(s, x)] = parts
      BY <3>4, <3>5, <3>6, AllSaid DEF Says
    <3>8. Cardinality(StoredOf(s)) = n
      BY <3>6, OnceEach
    <3>9. parts = parseTableWithSmartAnalysis(src) /\ RowsCover(parts, src)
      BY <3>3, SheetParts, SourcesDiffer DEF PartsOf
    <3>10. QED
      BY <3>2, <3>7, <3>8, <3>9
  <2>4. QED
    BY <2>1, <2>2, <2>3, Zenon DEF SourcesAreCovered, StoredOf
<1>2. QED
  BY <1>1, BaseInvariant, StoredInvariant, PTL
=============================================================================
