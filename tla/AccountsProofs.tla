---------------------------- MODULE AccountsProofs ----------------------------
(***************************************************************************)
(* Proofs about Accounts, for any number of users, VK accounts and         *)
(* requests. A registration that has not yet subscribed its user is alone  *)
(* with it: ids are given out once. So a second subscription needs a VK    *)
(* login in between.                                                       *)
(***************************************************************************)
EXTENDS Accounts, TLAPS

Fields == DOMAIN NoReq

Named(x) == x.user \in Users \cup {None}
Owned(t) == DOMAIN t = {"user", "row", "old"} /\ t.user \in Users

\* What a request holds: a registration a user of its own, a VK login no orphan
\* that is its own user, a renewal a token that was issued.
Holds(x) ==
    /\ DOMAIN x = Fields
    /\ x.op = "register" /\ x.pc = "subscribe" => x.user \in used
    /\ x.op \in {"login", "refresh", "password", "push"} => x.user \in Users
    /\ x.op = "refresh" => \E t \in Tokens : x.todo = {t} /\ Owned(token[t])
    /\ x.op = "vk" =>
          /\ x.vk \in VKUsers /\ Named(x) /\ x.linked \in Users \cup {None}
          /\ x.pc = "prepare" => x.user # None
          /\ x.pc \in {"commit", "prepare"} => x.user \notin x.orphans
          /\ x.pc = "save" => x.user \in Users
          /\ x.user = None => x.orphans = {}

Registers(q) == At(q, "register", "subscribe")
Pending(u) == \E q \in AuthRequests : Registers(q) /\ req[q].user = u

TokensHold ==
    /\ token = [t \in Tokens |-> token[t]]
    /\ \A t \in Tokens : token[t] # None => Owned(token[t])

Shapes ==
    /\ used \subseteq Users /\ access \subseteq Users
    /\ subs \in [Users -> Nat]
    /\ link \in [VKUsers -> Users \cup {None}]
    /\ TokensHold
    /\ req = [r \in AuthRequests |-> req[r]]
    /\ \A r \in AuthRequests : Holds(req[r])

Alone ==
    /\ \A u \in Users \ used : subs[u] = 0
    /\ \A q, r \in AuthRequests : Registers(q) /\ Registers(r) /\ req[q].user = req[r].user => q = r

Counted ==
    /\ \A u \in Users : /\ subs[u] <= IF u \in doubled THEN 2 ELSE 1
                        /\ Pending(u) => subs[u] <= IF u \in doubled THEN 1 ELSE 0
    /\ \A v \in VKUsers : link[v] # None => subs[link[v]] >= 1

AccountsHold == Shapes /\ Alone /\ Counted

\* A service that nobody uses yet.
LEMMA InitHolds == AccountsInit => AccountsHold
<1> SUFFICES ASSUME AccountsInit PROVE AccountsHold
  OBVIOUS
<1> USE DEF AccountsInit
<1>0. DOMAIN NoReq = Fields /\ NoReq.op = "none"
  BY DEF NoReq, Fields
<1>1. \A r \in AuthRequests : Holds(req[r])
  BY <1>0 DEF Holds
<1>2. Shapes
  BY <1>1, AccountsAssumption DEF Shapes, TokensHold
<1>3. \A q \in AuthRequests : ~Registers(q)
  BY <1>0 DEF Registers, At
<1>4. Alone /\ Counted
  BY <1>3 DEF Alone, Counted, Pending
<1>5. QED
  BY <1>2, <1>4 DEF AccountsHold

\* An issued token stays one.
TokensStay == TokensHold' /\ \A t \in Tokens : Owned(token[t]) => Owned(token'[t])

Books == <<used, subs, link, doubled>>

\* A request that is not subscribing, and writes nothing here.
LEMMA RequestKeeps ==
    ASSUME AccountsHold, UNCHANGED Books, access' \subseteq Users, TokensStay,
           NEW r \in AuthRequests, NEW x, Holds(x), ~(x.op = "register" /\ x.pc = "subscribe"),
           Set(r, x)
    PROVE  AccountsHold'
<1> USE DEF Books, TokensStay
<1>1. \A q \in AuthRequests : req'[q] = IF q = r THEN x ELSE req[q]
  BY DEF Set, AccountsHold, Shapes
<1>2. req' = [q \in AuthRequests |-> req'[q]]
  BY DEF Set, AccountsHold, Shapes
<1>3. \A q \in AuthRequests : Holds(req[q])'
  <2>1. \A y : Holds(y) => Holds(y)'
    BY DEF Holds, Named, Owned
  <2>2. QED
    BY <1>1, <2>1 DEF AccountsHold, Shapes
<1>4. Shapes'
  BY <1>2, <1>3 DEF AccountsHold, Shapes
<1>5. \A q \in AuthRequests : Registers(q)' => Registers(q) /\ req'[q] = req[q]
  BY <1>1 DEF Registers, At
<1>6. Alone'
  BY <1>5 DEF AccountsHold, Alone
<1>7. \A u \in Users : Pending(u)' => Pending(u)
  BY <1>5 DEF Pending
<1>8. Counted'
  BY <1>7 DEF AccountsHold, Counted
<1>9. QED
  BY <1>4, <1>6, <1>8 DEF AccountsHold

\* So does a step of no request at all.
LEMMA OtherKeeps ==
    ASSUME AccountsHold, UNCHANGED <<Books, req, access>>, TokensStay
    PROVE  AccountsHold'
<1>1. \A q \in AuthRequests : Holds(req[q])'
  <2>1. \A y : Holds(y) => Holds(y)'
    BY DEF TokensStay, Books, Holds, Named, Owned
  <2>2. QED
    BY <2>1 DEF AccountsHold, Shapes
<1>2. Shapes'
  BY <1>1 DEF AccountsHold, Shapes, TokensStay, Books
<1>3. Alone' /\ Counted'
  BY DEF Books, AccountsHold, Alone, Counted, Pending, Registers, At
<1>4. QED
  BY <1>2, <1>3 DEF AccountsHold

\* A request that begins.
LEMMA StartKeeps ==
    ASSUME AccountsHold, NEW r \in AuthRequests, Start(r)
    PROVE  AccountsHold'
<1>0. DOMAIN NoReq = Fields /\ NoReq.orphans = {} /\ NoReq.user = None
  BY DEF NoReq, Fields
<1>1. ASSUME NEW op, NEW pc, NEW x, BeginRequest(r, op, pc, x), DOMAIN x = Fields,
             Holds([x EXCEPT !.op = op, !.pc = pc]), pc # "subscribe"
      PROVE  AccountsHold'
  <2> DEFINE y == [x EXCEPT !.op = op, !.pc = pc]
  <2>1. Holds(y) /\ y.pc # "subscribe"
    BY <1>1 DEF Fields, NoReq
  <2>2. Set(r, y) /\ UNCHANGED <<Books, access, token>>
    BY <1>1 DEF BeginRequest, Books, db
  <2>3. access' \subseteq Users /\ TokensStay
    BY <2>2 DEF AccountsHold, Shapes, TokensHold, TokensStay
  <2> HIDE DEF y
  <2>4. QED
    BY <2>1, <2>2, <2>3, RequestKeeps DEF Books
<1>2. CASE Register(r)
  <2>1. PICK m : BeginRequest(r, "register", "insert", [NoReq EXCEPT !.mail = m])
    BY <1>2 DEF Register
  <2> DEFINE x == [NoReq EXCEPT !.mail = m]
  <2>2. DOMAIN x = Fields /\ Holds([x EXCEPT !.op = "register", !.pc = "insert"])
    BY <1>0 DEF Holds, Fields, NoReq
  <2> HIDE DEF x
  <2>3. QED
    BY <1>1, <2>1, <2>2 DEF x
<1>3. ASSUME NEW u \in Users, NEW op \in {"login", "password", "push"},
             NEW pc \in {"save", "update", "devices"},
             BeginRequest(r, op, pc, [NoReq EXCEPT !.user = u])
      PROVE  AccountsHold'
  <2> DEFINE x == [NoReq EXCEPT !.user = u]
  <2>1. DOMAIN x = Fields /\ Holds([x EXCEPT !.op = op, !.pc = pc])
    BY <1>0 DEF Holds, Fields, NoReq
  <2>2. BeginRequest(r, op, pc, x)
    BY <1>3
  <2> HIDE DEF x
  <2>3. QED
    BY <1>1, <2>1, <2>2
<1>4. CASE Login(r) \/ ChangePassword(r) \/ InternalSendPush(r)
  BY <1>3, <1>4 DEF Login, ChangePassword, InternalSendPush
<1>5. CASE RefreshAccessToken(r)
  <2>1. PICK t \in Tokens :
          /\ token[t] # None
          /\ BeginRequest(r, "refresh", "recover", [NoReq EXCEPT !.user = token[t].user, !.todo = {t}])
    BY <1>5 DEF RefreshAccessToken
  <2>2. Owned(token[t])
    BY <2>1 DEF AccountsHold, Shapes, TokensHold
  <2> DEFINE u == token[t].user
             x == [NoReq EXCEPT !.user = u, !.todo = {t}]
  <2>3. u \in Users
    BY <2>2 DEF Owned
  <2> HIDE DEF u
  <2>4. DOMAIN x = Fields /\ Holds([x EXCEPT !.op = "refresh", !.pc = "recover"])
    BY <1>0, <2>2, <2>3 DEF Holds, Fields, NoReq
  <2>5. BeginRequest(r, "refresh", "recover", x)
    BY <2>1 DEF u
  <2> HIDE DEF x
  <2>6. QED
    BY <1>1, <2>4, <2>5
<1>6. CASE LoginWithVK(r)
  <2>1. PICK v \in VKUsers, preferred \in access \cup {None} :
          BeginRequest(r, "vk", IF preferred = None THEN "commit" ELSE "prepare",
                [NoReq EXCEPT !.vk = v, !.user = preferred, !.linked = link[v]])
    BY <1>6, AccountsAssumption DEF LoginWithVK, resolveVKUserInfo, fetchVKUserInfo,
       extractPreferredUserID
  <2> DEFINE pc == IF preferred = None THEN "commit" ELSE "prepare"
             to == link[v]
             x  == [NoReq EXCEPT !.vk = v, !.user = preferred, !.linked = to]
  <2>2. preferred \in Users \cup {None} /\ to \in Users \cup {None}
    BY DEF AccountsHold, Shapes
  <2>3. pc \in {"commit", "prepare"} /\ (pc = "prepare" => preferred # None)
    OBVIOUS
  <2>4. BeginRequest(r, "vk", pc, x)
    BY <2>1
  <2> HIDE DEF to, pc
  <2>5. Holds([x EXCEPT !.op = "vk", !.pc = pc])
    BY <1>0, <2>2, <2>3 DEF Holds, Named, Fields, NoReq
  <2>6. DOMAIN x = Fields
    BY <1>0
  <2> HIDE DEF x
  <2>7. QED
    BY <1>1, <2>3, <2>4, <2>5, <2>6
<1>7. QED
  BY <1>2, <1>4, <1>5, <1>6 DEF Start

\* A step that leaves the subscriptions and the links alone.
LEMMA PlainKeeps ==
    ASSUME AccountsHold, NEW r \in AuthRequests,
           \/ SaveRefreshToken(r) \/ RecoverToken(r) \/ UpdatePassword(r)
           \/ PreparePreferred(r) \/ SendPushToUser(r) \/ GetAccessToken(r)
           \/ SendFCM(r) \/ FailRequest(r)
    PROVE  AccountsHold'
<1>0. Holds(NoReq) /\ NoReq.op = "none"
  BY DEF NoReq, Fields, Holds
<1>1. Holds(req[r]) /\ TokensHold /\ access \subseteq Users
  BY DEF AccountsHold, Shapes
<1>2. UNCHANGED Books
  BY DEF SaveRefreshToken, RecoverToken, UpdatePassword, PreparePreferred, SendPushToUser,
     GetAccessToken, SendFCM, FailRequest, Books, db
<1>3. ASSUME NEW x, Holds(x), x.op # "register", Set(r, x), UNCHANGED <<token, access>>
      PROVE  AccountsHold'
  <2>1. TokensStay /\ access' \subseteq Users
    BY <1>1, <1>3 DEF TokensHold, TokensStay
  <2>2. QED
    BY <1>2, <1>3, <2>1, RequestKeeps
<1>4. CASE Set(r, NoReq) /\ UNCHANGED <<token, access>>
  BY <1>0, <1>3, <1>4
<1>5. CASE SaveRefreshToken(r)
  <2>1. req[r].user \in Users
    BY <1>1, <1>5 DEF SaveRefreshToken, Holds
  <2>2. access' \subseteq Users
    BY <1>1, <1>5, <2>1 DEF SaveRefreshToken, GenerateAccessToken
  <2>3. TokensStay
    <3>1. CASE UNCHANGED token
      BY <1>1, <3>1 DEF TokensHold, TokensStay
    <3>2. CASE \E t \in Tokens : token' = [token EXCEPT ![t] = GenerateRefreshToken(req[r].user)]
      <4> DEFINE new == GenerateRefreshToken(req[r].user)
      <4>1. Owned(new)
        BY <2>1 DEF GenerateRefreshToken, Owned
      <4> HIDE DEF new
      <4>2. QED
        BY <1>1, <3>2, <4>1 DEF TokensHold, TokensStay, new
    <3>3. QED
      BY <1>5, <3>1, <3>2 DEF SaveRefreshToken
  <2>4. Set(r, NoReq)
    BY <1>5 DEF SaveRefreshToken
  <2>5. QED
    BY <1>0, <1>2, <2>2, <2>3, <2>4, RequestKeeps
<1>6. CASE RecoverToken(r)
  <2>1. req[r].user \in Users
    BY <1>1, <1>6 DEF RecoverToken, At, Holds
  <2>2. access' \subseteq Users
    BY <1>1, <1>6, <2>1 DEF RecoverToken, GenerateAccessToken
  <2>3. TokensStay
    <3>1. PICK t \in Tokens : req[r].todo = {t} /\ Owned(token[t])
      BY <1>1, <1>6 DEF RecoverToken, At, Holds
    <3>2. t = CHOOSE x \in req[r].todo : TRUE
      BY <3>1
    <3>3. PICK row : token' = [token EXCEPT ![t] = [token[t] EXCEPT !.row = row]]
      BY <1>6, <3>2 DEF RecoverToken
    <3>4. Owned([token[t] EXCEPT !.row = row])
      BY <3>1 DEF Owned
    <3>5. QED
      BY <1>1, <3>3, <3>4 DEF TokensHold, TokensStay
  <2>4. Set(r, NoReq)
    BY <1>6 DEF RecoverToken
  <2>5. QED
    BY <1>0, <1>2, <2>2, <2>3, <2>4, RequestKeeps
<1>7. CASE PreparePreferred(r)
  <2> DEFINE S == Orphans(r)
             x == [req[r] EXCEPT !.orphans = S, !.pc = "commit"]
  <2>1. Set(r, x) /\ UNCHANGED <<token, access>>
    BY <1>7 DEF PreparePreferred
  <2>2. req[r].op = "vk" /\ req[r].pc = "prepare" /\ req[r].user \notin S
    BY <1>7 DEF PreparePreferred, At, Orphans
  <2> HIDE DEF S
  <2>3. Holds(x) /\ x.op = "vk"
    BY <1>1, <2>2 DEF Holds, Named, Fields, NoReq
  <2> HIDE DEF x
  <2>4. QED
    BY <1>3, <2>1, <2>3
<1>8. ASSUME req[r].op = "push", NEW todo, NEW pc,
             Set(r, [req[r] EXCEPT !.todo = todo, !.pc = pc]), UNCHANGED <<token, access>>
      PROVE  AccountsHold'
  <2> DEFINE x == [req[r] EXCEPT !.todo = todo, !.pc = pc]
  <2>1. Holds(x) /\ x.op = "push"
    BY <1>1, <1>8 DEF Holds, Named, Fields, NoReq
  <2> HIDE DEF x
  <2>2. QED
    BY <1>3, <1>8, <2>1 DEF x
<1>9. CASE SendPushToUser(r)
  BY <1>4, <1>8, <1>9 DEF SendPushToUser, At
<1>10. CASE GetAccessToken(r)
  <2> DEFINE x == [req[r] EXCEPT !.pc = "send"]
  <2>1. Holds(x) /\ x.op = "push"
    BY <1>1, <1>10 DEF GetAccessToken, At, Holds, Named, Fields, NoReq
  <2>2. Set(r, x) /\ UNCHANGED <<token, access>>
    BY <1>10 DEF GetAccessToken, To
  <2> HIDE DEF x
  <2>3. QED
    BY <1>3, <2>1, <2>2
<1>11. CASE SendFCM(r)
  <2>1. PICK d : Set(r, IF req[r].todo = {d} THEN NoReq ELSE [req[r] EXCEPT !.todo = @ \ {d}])
    BY <1>11 DEF SendFCM
  <2> DEFINE x == [req[r] EXCEPT !.todo = @ \ {d}]
  <2>2. req[r].op = "push" /\ UNCHANGED <<token, access>>
    BY <1>11 DEF SendFCM, At
  <2>3. Holds(x) /\ x.op = "push"
    BY <1>1, <2>2 DEF Holds, Named, Fields, NoReq
  <2>4. CASE Set(r, x)
    <3> HIDE DEF x
    <3>1. QED
      BY <1>3, <2>2, <2>3, <2>4
  <2>5. QED
    BY <1>4, <2>1, <2>2, <2>4
<1>12. CASE UpdatePassword(r) \/ FailRequest(r)
  BY <1>4, <1>12 DEF UpdatePassword, FailRequest
<1>13. QED
  BY <1>5, <1>6, <1>7, <1>9, <1>10, <1>11, <1>12

-----------------------------------------------------------------------------
(* Registration. *)

\* A new id has no subscription yet, and no other request of its own.
LEMMA InsertUserKeeps ==
    ASSUME AccountsHold, NEW r \in AuthRequests, InsertUser(r)
    PROVE  AccountsHold'
<1>1. Holds(req[r]) /\ TokensHold /\ At(r, "register", "insert")
  BY DEF AccountsHold, Shapes, InsertUser
<1>2. UNCHANGED <<subs, link, doubled, token, access>>
  BY DEF InsertUser
<1>3. CASE Set(r, NoReq) /\ UNCHANGED used
  <2>1. Holds(NoReq) /\ NoReq.op = "none"
    BY DEF NoReq, Fields, Holds
  <2>2. TokensStay /\ access' \subseteq Users /\ UNCHANGED Books
    BY <1>1, <1>2, <1>3 DEF TokensStay, TokensHold, Books, AccountsHold, Shapes
  <2>3. QED
    BY <1>3, <2>1, <2>2, RequestKeeps
<1>4. ASSUME NEW u \in Users \ used, used' = used \cup {u},
             Set(r, [req[r] EXCEPT !.user = u, !.pc = "subscribe"])
      PROVE  AccountsHold'
  <2>0. PICK x : x = [req[r] EXCEPT !.user = u, !.pc = "subscribe"]
    OBVIOUS
  <2>1. Holds(x)' /\ x.op = "register" /\ x.pc = "subscribe" /\ x.user = u
    BY <1>1, <1>4, <2>0 DEF Holds, At, Fields, NoReq
  <2>2. \A y : Holds(y) => Holds(y)'
    BY <1>2, <1>4 DEF Holds, Named
  <2>3. /\ \A q \in AuthRequests : req'[q] = IF q = r THEN x ELSE req[q]
        /\ req' = [q \in AuthRequests |-> req'[q]]
    BY <1>4, <2>0 DEF Set, AccountsHold, Shapes
  <2>4. \A q \in AuthRequests : Holds(req[q])'
    BY <2>1, <2>2, <2>3 DEF AccountsHold, Shapes
  <2>5. Shapes'
    BY <1>2, <1>4, <2>3, <2>4 DEF AccountsHold, Shapes, TokensHold
  <2>6. \A q \in AuthRequests \ {r} : /\ Registers(q)' <=> Registers(q)
                                      /\ req'[q].user = req[q].user
                                      /\ Registers(q) => req[q].user # u
    <3>1. ASSUME NEW q \in AuthRequests, Registers(q) PROVE req[q].user \in used
      BY <3>1 DEF AccountsHold, Shapes, Holds, Registers, At
    <3>2. QED
      BY <1>4, <2>3, <3>1 DEF Registers, At
  <2>7. req'[r].user = u /\ ~Registers(r)
    BY <1>1, <2>1, <2>3 DEF Registers, At
  <2>8. Alone'
    BY <1>2, <1>4, <2>6, <2>7 DEF AccountsHold, Alone
  <2>9. \A w \in Users : w # u => (Pending(w)' => Pending(w))
    BY <2>6, <2>7 DEF Pending
  <2>10. subs[u] = 0
    BY <1>4 DEF AccountsHold, Alone
  <2>11. Counted'
    BY <1>2, <2>9, <2>10 DEF AccountsHold, Counted
  <2>12. QED
    BY <2>5, <2>8, <2>11 DEF AccountsHold
<1>5. QED
  BY <1>3, <1>4 DEF InsertUser

\* The only request that registers the user adds its subscription, and is done.
LEMMA InsertSubscriptionKeeps ==
    ASSUME AccountsHold, NEW r \in AuthRequests, InsertSubscription(r)
    PROVE  AccountsHold'
<1> DEFINE u == req[r].user
<1>1. /\ UNCHANGED <<used, link, doubled, token, access>> /\ Registers(r) /\ Set(r, NoReq)
      /\ subs' = [subs EXCEPT ![u] = IF Exists(u) THEN @ + 1 ELSE @]
  BY DEF InsertSubscription, Registers
<1>2. u \in Users /\ u \in used /\ Pending(u)
  BY <1>1 DEF AccountsHold, Shapes, Holds, Registers, At, Pending
<1>3. Holds(NoReq) /\ NoReq.op = "none"
  BY DEF NoReq, Fields, Holds
<1>4. /\ \A q \in AuthRequests : req'[q] = IF q = r THEN NoReq ELSE req[q]
      /\ req' = [q \in AuthRequests |-> req'[q]]
  BY <1>1 DEF Set, AccountsHold, Shapes
<1>5. \A q \in AuthRequests : Registers(q)' => Registers(q) /\ q # r /\ req'[q].user = req[q].user
  BY <1>3, <1>4 DEF Registers, At
<1>6. PICK n \in {subs[u], subs[u] + 1} : subs' = [subs EXCEPT ![u] = n]
  BY <1>1
<1>7. subs' \in [Users -> Nat]
  BY <1>2, <1>6 DEF AccountsHold, Shapes
<1>8. Shapes'
  <2>1. \A y : Holds(y) => Holds(y)'
    BY <1>1 DEF Holds, Named
  <2>2. \A q \in AuthRequests : Holds(req[q])'
    BY <1>3, <1>4, <2>1 DEF AccountsHold, Shapes
  <2>3. QED
    BY <1>1, <1>4, <1>7, <2>2 DEF AccountsHold, Shapes, TokensHold
<1>9. Alone'
  BY <1>1, <1>2, <1>5, <1>6 DEF AccountsHold, Shapes, Alone
<1>10. \A w \in Users : Pending(w)' => Pending(w) /\ w # u
  BY <1>1, <1>5 DEF AccountsHold, Alone, Pending
<1>11. Counted'
  <2>1. ASSUME NEW w \in Users
        PROVE  /\ subs'[w] <= IF w \in doubled' THEN 2 ELSE 1
               /\ Pending(w)' => subs'[w] <= IF w \in doubled' THEN 1 ELSE 0
    <3>1. CASE w = u
      BY <1>1, <1>2, <1>6, <1>10, <3>1 DEF AccountsHold, Counted, Shapes
    <3>2. CASE w # u
      BY <1>1, <1>6, <1>10, <3>2 DEF AccountsHold, Counted, Shapes
    <3>3. QED
      BY <3>1, <3>2
  <2>2. ASSUME NEW v \in VKUsers, link'[v] # None PROVE subs'[link'[v]] >= 1
    <3>1. link[v] \in Users /\ subs[link[v]] >= 1
      BY <1>1, <2>2 DEF AccountsHold, Shapes, Counted
    <3>2. QED
      BY <1>1, <1>2, <1>6, <3>1 DEF AccountsHold, Shapes
  <2>3. QED
    BY <2>1, <2>2 DEF Counted
<1>12. QED
  BY <1>8, <1>9, <1>11 DEF AccountsHold

-----------------------------------------------------------------------------
(* A VK login that commits. *)

\* What its transaction writes for its user u, when it does not roll back.
LEMMA Committed ==
    ASSUME AccountsHold, NEW r \in AuthRequests, At(r, "vk", "commit"), NEW u \in Canonical(r)
    PROVE  u \in Users /\ u \notin req[r].orphans /\ u # None
<1>1. Holds(req[r]) /\ req[r].op = "vk" /\ req[r].pc = "commit"
  BY DEF AccountsHold, Shapes, At
<1>2. CASE req[r].user # None
  BY <1>1, <1>2, AccountsAssumption DEF Canonical, Holds, Named
<1>3. CASE req[r].user = None
  <2>1. req[r].orphans = {}
    BY <1>1, <1>3 DEF Holds
  <2>2. u \in Users
    <3>1. CASE req[r].linked # None
      BY <1>1, <1>3, <3>1 DEF Canonical, Holds
    <3>2. CASE req[r].linked = None
      BY <1>3, <3>2 DEF Canonical, MailOwner
    <3>3. QED
      BY <3>1, <3>2
  <2>3. QED
    BY <2>1, <2>2, AccountsAssumption
<1>4. QED
  BY <1>2, <1>3

\* The login subscribes its user if nobody has, cascades what it merges away,
\* and is marked if it comes between the inserts of a registration.
LEMMA CommitKeeps ==
    ASSUME AccountsHold, NEW r \in AuthRequests, CommitVKLogin(r)
    PROVE  AccountsHold'
<1> DEFINE v == req[r].vk
           gone == req[r].orphans
<1>1. /\ Holds(req[r]) /\ At(r, "vk", "commit") /\ TokensHold /\ v \in VKUsers
      /\ UNCHANGED access
  BY DEF AccountsHold, Shapes, CommitVKLogin, At, Holds
<1>2. CASE Set(r, NoReq) /\ UNCHANGED <<used, subs, link, token, doubled>>
  <2>1. Holds(NoReq) /\ NoReq.op = "none"
    BY DEF NoReq, Fields, Holds
  <2>2. TokensStay /\ access' \subseteq Users /\ UNCHANGED Books
    BY <1>1, <1>2 DEF TokensStay, TokensHold, Books, AccountsHold, Shapes
  <2>3. QED
    BY <1>2, <2>1, <2>2, RequestKeeps
<1>3. ASSUME NEW u \in Canonical(r),
             used' = used \cup {u},
             subs' = Cascade(gone, ensureSubscription(subs, u), 0),
             link' = [w \in VKUsers |-> LET l == upsertVKProvider(link, v, u)
                                        IN  IF l[w] \in gone THEN None ELSE l[w]],
             token' = [t \in Tokens |->
                          IF token[t] # None /\ token[t].user \in gone
                          THEN [token[t] EXCEPT !.row = FALSE] ELSE token[t]],
             doubled' = IF \E q \in AuthRequests : At(q, "register", "subscribe") /\ req[q].user = u
                        THEN doubled \cup {u} ELSE doubled,
             Set(r, [req[r] EXCEPT !.user = u, !.pc = "save", !.orphans = {}])
      PROVE  AccountsHold'
  <2>0. PICK x : x = [req[r] EXCEPT !.user = u, !.pc = "save", !.orphans = {}]
    OBVIOUS
  <2>1. u \in Users /\ u \notin gone /\ u # None
    BY <1>1, Committed
  <2>2. \A w \in Users : subs'[w] = IF w \in gone THEN 0
                                    ELSE IF w = u /\ subs[u] = 0 THEN 1 ELSE subs[w]
    BY <1>3, <2>1 DEF Cascade, ensureSubscription, AccountsHold, Shapes
  <2>3. subs' \in [Users -> Nat]
    <3>1. \A w \in Users : subs'[w] \in Nat
      BY <2>2 DEF AccountsHold, Shapes
    <3>2. subs' = [w \in Users |-> subs'[w]]
      BY <1>3 DEF Cascade
    <3>3. QED
      BY <3>1, <3>2
  <2>4. \A w \in VKUsers : link'[w] = IF w = v THEN u
                                      ELSE IF link[w] \in gone THEN None ELSE link[w]
    BY <1>3, <2>1 DEF upsertVKProvider, AccountsHold, Shapes
  <2>5. link' \in [VKUsers -> Users \cup {None}]
    <3>1. \A w \in VKUsers : link'[w] \in Users \cup {None}
      BY <2>1, <2>4 DEF AccountsHold, Shapes
    <3>2. link' = [w \in VKUsers |-> link'[w]]
      BY <1>3
    <3>3. QED
      BY <3>1, <3>2
  <2>6. \A t \in Tokens : /\ Owned(token[t]) => Owned(token'[t])
                          /\ token'[t] # None => Owned(token'[t])
    <3>1. \A y : Owned(y) => Owned([y EXCEPT !.row = FALSE])
      BY DEF Owned
    <3>2. QED
      BY <1>1, <1>3, <3>1 DEF TokensHold
  <2>7. TokensHold'
    BY <1>3, <2>6 DEF TokensHold
  <2>8. Holds(x)' /\ x.op = "vk" /\ x.user = u
    BY <1>1, <2>0, <2>1 DEF Holds, Named, At, Fields, NoReq
  <2>9. \A y : Holds(y) => Holds(y)'
    BY <1>3, <2>6 DEF Holds, Named
  <2>10. Set(r, x)
    BY <1>3, <2>0
  <2>11. /\ \A q \in AuthRequests : req'[q] = IF q = r THEN x ELSE req[q]
         /\ req' = [q \in AuthRequests |-> req'[q]]
    BY <2>10 DEF Set, AccountsHold, Shapes
  <2>12. Shapes'
    <3>1. \A q \in AuthRequests : Holds(req[q])'
      BY <2>8, <2>9, <2>11 DEF AccountsHold, Shapes
    <3>2. QED
      BY <1>1, <1>3, <2>1, <2>3, <2>5, <2>7, <2>11, <3>1 DEF AccountsHold, Shapes
  <2>13. \A q \in AuthRequests : Registers(q)' => Registers(q) /\ req'[q].user = req[q].user
    BY <2>8, <2>11 DEF Registers, At
  <2>14. Alone'
    BY <1>3, <2>2, <2>13 DEF AccountsHold, Alone
  <2>15. \A w \in Users : Pending(w)' => Pending(w)
    BY <2>13 DEF Pending
  <2>16. doubled \subseteq doubled' /\ (Pending(u) => u \in doubled')
    BY <1>3 DEF Pending, Registers
  <2>17. Counted'
    <3>1. ASSUME NEW w \in Users
          PROVE  /\ subs'[w] <= IF w \in doubled' THEN 2 ELSE 1
                 /\ Pending(w)' => subs'[w] <= IF w \in doubled' THEN 1 ELSE 0
      BY <2>2, <2>15, <2>16 DEF AccountsHold, Counted, Shapes
    <3>2. ASSUME NEW w \in VKUsers, link'[w] # None PROVE subs'[link'[w]] >= 1
      <4>1. CASE w = v
        BY <2>1, <2>2, <2>4, <4>1 DEF AccountsHold, Shapes
      <4>2. CASE w # v
        <5>1. link[w] \notin gone /\ link'[w] = link[w] /\ link[w] \in Users /\ subs[link[w]] >= 1
          BY <2>4, <3>2, <4>2 DEF AccountsHold, Shapes, Counted
        <5>2. QED
          BY <2>2, <5>1
      <4>3. QED
        BY <4>1, <4>2
    <3>3. QED
      BY <3>1, <3>2 DEF Counted
  <2>18. QED
    BY <2>12, <2>14, <2>17 DEF AccountsHold
<1>4. QED
  BY <1>2, <1>3 DEF CommitVKLogin

-----------------------------------------------------------------------------

\* The inductive invariant of the accounts.
LEMMA AccountsInvariant == AccountsSpec => []AccountsHold
<1>1. AccountsHold /\ [AccountsNext]_accountsVars => AccountsHold'
  <2> SUFFICES ASSUME AccountsHold, [AccountsNext]_accountsVars PROVE AccountsHold'
    OBVIOUS
  <2>1. ASSUME NEW r \in AuthRequests, Start(r) \/ Step(r) \/ FailRequest(r) PROVE AccountsHold'
    BY <2>1, StartKeeps, PlainKeeps, InsertUserKeeps, InsertSubscriptionKeeps, CommitKeeps DEF Step
  <2>2. CASE RegisterToken \/ UnregisterToken \/ UNCHANGED accountsVars
    <3>1. UNCHANGED <<Books, req, access, token>>
      BY <2>2 DEF RegisterToken, UnregisterToken, accountsVars, db, Books
    <3>2. TokensStay
      BY <3>1 DEF TokensStay, TokensHold, AccountsHold, Shapes
    <3>3. QED
      BY <3>1, <3>2, OtherKeeps
  <2>3. CASE Expire
    <3>1. UNCHANGED <<Books, req, access>>
      BY <2>3 DEF Expire, db, Books
    <3>2. CASE UNCHANGED token
      <4>1. TokensStay
        BY <3>2 DEF TokensStay, TokensHold, AccountsHold, Shapes
      <4>2. QED
        BY <3>1, <4>1, OtherKeeps
    <3>3. CASE \E t \in Tokens : token[t] # None /\ token' = [token EXCEPT ![t].old = TRUE]
      <4>1. PICK t \in Tokens : token[t] # None /\ token' = [token EXCEPT ![t] = [token[t] EXCEPT !.old = TRUE]]
        BY <3>3
      <4>2. TokensHold
        BY DEF AccountsHold, Shapes
      <4>3. Owned([token[t] EXCEPT !.old = TRUE])
        BY <4>1, <4>2 DEF TokensHold, Owned
      <4>4. TokensStay
        BY <4>1, <4>2, <4>3 DEF TokensStay, TokensHold
      <4>5. QED
        BY <3>1, <4>4, OtherKeeps
    <3>4. QED
      BY <2>3, <3>2, <3>3 DEF Expire
  <2>4. QED
    BY <2>1, <2>2, <2>3 DEF AccountsNext
<1>2. QED
  BY <1>1, InitHolds, PTL DEF AccountsSpec

\* However registrations and VK logins interleave and fail, a user has one
\* subscription at most, and a linked user one - or two, if a VK login commits
\* between the two inserts of its registration.
THEOREM SubscriptionSafety == AccountsSpec => []OneSubscription
<1>1. AccountsHold => OneSubscription
  BY DEF AccountsHold, Counted, OneSubscription
<1>2. QED
  BY <1>1, AccountsInvariant, PTL

-----------------------------------------------------------------------------
(* The rows: who refers to whom. *)

\* The table of users: no address twice, and nothing is left of a user who is not there.
UsersHold ==
    /\ users \in [Users -> UserRows \cup {None}]
    /\ \A u, w \in Users : u # w /\ Exists(u) /\ Exists(w) => users[u].mail # users[w].mail
    /\ devices \in [Users -> SUBSET Devices]
    /\ \A u \in Users : ~Exists(u) => subs[u] = 0 /\ devices[u] = {}

\* The foreign keys that point to it.
ReferencesHold ==
    /\ token \in [Tokens -> TokenRows \cup {None}]
    /\ \A v \in VKUsers : link[v] # None => Exists(link[v])
    /\ \A t \in Tokens : token[t] # None /\ token[t].row => Exists(token[t].user)

\* Rows are locked by a VK login that is about to merge them and by no other
\* request; a renewal remembers the user of its token.
Locked(r, x) ==
    /\ x.op = "register" => x.mail \in Mails
    /\ x.op = "refresh" =>
          \E t \in Tokens : x.todo = {t} /\ token[t] # None /\ token[t].user = x.user
    /\ x.orphans # {} => x.op = "vk" /\ x.pc = "commit"
    /\ \A u \in Users : lock[u] = r /\ r # None => u \in x.orphans

LocksHold ==
    /\ lock \in [Users -> AuthRequests \cup {None}]
    /\ \A r \in AuthRequests : Locked(r, req[r])

RowsHold ==
    /\ UsersHold /\ ReferencesHold /\ LocksHold
    /\ fcm \in {"none", "fresh", "due"}

\* An issued token stays issued, to the same user.
TokensKept == \A t \in Tokens : token[t] # None => token'[t] # None /\ token'[t].user = token[t].user

\* A request moves on; what the other requests hold stays as it was.
LEMMA LocksKeep ==
    ASSUME AccountsHold, LocksHold, TokensKept, NEW r \in AuthRequests, NEW x, Set(r, x), Locked(r, x)',
           lock' \in [Users -> AuthRequests \cup {None}],
           \A u \in Users : lock'[u] \notin {r, None} => lock'[u] = lock[u]
    PROVE  LocksHold'
<1>1. \A q \in AuthRequests : req'[q] = IF q = r THEN x ELSE req[q]
  BY DEF Set, AccountsHold, Shapes
<1>2. ASSUME NEW q \in AuthRequests, q # r PROVE Locked(q, req[q])'
  <2>1. Locked(q, req[q]) /\ req'[q] = req[q]
    BY <1>1, <1>2 DEF LocksHold
  <2>2. \A u \in Users : lock'[u] = q /\ q # None => lock[u] = q
    BY <1>2
  <2>3. QED
    BY <2>1, <2>2 DEF Locked, TokensKept
<1>3. QED
  BY <1>1, <1>2 DEF LocksHold

\* A request that begins holds no row yet.
LEMMA StartKeepsRows ==
    ASSUME AccountsHold, RowsHold, NEW r \in AuthRequests, Start(r)
    PROVE  RowsHold'
<1>1. Locked(r, req[r]) /\ LocksHold
  BY DEF RowsHold, LocksHold
<1>2. ASSUME NEW op, NEW pc, NEW x, BeginRequest(r, op, pc, x), DOMAIN x = Fields, x.orphans = {},
             op = "register" => x.mail \in Mails,
             op = "refresh" => \E t \in Tokens : x.todo = {t} /\ token[t] # None /\ token[t].user = x.user
      PROVE  RowsHold'
  <2> DEFINE y == [x EXCEPT !.op = op, !.pc = pc]
  <2>1. req[r].pc = "idle" /\ Set(r, y) /\ UNCHANGED <<db, token, fcm>>
    BY <1>2 DEF BeginRequest
  <2>2. /\ y.op = op /\ y.pc = pc /\ y.orphans = {}
        /\ y.mail = x.mail /\ y.todo = x.todo /\ y.user = x.user
    BY <1>2 DEF Fields, NoReq
  <2> HIDE DEF y
  <2>3. \A u \in Users : ~(lock[u] = r /\ r # None)
    BY <1>1, <2>1 DEF Locked
  <2>4. Locked(r, y)'
    BY <1>2, <2>1, <2>2, <2>3 DEF Locked, db
  <2>5. LocksHold'
    BY <1>1, <2>1, <2>4, LocksKeep DEF TokensKept, db, LocksHold
  <2>6. UsersHold' /\ ReferencesHold'
    BY <2>1 DEF RowsHold, UsersHold, ReferencesHold, Exists, db
  <2>7. QED
    BY <2>1, <2>5, <2>6 DEF RowsHold
<1>3. DOMAIN NoReq = Fields /\ NoReq.orphans = {}
  BY DEF NoReq, Fields
<1>4. CASE Register(r)
  <2>1. PICK m \in Mails : BeginRequest(r, "register", "insert", [NoReq EXCEPT !.mail = m])
    BY <1>4 DEF Register
  <2> DEFINE x == [NoReq EXCEPT !.mail = m]
  <2>2. DOMAIN x = Fields /\ x.orphans = {} /\ x.mail = m
    BY <1>3 DEF NoReq
  <2>3. BeginRequest(r, "register", "insert", x)
    BY <2>1
  <2> HIDE DEF x
  <2>4. QED
    BY <1>2, <2>2, <2>3
<1>5. ASSUME NEW u, NEW op \in {"login", "password", "push"}, NEW pc,
             BeginRequest(r, op, pc, [NoReq EXCEPT !.user = u])
      PROVE  RowsHold'
  <2> DEFINE x == [NoReq EXCEPT !.user = u]
  <2>1. DOMAIN x = Fields /\ x.orphans = {}
    BY <1>3 DEF NoReq
  <2>2. BeginRequest(r, op, pc, x)
    BY <1>5
  <2> HIDE DEF x
  <2>3. QED
    BY <1>2, <2>1, <2>2
<1>6. CASE Login(r) \/ ChangePassword(r) \/ InternalSendPush(r)
  BY <1>5, <1>6 DEF Login, ChangePassword, InternalSendPush
<1>7. CASE RefreshAccessToken(r)
  <2>1. PICK t \in Tokens :
          /\ token[t] # None
          /\ BeginRequest(r, "refresh", "recover", [NoReq EXCEPT !.user = token[t].user, !.todo = {t}])
    BY <1>7 DEF RefreshAccessToken
  <2> DEFINE x == [NoReq EXCEPT !.user = token[t].user, !.todo = {t}]
  <2>2. DOMAIN x = Fields /\ x.orphans = {} /\ x.user = token[t].user /\ x.todo = {t}
    BY <1>3 DEF NoReq
  <2>3. BeginRequest(r, "refresh", "recover", x)
    BY <2>1
  <2> HIDE DEF x
  <2>4. QED
    BY <1>2, <2>1, <2>2, <2>3
<1>8. CASE LoginWithVK(r)
  <2>1. PICK v, preferred :
          BeginRequest(r, "vk", IF preferred = None THEN "commit" ELSE "prepare",
                [NoReq EXCEPT !.vk = v, !.user = preferred, !.linked = link[v]])
    BY <1>8 DEF LoginWithVK
  <2> DEFINE pc == IF preferred = None THEN "commit" ELSE "prepare"
             x  == [NoReq EXCEPT !.vk = v, !.user = preferred, !.linked = link[v]]
  <2>2. DOMAIN x = Fields /\ x.orphans = {}
    BY <1>3 DEF NoReq
  <2>3. BeginRequest(r, "vk", pc, x)
    BY <2>1
  <2> HIDE DEF x, pc
  <2>4. QED
    BY <1>2, <2>2, <2>3
<1>9. QED
  BY <1>4, <1>6, <1>7, <1>8 DEF Start

\* A request that ends, or moves on without a row locked or released.
LEMMA MoveKeepsLocks ==
    ASSUME AccountsHold, RowsHold, TokensKept, UNCHANGED lock, NEW r \in AuthRequests, NEW x, Set(r, x),
           \/ x = NoReq /\ req[r].orphans = {}
           \/ /\ x.orphans = req[r].orphans /\ x.op = req[r].op /\ x.mail = req[r].mail
              /\ x.op # "refresh" /\ (x.op = "vk" => x.pc = req[r].pc)
    PROVE  LocksHold'
<1>1. Locked(r, req[r]) /\ LocksHold
  BY DEF RowsHold, LocksHold
<1>2. NoReq.op = "none" /\ NoReq.orphans = {}
  BY DEF NoReq
<1>3. Locked(r, x)'
  BY <1>1, <1>2 DEF Locked
<1>4. QED
  BY <1>1, <1>3, LocksKeep DEF LocksHold

\* Logins, renewals and pushes write no row of a user.
LEMMA TokenStepKeepsRows ==
    ASSUME AccountsHold, RowsHold, NEW r \in AuthRequests,
           \/ SaveRefreshToken(r) \/ RecoverToken(r) \/ SendPushToUser(r) \/ GetAccessToken(r) \/ SendFCM(r)
    PROVE  RowsHold'
<1>1. /\ UNCHANGED db /\ Holds(req[r]) /\ Locked(r, req[r]) /\ token \in [Tokens -> TokenRows \cup {None}]
      /\ fcm \in {"none", "fresh", "due"}
  BY DEF SaveRefreshToken, RecoverToken, SendPushToUser, GetAccessToken, SendFCM,
     AccountsHold, Shapes, RowsHold, LocksHold, ReferencesHold
<1>2. UsersHold'
  BY <1>1 DEF RowsHold, UsersHold, Exists, db
<1>3. \A u \in Users : Exists(u)' <=> Exists(u)
  BY <1>1 DEF Exists, db
<1>4. CASE SaveRefreshToken(r)
  <2>1. req[r].user \in Users /\ req[r].orphans = {} /\ Set(r, NoReq) /\ UNCHANGED fcm
    BY <1>1, <1>4 DEF SaveRefreshToken, Holds, Locked
  <2> DEFINE u == req[r].user
             new == GenerateRefreshToken(u)
  <2>2. new \in TokenRows /\ new # None /\ new.user = u
    <3> HIDE DEF u
    <3>1. new \in TokenRows /\ new.user = u
      BY <2>1 DEF u, GenerateRefreshToken, TokenRows
    <3> HIDE DEF new
    <3>2. QED
      BY <3>1, RowsAssumption
  <2> HIDE DEF new
  <2>3. \/ UNCHANGED token
        \/ Exists(u) /\ \E t \in Tokens : token[t] = None /\ token' = [token EXCEPT ![t] = new]
    BY <1>4 DEF SaveRefreshToken, new
  <2>4. TokensKept
    BY <1>1, <2>3 DEF TokensKept
  <2>5. ReferencesHold'
    BY <1>1, <1>3, <2>1, <2>2, <2>3 DEF RowsHold, ReferencesHold, db, Exists
  <2>6. LocksHold'
    BY <1>1, <2>1, <2>4, MoveKeepsLocks DEF db
  <2>7. QED
    BY <1>1, <1>2, <2>1, <2>5, <2>6 DEF RowsHold
<1>5. CASE RecoverToken(r)
  <2>1. req[r].op = "refresh" /\ req[r].orphans = {} /\ Set(r, NoReq) /\ UNCHANGED fcm
    BY <1>1, <1>5 DEF RecoverToken, At, Locked
  <2>2. PICK t \in Tokens : req[r].todo = {t} /\ token[t] # None /\ token[t].user = req[r].user
    BY <1>1, <2>1 DEF Locked
  <2>3. t = CHOOSE x \in req[r].todo : TRUE
    BY <2>2
  <2> DEFINE row == Exists(req[r].user)
             new == [token[t] EXCEPT !.row = row]
  <2>4. token' = [token EXCEPT ![t] = new]
    BY <1>5, <2>3 DEF RecoverToken
  <2>5. new \in TokenRows /\ new # None /\ new.user = req[r].user /\ new.row = row
    <3>1. row \in BOOLEAN
      BY DEF Exists
    <3> HIDE DEF row
    <3>2. QED
      BY <1>1, <2>2, <3>1, RowsAssumption DEF TokenRows
  <2> HIDE DEF new
  <2>6. TokensKept
    BY <1>1, <2>2, <2>4, <2>5 DEF TokensKept
  <2>7. ReferencesHold'
    BY <1>1, <1>3, <2>4, <2>5 DEF RowsHold, ReferencesHold, db, Exists
  <2>8. LocksHold'
    BY <1>1, <2>1, <2>6, MoveKeepsLocks DEF db
  <2>9. QED
    BY <1>1, <1>2, <2>1, <2>7, <2>8 DEF RowsHold
<1>6. CASE SendPushToUser(r) \/ GetAccessToken(r) \/ SendFCM(r)
  <2>1. UNCHANGED token /\ fcm' \in {"none", "fresh", "due"} /\ req[r].op = "push" /\ req[r].orphans = {}
    BY <1>1, <1>6 DEF SendPushToUser, GetAccessToken, SendFCM, At, Locked
  <2>2. ReferencesHold'
    BY <1>1, <1>3, <2>1 DEF RowsHold, ReferencesHold, db, Exists
  <2>3. CASE Set(r, NoReq)
    BY <1>1, <1>2, <2>1, <2>2, <2>3, MoveKeepsLocks DEF RowsHold, TokensKept, db
  <2>4. ASSUME NEW todo, NEW pc, Set(r, [req[r] EXCEPT !.todo = todo, !.pc = pc])
        PROVE  RowsHold'
    <3> DEFINE x == [req[r] EXCEPT !.todo = todo, !.pc = pc]
    <3>1. x.orphans = req[r].orphans /\ x.op = "push" /\ x.mail = req[r].mail
      BY <1>1, <2>1 DEF Holds, Fields, NoReq
    <3>2. Set(r, x)
      BY <2>4
    <3> HIDE DEF x
    <3>3. LocksHold'
      BY <1>1, <2>1, <3>1, <3>2, MoveKeepsLocks DEF TokensKept, db
    <3>4. QED
      BY <1>2, <2>1, <2>2, <3>3 DEF RowsHold
  <2>5. \/ Set(r, NoReq)
        \/ \E todo, pc : Set(r, [req[r] EXCEPT !.todo = todo, !.pc = pc])
    <3>1. ASSUME NEW pc, Set(r, [req[r] EXCEPT !.pc = pc])
          PROVE  Set(r, [req[r] EXCEPT !.todo = req[r].todo, !.pc = pc])
      <4>1. [req[r] EXCEPT !.pc = pc] = [req[r] EXCEPT !.todo = req[r].todo, !.pc = pc]
        BY <1>1 DEF Holds, Fields, NoReq
      <4>2. QED
        BY <3>1, <4>1
    <3>2. ASSUME NEW todo, Set(r, [req[r] EXCEPT !.todo = todo])
          PROVE  Set(r, [req[r] EXCEPT !.todo = todo, !.pc = req[r].pc])
      <4>1. [req[r] EXCEPT !.todo = todo] = [req[r] EXCEPT !.todo = todo, !.pc = req[r].pc]
        BY <1>1 DEF Holds, Fields, NoReq
      <4>2. QED
        BY <3>2, <4>1
    <3>3. CASE SendPushToUser(r)
      BY <3>3 DEF SendPushToUser
    <3>4. CASE GetAccessToken(r)
      BY <3>1, <3>4 DEF GetAccessToken, To
    <3>5. CASE SendFCM(r)
      BY <3>2, <3>5 DEF SendFCM
    <3>6. QED
      BY <1>6, <3>3, <3>4, <3>5
  <2>6. QED
    BY <2>3, <2>4, <2>5
<1>7. QED
  BY <1>4, <1>5, <1>6

\* Two users with the same address cannot be inserted, and one row is written.
LEMMA UserStepKeepsRows ==
    ASSUME AccountsHold, RowsHold, NEW r \in AuthRequests,
           InsertUser(r) \/ InsertSubscription(r) \/ UpdatePassword(r)
    PROVE  RowsHold'
<1>1. /\ UNCHANGED <<link, devices, lock, token, fcm>> /\ Holds(req[r]) /\ Locked(r, req[r])
      /\ UsersHold /\ ReferencesHold /\ fcm \in {"none", "fresh", "due"}
      /\ req[r].op # "vk" /\ req[r].op # "refresh" /\ req[r].orphans = {}
  BY DEF InsertUser, InsertSubscription, UpdatePassword, At, AccountsHold, Shapes, RowsHold, LocksHold,
     Locked
<1>2. LocksHold'
  <2>1. CASE Set(r, NoReq)
    BY <1>1, <2>1, MoveKeepsLocks DEF TokensKept
  <2>2. ASSUME NEW u, Set(r, [req[r] EXCEPT !.user = u, !.pc = "subscribe"])
        PROVE  LocksHold'
    <3> DEFINE x == [req[r] EXCEPT !.user = u, !.pc = "subscribe"]
    <3>1. x.orphans = {} /\ x.op = req[r].op /\ x.mail = req[r].mail
      BY <1>1 DEF Holds, Fields, NoReq
    <3>2. Set(r, x)
      BY <2>2
    <3> HIDE DEF x
    <3>3. QED
      BY <1>1, <3>1, <3>2, MoveKeepsLocks DEF TokensKept
  <2>3. QED
    BY <2>1, <2>2 DEF InsertUser, InsertSubscription, UpdatePassword
<1>3. ASSUME UsersHold', \A u \in Users : Exists(u) => users'[u] # None PROVE RowsHold'
  <2>1. ReferencesHold'
    BY <1>1, <1>3 DEF ReferencesHold, TokenRows, Exists, AccountsHold, Shapes
  <2>2. QED
    BY <1>1, <1>2, <1>3, <2>1 DEF RowsHold
<1>4. CASE InsertUser(r)
  <2>1. UNCHANGED subs /\ req[r].mail \in AllMails
    BY <1>1, <1>4 DEF InsertUser, At, Locked, AllMails
  <2>2. CASE UNCHANGED users
    <3>1. UsersHold'
      BY <1>1, <2>1, <2>2 DEF UsersHold, Exists
    <3>2. QED
      BY <1>3, <2>2, <3>1 DEF Exists
  <2>3. CASE MailOwner(req[r].mail) = {} /\ ~UNCHANGED users
    <3> DEFINE new == [mail |-> req[r].mail, pw |-> "old"]
    <3>1. new \in UserRows /\ new.mail = req[r].mail
      BY <2>1 DEF UserRows, Passwords
    <3> HIDE DEF new
    <3>2. PICK u \in Users : users' = [users EXCEPT ![u] = new]
      BY <1>4, <2>3 DEF InsertUser, new
    <3>3. \A w \in Users : Exists(w) => users[w].mail # req[r].mail
      BY <2>3 DEF MailOwner
    <3>4. \A w \in Users : users'[w] = IF w = u THEN new ELSE users[w]
      BY <1>1, <3>2 DEF UsersHold
    <3>5. new # None
      BY <3>1, RowsAssumption
    <3>6. UsersHold'
      BY <1>1, <2>1, <3>1, <3>2, <3>3, <3>4, <3>5 DEF UsersHold, Exists
    <3>7. QED
      BY <1>3, <3>4, <3>5, <3>6 DEF Exists
  <2>4. QED
    BY <1>4, <2>2, <2>3 DEF InsertUser
<1>5. CASE InsertSubscription(r)
  <2>1. UNCHANGED users
    BY <1>5 DEF InsertSubscription
  <2>2. \A w \in Users : ~Exists(w) => subs'[w] = 0
    BY <1>1, <1>5 DEF InsertSubscription, UsersHold, AccountsHold, Shapes
  <2>3. UsersHold'
    BY <1>1, <2>1, <2>2 DEF UsersHold, Exists
  <2>4. QED
    BY <1>3, <2>1, <2>3 DEF Exists
<1>6. CASE UpdatePassword(r)
  <2>1. UNCHANGED subs
    BY <1>6 DEF UpdatePassword
  <2>2. CASE UNCHANGED users
    <3>1. UsersHold'
      BY <1>1, <2>1, <2>2 DEF UsersHold, Exists
    <3>2. QED
      BY <1>3, <2>2, <3>1 DEF Exists
  <2>3. CASE Exists(req[r].user) /\ ~UNCHANGED users
    <3> DEFINE u == req[r].user
    <3>1. u \in Users
      BY <1>1, <1>6 DEF UpdatePassword, At, Holds
    <3> HIDE DEF u
    <3>2. PICK new : new = [users[u] EXCEPT !.pw = "new"]
      OBVIOUS
    <3>3. new \in UserRows /\ new.mail = users[u].mail
      BY <1>1, <2>3, <3>1, <3>2 DEF u, UsersHold, Exists, UserRows, Passwords
    <3>4. users' = [users EXCEPT ![u] = new]
      BY <1>6, <2>3, <3>2 DEF u, UpdatePassword
    <3>5. \A w \in Users : users'[w] = IF w = u THEN new ELSE users[w]
      BY <1>1, <3>4 DEF UsersHold
    <3>6. new # None /\ Exists(u)
      BY <2>3, <3>3, RowsAssumption DEF u
    <3>7. UsersHold'
      BY <1>1, <2>1, <3>1, <3>3, <3>4, <3>5, <3>6 DEF UsersHold, Exists
    <3>8. QED
      BY <1>3, <3>5, <3>6, <3>7 DEF Exists
  <2>4. QED
    BY <1>6, <2>2, <2>3 DEF UpdatePassword
<1>7. QED
  BY <1>4, <1>5, <1>6

\* The rows to be merged are locked, and were free.
LEMMA PrepareKeepsRows ==
    ASSUME AccountsHold, RowsHold, NEW r \in AuthRequests, PreparePreferred(r)
    PROVE  RowsHold'
<1>0. PICK S, x : S = Orphans(r) /\ x = [req[r] EXCEPT !.orphans = Orphans(r), !.pc = "commit"]
  OBVIOUS
<1>1. /\ At(r, "vk", "prepare") /\ Set(r, x) /\ UNCHANGED <<users, subs, link, devices, token, fcm>>
      /\ lock' = [u \in Users |-> IF u \in S THEN r ELSE lock[u]]
      /\ \A u \in S : Free(r, u)
  BY <1>0 DEF PreparePreferred
<1>2. Holds(req[r]) /\ Locked(r, req[r]) /\ LocksHold
  BY DEF AccountsHold, Shapes, RowsHold, LocksHold
<1>3. x.op = "vk" /\ x.pc = "commit" /\ x.orphans = S
  BY <1>0, <1>1, <1>2 DEF At, Holds, Fields, NoReq
<1>4. \A u \in Users : lock[u] = r /\ r # None => FALSE
  BY <1>1, <1>2 DEF Locked, At
<1>5. lock' \in [Users -> AuthRequests \cup {None}]
  BY <1>1, <1>2 DEF LocksHold
<1>6. Locked(r, x)'
  BY <1>1, <1>3, <1>4 DEF Locked
<1>7. \A u \in Users : lock'[u] \notin {r, None} => lock'[u] = lock[u]
  BY <1>1
<1>8. LocksHold'
  BY <1>1, <1>2, <1>5, <1>6, <1>7, LocksKeep DEF TokensKept
<1>9. UsersHold' /\ ReferencesHold' /\ fcm' \in {"none", "fresh", "due"}
  BY <1>1 DEF RowsHold, UsersHold, ReferencesHold, Exists
<1>10. QED
  BY <1>8, <1>9 DEF RowsHold

\* A transaction that ends releases what it locked.
LEMMA ReleaseKeepsLocks ==
    ASSUME AccountsHold, LocksHold, TokensKept, NEW r \in AuthRequests, NEW x, Set(r, x),
           x.orphans = {}, x.op \in {"none", "vk"},
           lock' = [u \in Users |-> IF lock[u] = r THEN None ELSE lock[u]]
    PROVE  LocksHold'
<1>1. lock' \in [Users -> AuthRequests \cup {None}]
  BY DEF LocksHold
<1>2. Locked(r, x)'
  BY DEF Locked
<1>3. \A u \in Users : lock'[u] \notin {r, None} => lock'[u] = lock[u]
  OBVIOUS
<1>4. QED
  BY <1>1, <1>2, <1>3, LocksKeep

\* What is merged away takes the rows that refer to it along, and the address
\* that the login gives its user is free by then.
LEMMA CommitKeepsRows ==
    ASSUME AccountsHold, RowsHold, NEW r \in AuthRequests, CommitVKLogin(r)
    PROVE  RowsHold'
<1> DEFINE v == req[r].vk
           gone == req[r].orphans
<1>1. /\ At(r, "vk", "commit") /\ Holds(req[r]) /\ v \in VKUsers
      /\ lock' = [u \in Users |-> IF lock[u] = r THEN None ELSE lock[u]] /\ UNCHANGED fcm
      /\ UsersHold /\ ReferencesHold /\ LocksHold /\ fcm \in {"none", "fresh", "due"}
  BY DEF CommitVKLogin, AccountsHold, Shapes, RowsHold, At, Holds
<1>2. CASE Set(r, NoReq) /\ UNCHANGED <<users, subs, link, devices, token>>
  <2>1. NoReq.orphans = {} /\ NoReq.op = "none"
    BY DEF NoReq
  <2>2. LocksHold'
    BY <1>1, <1>2, <2>1, ReleaseKeepsLocks DEF TokensKept
  <2>3. UsersHold' /\ ReferencesHold'
    BY <1>1, <1>2 DEF UsersHold, ReferencesHold, Exists
  <2>4. QED
    BY <1>1, <2>2, <2>3 DEF RowsHold
<1>3. ASSUME NEW u \in Canonical(r),
             MailOwner(vkMail(v)) \subseteq gone \cup {u},
             users' = Cascade(gone, [users EXCEPT ![u] = Upserted(u, v)], None),
             subs' = Cascade(gone, ensureSubscription(subs, u), 0),
             link' = [w \in VKUsers |-> LET l == upsertVKProvider(link, v, u)
                                        IN  IF l[w] \in gone THEN None ELSE l[w]],
             devices' = Cascade(gone, devices, {}),
             token' = [t \in Tokens |->
                          IF token[t] # None /\ token[t].user \in gone
                          THEN [token[t] EXCEPT !.row = FALSE] ELSE token[t]],
             Set(r, [req[r] EXCEPT !.user = u, !.pc = "save", !.orphans = {}])
      PROVE  RowsHold'
  <2>1. u \in Users /\ u \notin gone /\ u # None
    BY <1>1, Committed
  <2>2. PICK new : new = Upserted(u, v)
    OBVIOUS
  <2>3. new \in UserRows /\ new.mail = vkMail(v)
    <3>1. vkMail(v) \in AllMails
      BY <1>1 DEF AllMails
    <3>2. (IF Exists(u) THEN users[u].pw ELSE "none") \in Passwords
      BY <1>1, <2>1 DEF UsersHold, UserRows, Exists, Passwords
    <3>3. QED
      BY <2>2, <3>1, <3>2 DEF Upserted, UserRows
  <2>4. new # None
    BY <2>3, RowsAssumption
  <2>5. \A w \in Users : users'[w] = IF w \in gone THEN None ELSE IF w = u THEN new ELSE users[w]
    BY <1>1, <1>3, <2>1, <2>2 DEF Cascade, UsersHold
  <2>6. users' \in [Users -> UserRows \cup {None}]
    <3>1. \A w \in Users : users'[w] \in UserRows \cup {None}
      BY <1>1, <2>3, <2>5 DEF UsersHold
    <3>2. users' = [w \in Users |-> users'[w]]
      BY <1>3 DEF Cascade
    <3>3. QED
      BY <3>1, <3>2
  <2>7. \A w \in Users : /\ Exists(w)' <=> w \notin gone /\ (w = u \/ Exists(w))
                         /\ Exists(w)' /\ w # u => users'[w] = users[w]
    BY <2>1, <2>4, <2>5 DEF Exists
  <2>8. \A w \in Users : Exists(w)' /\ w # u => users[w].mail # vkMail(v)
    BY <1>3, <2>7 DEF MailOwner
  <2>9. \A a, b \in Users : a # b /\ Exists(a)' /\ Exists(b)' => users'[a].mail # users'[b].mail
    <3>1. users'[u].mail = vkMail(v)
      BY <2>1, <2>3, <2>5
    <3>2. QED
      BY <1>1, <2>7, <2>8, <3>1 DEF UsersHold
  <2>10. \A w \in Users : /\ subs'[w] = IF w \in gone THEN 0
                                        ELSE IF w = u /\ subs[u] = 0 THEN 1 ELSE subs[w]
                          /\ devices'[w] = IF w \in gone THEN {} ELSE devices[w]
    BY <1>3, <2>1 DEF Cascade, ensureSubscription, AccountsHold, Shapes
  <2>11. devices' \in [Users -> SUBSET Devices]
    <3>1. \A w \in Users : devices'[w] \in SUBSET Devices
      BY <1>1, <2>10 DEF UsersHold
    <3>2. devices' = [w \in Users |-> devices'[w]]
      BY <1>3 DEF Cascade
    <3>3. QED
      BY <3>1, <3>2
  <2>12. UsersHold'
    <3>1. \A w \in Users : ~Exists(w)' => subs'[w] = 0 /\ devices'[w] = {}
      BY <1>1, <2>1, <2>7, <2>10 DEF UsersHold
    <3>2. QED
      BY <2>6, <2>9, <2>11, <3>1 DEF UsersHold
  <2>13. \A w \in VKUsers : link'[w] = IF w = v THEN u
                                       ELSE IF link[w] \in gone THEN None ELSE link[w]
    BY <1>3, <2>1 DEF upsertVKProvider, AccountsHold, Shapes
  <2>14. \A t \in Tokens :
            /\ token'[t] \in TokenRows \cup {None} /\ (token[t] # None => token'[t] # None)
            /\ token[t] # None => token'[t].user = token[t].user
            /\ token'[t] # None /\ token'[t].row =>
                  token[t] # None /\ token[t].row /\ token[t].user \notin gone
    <3>1. ASSUME NEW y \in TokenRows
          PROVE  LET z == [y EXCEPT !.row = FALSE] IN z \in TokenRows /\ z.user = y.user /\ ~z.row
      BY DEF TokenRows
    <3>2. QED
      BY <1>1, <1>3, <3>1, RowsAssumption DEF ReferencesHold
  <2>15. token' \in [Tokens -> TokenRows \cup {None}]
    BY <1>3, <2>14
  <2>16. ReferencesHold'
    <3>1. \A w \in VKUsers : link'[w] # None => users'[link'[w]] # None
      BY <1>1, <2>1, <2>7, <2>13 DEF ReferencesHold, AccountsHold, Shapes, Exists
    <3>2. \A t \in Tokens : token'[t] # None /\ token'[t].row => users'[token'[t].user] # None
      BY <1>1, <2>7, <2>14 DEF ReferencesHold, TokenRows, Exists
    <3>3. QED
      BY <2>15, <3>1, <3>2 DEF ReferencesHold, Exists
  <2>17. LocksHold'
    <3> DEFINE x == [req[r] EXCEPT !.user = u, !.pc = "save", !.orphans = {}]
    <3>1. x.orphans = {} /\ x.op = "vk"
      BY <1>1 DEF At, Holds, Fields, NoReq
    <3>2. Set(r, x)
      BY <1>3
    <3>3. TokensKept
      BY <2>14 DEF TokensKept
    <3> HIDE DEF x
    <3>4. QED
      BY <1>1, <3>1, <3>2, <3>3, ReleaseKeepsLocks
  <2>18. QED
    BY <1>1, <2>12, <2>16, <2>17 DEF RowsHold
<1>4. QED
  BY <1>2, <1>3 DEF CommitVKLogin

\* A transaction that is rolled back, and what happens outside of a request.
LEMMA RestKeepsRows ==
    ASSUME AccountsHold, RowsHold,
           \/ \E r \in AuthRequests : FailRequest(r)
           \/ RegisterToken \/ UnregisterToken \/ Expire \/ UNCHANGED accountsVars
    PROVE  RowsHold'
<1>1. UsersHold /\ ReferencesHold /\ LocksHold /\ fcm \in {"none", "fresh", "due"}
  BY DEF RowsHold
<1>2. CASE \E r \in AuthRequests : FailRequest(r)
  <2>1. PICK r \in AuthRequests : FailRequest(r)
    BY <1>2
  <2>2. /\ UNCHANGED <<users, subs, link, devices, token, fcm>> /\ Set(r, NoReq)
        /\ lock' = [u \in Users |-> IF lock[u] = r THEN None ELSE lock[u]]
    BY <2>1 DEF FailRequest
  <2>3. NoReq.orphans = {} /\ NoReq.op = "none"
    BY DEF NoReq
  <2>4. LocksHold'
    BY <1>1, <2>2, <2>3, ReleaseKeepsLocks DEF TokensKept
  <2>5. QED
    BY <1>1, <2>2, <2>4 DEF RowsHold, UsersHold, ReferencesHold, Exists
<1>3. CASE RegisterToken \/ UnregisterToken
  <2>1. UNCHANGED <<users, subs, link, token, fcm, lock, req>>
    BY <1>3 DEF RegisterToken, UnregisterToken
  <2>2. /\ devices' \in [Users -> SUBSET Devices]
        /\ \A u \in Users : ~Exists(u) => devices'[u] = {}
    BY <1>1, <1>3 DEF RegisterToken, UnregisterToken, UsersHold
  <2>3. QED
    BY <1>1, <2>1, <2>2 DEF RowsHold, UsersHold, ReferencesHold, LocksHold, Locked, Exists
<1>4. CASE Expire
  <2>1. UNCHANGED <<users, subs, link, devices, lock, req>> /\ fcm' \in {"none", "fresh", "due"}
    BY <1>1, <1>4 DEF Expire, db
  <2>2. token' \in [Tokens -> TokenRows \cup {None}] /\ TokensKept
        /\ \A t \in Tokens : token'[t] # None /\ token'[t].row =>
              token[t] # None /\ token[t].row
    <3>1. ASSUME NEW y \in TokenRows
          PROVE  LET z == [y EXCEPT !.old = TRUE] IN z \in TokenRows /\ z.user = y.user /\ z.row = y.row
      BY DEF TokenRows
    <3>2. CASE UNCHANGED token
      BY <1>1, <3>2 DEF ReferencesHold, TokensKept
    <3>3. CASE \E t \in Tokens : token[t] # None /\ token' = [token EXCEPT ![t].old = TRUE]
      <4>1. PICK t \in Tokens : token[t] # None /\ token' = [token EXCEPT ![t] = [token[t] EXCEPT !.old = TRUE]]
        BY <3>3
      <4>2. PICK z : z = [token[t] EXCEPT !.old = TRUE]
        OBVIOUS
      <4>3. z \in TokenRows /\ z.user = token[t].user /\ z.row = token[t].row
        BY <1>1, <3>1, <4>1, <4>2 DEF ReferencesHold
      <4>4. \A s \in Tokens : token'[s] = IF s = t THEN z ELSE token[s]
        BY <1>1, <4>1, <4>2 DEF ReferencesHold
      <4>5. QED
        BY <1>1, <4>1, <4>2, <4>3, <4>4, RowsAssumption DEF ReferencesHold, TokensKept
    <3>4. QED
      BY <1>4, <3>2, <3>3 DEF Expire
  <2>3. ReferencesHold'
    BY <1>1, <2>1, <2>2 DEF ReferencesHold, TokensKept, Exists
  <2>4. QED
    BY <1>1, <2>1, <2>2, <2>3 DEF RowsHold, UsersHold, LocksHold, Locked, TokensKept, Exists
<1>5. CASE UNCHANGED accountsVars
  BY <1>5 DEF accountsVars, db, RowsHold, UsersHold, ReferencesHold, LocksHold, Locked, Exists
<1>6. QED
  BY <1>2, <1>3, <1>4, <1>5

\* The invariant of the rows.
LEMMA RowsInvariant == AccountsSpec => []RowsHold
<1>1. AccountsInit => RowsHold
  <2> SUFFICES ASSUME AccountsInit PROVE RowsHold
    OBVIOUS
  <2>1. NoReq.op = "none" /\ NoReq.orphans = {}
    BY DEF NoReq
  <2>2. QED
    BY <2>1 DEF AccountsInit, RowsHold, UsersHold, ReferencesHold, LocksHold, Locked, Exists
<1>2. AccountsHold /\ RowsHold /\ [AccountsNext]_accountsVars => RowsHold'
  BY StartKeepsRows, TokenStepKeepsRows, UserStepKeepsRows, PrepareKeepsRows, CommitKeepsRows,
     RestKeepsRows DEF AccountsNext, Step
<1>3. QED
  BY <1>1, <1>2, AccountsInvariant, PTL DEF AccountsSpec

\* Wherever registrations, logins, merges and roll-backs leave the tables, no
\* address belongs to two users, no subscription, link, token row or device
\* belongs to a user who is gone, and a locked row is one its transaction merges.
THEOREM AccountIntegrity == AccountsSpec => []AccountsTypeOK
<1>1. AccountsHold /\ RowsHold => AccountsTypeOK
  <2> SUFFICES ASSUME AccountsHold, RowsHold PROVE AccountsTypeOK
    OBVIOUS
  <2>1. UsersHold /\ ReferencesHold /\ LocksHold /\ fcm \in {"none", "fresh", "due"}
    BY DEF RowsHold
  <2>2. \A u \in Users : users[u] # None => users[u].mail \in AllMails /\ users[u].pw \in Passwords
    BY <2>1 DEF UsersHold, UserRows
  <2>3. \A u \in Users : lock[u] # None => u \in req[lock[u]].orphans
    BY <2>1 DEF LocksHold, Locked
  <2>4. QED
    BY <2>1, <2>2, <2>3 DEF AccountsTypeOK, UsersHold, ReferencesHold, Exists, AccountsHold, Shapes
<1>2. QED
  BY <1>1, AccountsInvariant, RowsInvariant, PTL

-----------------------------------------------------------------------------
(* Who can log in. *)

\* A VK login leads its VK account to the user that gets its address; nobody else
\* has that address, or it is rolled back.
LEMMA CommitReaches ==
    ASSUME AccountsHold, RowsHold, AccountsStayReachable, NEW r \in AuthRequests, CommitVKLogin(r)
    PROVE  AccountsStayReachable'
<1> DEFINE v == req[r].vk
           gone == req[r].orphans
<1>1. /\ At(r, "vk", "commit") /\ v \in VKUsers /\ UsersHold
      /\ link \in [VKUsers -> Users \cup {None}]
  BY DEF CommitVKLogin, AccountsHold, Shapes, RowsHold, At, Holds
<1>2. CASE UNCHANGED <<users, link>>
  BY <1>2 DEF AccountsStayReachable, Exists
<1>3. ASSUME NEW u \in Canonical(r),
             MailOwner(vkMail(v)) \subseteq gone \cup {u},
             users' = Cascade(gone, [users EXCEPT ![u] = Upserted(u, v)], None),
             link' = [w \in VKUsers |-> LET l == upsertVKProvider(link, v, u)
                                        IN  IF l[w] \in gone THEN None ELSE l[w]]
      PROVE  AccountsStayReachable'
  <2>1. u \in Users /\ u \notin gone /\ u # None
    BY <1>1, Committed
  <2>2. /\ link'[v] = u
        /\ \A w \in VKUsers \ {v} : link[w] \notin gone => link'[w] = link[w]
    BY <1>1, <1>3, <2>1 DEF upsertVKProvider
  <2>3. ASSUME NEW w \in Users, Exists(w)'
        PROVE  \/ users'[w].mail \in Mails /\ users'[w].pw # "none"
               \/ \E x \in VKUsers : users'[w].mail = vkMail(x) /\ link'[x] = w
    <3>1. CASE w = u
      <4>1. users'[u] = Upserted(u, v)
        BY <1>1, <1>3, <2>1 DEF Cascade, UsersHold
      <4>2. users'[u].mail = vkMail(v)
        BY <4>1 DEF Upserted
      <4>3. QED
        BY <1>1, <2>2, <3>1, <4>2
    <3>2. CASE w # u
      <4>1. w \notin gone /\ users'[w] = users[w] /\ Exists(w)
        BY <1>1, <1>3, <2>3, <3>2 DEF Cascade, UsersHold, Exists
      <4>2. users[w].mail # vkMail(v)
        BY <1>3, <3>2, <4>1 DEF MailOwner
      <4>3. QED
        BY <2>2, <4>1, <4>2 DEF AccountsStayReachable
    <3>3. QED
      BY <3>1, <3>2
  <2>4. QED
    BY <2>3 DEF AccountsStayReachable
<1>4. QED
  BY <1>2, <1>3 DEF CommitVKLogin

\* A registration gives its user an address and a password; a new password is one.
LEMMA PasswordReaches ==
    ASSUME AccountsHold, RowsHold, AccountsStayReachable, NEW r \in AuthRequests,
           InsertUser(r) \/ UpdatePassword(r)
    PROVE  AccountsStayReachable'
<1>1. UNCHANGED link /\ UsersHold /\ Locked(r, req[r])
  BY DEF InsertUser, UpdatePassword, RowsHold, LocksHold
<1>2. CASE UNCHANGED users
  BY <1>1, <1>2 DEF AccountsStayReachable, Exists
<1>3. CASE InsertUser(r) /\ ~UNCHANGED users
  <2>1. PICK u \in Users : users' = [users EXCEPT ![u] = [mail |-> req[r].mail, pw |-> "old"]]
    BY <1>3 DEF InsertUser
  <2>2. req[r].mail \in Mails
    BY <1>1, <1>3 DEF InsertUser, At, Locked
  <2>3. QED
    BY <1>1, <2>1, <2>2 DEF AccountsStayReachable, Exists, UsersHold
<1>4. CASE UpdatePassword(r) /\ ~UNCHANGED users
  <2>1. PICK u : u = req[r].user
    OBVIOUS
  <2>2. Exists(u) /\ users' = [users EXCEPT ![u] = [users[u] EXCEPT !.pw = "new"]]
    BY <1>4, <2>1 DEF UpdatePassword
  <2>3. u \in Users
    BY <1>4, <2>1 DEF UpdatePassword, At, AccountsHold, Shapes, Holds
  <2>4. users[u] \in UserRows
    BY <1>1, <2>2, <2>3 DEF UsersHold, Exists
  <2>5. PICK new : new = [users[u] EXCEPT !.pw = "new"]
    OBVIOUS
  <2>6. new.mail = users[u].mail /\ new.pw = "new"
    BY <2>4, <2>5 DEF UserRows
  <2>7. \A w \in Users : users'[w] = IF w = u THEN new ELSE users[w]
    BY <1>1, <2>2, <2>5 DEF UsersHold
  <2>8. QED
    BY <1>1, <2>2, <2>6, <2>7 DEF AccountsStayReachable, Exists
<1>5. QED
  BY <1>2, <1>3, <1>4

\* Whatever the stale reads of VK logins merge away, every account that is left
\* has a password for its address, or the VK account of its address leads to it.
THEOREM ReachSafety == AccountsSpec => []AccountsStayReachable
<1>1. AccountsInit => AccountsStayReachable
  BY DEF AccountsInit, AccountsStayReachable, Exists
<1>2. ASSUME AccountsHold, RowsHold, AccountsStayReachable, [AccountsNext]_accountsVars
      PROVE  AccountsStayReachable'
  <2>1. CASE UNCHANGED <<users, link>>
    <3>1. users' = users /\ link' = link
      BY <2>1
    <3>2. QED
      BY <1>2, <3>1 DEF AccountsStayReachable, Exists
  <2>2. CASE \E r \in AuthRequests : InsertUser(r) \/ UpdatePassword(r) \/ CommitVKLogin(r)
    BY <1>2, <2>2, PasswordReaches, CommitReaches
  <2>3. CASE \E r \in AuthRequests : Start(r)
    <3>1. UNCHANGED <<users, link>>
      BY <2>3 DEF Start, Register, Login, RefreshAccessToken, ChangePassword, LoginWithVK,
         InternalSendPush, BeginRequest, db
    <3>2. QED
      BY <2>1, <3>1
  <2>4. CASE \E r \in AuthRequests :
               \/ FailRequest(r) \/ InsertSubscription(r) \/ SaveRefreshToken(r) \/ RecoverToken(r)
               \/ PreparePreferred(r) \/ SendPushToUser(r) \/ GetAccessToken(r) \/ SendFCM(r)
    <3>1. UNCHANGED <<users, link>>
      BY <2>4 DEF FailRequest, InsertSubscription, SaveRefreshToken, RecoverToken, PreparePreferred,
         SendPushToUser, GetAccessToken, SendFCM, db
    <3>2. QED
      BY <2>1, <3>1
  <2>5. CASE RegisterToken \/ UnregisterToken \/ Expire \/ UNCHANGED accountsVars
    <3>1. UNCHANGED <<users, link>>
      BY <2>5 DEF RegisterToken, UnregisterToken, Expire, accountsVars, db
    <3>2. QED
      BY <2>1, <3>1
  <2>6. QED
    BY <1>2, <2>2, <2>3, <2>4, <2>5 DEF AccountsNext, Step
<1>3. QED
  BY <1>1, <1>2, AccountsInvariant, RowsInvariant, PTL DEF AccountsSpec
=============================================================================
