------------------------------- MODULE Accounts -------------------------------
(***************************************************************************)
(* auth-service: users, their subscriptions, VK links, refresh tokens and  *)
(* push devices in PostgreSQL, as requests write them statement by         *)
(* statement. Register and Login use no transaction. A VK login is one; it *)
(* reads the link before it holds any row, locks the accounts it will      *)
(* merge, and saves its refresh token after the commit.                    *)
(* Names, pictures and plans are left out.                                 *)
(***************************************************************************)
EXTENDS Naturals, FiniteSets

CONSTANTS
    Users,       \* the ids accounts may get
    Mails,       \* the addresses people register with
    VKUsers,     \* VK accounts
    Tokens,      \* refresh tokens that may be issued
    Devices,     \* push tokens of devices
    AuthRequests, \* the requests under way, one at a time each
    None

ASSUME AccountsAssumption == None \notin Users \cup Tokens

VARIABLES
    users,       \* [mail, pw], or None
    used,        \* history: the ids given out so far
    subs,        \* how many subscriptions each user has
    link,        \* oauth_providers: the user of each VK account, or None
    token,       \* each refresh token: whose, is its row there, has it expired
    access,      \* the users an access token was issued for
    devices,     \* device_tokens of each user
    fcm,         \* the cached access token of Firebase
    lock,        \* who holds each user's row in a transaction, or None
    req,         \* what each request is doing
    doubled      \* history: users a VK login subscribed while they registered

db == <<users, used, subs, link, devices, lock, doubled>>
accountsVars == <<db, token, access, fcm, req>>

\* vk_<id>@vk.inbetwin.local, and orphaned+<id>@vk.inbetwin.local.
vkMail(v) == <<"vk", v>>
orphanedVKEmail(u) == <<"orphaned", u>>
AllMails == Mails \cup {vkMail(v) : v \in VKUsers} \cup {orphanedVKEmail(u) : u \in Users}

Passwords == {"none", "old", "new"}

\* The rows of users and of refresh_tokens; no row is the absent one.
UserRows == [mail : AllMails, pw : Passwords]
TokenRows == [user : Users, row : BOOLEAN, old : BOOLEAN]

ASSUME RowsAssumption == None \notin UserRows \cup TokenRows

NoReq == [op |-> "none", pc |-> "idle", user |-> None, vk |-> None, mail |-> None,
          linked |-> None, orphans |-> {}, todo |-> {}]

AccountsTypeOK ==
    /\ \A u \in Users : users[u] # None => users[u].mail \in AllMails /\ users[u].pw \in Passwords
    /\ \A u, w \in Users : u # w /\ users[u] # None /\ users[w] # None => users[u].mail # users[w].mail
    /\ \A u \in Users :
          /\ subs[u] \in Nat /\ devices[u] \subseteq Devices
          /\ users[u] = None => subs[u] = 0 /\ devices[u] = {}
    /\ \A v \in VKUsers : link[v] # None => users[link[v]] # None
    /\ \A t \in Tokens : token[t] # None /\ token[t].row => users[token[t].user] # None
    /\ fcm \in {"none", "fresh", "due"}
    /\ \A u \in Users : lock[u] # None => u \in req[lock[u]].orphans

AccountsInit ==
    /\ users = [u \in Users |-> None]
    /\ used = {}
    /\ subs = [u \in Users |-> 0]
    /\ link = [v \in VKUsers |-> None]
    /\ token = [t \in Tokens |-> None]
    /\ access = {}
    /\ devices = [u \in Users |-> {}]
    /\ fcm = "none"
    /\ lock = [u \in Users |-> None]
    /\ req = [r \in AuthRequests |-> NoReq]
    /\ doubled = {}

Exists(u) == users[u] # None
MailOwner(m) == {u \in Users : Exists(u) /\ users[u].mail = m}

\* A user's row can be written unless another transaction holds it.
Free(r, u) == lock[u] \in {None, r}

Set(r, x) == req' = [req EXCEPT ![r] = x]
To(r, pc) == Set(r, [req[r] EXCEPT !.pc = pc])
At(r, op, pc) == req[r].op = op /\ req[r].pc = pc

BeginRequest(r, op, pc, x) ==
    /\ req[r].pc = "idle"
    /\ Set(r, [x EXCEPT !.op = op, !.pc = pc])
    /\ UNCHANGED <<db, token, access, fcm>>

\* A refresh token of u, just issued, and the users once u has an access token.
GenerateRefreshToken(u) == [user |-> u, row |-> TRUE, old |-> FALSE]
GenerateAccessToken(u) == access \cup {u}

\* AuthMiddleware: the request carries an access token of u. Nothing asks the
\* database whether u is still there.
Authenticated(u) == u \in access

-----------------------------------------------------------------------------
(* Register. *)

Register(r) ==
    \E m \in Mails : MailOwner(m) = {} /\ BeginRequest(r, "register", "insert", [NoReq EXCEPT !.mail = m])

\* The address may have been taken since it was looked up.
InsertUser(r) ==
    /\ At(r, "register", "insert")
    /\ IF MailOwner(req[r].mail) = {}
       THEN \E u \in Users \ used :
               /\ users' = [users EXCEPT ![u] = [mail |-> req[r].mail, pw |-> "old"]]
               /\ used' = used \cup {u}
               /\ Set(r, [req[r] EXCEPT !.user = u, !.pc = "subscribe"])
       ELSE Set(r, NoReq) /\ UNCHANGED <<users, used>>
    /\ UNCHANGED <<subs, link, devices, lock, doubled, token, access, fcm>>

InsertSubscription(r) ==
    /\ At(r, "register", "subscribe") /\ Free(r, req[r].user)
    /\ subs' = [subs EXCEPT ![req[r].user] = IF Exists(req[r].user) THEN @ + 1 ELSE @]
    /\ Set(r, NoReq)
    /\ UNCHANGED <<users, used, link, devices, lock, doubled, token, access, fcm>>

-----------------------------------------------------------------------------
(* Login, and the refresh tokens. *)

\* An account without a password was made by VK.
Login(r) ==
    \E m \in Mails, pw \in Passwords \ {"none"}, u \in Users :
        /\ u \in MailOwner(m) /\ users[u].pw = pw
        /\ BeginRequest(r, "login", "save", [NoReq EXCEPT !.user = u])

\* saveRefreshToken, after a password or a VK login: the user may be gone.
SaveRefreshToken(r) ==
    /\ req[r].op \in {"login", "vk"} /\ req[r].pc = "save"
    /\ LET u == req[r].user
       IN  IF Exists(u)
           THEN /\ \E t \in Tokens :
                     /\ token[t] = None
                     /\ token' = [token EXCEPT ![t] = GenerateRefreshToken(u)]
                /\ access' = GenerateAccessToken(u)
           ELSE UNCHANGED <<token, access>>
    /\ Set(r, NoReq)
    /\ UNCHANGED <<db, fcm>>

\* ValidateRefreshToken, and the user of the token.
RefreshAccessToken(r) ==
    \E t \in Tokens :
        /\ token[t] # None /\ ~token[t].old /\ Exists(token[t].user)
        /\ BeginRequest(r, "refresh", "recover", [NoReq EXCEPT !.user = token[t].user, !.todo = {t}])

\* A token without a row gets one, unless its user is gone by now.
RecoverToken(r) ==
    /\ At(r, "refresh", "recover")
    /\ LET t == CHOOSE x \in req[r].todo : TRUE
       IN  /\ token' = [token EXCEPT ![t].row = Exists(req[r].user)]
           /\ access' = IF Exists(req[r].user) \/ token[t].row THEN GenerateAccessToken(req[r].user) ELSE access
    /\ Set(r, NoReq)
    /\ UNCHANGED <<db, fcm>>

ChangePassword(r) ==
    \E u \in Users :
        /\ Authenticated(u) /\ Exists(u) /\ users[u].pw = "old"
        /\ BeginRequest(r, "password", "update", [NoReq EXCEPT !.user = u])

UpdatePassword(r) ==
    /\ At(r, "password", "update") /\ Free(r, req[r].user)
    /\ users' = IF Exists(req[r].user) THEN [users EXCEPT ![req[r].user].pw = "new"] ELSE users
    /\ Set(r, NoReq)
    /\ UNCHANGED <<used, subs, link, devices, lock, doubled, token, access, fcm>>

\* Time passes: for a refresh token, or for the cached token of Firebase.
Expire ==
    /\ \/ /\ \E t \in Tokens : token[t] # None /\ ~token[t].old /\ token' = [token EXCEPT ![t].old = TRUE]
          /\ UNCHANGED fcm
       \/ fcm = "fresh" /\ fcm' = "due" /\ UNCHANGED token
    /\ UNCHANGED <<db, access, req>>

-----------------------------------------------------------------------------
(* VK login. *)

\* External: VK ID confirms a token or not, users.get names its account or fails.
fetchVKIDUserInfo == BOOLEAN
fetchVKUserInfo == VKUsers \cup {None}

\* Which VK account a login is. A confirmed token, and one that nobody knows, is
\* taken for the account that the request claims.
resolveVKUserInfo(claimed, confirmed, named) ==
    IF ~confirmed /\ named # None THEN named ELSE claimed

\* An access token sent along names the preferred user.
extractPreferredUserID == access \cup {None}

\* The link is read first.
LoginWithVK(r) ==
    \E claimed \in VKUsers \cup {None}, confirmed \in fetchVKIDUserInfo, named \in fetchVKUserInfo :
    \E preferred \in extractPreferredUserID :
        LET v == resolveVKUserInfo(claimed, confirmed, named)
        IN  /\ v # None
            /\ BeginRequest(r, "vk", IF preferred = None THEN "commit" ELSE "prepare",
                     [NoReq EXCEPT !.vk = v, !.user = preferred, !.linked = link[v]])

\* preparePreferredVKUserTx: the accounts to merge into the preferred one - the
\* linked one and the owner of the VK address - are locked and renamed.
Orphans(r) == {u \in {req[r].linked} \cup MailOwner(vkMail(req[r].vk)) : u \notin {None, req[r].user} /\ Exists(u)}

PreparePreferred(r) ==
    /\ At(r, "vk", "prepare")
    /\ \A u \in Orphans(r) : Free(r, u)
    /\ lock' = [u \in Users |-> IF u \in Orphans(r) THEN r ELSE lock[u]]
    /\ Set(r, [req[r] EXCEPT !.orphans = Orphans(r), !.pc = "commit"])
    /\ UNCHANGED <<users, used, subs, link, devices, doubled, token, access, fcm>>

\* Whose account the login is: the preferred one, the linked one, the one with
\* the VK address, or a new one.
Canonical(r) ==
    CASE req[r].user # None -> {req[r].user}
      [] req[r].user = None /\ req[r].linked # None -> {req[r].linked}
      [] OTHER -> IF MailOwner(vkMail(req[r].vk)) # {} THEN MailOwner(vkMail(req[r].vk)) ELSE Users \ used

Upserted(u, v) ==
    [mail |-> vkMail(v), pw |-> IF Exists(u) THEN users[u].pw ELSE "none"]

\* Mutant: every VK login subscribes the user.
ensureSubscriptionMutant(s, u) == [s EXCEPT ![u] = @ + 1]

ensureSubscription(s, u) == IF s[u] = 0 THEN [s EXCEPT ![u] = 1] ELSE s

\* Mutant: a link that is there is left as it is.
upsertVKProviderMutant(l, v, u) == IF l[v] = None THEN [l EXCEPT ![v] = u] ELSE l

upsertVKProvider(l, v, u) == [l EXCEPT ![v] = u]

\* Mutant: the accounts merged away are neither renamed nor deleted.
CascadeMutant(S, f, none) == f

\* ON DELETE CASCADE.
Cascade(S, f, none) == [u \in Users |-> IF u \in S THEN none ELSE f[u]]

\* The statements from the upsert of the user to the commit. The VK address may
\* belong to a third account by now: then the transaction is rolled back.
CommitVKLogin(r) ==
    /\ At(r, "vk", "commit")
    /\ LET v == req[r].vk
           gone == req[r].orphans
       IN  \E u \in Canonical(r) :
             /\ Free(r, u) /\ \A w \in MailOwner(vkMail(v)) : Free(r, w)
             /\ IF MailOwner(vkMail(v)) \subseteq gone \cup {u}
                THEN /\ users' = Cascade(gone, [users EXCEPT ![u] = Upserted(u, v)], None)
                     /\ used' = used \cup {u}
                     /\ subs' = Cascade(gone, ensureSubscription(subs, u), 0)
                     /\ link' = [w \in VKUsers |->
                                    LET l == upsertVKProvider(link, v, u)
                                    IN  IF l[w] \in gone THEN None ELSE l[w]]
                     /\ devices' = Cascade(gone, devices, {})
                     /\ token' = [t \in Tokens |->
                                     IF token[t] # None /\ token[t].user \in gone
                                     THEN [token[t] EXCEPT !.row = FALSE] ELSE token[t]]
                     /\ doubled' = IF \E q \in AuthRequests : At(q, "register", "subscribe") /\ req[q].user = u
                                   THEN doubled \cup {u} ELSE doubled
                     /\ Set(r, [req[r] EXCEPT !.user = u, !.pc = "save", !.orphans = {}])
                ELSE /\ Set(r, NoReq)
                     /\ UNCHANGED <<users, used, subs, link, devices, token, doubled>>
    /\ lock' = [u \in Users |-> IF lock[u] = r THEN None ELSE lock[u]]
    /\ UNCHANGED <<access, fcm>>

\* A statement fails - the victim of a deadlock, a lost connection - or the
\* service stops: a transaction is rolled back, what was written without one stays.
FailRequest(r) ==
    /\ req[r].pc # "idle"
    /\ Set(r, NoReq)
    /\ lock' = [u \in Users |-> IF lock[u] = r THEN None ELSE lock[u]]
    /\ UNCHANGED <<users, used, subs, link, devices, doubled, token, access, fcm>>

-----------------------------------------------------------------------------
(* Push notifications. *)

\* An unknown user is skipped without an error.
RegisterToken ==
    /\ \E u \in Users, d \in Devices :
         /\ Authenticated(u) /\ Exists(u)
         /\ devices' = [devices EXCEPT ![u] = @ \cup {d}]
    /\ UNCHANGED <<users, used, subs, link, lock, doubled, token, access, fcm, req>>

UnregisterToken ==
    /\ \E u \in Users, d \in Devices :
         Authenticated(u) /\ d \in devices[u] /\ devices' = [devices EXCEPT ![u] = @ \ {d}]
    /\ UNCHANGED <<users, used, subs, link, lock, doubled, token, access, fcm, req>>

\* Answered before anything is looked up.
InternalSendPush(r) == \E u \in Users : BeginRequest(r, "push", "devices", [NoReq EXCEPT !.user = u])

\* The devices are read before the access token of Firebase is looked up.
SendPushToUser(r) ==
    /\ At(r, "push", "devices")
    /\ LET found == devices[req[r].user]
       IN  Set(r, IF found = {} THEN NoReq ELSE [req[r] EXCEPT !.todo = found, !.pc = "auth"])
    /\ UNCHANGED <<db, token, access, fcm>>

\* External: Google's credentials, when the cached token is about to expire.
GetAccessToken(r) ==
    /\ At(r, "push", "auth")
    /\ fcm' = "fresh"
    /\ To(r, "send")
    /\ UNCHANGED <<db, token, access>>

\* Device by device, whatever Firebase answers.
SendFCM(r) ==
    /\ At(r, "push", "send")
    /\ \E d \in req[r].todo :
         Set(r, IF req[r].todo = {d} THEN NoReq ELSE [req[r] EXCEPT !.todo = @ \ {d}])
    /\ UNCHANGED <<db, token, access, fcm>>

Start(r) ==
    \/ Register(r) \/ Login(r) \/ RefreshAccessToken(r) \/ ChangePassword(r) \/ LoginWithVK(r)
    \/ InternalSendPush(r)

Step(r) ==
    \/ InsertUser(r) \/ InsertSubscription(r) \/ SaveRefreshToken(r) \/ RecoverToken(r)
    \/ UpdatePassword(r) \/ PreparePreferred(r) \/ CommitVKLogin(r) \/ SendPushToUser(r)
    \/ GetAccessToken(r) \/ SendFCM(r)

AccountsNext ==
    \/ \E r \in AuthRequests : Start(r) \/ Step(r) \/ FailRequest(r)
    \/ RegisterToken \/ UnregisterToken \/ Expire

AccountsSpec == AccountsInit /\ [][AccountsNext]_accountsVars

-----------------------------------------------------------------------------
(* Properties. *)

\* However registrations and VK logins of one user interleave and wherever they
\* fail, a user has one subscription at most, and a user that a VK account leads
\* to has one. The exception is a VK login that commits between the two inserts
\* of the registration of the same user: each of them subscribes it.
OneSubscription ==
    /\ \A u \in Users : subs[u] <= IF u \in doubled THEN 2 ELSE 1
    /\ \A v \in VKUsers : link[v] # None => subs[link[v]] >= 1

\* However VK logins merge accounts by links they read before others changed them,
\* every account is one that somebody can log in to: by its address and password,
\* or, once a VK login has replaced its address, by the VK account of the address,
\* which leads to it and to no other.
AccountsStayReachable ==
    \A u \in Users : Exists(u) =>
        \/ users[u].mail \in Mails /\ users[u].pw # "none"
        \/ \E v \in VKUsers : users[u].mail = vkMail(v) /\ link[v] = u
=============================================================================
