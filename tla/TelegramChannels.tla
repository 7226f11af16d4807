-------------------------- MODULE TelegramChannels --------------------------
(***************************************************************************)
(* social-service: the Telegram channels that owners connect, the consent  *)
(* each connection rests on, and the posts that the webhook stores of      *)
(* them. Connecting and disconnecting are transactions: what they write is *)
(* seen at their commit, and their row locks and unique indexes make       *)
(* others wait or fail. A channel is connected once by an owner for ever,  *)
(* so an integration and its consent are named by the owner and channel.   *)
(***************************************************************************)
CONSTANTS
    Owners,
    Chans,        \* Telegram channels with the bot as an administrator
    Numbers,      \* message ids of their posts
    Connects,     \* requests to connect a channel
    Leaves,       \* requests to disconnect
    Hooks,        \* updates that Telegram posts, repeated ones included
    Nobody        \* no owner, no channel

ASSUME ChannelsAssumption == Nobody \notin Owners \cup Chans

VARIABLES
    integration,  \* the status of each telegram_integrations row
    consent,      \* its user_consents row
    post,         \* telegram_posts: whose integration each post is stored for
    connect,      \* where each transaction is, and what it will write
    leave,
    hook,
    late          \* history: posts stored for an owner who has left by then

tables == <<integration, consent, post>>
channelVars == <<tables, connect, leave, hook, late>>

Posts == Chans \X Numbers

ChannelsTypeOK ==
    /\ integration \in [Owners \X Chans -> {"none", "active", "revoked"}]
    /\ consent \in [Owners \X Chans -> {"none", "granted", "revoked"}]
    /\ post \in [Posts -> Owners \cup {Nobody}]
    /\ connect \in [Connects -> [pc : {"idle", "consent", "integration", "done"},
                                 by : Owners \cup {Nobody}, to : Chans \cup {Nobody}]]
    /\ leave \in [Leaves -> [pc : {"idle", "consents", "purge", "commit", "done"},
                             by : Owners \cup {Nobody}, of : Chans \cup {Nobody},
                             rows : SUBSET Chans, consents : SUBSET Chans, posts : SUBSET Posts]]
    /\ hook \in [Hooks -> [pc : {"idle", "insert", "done"}, post : Posts \cup {<<Nobody, Nobody>>},
                           owner : Owners \cup {Nobody}]]
    /\ late \subseteq Posts

ChannelsInit ==
    /\ integration = [x \in Owners \X Chans |-> "none"]
    /\ consent = [x \in Owners \X Chans |-> "none"]
    /\ post = [p \in Posts |-> Nobody]
    /\ connect = [k \in Connects |-> [pc |-> "idle", by |-> Nobody, to |-> Nobody]]
    /\ leave = [d \in Leaves |-> [pc |-> "idle", by |-> Nobody, of |-> Nobody,
                                  rows |-> {}, consents |-> {}, posts |-> {}]]
    /\ hook = [h \in Hooks |-> [pc |-> "idle", post |-> <<Nobody, Nobody>>, owner |-> Nobody]]
    /\ late = {}

-----------------------------------------------------------------------------
(* ConnectChannel. *)

\* The login is fresh and signed, the consent acknowledged, the channel known to
\* Telegram and the bot its administrator; any other request changes nothing.
ConnectChannel(k) ==
    /\ connect[k].pc = "idle"
    /\ \E u \in Owners, c \in Chans :
         connect' = [connect EXCEPT ![k] = [pc |-> "consent", by |-> u, to |-> c]]
    /\ UNCHANGED <<tables, leave, hook, late>>

\* uq_user_consent_active: an owner has one consent that is not revoked. The
\* INSERT waits for a transaction that has inserted or revoked one, and fails
\* if one stays.
InsertConsent(k) ==
    LET u == connect[k].by
    IN  /\ connect[k].pc = "consent"
        /\ \A q \in Connects : connect[q].pc = "integration" => connect[q].by # u
        /\ \A d \in Leaves : leave[d].pc \in {"purge", "commit"} => leave[d].by # u
        /\ connect' = [connect EXCEPT ![k].pc =
              IF \E c \in Chans : consent[<<u, c>>] = "granted" THEN "done" ELSE "integration"]
        /\ UNCHANGED <<tables, leave, hook, late>>

\* uq_user_channel: the row of a channel that was disconnected is still there,
\* and the owner hears that it is already connected.
InsertIntegration(k) ==
    LET x == <<connect[k].by, connect[k].to>>
    IN  /\ connect[k].pc = "integration"
        /\ connect' = [connect EXCEPT ![k].pc = "done"]
        /\ IF integration[x] = "none"
           THEN /\ integration' = [integration EXCEPT ![x] = "active"]
                /\ consent' = [consent EXCEPT ![x] = "granted"]
           ELSE UNCHANGED <<integration, consent>>
        /\ UNCHANGED <<post, leave, hook, late>>

-----------------------------------------------------------------------------
(* DisconnectChannel. *)

Leaving(d) == leave[d].pc \in {"consents", "purge", "commit"}

\* All active integrations of the owner; the posts of one of them will go. A
\* second request waits for the first, and finds none.
RevokeIntegration(d) ==
    /\ leave[d].pc = "idle"
    /\ \E u \in Owners :
         LET active == {c \in Chans : integration[<<u, c>>] = "active"}
         IN  /\ \A e \in Leaves : Leaving(e) => leave[e].by # u
             /\ \E c \in active :
                  leave' = [leave EXCEPT ![d] = [@ EXCEPT !.pc = "consents", !.by = u, !.of = c,
                                                          !.rows = active]]
    /\ UNCHANGED <<tables, connect, hook, late>>

RevokeConsents(d) ==
    /\ leave[d].pc = "consents"
    /\ leave' = [leave EXCEPT ![d] = [@ EXCEPT !.pc = "purge",
          !.consents = {c \in Chans : consent[<<leave[d].by, c>>] = "granted"}]]
    /\ UNCHANGED <<tables, connect, hook, late>>

\* Mutant: the posts are looked for under an integration that is still active.
DeletePostsMutant(d) ==
    /\ leave[d].pc = "purge"
    /\ leave' = [leave EXCEPT ![d] = [@ EXCEPT !.pc = "commit",
          !.posts = {p \in Posts : post[p] = leave[d].by /\ p[1] = leave[d].of
                                     /\ p[1] \notin leave[d].rows}]]
    /\ UNCHANGED <<tables, connect, hook, late>>

DeletePosts(d) ==
    /\ leave[d].pc = "purge"
    /\ leave' = [leave EXCEPT ![d] = [@ EXCEPT !.pc = "commit",
          !.posts = {p \in Posts : post[p] = leave[d].by /\ p[1] = leave[d].of}]]
    /\ UNCHANGED <<tables, connect, hook, late>>

CommitLeave(d) ==
    LET u == leave[d].by
        revoked(f, S) == [x \in Owners \X Chans |-> IF x[1] = u /\ x[2] \in S THEN "revoked" ELSE f[x]]
    IN  /\ leave[d].pc = "commit"
        /\ integration' = revoked(integration, leave[d].rows)
        /\ consent' = revoked(consent, leave[d].consents)
        /\ post' = [p \in Posts |-> IF p \in leave[d].posts THEN Nobody ELSE post[p]]
        /\ leave' = [leave EXCEPT ![d].pc = "done"]
        /\ UNCHANGED <<connect, hook, late>>

\* A statement or the commit fails, or the service stops: nothing was written.
Rollback ==
    /\ \/ /\ \E k \in Connects : connect[k].pc \in {"consent", "integration"}
                                 /\ connect' = [connect EXCEPT ![k].pc = "done"]
          /\ UNCHANGED leave
       \/ /\ \E d \in Leaves : Leaving(d) /\ leave' = [leave EXCEPT ![d].pc = "done"]
          /\ UNCHANGED connect
    /\ UNCHANGED <<tables, hook, late>>

-----------------------------------------------------------------------------
(* The webhook. *)

\* One of the owners who have the channel connected.
findIntegrationByChannel(c) == {u \in Owners : integration[<<u, c>>] = "active"}

ProcessUpdate(h) ==
    /\ hook[h].pc = "idle"
    /\ \E p \in Posts, u \in Owners :
         /\ u \in findIntegrationByChannel(p[1])
         /\ hook' = [hook EXCEPT ![h] = [pc |-> "insert", post |-> p, owner |-> u]]
    /\ UNCHANGED <<tables, connect, leave, late>>

\* ON CONFLICT DO NOTHING, which waits for whoever is deleting the post. An
\* error is logged, and the post lost.
InsertPost(h) ==
    LET p == hook[h].post
        u == hook[h].owner
        left == \/ integration[<<u, p[1]>>] # "active"
                \/ \E d \in Leaves : leave[d].pc = "commit" /\ leave[d].by = u
    IN  /\ hook[h].pc = "insert"
        /\ \A d \in Leaves : Leaving(d) => p \notin leave[d].posts
        /\ hook' = [hook EXCEPT ![h].pc = "done"]
        /\ \/ /\ post[p] = Nobody
              /\ post' = [post EXCEPT ![p] = u]
              /\ late' = IF left THEN late \cup {p} ELSE late
           \/ UNCHANGED <<post, late>>
        /\ UNCHANGED <<integration, consent, connect, leave>>

ChannelsNext ==
    \/ \E k \in Connects : ConnectChannel(k) \/ InsertConsent(k) \/ InsertIntegration(k)
    \/ \E d \in Leaves : RevokeIntegration(d) \/ RevokeConsents(d) \/ DeletePosts(d) \/ CommitLeave(d)
    \/ \E h \in Hooks : ProcessUpdate(h) \/ InsertPost(h)
    \/ Rollback

-----------------------------------------------------------------------------
\* Two tables that no constraint ties together agree, however requests overlap
\* and fail: an owner has one active channel at most, the consent that is not
\* revoked is the one it was connected with, and posts are kept of active
\* channels only - but for a post whose integration the webhook had looked up
\* before its owner left, and stored after the posts were deleted.
PostsAreConsented ==
    /\ \A u \in Owners : \A c, e \in Chans :
          integration[<<u, c>>] = "active" /\ integration[<<u, e>>] = "active" => c = e
    /\ \A x \in Owners \X Chans : integration[x] = "active" <=> consent[x] = "granted"
    /\ \A p \in Posts :
          post[p] # Nobody => integration[<<post[p], p[1]>>] = "active" \/ p \in late
=============================================================================
