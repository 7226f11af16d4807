----------------------------- MODULE SheetsGrant -----------------------------
(***************************************************************************)
(* The Google connection of one workspace in rag-service: the OAuth states *)
(* it has handed out, the stored token, the callbacks of the browser, and  *)
(* the syncs that read and renew the token. Clocks are events: a state     *)
(* gets old after fifteen minutes, a token is due a minute before its end. *)
(***************************************************************************)
EXTENDS Integers

CONSTANTS
    States,       \* the states StartOAuth may generate
    Callbacks,    \* requests of the browser to the callback
    Users,        \* the syncs that may use the token
    NoGrant,      \* no token, no state
    MayFail

ASSUME GrantAssumption ==
    /\ MayFail \in BOOLEAN
    /\ NoGrant \notin States \cup [of : States, rt : States \cup {NoGrant}, due : BOOLEAN]

VARIABLES
    states,       \* google_oauth_states
    grant,        \* the row of google_oauth_tokens, or NoGrant
    callback,     \* what each callback is doing
    user,         \* what each sync is doing with the token
    exchanged,    \* history: how many codes were exchanged for a state
    owner,        \* history: the token the last connection brought, NoGrant once
                  \* disconnected
    revived       \* history: a renewal with another refresh token than the row's
                  \* was stored since

grantVars == <<states, grant, callback, user, exchanged, owner, revived>>

(* of is the state whose consent the access token stands for, rt the one   *)
(* that the refresh token came with.                                       *)
Grant == [of : States, rt : States \cup {NoGrant}, due : BOOLEAN]

GrantTypeOK ==
    /\ states \in [States -> {"none", "open", "old", "gone"}]
    /\ grant \in Grant \cup {NoGrant}
    /\ callback \in [Callbacks -> [pc : {"idle", "exchange", "save", "done", "error"},
                                   state : States \cup {NoGrant}, token : Grant \cup {NoGrant}]]
    /\ user \in [Users -> [pc : {"idle", "select", "refresh", "save", "ok", "error"},
                           read : Grant \cup {NoGrant}]]
    /\ exchanged \in [States -> Nat]
    /\ owner \in Grant \cup {NoGrant}
    /\ revived \in BOOLEAN

NoUse == [pc |-> "idle", read |-> NoGrant]

GrantInit ==
    /\ states = [s \in States |-> "none"]
    /\ grant = NoGrant
    /\ callback = [k \in Callbacks |-> [pc |-> "idle", state |-> NoGrant, token |-> NoGrant]]
    /\ user = [u \in Users |-> NoUse]
    /\ exchanged = [s \in States |-> 0]
    /\ owner = NoGrant
    /\ revived = FALSE

\* The old states are dropped and a new one is stored.
StartOAuth ==
    /\ \E s \in States :
         /\ states[s] = "none"
         /\ states' = [x \in States |-> CASE x = s                 -> "open"
                                          [] states[x] = "old"     -> "gone"
                                          [] OTHER                 -> states[x]]
    /\ UNCHANGED <<grant, callback, user, exchanged, owner, revived>>

\* DELETE ... RETURNING: of two callbacks with one state only one gets it.
TakeState(s) == states' = [states EXCEPT ![s] = "gone"]

ExchangeCode(k) ==
    /\ callback[k].pc = "idle"
    /\ \E s \in States :
         \/ /\ states[s] \in {"open", "old"}
            /\ TakeState(s)
            /\ callback' = [callback EXCEPT
                  ![k] = [@ EXCEPT !.state = s,
                                   !.pc = IF states[s] = "open" THEN "exchange" ELSE "error"]]
         \/ /\ states[s] = "gone"
            /\ callback' = [callback EXCEPT ![k].pc = "error"]
            /\ UNCHANGED states
    /\ UNCHANGED <<grant, user, exchanged, owner, revived>>

\* External: Google takes the code, and sends a refresh token or not.
exchangeCode(k) ==
    /\ callback[k].pc = "exchange"
    /\ LET s == callback[k].state
       IN  \/ /\ \E rt \in {s, NoGrant} :
                   callback' = [callback EXCEPT
                      ![k] = [@ EXCEPT !.pc = "save",
                                       !.token = [of |-> s, rt |-> rt, due |-> FALSE]]]
              /\ exchanged' = [exchanged EXCEPT ![s] = @ + 1]
           \/ /\ MayFail
              /\ callback' = [callback EXCEPT ![k].pc = "error"]
              /\ UNCHANGED exchanged
    /\ UNCHANGED <<states, grant, user, owner, revived>>

\* Mutant: the stored refresh token stays, whatever comes.
saveTokenMutant(t) ==
    grant' = IF grant # NoGrant /\ grant.rt # NoGrant THEN [t EXCEPT !.rt = grant.rt] ELSE t

\* The upsert of a token keeps the stored refresh token if there is no new one.
saveToken(t) ==
    grant' = IF grant # NoGrant /\ t.rt = NoGrant THEN [t EXCEPT !.rt = grant.rt] ELSE t

SaveConnection(k) ==
    /\ callback[k].pc = "save"
    /\ \/ /\ saveToken(callback[k].token)
          /\ owner' = callback[k].token
          /\ revived' = (revived /\ callback[k].token.rt = NoGrant)
          /\ callback' = [callback EXCEPT ![k].pc = "done"]
       \/ /\ MayFail
          /\ callback' = [callback EXCEPT ![k].pc = "error"]
          /\ UNCHANGED <<grant, owner, revived>>
    /\ UNCHANGED <<states, user, exchanged>>

Disconnect ==
    /\ grant # NoGrant
    /\ grant' = NoGrant
    /\ owner' = NoGrant
    /\ revived' = FALSE
    /\ UNCHANGED <<states, callback, user, exchanged>>

\* The token of a sync: as stored, or renewed and stored. Without a refresh
\* token it is used even when it is due.
GetValidToken(u) ==
    /\ user[u].pc = "select"
    /\ user' = [user EXCEPT ![u] =
          [read |-> grant, pc |-> CASE grant = NoGrant -> "error"
                                    [] grant # NoGrant /\ grant.due /\ grant.rt # NoGrant -> "refresh"
                                    [] OTHER -> "ok"]]
    /\ UNCHANGED <<states, grant, callback, exchanged, owner, revived>>

refreshToken(u) ==
    /\ user[u].pc = "refresh"
    /\ \/ user' = [user EXCEPT ![u].pc = "save"]
       \/ MayFail /\ user' = [user EXCEPT ![u].pc = "error"]
    /\ UNCHANGED <<states, grant, callback, exchanged, owner, revived>>

\* The renewed token is one of the account whose refresh token was read, and
\* comes with that refresh token.
SaveRenewal(u) ==
    /\ user[u].pc = "save"
    /\ LET rt == user[u].read.rt
       IN  \/ /\ saveToken([of |-> rt, rt |-> rt, due |-> FALSE])
              /\ revived' = (revived \/ grant = NoGrant \/ (grant # NoGrant /\ grant.rt # rt))
              /\ user' = [user EXCEPT ![u].pc = "ok"]
           \/ /\ MayFail
              /\ user' = [user EXCEPT ![u].pc = "error"]
              /\ UNCHANGED <<grant, revived>>
    /\ UNCHANGED <<states, callback, exchanged, owner>>

\* Time passes: for a state, or for the token.
Age ==
    /\ \/ /\ \E s \in States : states[s] = "open" /\ states' = [states EXCEPT ![s] = "old"]
          /\ UNCHANGED grant
       \/ /\ grant # NoGrant /\ ~grant.due
          /\ grant' = [grant EXCEPT !.due = TRUE]
          /\ UNCHANGED states
    /\ UNCHANGED <<callback, user, exchanged, owner, revived>>

GrantStep(u) == GetValidToken(u) \/ refreshToken(u) \/ SaveRenewal(u)

GrantNext ==
    \/ StartOAuth \/ Disconnect \/ Age
    \/ \E k \in Callbacks : ExchangeCode(k) \/ exchangeCode(k) \/ SaveConnection(k)

-----------------------------------------------------------------------------
\* However callbacks, a disconnect and the renewals of two syncs interleave, a
\* state handed out is exchanged once at most. There is no token after a
\* disconnect, and after a connection that brought its own refresh token the
\* stored pair is that connection's, renewed or not. A connection that brought
\* none keeps the refresh token of an earlier one, and the renewals with it bring
\* the earlier account back: then the token is that of one of the two. All this
\* ends, until the next disconnect or refresh token, when a sync stores a renewal
\* over a row that has another refresh token by then, or over none.
GrantsAreConsented ==
    /\ \A s \in States : exchanged[s] <= 1
    /\ ~revived =>
          /\ owner = NoGrant => grant = NoGrant
          /\ owner # NoGrant => grant # NoGrant
          /\ owner # NoGrant /\ owner.rt # NoGrant => grant.of = owner.of /\ grant.rt = owner.rt
          /\ owner # NoGrant /\ owner.rt = NoGrant => grant.of \in {owner.of, grant.rt}
=============================================================================
