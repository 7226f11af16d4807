----------------------------- MODULE MtprotoAuth -----------------------------
(***************************************************************************)
(* Signing a workspace owner in to Telegram and out again: social-service, *)
(* internal/mtproto (auth_manager.go, service.go, session.go and the       *)
(* starting and stopping of listeners in listener.go), for one user.       *)
(*                                                                         *)
(* POST send-code starts a flow goroutine that asks Telegram for an OTP    *)
(* and waits for it; POST sign-in hands the code over and waits for the    *)
(* result.  They meet in authManager.pending and in three channels of      *)
(* capacity one.  A flow is identified with the send-code request that     *)
(* started it, and the session it stores with the flow; a listener with    *)
(* the sign-in or the restart that started it.  The context of an HTTP     *)
(* request is never cancelled.                                             *)
(***************************************************************************)
CONSTANTS
    SendCodes,  \* send-code requests
    SignIns,    \* sign-in requests
    SignOuts,   \* sign-out requests
    Boots,      \* restarts of the service
    NoOne,      \* nothing
    MayFail     \* may a database call fail, or the Telegram client not start

Listeners == SignIns \cup Boots

ASSUME Disjoint   ==
    /\ SignIns \cap Boots = {}
    /\ NoOne \notin SendCodes \cup SignIns \cup SignOuts \cup Boots
ASSUME SwitchType == MayFail \in BOOLEAN

VARIABLES
    pending,     \* authManager.pending of the user: a flow
    timer,       \* the five-minute timer of each flow
    cancelled,   \* flows whose context was cancelled or timed out
    send,        \* where each send-code handler is
    hash,        \* hashCh of each flow
    flow,        \* where each flow goroutine is
    code,        \* codeCh of each flow: the sign-in whose code it holds
    done,        \* doneCh of each flow
    sign,        \* where each sign-in handler is
    flowOf,      \* the flow it looked up
    out,         \* where each sign-out handler is
    loaded,      \* the session it loaded
    session,     \* the telegram_sessions row that is not revoked
    authorized,  \* sessions Telegram accepts
    boot,        \* where each StartAll is
    listener,    \* where each listener goroutine is
    stopped,     \* listeners whose context was cancelled
    users,       \* ListenerManager.users of the user: a listener
    saved,       \* history: flows whose session was stored
    faults       \* history: did a call fail for a reason of its own

manager   == <<pending, timer, cancelled>>
channels  == <<hash, code, done>>
signs     == <<sign, flowOf>>
outs      == <<out, loaded>>
store     == <<session, authorized, saved>>
listeners == <<listener, stopped, users>>
vars      == <<manager, flow, channels, send, signs, outs, store, boot, listeners,
               faults>>

------------------------------------------------------------------------------

Init ==
    /\ pending = NoOne
    /\ timer = [s \in SendCodes |-> "off"]
    /\ cancelled = {}
    /\ send = [s \in SendCodes |-> "idle"]
    /\ hash = [s \in SendCodes |-> "none"]
    /\ flow = [s \in SendCodes |-> "none"]
    /\ code = [s \in SendCodes |-> NoOne]
    /\ done = [s \in SendCodes |-> "none"]
    /\ sign = [r \in SignIns |-> "idle"]
    /\ flowOf = [r \in SignIns |-> NoOne]
    /\ out = [o \in SignOuts |-> "idle"]
    /\ loaded = [o \in SignOuts |-> NoOne]
    /\ session = NoOne
    /\ authorized = {}
    /\ boot = [b \in Boots |-> "idle"]
    /\ listener = [l \in Listeners |-> "none"]
    /\ stopped = {}
    /\ users = NoOne
    /\ saved = {}
    /\ faults = FALSE

Active(s) == flow[s] \in {"connect", "code", "signing", "save", "post"}

FlowTo(s, l) == flow' = [flow EXCEPT ![s] = l]
SignTo(r, l) == sign' = [sign EXCEPT ![r] = l]
OutTo(o, l)  == out' = [out EXCEPT ![o] = l]

\* A call succeeds, or fails because the database or the network does (bound: one
\* call of a behaviour fails).
Works == UNCHANGED faults
Fails == MayFail /\ ~faults /\ faults' = TRUE

\* timer.Stop does nothing to a timer that has fired.
StopTimer(f) ==
    timer' = [s \in SendCodes |-> IF s = f /\ timer[s] = "armed" THEN "off" ELSE timer[s]]

------------------------------------------------------------------------------
(* The send-code handler *)

\* The stored session is looked for; one that cannot be loaded counts as none.
CheckSession(s) ==
    /\ send[s] = "idle"
    /\ \/ Works /\ send' = [send EXCEPT ![s] = IF session = NoOne THEN "checked"
                                               ELSE "answered"]
       \/ Fails /\ send' = [send EXCEPT ![s] = "checked"]
    /\ UNCHANGED <<manager, flow, channels, signs, outs, store, boot, listeners>>

\* authManager.start: the flow there was is cancelled, this one takes its place,
\* and its goroutine starts.
StartFlow(s) ==
    /\ send[s] = "checked"
    /\ send' = [send EXCEPT ![s] = "wait"]
    /\ cancelled' = cancelled \cup ({pending} \ {NoOne})
    /\ timer' = [f \in SendCodes |->
                    IF f = s THEN "armed"
                    ELSE IF f = pending /\ timer[f] = "armed" THEN "off" ELSE timer[f]]
    /\ pending' = s
    /\ FlowTo(s, "connect")
    /\ UNCHANGED <<channels, signs, outs, store, boot, listeners, faults>>

\* The handler takes the hash, or the empty string that means an error.
GetHash(s) ==
    /\ send[s] = "wait" /\ hash[s] # "none"
    /\ send' = [send EXCEPT ![s] = "answered"]
    /\ hash' = [hash EXCEPT ![s] = "none"]
    /\ UNCHANGED <<manager, flow, code, done, signs, outs, store, boot, listeners,
                   faults>>

------------------------------------------------------------------------------
(* The flow goroutine *)

\* client.Run returns.  An error is reported; the end of the context may be
\* taken for one or not.
RunReturns(s) ==
    \/ FlowTo(s, "failed")
    \/ s \in cancelled /\ FlowTo(s, "returned")

\* Mutant: the handler is not told that Telegram refused.
RequestCodeQuietly(s) ==
    /\ flow[s] = "connect"
    /\ \/ /\ s \notin cancelled
          /\ hash' = [hash EXCEPT ![s] = "hash"]
          /\ FlowTo(s, "code") /\ UNCHANGED faults
       \/ RunReturns(s) /\ UNCHANGED <<hash, faults>>
    /\ UNCHANGED <<manager, send, code, done, signs, outs, store, boot, listeners>>

\* Telegram sends the OTP, or refuses; without a connection client.Run never
\* gets that far, and no hash is delivered.
RequestCode(s) ==
    /\ flow[s] = "connect"
    /\ \/ /\ s \notin cancelled
          /\ hash' = [hash EXCEPT ![s] = "hash"]
          /\ FlowTo(s, "code") /\ UNCHANGED faults
       \/ /\ hash' = [hash EXCEPT ![s] = "empty"]
          /\ RunReturns(s) /\ UNCHANGED faults
       \/ /\ (s \in cancelled /\ Works) \/ Fails
          /\ RunReturns(s) /\ UNCHANGED hash
    /\ UNCHANGED <<manager, send, code, done, signs, outs, store, boot, listeners>>

\* Mutant: nothing but a code ends the wait.
TakeCodeOnly(s) ==
    /\ flow[s] = "code" /\ code[s] # NoOne
    /\ code' = [code EXCEPT ![s] = NoOne]
    /\ FlowTo(s, "signing")
    /\ UNCHANGED <<manager, hash, done, send, signs, outs, store, boot,
                   listeners, faults>>

\* The goroutine waits for a code or for the end of its context.
TakeCode(s) ==
    /\ flow[s] = "code"
    /\ \/ /\ code[s] # NoOne
          /\ code' = [code EXCEPT ![s] = NoOne]
          /\ FlowTo(s, "signing")
       \/ s \in cancelled /\ RunReturns(s) /\ UNCHANGED code
    /\ UNCHANGED <<manager, hash, done, send, signs, outs, store, boot, listeners,
                   faults>>

\* An error inside client.Run is posted, and then returned.
PostError(s) ==
    /\ done[s] = "none"
    /\ done' = [done EXCEPT ![s] = "error"]
    /\ RunReturns(s)

\* auth.signIn: Telegram takes the code or refuses it.
TelegramSignIn(s) ==
    /\ flow[s] = "signing"
    /\ \/ /\ s \notin cancelled
          /\ authorized' = authorized \cup {s}
          /\ FlowTo(s, "save") /\ UNCHANGED done
       \/ PostError(s) /\ UNCHANGED authorized
    /\ UNCHANGED <<manager, hash, code, send, signs, outs, session, saved, boot,
                   listeners, faults>>

\* Mutant: the error of the upsert is ignored.
SaveIgnoringError(s) ==
    /\ flow[s] = "save"
    /\ FlowTo(s, "post") /\ UNCHANGED done
    /\ \/ /\ s \notin cancelled /\ Works
          /\ session' = s /\ saved' = saved \cup {s}
       \/ /\ (s \in cancelled /\ Works) \/ Fails
          /\ UNCHANGED <<session, saved>>
    /\ UNCHANGED <<manager, hash, code, send, signs, outs, authorized, boot, listeners>>

\* The session is stored, replacing any other, before success is signalled; the
\* statement may fail, and may have been carried out all the same.
Save(s) ==
    /\ flow[s] = "save"
    /\ \/ /\ s \notin cancelled /\ Works
          /\ session' = s /\ saved' = saved \cup {s}
          /\ FlowTo(s, "post") /\ UNCHANGED done
       \/ /\ (s \in cancelled /\ Works) \/ Fails
          /\ PostError(s)
          /\ \/ UNCHANGED <<session, saved>>
             \/ session' = s /\ saved' = saved \cup {s}
    /\ UNCHANGED <<manager, hash, code, send, signs, outs, authorized, boot, listeners>>

\* Success is signalled, and client.Run returns nil.
PostSuccess(s) ==
    /\ flow[s] = "post" /\ done[s] = "none"
    /\ done' = [done EXCEPT ![s] = "ok"]
    /\ FlowTo(s, "returned")
    /\ UNCHANGED <<manager, hash, code, send, signs, outs, store, boot,
                   listeners, faults>>

\* An error of client.Run is posted if doneCh has room, and authManager.complete
\* removes whatever flow is pending for the user.
Finish(s) ==
    /\ flow[s] \in {"failed", "returned"}
    /\ FlowTo(s, "ended")
    /\ done' = IF flow[s] = "failed" /\ done[s] = "none"
               THEN [done EXCEPT ![s] = "error"] ELSE done
    /\ StopTimer(pending) /\ pending' = NoOne
    /\ UNCHANGED <<cancelled, hash, code, send, signs, outs, store, boot, listeners,
                   faults>>

\* The flow's own deadline, set just before the timer: it matters once complete
\* has stopped the timer of a flow that is still active.
Deadline(s) ==
    /\ Active(s) /\ timer[s] = "off" /\ s \notin cancelled
    /\ cancelled' = cancelled \cup {s}
    /\ UNCHANGED <<pending, timer, flow, channels, send, signs, outs, store, boot,
                   listeners, faults>>

\* The timer fires: it cancels its flow...
TimerCancels(s) ==
    /\ timer[s] = "armed"
    /\ timer' = [timer EXCEPT ![s] = "fired"]
    /\ cancelled' = cancelled \cup {s}
    /\ UNCHANGED <<pending, flow, channels, send, signs, outs, store, boot, listeners,
                   faults>>

\* ...and then removes the user's entry, whichever flow that is by now.
TimerDeletes(s) ==
    /\ timer[s] = "fired"
    /\ timer' = [timer EXCEPT ![s] = "off"]
    /\ pending' = NoOne
    /\ UNCHANGED <<cancelled, flow, channels, send, signs, outs, store, boot,
                   listeners, faults>>

------------------------------------------------------------------------------
(* Listeners *)

\* Mutant: the listener there was goes on.
StartOver(l) ==
    /\ users' = l
    /\ listener' = [listener EXCEPT ![l] = "run"]
    /\ UNCHANGED stopped

\* ListenerManager.Start: a listener there was is cancelled.
Start(l) ==
    /\ stopped' = stopped \cup ({users} \ {NoOne})
    /\ users' = l
    /\ listener' = [listener EXCEPT ![l] = "run"]

\* runListener: a cancelled listener returns; any other connects again for ever.
ListenerReturns(l) ==
    /\ listener[l] = "run" /\ l \in stopped
    /\ listener' = [listener EXCEPT ![l] = "ended"]
    /\ UNCHANGED <<manager, flow, channels, send, signs, outs, store, boot, stopped,
                   users, faults>>

------------------------------------------------------------------------------
(* The sign-in handler *)

\* authManager.get: without a pending flow there is nothing to sign in to.
Lookup(r) ==
    /\ sign[r] = "idle"
    /\ flowOf' = [flowOf EXCEPT ![r] = pending]
    /\ SignTo(r, IF pending = NoOne THEN "failed" ELSE "put")
    /\ UNCHANGED <<manager, flow, channels, send, outs, store, boot, listeners, faults>>

\* codeCh has room for one code.
PutCode(r) ==
    /\ sign[r] = "put" /\ code[flowOf[r]] = NoOne
    /\ code' = [code EXCEPT ![flowOf[r]] = r]
    /\ SignTo(r, "wait")
    /\ UNCHANGED <<manager, flow, hash, done, send, flowOf, outs, store, boot,
                   listeners, faults>>

\* Mutant: the handler answers and starts no listener.
GetResultOnly(r) ==
    LET s == flowOf[r] IN
    /\ sign[r] = "wait" /\ done[s] # "none"
    /\ done' = [done EXCEPT ![s] = "none"]
    /\ SignTo(r, IF done[s] = "ok" THEN "ok" ELSE "failed")
    /\ UNCHANGED <<manager, flow, hash, code, send, flowOf, outs, store, boot,
                   listeners, faults>>

\* Mutant: the handler goes on with whatever was posted.
GetResultAsPosted(r) ==
    LET s == flowOf[r] IN
    /\ sign[r] = "wait" /\ done[s] # "none"
    /\ done' = [done EXCEPT ![s] = "none"]
    /\ SignTo(r, IF done[s] = "ok" THEN "start" ELSE done[s])
    /\ UNCHANGED <<manager, flow, hash, code, send, flowOf, outs, store, boot,
                   listeners, faults>>

\* One result of the flow is taken from doneCh: success starts a listener.
GetResult(r) ==
    LET s == flowOf[r] IN
    /\ sign[r] = "wait" /\ done[s] # "none"
    /\ done' = [done EXCEPT ![s] = "none"]
    /\ SignTo(r, IF done[s] = "ok" THEN "start" ELSE "failed")
    /\ UNCHANGED <<manager, flow, hash, code, send, flowOf, outs, store, boot,
                   listeners, faults>>

\* The listener is started before the handler answers.
StartListener(r) ==
    /\ sign[r] = "start"
    /\ Start(r)
    /\ SignTo(r, "ok")
    /\ UNCHANGED <<manager, flow, channels, send, flowOf, outs, store, boot, faults>>

------------------------------------------------------------------------------
(* The sign-out handler *)

\* ListenerManager.Stop comes first.
StopListener(o) ==
    /\ out[o] = "idle"
    /\ stopped' = stopped \cup ({users} \ {NoOne})
    /\ users' = NoOne
    /\ OutTo(o, "load")
    /\ UNCHANGED <<manager, flow, channels, send, signs, loaded, store, boot, listener,
                   faults>>

\* A session that cannot be loaded is not logged out, but revoked below.
LoadSession(o) ==
    /\ out[o] = "load"
    /\ \/ /\ Works
          /\ loaded' = [loaded EXCEPT ![o] = session]
          /\ OutTo(o, IF session = NoOne THEN "revoke" ELSE "logout")
       \/ Fails /\ OutTo(o, "revoke") /\ UNCHANGED loaded
    /\ UNCHANGED <<manager, flow, channels, send, signs, store, boot, listeners>>

\* Mutant: the row is revoked only after an error.
LogOutOnly(o) ==
    /\ out[o] = "logout"
    /\ \/ /\ loaded[o] \in authorized
          /\ authorized' = authorized \ {loaded[o]}
          /\ OutTo(o, "done")
       \/ UNCHANGED authorized /\ OutTo(o, "revoke")
    /\ UNCHANGED <<manager, flow, channels, send, signs, loaded, session, saved, boot,
                   listeners, faults>>

\* auth.logOut with the session that was loaded; its error changes nothing.
LogOut(o) ==
    /\ out[o] = "logout"
    /\ \/ authorized' = authorized \ {loaded[o]}
       \/ UNCHANGED authorized
    /\ OutTo(o, "revoke")
    /\ UNCHANGED <<manager, flow, channels, send, signs, loaded, session, saved, boot,
                   listeners, faults>>

\* Whatever session is stored by now is revoked; an error is ignored.
Revoke(o) ==
    /\ out[o] = "revoke"
    /\ \/ Works /\ session' = NoOne
       \/ Fails /\ UNCHANGED session
    /\ OutTo(o, "done")
    /\ UNCHANGED <<manager, flow, channels, send, signs, loaded, authorized, saved,
                   boot, listeners>>

------------------------------------------------------------------------------
(* Restarts *)

Kill(f, D, idle, l) == [x \in D |-> IF f[x] \in idle THEN f[x] ELSE l]

\* The process dies with every handler, flow and listener; the row stays.
Restart(b) ==
    /\ boot[b] = "idle"
    /\ boot' = [x \in Boots |-> IF x = b THEN "query"
                                ELSE IF boot[x] = "idle" THEN "idle" ELSE "done"]
    /\ pending' = NoOne /\ users' = NoOne
    /\ timer' = [s \in SendCodes |-> "off"]
    /\ send' = Kill(send, SendCodes, {"idle"}, "answered")
    /\ flow' = Kill(flow, SendCodes, {"none"}, "ended")
    /\ sign' = Kill(sign, SignIns, {"idle", "ok"}, "failed")
    /\ out' = [o \in SignOuts |-> IF out[o] \in {"idle", "killed"} THEN out[o]
                                  ELSE IF out[o] = "revoke" THEN "killed" ELSE "done"]
    /\ listener' = Kill(listener, Listeners, {"none"}, "ended")
    /\ UNCHANGED <<cancelled, channels, flowOf, loaded, store, stopped, faults>>

\* StartAll, while requests are served: the sessions are queried...
QuerySessions(b) ==
    /\ boot[b] = "query"
    /\ \/ Works /\ boot' = [boot EXCEPT ![b] = IF session = NoOne THEN "done" ELSE "start"]
       \/ Fails /\ boot' = [boot EXCEPT ![b] = "done"]
    /\ UNCHANGED <<manager, flow, channels, send, signs, outs, store, listeners>>

\* ...and a listener is started for each.
StartAll(b) ==
    /\ boot[b] = "start"
    /\ boot' = [boot EXCEPT ![b] = "done"]
    /\ Start(b)
    /\ UNCHANGED <<manager, flow, channels, send, signs, outs, store, faults>>

------------------------------------------------------------------------------

FlowStep(s) ==
    \/ RequestCode(s) \/ TakeCode(s) \/ TelegramSignIn(s) \/ Save(s)
    \/ PostSuccess(s) \/ Finish(s)

SendCodeStep(s) == StartFlow(s) \/ GetHash(s)
SignInStep(r)   == PutCode(r) \/ GetResult(r) \/ StartListener(r)
SignOutStep(o)  == LoadSession(o) \/ LogOut(o) \/ Revoke(o)
BootStep(b)     == QuerySessions(b) \/ StartAll(b)
TimerStep(s)    == TimerCancels(s) \/ TimerDeletes(s)

Next ==
    \/ \E s \in SendCodes :
          \/ CheckSession(s) \/ SendCodeStep(s) \/ FlowStep(s)
          \/ Deadline(s) \/ TimerStep(s)
    \/ \E r \in SignIns : Lookup(r) \/ SignInStep(r)
    \/ \E o \in SignOuts : StopListener(o) \/ SignOutStep(o)
    \/ \E b \in Boots : Restart(b) \/ BootStep(b)
    \/ \E l \in Listeners : ListenerReturns(l)

Spec == Init /\ [][Next]_vars

\* Every goroutine and handler runs, calls of Telegram and of the database
\* return, and deadlines and timers pass.
Fairness ==
    /\ \A s \in SendCodes :
          /\ WF_vars(SendCodeStep(s)) /\ WF_vars(FlowStep(s))
          /\ WF_vars(Deadline(s)) /\ WF_vars(TimerStep(s))
    /\ \A r \in SignIns : WF_vars(SignInStep(r))
    /\ \A o \in SignOuts : WF_vars(SignOutStep(o))
    /\ \A b \in Boots : WF_vars(BootStep(b))

------------------------------------------------------------------------------
(* Properties *)

\* Every variable stays within its type.
TypeOK ==
    /\ pending \in SendCodes \cup {NoOne}
    /\ timer \in [SendCodes -> {"off", "armed", "fired"}]
    /\ cancelled \subseteq SendCodes
    /\ send \in [SendCodes -> {"idle", "checked", "wait", "answered"}]
    /\ hash \in [SendCodes -> {"none", "hash", "empty"}]
    /\ flow \in [SendCodes -> {"none", "connect", "code", "signing", "save", "post",
                               "failed", "returned", "ended"}]
    /\ code \in [SendCodes -> SignIns \cup {NoOne}]
    /\ done \in [SendCodes -> {"none", "ok", "error"}]
    /\ sign \in [SignIns -> {"idle", "put", "wait", "start", "ok", "failed"}]
    /\ flowOf \in [SignIns -> SendCodes \cup {NoOne}]
    /\ out \in [SignOuts -> {"idle", "load", "logout", "revoke", "killed", "done"}]
    /\ loaded \in [SignOuts -> SendCodes \cup {NoOne}]
    /\ session \in SendCodes \cup {NoOne}
    /\ authorized \subseteq SendCodes /\ saved \subseteq SendCodes
    /\ boot \in [Boots -> {"idle", "query", "start", "done"}]
    /\ listener \in [Listeners -> {"none", "run", "ended"}]
    /\ stopped \subseteq Listeners
    /\ users \in Listeners \cup {NoOne}
    /\ faults \in BOOLEAN

\* "Persist the encrypted session before signalling success": a sign-in that was
\* told of success holds a flow whose session was stored, and no two sign-ins
\* were told of the same one, although requests, flows and a stale doneCh
\* overlap.
SuccessWasSaved ==
    \A r \in SignIns : sign[r] \in {"start", "ok"} =>
        /\ flowOf[r] \in saved
        /\ \A q \in SignIns \ {r} :
              sign[q] \in {"start", "ok"} => flowOf[q] # flowOf[r]

\* The registry reaches every listener that runs and was not cancelled, so that
\* a sign-out or the next sign-in can stop it.
LiveListenerRegistered ==
    \A l \in Listeners : listener[l] = "run" /\ l \notin stopped => users = l

\* The stored session is one Telegram accepts, unless a sign-out has logged it
\* out and is about to revoke it, or died before, or a call failed: a stale
\* session would make SendCode answer ErrAlreadyAuthed for good.
StoredIsAuthorized ==
    \/ faults \/ session = NoOne \/ session \in authorized
    \/ \E o \in SignOuts : out[o] \in {"revoke", "killed"}

\* No flow goroutine stays: its channels never block it and its context ends.
EveryFlowEnds == \A s \in SendCodes : Active(s) ~> flow[s] = "ended"

\* A send-code request is answered, unless its flow was cancelled or timed out, or
\* a call failed; and so is a sign-in, unless another one looked up the same flow:
\* one result is posted for both. The handlers wait without a deadline.
RequestsAnswered ==
    /\ \A s \in SendCodes :
          send[s] = "wait" ~> send[s] # "wait" \/ s \in cancelled \/ faults
    /\ \A r \in SignIns :
          sign[r] = "wait" ~>
              \/ sign[r] # "wait" \/ flowOf[r] \in cancelled
              \/ \E q \in SignIns \ {r} : flowOf[q] = flowOf[r]

------------------------------------------------------------------------------
(* The inductive invariant behind the safety properties *)

Told(r) == sign[r] \in {"start", "ok"}

\* A flow starts once, and a sign-in that goes on has found one.
FlowsKnown ==
    /\ \A s \in SendCodes : send[s] \in {"idle", "checked"} => flow[s] = "none"
    /\ \A r \in SignIns : sign[r] \in {"put", "wait"} => flowOf[r] \in SendCodes

\* Where the one success of a flow is: still to be posted, in doneCh, or told.
SuccessKnown ==
    /\ \A s \in SendCodes :
          /\ flow[s] = "post" => s \in saved
          /\ done[s] = "ok" => s \in saved /\ flow[s] \in {"returned", "ended"}
    /\ \A r \in SignIns : Told(r) =>
          /\ flowOf[r] \in SendCodes
          /\ flow[flowOf[r]] \in {"returned", "ended"}
          /\ done[flowOf[r]] # "ok"

\* A session is authorized before it is stored, and stored before a sign-out can
\* load it.
SessionsKnown ==
    /\ session \in saved \cup {NoOne}
    /\ \A o \in SignOuts : loaded[o] \in saved \cup {NoOne}
    /\ \A s \in SendCodes : flow[s] = "save" => s \in authorized
    /\ \A s \in saved : flow[s] \in {"post", "failed", "returned", "ended"}

IInv ==
    /\ TypeOK /\ FlowsKnown /\ SuccessKnown /\ SuccessWasSaved
    /\ LiveListenerRegistered /\ SessionsKnown /\ StoredIsAuthorized

------------------------------------------------------------------------------
(* What a comment promises and the code does not keep *)

\* "complete removes and cleans up the pending flow after sign-in succeeds or
\* fails": a flow that waits for its code stays pending until then.
PendingUntilDone ==
    \A s \in SendCodes : flow[s] = "code" /\ s \notin cancelled => pending = s
=============================================================================
