------------------------------- MODULE Telegram -------------------------------
(***************************************************************************)
(* The Telegram side of social-service: the sign-in of MtprotoAuth with    *)
(* the connections of its listeners, the direct messages (DMs) that come   *)
(* in through them and the replies that go out (listener.go and            *)
(* tg_userbot.go), for one user with one Telegram account; and beside it   *)
(* the channels of TelegramChannels.                                       *)
(*                                                                         *)
(* A DM is handled by a goroutine for each connection that receives it.    *)
(* The ready channel of a listener is closed when it is connected, and     *)
(* replaced, with the API, when it connects again.                         *)
(***************************************************************************)
EXTENDS MtprotoAuth, TelegramChannels, Naturals

CONSTANT DMs      \* messages that people send to the account

\* Each connection handles a message it receives.
Handlers == DMs \X Listeners

\* A row of telegram_dm_messages: tg_message_id, the decision of llm-service,
\* reply_sent_at and reply_error.
Row == [id : Nat, mode : {"none", "auto_reply", "other"}, sent : BOOLEAN, error : BOOLEAN]

ASSUME DMAssumption == NoOne \notin Row

VARIABLES
    link,     \* the connection of each listener: its ready channel and API
    with,     \* the session it connected with
    dm,       \* where each handler of a DM is
    inbox,    \* the row of telegram_dm_messages that each handler inserted
    replied   \* the handlers whose reply Telegram delivered

dmVars == <<link, with, dm, inbox, replied>>

Places == {"none", "insert", "llm", "decided", "find", "ready", "wait", "api", "send", "sent",
           "failed", "done"}

\* ready is the channel a handler waits on, on the listener it belongs to: open,
\* closed, or replaced while it was open. live tells a client that is connected.
Handling == [pc : Places, mode : {"none", "auto_reply", "other"}, on : Listeners \cup {NoOne},
             ready : {"open", "closed", "replaced"}, live : BOOLEAN]
Unhandled == [pc |-> "none", mode |-> "none", on |-> NoOne, ready |-> "open", live |-> FALSE]

DMTypeOK ==
    /\ link \in [Listeners -> {"down", "dial", "up", "lost"}]
    /\ with \in [Listeners -> SendCodes \cup {NoOne}]
    /\ dm \in [Handlers -> Handling]
    /\ inbox \in [Handlers -> Row \cup {NoOne}]
    /\ replied \subseteq Handlers

DMInit ==
    /\ link = [l \in Listeners |-> "down"]
    /\ with = [l \in Listeners |-> NoOne]
    /\ dm = [h \in Handlers |-> Unhandled]
    /\ inbox = [h \in Handlers |-> NoOne]
    /\ replied = {}

DMTo(h, pc) == dm' = [dm EXCEPT ![h].pc = pc]
Ended == [Unhandled EXCEPT !.pc = "done"]
Ends(h) == dm' = [dm EXCEPT ![h] = Ended]

\* What becomes of the ready channels and clients that handlers hold of l.
Held(l, was, now) ==
    [h \in Handlers |-> IF dm[h].on = l /\ dm[h].ready = was THEN [dm[h] EXCEPT !.ready = now] ELSE dm[h]]
Cut(l) ==
    [h \in Handlers |-> IF dm[h].on = l THEN [dm[h] EXCEPT !.live = FALSE] ELSE dm[h]]

-----------------------------------------------------------------------------
(* The connection of a listener: connectOnce, again and again. *)

\* Without a session it tries again for ever.
Dial(l) ==
    /\ listener[l] = "run" /\ l \notin stopped
    /\ link[l] \in {"down", "lost"}
    /\ session # NoOne
    /\ link' = [link EXCEPT ![l] = "dial"]
    /\ with' = [with EXCEPT ![l] = session]
    /\ dm' = Held(l, "open", "replaced")
    /\ UNCHANGED <<inbox, replied>>

\* Telegram knows the session, and the ready channel is closed.
Connected(l) ==
    /\ listener[l] = "run" /\ link[l] = "dial"
    /\ with[l] \in authorized
    /\ link' = [link EXCEPT ![l] = "up"]
    /\ dm' = Held(l, "open", "closed")
    /\ UNCHANGED <<with, inbox, replied>>

\* It does not, or cannot be reached: ErrNoSession is an error like others.
Refused(l) ==
    /\ listener[l] = "run" /\ link[l] = "dial"
    /\ with[l] \notin authorized \/ MayFail
    /\ link' = [link EXCEPT ![l] = "down"]
    /\ UNCHANGED <<with, dm, inbox, replied>>

\* The client ends; ready stays closed until the next attempt.
Disconnected(l) ==
    /\ MayFail /\ listener[l] = "run" /\ link[l] = "up"
    /\ link' = [link EXCEPT ![l] = "lost"]
    /\ dm' = Cut(l)
    /\ UNCHANGED <<with, inbox, replied>>

Connect(l) == Dial(l) \/ Connected(l)

-----------------------------------------------------------------------------
(* HandleDM. *)

\* External: Telegram delivers a message to the connections it has; a cancelled
\* listener that has not returned may be one of them.
onNewMessage(d) ==
    /\ \A l \in Listeners : dm[<<d, l>>].pc = "none"
    /\ \E L \in SUBSET {l \in Listeners : listener[l] = "run" /\ link[l] = "up" /\ with[l] \in authorized} :
         /\ L # {}
         /\ dm' = [h \in Handlers |-> IF h[1] = d /\ h[2] \in L THEN [dm[h] EXCEPT !.pc = "insert"] ELSE dm[h]]
    /\ UNCHANGED <<link, with, inbox, replied>>

Stored(h) == inbox[h] # NoOne

\* The id that the INSERT writes for a message: the handler is not told it.
tgMessageID(d) == 0

\* UNIQUE(workspace_id, tg_message_id).
Conflicts(d) == \E g \in Handlers : Stored(g) /\ inbox[g].id = tgMessageID(d)

Inserts(h) ==
    inbox' = [inbox EXCEPT ![h] =
                 [id |-> tgMessageID(h[1]), mode |-> "none", sent |-> FALSE, error |-> FALSE]]

\* Mutant: a duplicate is handled as well.
PersistInboundMutant(h) ==
    /\ dm[h].pc = "insert"
    /\ IF Conflicts(h[1]) THEN UNCHANGED inbox ELSE Inserts(h)
    /\ DMTo(h, "llm")
    /\ UNCHANGED <<link, with, replied>>

\* A message that conflicts inserts no row, and counts as processed. The answer
\* to an INSERT may be lost.
PersistInbound(h) ==
    /\ dm[h].pc = "insert"
    /\ \/ /\ ~Conflicts(h[1])
          /\ Inserts(h)
          /\ DMTo(h, "llm") \/ (MayFail /\ Ends(h))
       \/ /\ Conflicts(h[1]) \/ MayFail
          /\ Ends(h) /\ UNCHANGED inbox
    /\ UNCHANGED <<link, with, replied>>

\* llm-service decides, or fails. other is a mode that sends nothing, or no text.
ProcessVKMessage(h) ==
    /\ dm[h].pc = "llm"
    /\ \/ \E mode \in {"auto_reply", "other"} :
             dm' = [dm EXCEPT ![h].pc = "decided", ![h].mode = mode]
       \/ MayFail /\ DMTo(h, "failed")
    /\ UNCHANGED <<link, with, inbox, replied>>

\* The UPDATE names the row of this handler, and its error is ignored.
Update(h, row) ==
    \/ Stored(h) /\ inbox' = [inbox EXCEPT ![h] = row]
    \/ (MayFail \/ ~Stored(h)) /\ UNCHANGED inbox

UpdateDecision(h) ==
    /\ dm[h].pc = "decided"
    /\ Update(h, [inbox[h] EXCEPT !.mode = dm[h].mode])
    /\ IF dm[h].mode = "auto_reply" THEN DMTo(h, "find") ELSE Ends(h)
    /\ UNCHANGED <<link, with, replied>>

\* SendDM: the listener that is registered now,
FindListener(h) ==
    /\ dm[h].pc = "find"
    /\ dm' = [dm EXCEPT ![h].pc = IF users = NoOne THEN "failed" ELSE "ready", ![h].on = users]
    /\ UNCHANGED <<link, with, inbox, replied>>

\* the channel it has when the select is reached, read without its lock,
ReadReady(h) ==
    /\ dm[h].pc = "ready"
    /\ dm' = [dm EXCEPT ![h].pc = "wait",
          ![h].ready = IF link[dm[h].on] \in {"up", "lost"} THEN "closed" ELSE "open"]
    /\ UNCHANGED <<link, with, inbox, replied>>

\* waited for, for fifteen seconds at most,
WaitReady(h) ==
    /\ dm[h].pc = "wait"
    /\ (dm[h].ready = "closed" /\ DMTo(h, "api")) \/ DMTo(h, "failed")
    /\ UNCHANGED <<link, with, inbox, replied>>

\* and the API it has by then, if any.
ReadAPI(h) ==
    /\ dm[h].pc = "api"
    /\ LET l == dm[h].on
       IN  dm' = [dm EXCEPT ![h].pc = IF link[l] \in {"up", "lost"} THEN "send" ELSE "failed",
                            ![h].live = link[l] = "up"]
    /\ UNCHANGED <<link, with, inbox, replied>>

\* External: Telegram takes the reply while the client is connected. Its answer
\* may be lost.
SendText(h) ==
    /\ dm[h].pc = "send"
    /\ \/ /\ dm[h].live /\ with[dm[h].on] \in authorized
          /\ replied' = replied \cup {h}
          /\ DMTo(h, "sent") \/ (MayFail /\ DMTo(h, "failed"))
       \/ /\ ~dm[h].live \/ with[dm[h].on] \notin authorized \/ MayFail
          /\ DMTo(h, "failed") /\ UNCHANGED replied
    /\ UNCHANGED <<link, with, inbox>>

MarkReplySent(h) ==
    /\ dm[h].pc = "sent"
    /\ Update(h, [inbox[h] EXCEPT !.sent = TRUE])
    /\ Ends(h)
    /\ UNCHANGED <<link, with, replied>>

UpdateError(h) ==
    /\ dm[h].pc = "failed"
    /\ Update(h, [inbox[h] EXCEPT !.error = TRUE])
    /\ Ends(h)
    /\ UNCHANGED <<link, with, replied>>

HandleDM(h) ==
    \/ PersistInbound(h) \/ ProcessVKMessage(h) \/ UpdateDecision(h)
    \/ FindListener(h) \/ ReadReady(h) \/ WaitReady(h) \/ ReadAPI(h) \/ SendText(h)
    \/ MarkReplySent(h) \/ UpdateError(h)

DMNext ==
    \/ \E l \in Listeners : Connect(l) \/ Refused(l) \/ Disconnected(l)
    \/ \E d \in DMs : onNewMessage(d)
    \/ \E h \in Handlers : HandleDM(h)

-----------------------------------------------------------------------------
(* What the steps of MtprotoAuth do to connections and handlers. *)

\* The client of a listener that returns is closed; its ready channel stays.
ListenerEnds(l) ==
    /\ ListenerReturns(l)
    /\ link' = [link EXCEPT ![l] = IF @ = "up" THEN "lost" ELSE IF @ = "dial" THEN "down" ELSE @]
    /\ dm' = Cut(l)
    /\ UNCHANGED <<with, inbox, replied>>

\* A restart ends the connections and the handlers; the rows stay.
ProcessDies(b) ==
    /\ Restart(b)
    /\ link' = [l \in Listeners |-> "down"]
    /\ dm' = [h \in Handlers |-> IF dm[h].pc = "none" THEN Unhandled ELSE Ended]
    /\ UNCHANGED <<with, inbox, replied>>

TelegramTypeOK == TypeOK /\ DMTypeOK /\ ChannelsTypeOK

TelegramInit == Init /\ DMInit /\ ChannelsInit

tvars == <<vars, dmVars, channelVars>>

TelegramNext ==
    \/ /\ \/ \E s \in SendCodes :
                CheckSession(s) \/ SendCodeStep(s) \/ FlowStep(s) \/ Deadline(s) \/ TimerStep(s)
          \/ \E r \in SignIns : Lookup(r) \/ SignInStep(r)
          \/ \E o \in SignOuts : StopListener(o) \/ SignOutStep(o)
          \/ \E b \in Boots : BootStep(b)
       /\ UNCHANGED <<dmVars, channelVars>>
    \/ \E l \in Listeners : ListenerEnds(l) /\ UNCHANGED channelVars
    \/ \E b \in Boots : ProcessDies(b) /\ UNCHANGED channelVars
    \/ DMNext /\ UNCHANGED <<vars, channelVars>>
    \/ ChannelsNext /\ UNCHANGED <<vars, dmVars>>

TelegramSpec == TelegramInit /\ [][TelegramNext]_tvars

\* As in MtprotoAuth, and a listener connects when Telegram can be reached.
TelegramFairSpec ==
    /\ TelegramSpec
    /\ Fairness
    /\ \A l \in Listeners : WF_dmVars(Connect(l))

-----------------------------------------------------------------------------
(* Properties. *)

\* A message that two connections receive, an old listener's and its successor's,
\* gets one reply at most, whichever listener is registered by then; a reply has
\* its row, and a row that says sent stands for a reply that Telegram delivered.
RepliesAreRecorded ==
    /\ \A h, g \in replied : h[1] = g[1] => h = g
    /\ \A h \in replied : Stored(h)
    /\ \A h \in Handlers : Stored(h) /\ inbox[h].sent => h \in replied /\ ~inbox[h].error

\* "one row per inbound DM from a lead": a message whose handlers have all ended
\* has a row, when no call fails and the process stays up.
EveryDMIsStored ==
    \A d \in DMs :
        LET handling == {l \in Listeners : dm[<<d, l>>].pc # "none"}
        IN  handling # {} /\ (\A l \in handling : dm[<<d, l>>].pc = "done") =>
                \E l \in handling : Stored(<<d, l>>)

\* A stored session gets a listener that is connected, from its sign-in or from
\* StartAll after a restart, or is replaced or revoked, unless its flow was
\* cancelled while it was being stored or a call failed.
StoredIsConnected ==
    \A s \in SendCodes :
        session = s ~>
            \/ session # s \/ s \in cancelled \/ faults
            \/ \E l \in Listeners : listener[l] = "run" /\ l \notin stopped /\ link[l] = "up"
=============================================================================
