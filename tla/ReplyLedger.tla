----------------------------- MODULE ReplyLedger -----------------------------
(***************************************************************************)
(* What the VK reply pipeline of social-service promises, without a word   *)
(* about how: a ledger of inbound messages, of the replies VK accepted for *)
(* them, of the reply each message's draft claims was sent, and of the     *)
(* messages a person approved a reply to.  VKReply is shown to implement   *)
(* it.                                                                     *)
(***************************************************************************)
CONSTANTS Messages,   \* inbound messages
          Requests,   \* API calls, the only senders a person stands behind
          NoOne       \* "no reply claimed"

Senders == Messages \cup Requests

VARIABLES inbox,      \* the messages stored so far
          replies,    \* <<message, sender>> pairs VK accepted
          claim,      \* the sender whose reply the draft of a message names
          approved    \* the messages a reply was approved for

ledger == <<inbox, replies, claim, approved>>

Init ==
    /\ inbox = {}
    /\ replies = {}
    /\ claim = [m \in Messages |-> NoOne]
    /\ approved = {}

Arrive(m) ==
    /\ inbox' = inbox \cup {m}
    /\ UNCHANGED <<replies, claim, approved>>

\* A sender replies at most once, and to a message that did arrive.
Reply(m, s) ==
    /\ m \in inbox
    /\ \A n \in Messages : <<n, s>> \notin replies
    /\ replies' = replies \cup {<<m, s>>}
    /\ UNCHANGED <<inbox, claim, approved>>

\* The draft of a message is written: it claims nothing, or a reply that
\* was made to this very message.
Show(m, c) ==
    /\ c = NoOne \/ <<m, c>> \in replies
    /\ claim' = [claim EXCEPT ![m] = c]
    /\ UNCHANGED <<inbox, replies, approved>>

\* A person's approval is recorded, after the reply it stands for.
Approve(m, r) ==
    /\ <<m, r>> \in replies
    /\ claim' = [claim EXCEPT ![m] = r]
    /\ approved' = approved \cup {m}
    /\ UNCHANGED <<inbox, replies>>

Next ==
    \/ \E m \in Messages : Arrive(m)
    \/ \E m \in Messages, s \in Senders : Reply(m, s)
    \/ \E m \in Messages, c \in Senders \cup {NoOne} : Show(m, c)
    \/ \E m \in Messages, r \in Requests : Approve(m, r)

Spec == Init /\ [][Next]_ledger
=============================================================================
