------------------------------ MODULE MCTelegram ------------------------------
(***************************************************************************)
(* Instances of Telegram: sign-ins that overlap (two send-codes or two     *)
(* sign-ins, not both, when a call fails); or one sign-in, a restart and   *)
(* direct messages; or the channels of one owner.                          *)
(***************************************************************************)
EXTENDS Telegram, TLC

\* Bounds.
NoChannels == /\ \A k \in Connects : connect[k].pc = "idle"
              /\ \A d \in Leaves : leave[d].pc = "idle"
              /\ \A h \in Hooks : hook[h].pc = "idle"
OneSendCode == \A s, f \in SendCodes : send[s] # "idle" /\ send[f] # "idle" => s = f
OneSignIn == \A r, q \in SignIns : sign[r] # "idle" /\ sign[q] # "idle" => r = q
Signing == /\ \A l \in Listeners : link[l] = "down"
           /\ \A b \in Boots : boot[b] = "idle"
           /\ faults => OneSendCode \/ OneSignIn
Arrived == {d \in DMs : \E l \in Listeners : dm[<<d, l>>].pc # "none"}
TwoArrived == \E d, e \in Arrived : d # e
Talking == /\ OneSendCode /\ OneSignIn
           /\ cancelled = {} /\ ~faults
           /\ (\E l \in Listeners : link[l] # "down") =>
                 \A s \in SendCodes : flow[s] \in {"none", "ended"} /\ timer[s] = "off"
           /\ TwoArrived =>
                 /\ \A l, k \in Listeners : link[l] # "down" /\ link[k] # "down" => l = k
                 /\ \A o \in SignOuts : out[o] = "idle"
SignedOut == /\ \A s \in SendCodes : send[s] = "idle"
             /\ \A r \in SignIns : sign[r] = "idle"
             /\ \A o \in SignOuts : out[o] = "idle"
             /\ \A b \in Boots : boot[b] = "idle"

Instance == (NoChannels /\ (Signing \/ Talking)) \/ SignedOut

Symmetry == Permutations(SendCodes) \cup Permutations(SignIns) \cup Permutations(DMs)
=============================================================================
