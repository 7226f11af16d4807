----------------------------- MODULE MCVKService -----------------------------
(***************************************************************************)
(* Instances of the VK side of social-service: the workers of VKWorkers,   *)
(* which poll the messages, and the pipeline of VKReply, which answers     *)
(* them. Each module leaves to chance what the other one does: messages,   *)
(* restarts and disconnects come to VKReply at any time, and VKWorkers     *)
(* only counts the pipelines it starts.                                    *)
(***************************************************************************)
EXTENDS VKReply, VKWorkers, FiniteSets, TLC

CONSTANTS m1, r1, r2

OneMessage  == {m1}
OneRequest  == {r1}
TwoRequests == {r1, r2}

\* The message asks for the opening hours, which may be answered automatically.
IntentOne == m1 :> "hours"

\* What the owner saves: auto-reply for the default intents (the empty list);
\* everything off.
AutoOn  == [draftFirst |-> TRUE, autoReply |-> TRUE, safe |-> {}]
AllOff  == [draftFirst |-> FALSE, autoReply |-> FALSE, safe |-> {}]

OnOrOff == {AutoOn, AllOff}

RequestSymmetry == Permutations(Requests)

\* Bound: an instance is about replies or about workers; the other side has not
\* begun.
ServiceInit == Init /\ WorkersInit

ServiceNext ==
    \/ WorkersInit /\ Next /\ UNCHANGED workersVars
    \/ Init /\ WorkersNext /\ UNCHANGED vars

\* Bound: a disconnect meets two workers at most, of two connects or of a connect
\* and a restart.
Instance ==
    (\E d \in Disconnects : step[d] # "idle") =>
        Cardinality({w \in Workers : st[w] # "none"}) <= 2

ServiceSpec == ServiceInit /\ [][ServiceNext]_<<vars, workersVars>>

\* As in VKReply and VKWorkers.
ServiceFairSpec ==
    /\ ServiceSpec
    /\ \A p \in Procs : WF_vars(ProcStep(p))
    /\ \A w \in Workers : WF_workersVars(WorkerStep(w))
=============================================================================
