---------------------------- MODULE TelegramProofs ----------------------------
(***************************************************************************)
(* Proofs about MtprotoAuth, for any number of requests and restarts,      *)
(* whichever flows are cancelled and whatever fails, and about Telegram,   *)
(* for any number of requests, messages, owners and channels: the sign-in  *)
(* with its connections is a sign-in of MtprotoAuth, every reply has its   *)
(* row, and posts are kept of connected channels only.                     *)
(***************************************************************************)
EXTENDS Telegram, TLAPS

------------------------------------------------------------------------------
(* Each part of the inductive invariant is preserved by every step *)

\* Every step keeps every variable within its type.
LEMMA TypeStep ==
    TypeOK /\ FlowsKnown /\ [Next]_vars => TypeOK'
<1> SUFFICES ASSUME TypeOK, FlowsKnown, [Next]_vars PROVE TypeOK'
  OBVIOUS
<1> USE Disjoint, SwitchType DEF TypeOK, Listeners, FlowsKnown
<1> USE DEF manager, channels, signs, outs, store, listeners
<1>1. ASSUME NEW s \in SendCodes, CheckSession(s) PROVE TypeOK'
  BY <1>1 DEF CheckSession, Works, Fails
<1>2. ASSUME NEW s \in SendCodes, StartFlow(s) PROVE TypeOK'
  BY <1>2 DEF StartFlow, FlowTo
<1>3. ASSUME NEW s \in SendCodes, GetHash(s) PROVE TypeOK'
  BY <1>3 DEF GetHash
<1>4. ASSUME NEW s \in SendCodes, RequestCode(s) PROVE TypeOK'
  <2>1. faults' \in BOOLEAN
    BY <1>4 DEF RequestCode, Works, Fails
  <2>2. flow' \in [SendCodes -> {"none", "connect", "code", "signing", "save", "post",
                              "failed", "returned", "ended"}]
    BY <1>4 DEF RequestCode, RunReturns, FlowTo
  <2>3. hash' \in [SendCodes -> {"none", "hash", "empty"}]
    BY <1>4 DEF RequestCode
  <2>4. QED
    BY <1>4, <2>1, <2>2, <2>3 DEF RequestCode
<1>5. ASSUME NEW s \in SendCodes, TakeCode(s) PROVE TypeOK'
  BY <1>5 DEF TakeCode, RunReturns, FlowTo
<1>6. ASSUME NEW s \in SendCodes, TelegramSignIn(s) PROVE TypeOK'
  BY <1>6 DEF TelegramSignIn, PostError, RunReturns, FlowTo
<1>7. ASSUME NEW s \in SendCodes, Save(s) PROVE TypeOK'
  <2>1. faults' \in BOOLEAN
    BY <1>7 DEF Save, Works, Fails
  <2>2. flow' \in [SendCodes -> {"none", "connect", "code", "signing", "save", "post",
                              "failed", "returned", "ended"}]
    BY <1>7 DEF Save, PostError, RunReturns, FlowTo
  <2>3. done' \in [SendCodes -> {"none", "ok", "error"}]
    BY <1>7 DEF Save, PostError
  <2>4. session' \in SendCodes \cup {NoOne} /\ saved' \subseteq SendCodes
    BY <1>7 DEF Save
  <2>5. QED
    BY <1>7, <2>1, <2>2, <2>3, <2>4 DEF Save
<1>8. ASSUME NEW s \in SendCodes, PostSuccess(s) PROVE TypeOK'
  BY <1>8 DEF PostSuccess, FlowTo
<1>9. ASSUME NEW s \in SendCodes, Finish(s) PROVE TypeOK'
  BY <1>9 DEF Finish, FlowTo, StopTimer
<1>10. ASSUME NEW s \in SendCodes, Deadline(s) PROVE TypeOK'
  BY <1>10 DEF Deadline
<1>11. ASSUME NEW s \in SendCodes, TimerCancels(s) PROVE TypeOK'
  BY <1>11 DEF TimerCancels
<1>12. ASSUME NEW s \in SendCodes, TimerDeletes(s) PROVE TypeOK'
  BY <1>12 DEF TimerDeletes
<1>13. ASSUME NEW r \in SignIns, Lookup(r) PROVE TypeOK'
  BY <1>13 DEF Lookup, SignTo
<1>14. ASSUME NEW r \in SignIns, PutCode(r) PROVE TypeOK'
  BY <1>14 DEF PutCode, SignTo
<1>15. ASSUME NEW r \in SignIns, GetResult(r) PROVE TypeOK'
  BY <1>15 DEF GetResult, SignTo
<1>16. ASSUME NEW r \in SignIns, StartListener(r) PROVE TypeOK'
  BY <1>16 DEF StartListener, SignTo, Start
<1>17. ASSUME NEW o \in SignOuts, StopListener(o) PROVE TypeOK'
  BY <1>17 DEF StopListener, OutTo
<1>18. ASSUME NEW o \in SignOuts, LoadSession(o) PROVE TypeOK'
  <2>1. faults' \in BOOLEAN
    BY <1>18 DEF LoadSession, Works, Fails
  <2>2. out' \in [SignOuts -> {"idle", "load", "logout", "revoke", "killed", "done"}]
    BY <1>18 DEF LoadSession, OutTo
  <2>3. loaded' \in [SignOuts -> SendCodes \cup {NoOne}]
    BY <1>18 DEF LoadSession
  <2>4. QED
    BY <1>18, <2>1, <2>2, <2>3 DEF LoadSession
<1>19. ASSUME NEW o \in SignOuts, LogOut(o) PROVE TypeOK'
  BY <1>19 DEF LogOut, OutTo
<1>20. ASSUME NEW o \in SignOuts, Revoke(o) PROVE TypeOK'
  BY <1>20 DEF Revoke, OutTo, Works, Fails
<1>21. ASSUME NEW b \in Boots, Restart(b) PROVE TypeOK'
  BY <1>21 DEF Restart, Kill
<1>22. ASSUME NEW b \in Boots, QuerySessions(b) PROVE TypeOK'
  BY <1>22 DEF QuerySessions, Works, Fails
<1>23. ASSUME NEW b \in Boots, StartAll(b) PROVE TypeOK'
  BY <1>23 DEF StartAll, Start
<1>24. ASSUME NEW l \in Listeners, ListenerReturns(l) PROVE TypeOK'
  BY <1>24 DEF ListenerReturns
<1>25. CASE UNCHANGED vars
  BY <1>25 DEF vars
<1>26. QED
  BY <1>1, <1>2, <1>3, <1>4, <1>5, <1>6, <1>7, <1>8, <1>9, <1>10, <1>11, <1>12, <1>13,
     <1>14, <1>15, <1>16, <1>17, <1>18, <1>19, <1>20, <1>21, <1>22, <1>23, <1>24, <1>25
  DEF Next, FlowStep, SendCodeStep, SignInStep, SignOutStep, BootStep, TimerStep

\* A flow starts once, and a sign-in that goes on has found one.
LEMMA FlowsStep ==
    TypeOK /\ FlowsKnown /\ [Next]_vars => FlowsKnown'
<1> SUFFICES ASSUME TypeOK, FlowsKnown, [Next]_vars PROVE FlowsKnown'
  OBVIOUS
<1> USE Disjoint, SwitchType DEF TypeOK, Listeners, FlowsKnown
<1> USE DEF manager, channels, signs, outs, store, listeners
<1>1. ASSUME NEW s \in SendCodes, CheckSession(s) PROVE FlowsKnown'
  BY <1>1 DEF CheckSession, Works, Fails
<1>2. ASSUME NEW s \in SendCodes, StartFlow(s) PROVE FlowsKnown'
  BY <1>2 DEF StartFlow, FlowTo
<1>3. ASSUME NEW s \in SendCodes, GetHash(s) PROVE FlowsKnown'
  BY <1>3 DEF GetHash
<1>4. ASSUME NEW s \in SendCodes, RequestCode(s) PROVE FlowsKnown'
  BY <1>4 DEF RequestCode, RunReturns, FlowTo, Works, Fails
<1>5. ASSUME NEW s \in SendCodes, TakeCode(s) PROVE FlowsKnown'
  BY <1>5 DEF TakeCode, RunReturns, FlowTo
<1>6. ASSUME NEW s \in SendCodes, TelegramSignIn(s) PROVE FlowsKnown'
  BY <1>6 DEF TelegramSignIn, PostError, RunReturns, FlowTo
<1>7. ASSUME NEW s \in SendCodes, Save(s) PROVE FlowsKnown'
  BY <1>7 DEF Save, PostError, RunReturns, FlowTo, Works, Fails
<1>8. ASSUME NEW s \in SendCodes, PostSuccess(s) PROVE FlowsKnown'
  BY <1>8 DEF PostSuccess, FlowTo
<1>9. ASSUME NEW s \in SendCodes, Finish(s) PROVE FlowsKnown'
  BY <1>9 DEF Finish, FlowTo, StopTimer
<1>10. ASSUME NEW s \in SendCodes, Deadline(s) PROVE FlowsKnown'
  BY <1>10 DEF Deadline
<1>11. ASSUME NEW s \in SendCodes, TimerCancels(s) PROVE FlowsKnown'
  BY <1>11 DEF TimerCancels
<1>12. ASSUME NEW s \in SendCodes, TimerDeletes(s) PROVE FlowsKnown'
  BY <1>12 DEF TimerDeletes
<1>13. ASSUME NEW r \in SignIns, Lookup(r) PROVE FlowsKnown'
  BY <1>13 DEF Lookup, SignTo
<1>14. ASSUME NEW r \in SignIns, PutCode(r) PROVE FlowsKnown'
  BY <1>14 DEF PutCode, SignTo
<1>15. ASSUME NEW r \in SignIns, GetResult(r) PROVE FlowsKnown'
  BY <1>15 DEF GetResult, SignTo
<1>16. ASSUME NEW r \in SignIns, StartListener(r) PROVE FlowsKnown'
  BY <1>16 DEF StartListener, SignTo, Start
<1>17. ASSUME NEW o \in SignOuts, StopListener(o) PROVE FlowsKnown'
  BY <1>17 DEF StopListener, OutTo
<1>18. ASSUME NEW o \in SignOuts, LoadSession(o) PROVE FlowsKnown'
  BY <1>18 DEF LoadSession, OutTo, Works, Fails
<1>19. ASSUME NEW o \in SignOuts, LogOut(o) PROVE FlowsKnown'
  BY <1>19 DEF LogOut, OutTo
<1>20. ASSUME NEW o \in SignOuts, Revoke(o) PROVE FlowsKnown'
  BY <1>20 DEF Revoke, OutTo, Works, Fails
<1>21. ASSUME NEW b \in Boots, Restart(b) PROVE FlowsKnown'
  BY <1>21 DEF Restart, Kill
<1>22. ASSUME NEW b \in Boots, QuerySessions(b) PROVE FlowsKnown'
  BY <1>22 DEF QuerySessions, Works, Fails
<1>23. ASSUME NEW b \in Boots, StartAll(b) PROVE FlowsKnown'
  BY <1>23 DEF StartAll, Start
<1>24. ASSUME NEW l \in Listeners, ListenerReturns(l) PROVE FlowsKnown'
  BY <1>24 DEF ListenerReturns
<1>25. CASE UNCHANGED vars
  BY <1>25 DEF vars
<1>26. QED
  BY <1>1, <1>2, <1>3, <1>4, <1>5, <1>6, <1>7, <1>8, <1>9, <1>10, <1>11, <1>12, <1>13,
     <1>14, <1>15, <1>16, <1>17, <1>18, <1>19, <1>20, <1>21, <1>22, <1>23, <1>24, <1>25
  DEF Next, FlowStep, SendCodeStep, SignInStep, SignOutStep, BootStep, TimerStep

\* The one success of a flow is posted once, and told to one sign-in.
LEMMA SuccessStep ==
    TypeOK /\ FlowsKnown /\ SuccessKnown /\ SuccessWasSaved /\ [Next]_vars => (SuccessKnown /\ SuccessWasSaved)'
<1> SUFFICES ASSUME TypeOK, FlowsKnown, SuccessKnown, SuccessWasSaved, [Next]_vars PROVE (SuccessKnown /\ SuccessWasSaved)'
  OBVIOUS
<1> USE Disjoint, SwitchType DEF TypeOK, Listeners, FlowsKnown, SuccessKnown, SuccessWasSaved, Told
<1> USE DEF manager, channels, signs, outs, store, listeners
<1>1. ASSUME NEW s \in SendCodes, CheckSession(s) PROVE (SuccessKnown /\ SuccessWasSaved)'
  BY <1>1 DEF CheckSession, Works, Fails
<1>2. ASSUME NEW s \in SendCodes, StartFlow(s) PROVE (SuccessKnown /\ SuccessWasSaved)'
  BY <1>2 DEF StartFlow, FlowTo
<1>3. ASSUME NEW s \in SendCodes, GetHash(s) PROVE (SuccessKnown /\ SuccessWasSaved)'
  BY <1>3 DEF GetHash
<1>4. ASSUME NEW s \in SendCodes, RequestCode(s) PROVE (SuccessKnown /\ SuccessWasSaved)'
  BY <1>4 DEF RequestCode, RunReturns, FlowTo, Works, Fails
<1>5. ASSUME NEW s \in SendCodes, TakeCode(s) PROVE (SuccessKnown /\ SuccessWasSaved)'
  BY <1>5 DEF TakeCode, RunReturns, FlowTo
<1>6. ASSUME NEW s \in SendCodes, TelegramSignIn(s) PROVE (SuccessKnown /\ SuccessWasSaved)'
  BY <1>6 DEF TelegramSignIn, PostError, RunReturns, FlowTo
<1>7. ASSUME NEW s \in SendCodes, Save(s) PROVE (SuccessKnown /\ SuccessWasSaved)'
  BY <1>7 DEF Save, PostError, RunReturns, FlowTo, Works, Fails
<1>8. ASSUME NEW s \in SendCodes, PostSuccess(s) PROVE (SuccessKnown /\ SuccessWasSaved)'
  BY <1>8 DEF PostSuccess, FlowTo
<1>9. ASSUME NEW s \in SendCodes, Finish(s) PROVE (SuccessKnown /\ SuccessWasSaved)'
  BY <1>9 DEF Finish, FlowTo, StopTimer
<1>10. ASSUME NEW s \in SendCodes, Deadline(s) PROVE (SuccessKnown /\ SuccessWasSaved)'
  BY <1>10 DEF Deadline
<1>11. ASSUME NEW s \in SendCodes, TimerCancels(s) PROVE (SuccessKnown /\ SuccessWasSaved)'
  BY <1>11 DEF TimerCancels
<1>12. ASSUME NEW s \in SendCodes, TimerDeletes(s) PROVE (SuccessKnown /\ SuccessWasSaved)'
  BY <1>12 DEF TimerDeletes
<1>13. ASSUME NEW r \in SignIns, Lookup(r) PROVE (SuccessKnown /\ SuccessWasSaved)'
  BY <1>13 DEF Lookup, SignTo
<1>14. ASSUME NEW r \in SignIns, PutCode(r) PROVE (SuccessKnown /\ SuccessWasSaved)'
  BY <1>14 DEF PutCode, SignTo
<1>15. ASSUME NEW r \in SignIns, GetResult(r) PROVE (SuccessKnown /\ SuccessWasSaved)'
  BY <1>15 DEF GetResult, SignTo
<1>16. ASSUME NEW r \in SignIns, StartListener(r) PROVE (SuccessKnown /\ SuccessWasSaved)'
  BY <1>16 DEF StartListener, SignTo, Start
<1>17. ASSUME NEW o \in SignOuts, StopListener(o) PROVE (SuccessKnown /\ SuccessWasSaved)'
  BY <1>17 DEF StopListener, OutTo
<1>18. ASSUME NEW o \in SignOuts, LoadSession(o) PROVE (SuccessKnown /\ SuccessWasSaved)'
  BY <1>18 DEF LoadSession, OutTo, Works, Fails
<1>19. ASSUME NEW o \in SignOuts, LogOut(o) PROVE (SuccessKnown /\ SuccessWasSaved)'
  BY <1>19 DEF LogOut, OutTo
<1>20. ASSUME NEW o \in SignOuts, Revoke(o) PROVE (SuccessKnown /\ SuccessWasSaved)'
  BY <1>20 DEF Revoke, OutTo, Works, Fails
<1>21. ASSUME NEW b \in Boots, Restart(b) PROVE (SuccessKnown /\ SuccessWasSaved)'
  BY <1>21 DEF Restart, Kill
<1>22. ASSUME NEW b \in Boots, QuerySessions(b) PROVE (SuccessKnown /\ SuccessWasSaved)'
  BY <1>22 DEF QuerySessions, Works, Fails
<1>23. ASSUME NEW b \in Boots, StartAll(b) PROVE (SuccessKnown /\ SuccessWasSaved)'
  BY <1>23 DEF StartAll, Start
<1>24. ASSUME NEW l \in Listeners, ListenerReturns(l) PROVE (SuccessKnown /\ SuccessWasSaved)'
  BY <1>24 DEF ListenerReturns
<1>25. CASE UNCHANGED vars
  BY <1>25 DEF vars
<1>26. QED
  BY <1>1, <1>2, <1>3, <1>4, <1>5, <1>6, <1>7, <1>8, <1>9, <1>10, <1>11, <1>12, <1>13,
     <1>14, <1>15, <1>16, <1>17, <1>18, <1>19, <1>20, <1>21, <1>22, <1>23, <1>24, <1>25
  DEF Next, FlowStep, SendCodeStep, SignInStep, SignOutStep, BootStep, TimerStep

\* Whoever takes the place of a listener in the registry cancels it.
LEMMA ListenerStep ==
    TypeOK /\ LiveListenerRegistered /\ [Next]_vars => LiveListenerRegistered'
<1> SUFFICES ASSUME TypeOK, LiveListenerRegistered, [Next]_vars PROVE LiveListenerRegistered'
  OBVIOUS
<1> USE Disjoint, SwitchType DEF TypeOK, Listeners, LiveListenerRegistered
<1> USE DEF manager, channels, signs, outs, store, listeners
<1>1. ASSUME NEW s \in SendCodes, CheckSession(s) PROVE LiveListenerRegistered'
  BY <1>1 DEF CheckSession, Works, Fails
<1>2. ASSUME NEW s \in SendCodes, StartFlow(s) PROVE LiveListenerRegistered'
  BY <1>2 DEF StartFlow, FlowTo
<1>3. ASSUME NEW s \in SendCodes, GetHash(s) PROVE LiveListenerRegistered'
  BY <1>3 DEF GetHash
<1>4. ASSUME NEW s \in SendCodes, RequestCode(s) PROVE LiveListenerRegistered'
  BY <1>4 DEF RequestCode, RunReturns, FlowTo, Works, Fails
<1>5. ASSUME NEW s \in SendCodes, TakeCode(s) PROVE LiveListenerRegistered'
  BY <1>5 DEF TakeCode, RunReturns, FlowTo
<1>6. ASSUME NEW s \in SendCodes, TelegramSignIn(s) PROVE LiveListenerRegistered'
  BY <1>6 DEF TelegramSignIn, PostError, RunReturns, FlowTo
<1>7. ASSUME NEW s \in SendCodes, Save(s) PROVE LiveListenerRegistered'
  BY <1>7 DEF Save, PostError, RunReturns, FlowTo, Works, Fails
<1>8. ASSUME NEW s \in SendCodes, PostSuccess(s) PROVE LiveListenerRegistered'
  BY <1>8 DEF PostSuccess, FlowTo
<1>9. ASSUME NEW s \in SendCodes, Finish(s) PROVE LiveListenerRegistered'
  BY <1>9 DEF Finish, FlowTo, StopTimer
<1>10. ASSUME NEW s \in SendCodes, Deadline(s) PROVE LiveListenerRegistered'
  BY <1>10 DEF Deadline
<1>11. ASSUME NEW s \in SendCodes, TimerCancels(s) PROVE LiveListenerRegistered'
  BY <1>11 DEF TimerCancels
<1>12. ASSUME NEW s \in SendCodes, TimerDeletes(s) PROVE LiveListenerRegistered'
  BY <1>12 DEF TimerDeletes
<1>13. ASSUME NEW r \in SignIns, Lookup(r) PROVE LiveListenerRegistered'
  BY <1>13 DEF Lookup, SignTo
<1>14. ASSUME NEW r \in SignIns, PutCode(r) PROVE LiveListenerRegistered'
  BY <1>14 DEF PutCode, SignTo
<1>15. ASSUME NEW r \in SignIns, GetResult(r) PROVE LiveListenerRegistered'
  BY <1>15 DEF GetResult, SignTo
<1>16. ASSUME NEW r \in SignIns, StartListener(r) PROVE LiveListenerRegistered'
  BY <1>16 DEF StartListener, SignTo, Start
<1>17. ASSUME NEW o \in SignOuts, StopListener(o) PROVE LiveListenerRegistered'
  BY <1>17 DEF StopListener, OutTo
<1>18. ASSUME NEW o \in SignOuts, LoadSession(o) PROVE LiveListenerRegistered'
  BY <1>18 DEF LoadSession, OutTo, Works, Fails
<1>19. ASSUME NEW o \in SignOuts, LogOut(o) PROVE LiveListenerRegistered'
  BY <1>19 DEF LogOut, OutTo
<1>20. ASSUME NEW o \in SignOuts, Revoke(o) PROVE LiveListenerRegistered'
  BY <1>20 DEF Revoke, OutTo, Works, Fails
<1>21. ASSUME NEW b \in Boots, Restart(b) PROVE LiveListenerRegistered'
  BY <1>21 DEF Restart, Kill
<1>22. ASSUME NEW b \in Boots, QuerySessions(b) PROVE LiveListenerRegistered'
  BY <1>22 DEF QuerySessions, Works, Fails
<1>23. ASSUME NEW b \in Boots, StartAll(b) PROVE LiveListenerRegistered'
  BY <1>23 DEF StartAll, Start
<1>24. ASSUME NEW l \in Listeners, ListenerReturns(l) PROVE LiveListenerRegistered'
  BY <1>24 DEF ListenerReturns
<1>25. CASE UNCHANGED vars
  BY <1>25 DEF vars
<1>26. QED
  BY <1>1, <1>2, <1>3, <1>4, <1>5, <1>6, <1>7, <1>8, <1>9, <1>10, <1>11, <1>12, <1>13,
     <1>14, <1>15, <1>16, <1>17, <1>18, <1>19, <1>20, <1>21, <1>22, <1>23, <1>24, <1>25
  DEF Next, FlowStep, SendCodeStep, SignInStep, SignOutStep, BootStep, TimerStep

\* A session is authorized before it is stored, and stored before it is loaded.
LEMMA SessionsStep ==
    TypeOK /\ FlowsKnown /\ SessionsKnown /\ [Next]_vars => SessionsKnown'
<1> SUFFICES ASSUME TypeOK, FlowsKnown, SessionsKnown, [Next]_vars PROVE SessionsKnown'
  OBVIOUS
<1> USE Disjoint, SwitchType DEF TypeOK, Listeners, FlowsKnown, SessionsKnown
<1> USE DEF manager, channels, signs, outs, store, listeners
<1>1. ASSUME NEW s \in SendCodes, CheckSession(s) PROVE SessionsKnown'
  BY <1>1 DEF CheckSession, Works, Fails
<1>2. ASSUME NEW s \in SendCodes, StartFlow(s) PROVE SessionsKnown'
  BY <1>2 DEF StartFlow, FlowTo
<1>3. ASSUME NEW s \in SendCodes, GetHash(s) PROVE SessionsKnown'
  BY <1>3 DEF GetHash
<1>4. ASSUME NEW s \in SendCodes, RequestCode(s) PROVE SessionsKnown'
  BY <1>4 DEF RequestCode, RunReturns, FlowTo, Works, Fails
<1>5. ASSUME NEW s \in SendCodes, TakeCode(s) PROVE SessionsKnown'
  BY <1>5 DEF TakeCode, RunReturns, FlowTo
<1>6. ASSUME NEW s \in SendCodes, TelegramSignIn(s) PROVE SessionsKnown'
  BY <1>6 DEF TelegramSignIn, PostError, RunReturns, FlowTo
<1>7. ASSUME NEW s \in SendCodes, Save(s) PROVE SessionsKnown'
  BY <1>7 DEF Save, PostError, RunReturns, FlowTo, Works, Fails
<1>8. ASSUME NEW s \in SendCodes, PostSuccess(s) PROVE SessionsKnown'
  BY <1>8 DEF PostSuccess, FlowTo
<1>9. ASSUME NEW s \in SendCodes, Finish(s) PROVE SessionsKnown'
  BY <1>9 DEF Finish, FlowTo, StopTimer
<1>10. ASSUME NEW s \in SendCodes, Deadline(s) PROVE SessionsKnown'
  BY <1>10 DEF Deadline
<1>11. ASSUME NEW s \in SendCodes, TimerCancels(s) PROVE SessionsKnown'
  BY <1>11 DEF TimerCancels
<1>12. ASSUME NEW s \in SendCodes, TimerDeletes(s) PROVE SessionsKnown'
  BY <1>12 DEF TimerDeletes
<1>13. ASSUME NEW r \in SignIns, Lookup(r) PROVE SessionsKnown'
  BY <1>13 DEF Lookup, SignTo
<1>14. ASSUME NEW r \in SignIns, PutCode(r) PROVE SessionsKnown'
  BY <1>14 DEF PutCode, SignTo
<1>15. ASSUME NEW r \in SignIns, GetResult(r) PROVE SessionsKnown'
  BY <1>15 DEF GetResult, SignTo
<1>16. ASSUME NEW r \in SignIns, StartListener(r) PROVE SessionsKnown'
  BY <1>16 DEF StartListener, SignTo, Start
<1>17. ASSUME NEW o \in SignOuts, StopListener(o) PROVE SessionsKnown'
  BY <1>17 DEF StopListener, OutTo
<1>18. ASSUME NEW o \in SignOuts, LoadSession(o) PROVE SessionsKnown'
  BY <1>18 DEF LoadSession, OutTo, Works, Fails
<1>19. ASSUME NEW o \in SignOuts, LogOut(o) PROVE SessionsKnown'
  BY <1>19 DEF LogOut, OutTo
<1>20. ASSUME NEW o \in SignOuts, Revoke(o) PROVE SessionsKnown'
  BY <1>20 DEF Revoke, OutTo, Works, Fails
<1>21. ASSUME NEW b \in Boots, Restart(b) PROVE SessionsKnown'
  BY <1>21 DEF Restart, Kill
<1>22. ASSUME NEW b \in Boots, QuerySessions(b) PROVE SessionsKnown'
  BY <1>22 DEF QuerySessions, Works, Fails
<1>23. ASSUME NEW b \in Boots, StartAll(b) PROVE SessionsKnown'
  BY <1>23 DEF StartAll, Start
<1>24. ASSUME NEW l \in Listeners, ListenerReturns(l) PROVE SessionsKnown'
  BY <1>24 DEF ListenerReturns
<1>25. CASE UNCHANGED vars
  BY <1>25 DEF vars
<1>26. QED
  BY <1>1, <1>2, <1>3, <1>4, <1>5, <1>6, <1>7, <1>8, <1>9, <1>10, <1>11, <1>12, <1>13,
     <1>14, <1>15, <1>16, <1>17, <1>18, <1>19, <1>20, <1>21, <1>22, <1>23, <1>24, <1>25
  DEF Next, FlowStep, SendCodeStep, SignInStep, SignOutStep, BootStep, TimerStep

\* What a sign-out logs out, it revokes next.
LEMMA StoredStep ==
    TypeOK /\ FlowsKnown /\ SessionsKnown /\ StoredIsAuthorized /\ [Next]_vars => StoredIsAuthorized'
<1> SUFFICES ASSUME TypeOK, FlowsKnown, SessionsKnown, StoredIsAuthorized, [Next]_vars PROVE StoredIsAuthorized'
  OBVIOUS
<1> USE Disjoint, SwitchType DEF TypeOK, Listeners, FlowsKnown, SessionsKnown, StoredIsAuthorized
<1> USE DEF manager, channels, signs, outs, store, listeners
<1>1. ASSUME NEW s \in SendCodes, CheckSession(s) PROVE StoredIsAuthorized'
  BY <1>1 DEF CheckSession, Works, Fails
<1>2. ASSUME NEW s \in SendCodes, StartFlow(s) PROVE StoredIsAuthorized'
  BY <1>2 DEF StartFlow, FlowTo
<1>3. ASSUME NEW s \in SendCodes, GetHash(s) PROVE StoredIsAuthorized'
  BY <1>3 DEF GetHash
<1>4. ASSUME NEW s \in SendCodes, RequestCode(s) PROVE StoredIsAuthorized'
  BY <1>4 DEF RequestCode, RunReturns, FlowTo, Works, Fails
<1>5. ASSUME NEW s \in SendCodes, TakeCode(s) PROVE StoredIsAuthorized'
  BY <1>5 DEF TakeCode, RunReturns, FlowTo
<1>6. ASSUME NEW s \in SendCodes, TelegramSignIn(s) PROVE StoredIsAuthorized'
  BY <1>6 DEF TelegramSignIn, PostError, RunReturns, FlowTo
<1>7. ASSUME NEW s \in SendCodes, Save(s) PROVE StoredIsAuthorized'
  BY <1>7 DEF Save, PostError, RunReturns, FlowTo, Works, Fails
<1>8. ASSUME NEW s \in SendCodes, PostSuccess(s) PROVE StoredIsAuthorized'
  BY <1>8 DEF PostSuccess, FlowTo
<1>9. ASSUME NEW s \in SendCodes, Finish(s) PROVE StoredIsAuthorized'
  BY <1>9 DEF Finish, FlowTo, StopTimer
<1>10. ASSUME NEW s \in SendCodes, Deadline(s) PROVE StoredIsAuthorized'
  BY <1>10 DEF Deadline
<1>11. ASSUME NEW s \in SendCodes, TimerCancels(s) PROVE StoredIsAuthorized'
  BY <1>11 DEF TimerCancels
<1>12. ASSUME NEW s \in SendCodes, TimerDeletes(s) PROVE StoredIsAuthorized'
  BY <1>12 DEF TimerDeletes
<1>13. ASSUME NEW r \in SignIns, Lookup(r) PROVE StoredIsAuthorized'
  BY <1>13 DEF Lookup, SignTo
<1>14. ASSUME NEW r \in SignIns, PutCode(r) PROVE StoredIsAuthorized'
  BY <1>14 DEF PutCode, SignTo
<1>15. ASSUME NEW r \in SignIns, GetResult(r) PROVE StoredIsAuthorized'
  BY <1>15 DEF GetResult, SignTo
<1>16. ASSUME NEW r \in SignIns, StartListener(r) PROVE StoredIsAuthorized'
  BY <1>16 DEF StartListener, SignTo, Start
<1>17. ASSUME NEW o \in SignOuts, StopListener(o) PROVE StoredIsAuthorized'
  BY <1>17 DEF StopListener, OutTo
<1>18. ASSUME NEW o \in SignOuts, LoadSession(o) PROVE StoredIsAuthorized'
  BY <1>18 DEF LoadSession, OutTo, Works, Fails
<1>19. ASSUME NEW o \in SignOuts, LogOut(o) PROVE StoredIsAuthorized'
  BY <1>19 DEF LogOut, OutTo
<1>20. ASSUME NEW o \in SignOuts, Revoke(o) PROVE StoredIsAuthorized'
  BY <1>20 DEF Revoke, OutTo, Works, Fails
<1>21. ASSUME NEW b \in Boots, Restart(b) PROVE StoredIsAuthorized'
  BY <1>21 DEF Restart, Kill
<1>22. ASSUME NEW b \in Boots, QuerySessions(b) PROVE StoredIsAuthorized'
  BY <1>22 DEF QuerySessions, Works, Fails
<1>23. ASSUME NEW b \in Boots, StartAll(b) PROVE StoredIsAuthorized'
  BY <1>23 DEF StartAll, Start
<1>24. ASSUME NEW l \in Listeners, ListenerReturns(l) PROVE StoredIsAuthorized'
  BY <1>24 DEF ListenerReturns
<1>25. CASE UNCHANGED vars
  BY <1>25 DEF vars
<1>26. QED
  BY <1>1, <1>2, <1>3, <1>4, <1>5, <1>6, <1>7, <1>8, <1>9, <1>10, <1>11, <1>12, <1>13,
     <1>14, <1>15, <1>16, <1>17, <1>18, <1>19, <1>20, <1>21, <1>22, <1>23, <1>24, <1>25
  DEF Next, FlowStep, SendCodeStep, SignInStep, SignOutStep, BootStep, TimerStep

------------------------------------------------------------------------------
(* The theorems *)

\* Nothing has been asked for in the initial state.
LEMMA InitIInv == Init => IInv
<1> SUFFICES ASSUME Init PROVE IInv
  OBVIOUS
<1>1. TypeOK
  BY SwitchType DEF Init, TypeOK
<1>2. FlowsKnown /\ SuccessKnown /\ SuccessWasSaved
  BY DEF Init, FlowsKnown, SuccessKnown, SuccessWasSaved, Told
<1>3. LiveListenerRegistered /\ SessionsKnown /\ StoredIsAuthorized
  BY DEF Init, LiveListenerRegistered, SessionsKnown, StoredIsAuthorized
<1>4. QED
  BY <1>1, <1>2, <1>3 DEF IInv

\* The inductive invariant holds in every state.
THEOREM Invariant == Spec => []IInv
<1>1. IInv /\ [Next]_vars => IInv'
  BY TypeStep, FlowsStep, SuccessStep, ListenerStep, SessionsStep, StoredStep DEF IInv
<1>2. QED
  BY InitIInv, <1>1, PTL DEF Spec

\* Every variable stays within its type.
THEOREM TypeCorrect == Spec => []TypeOK
<1>1. IInv => TypeOK
  BY DEF IInv
<1>2. QED
  BY Invariant, <1>1, PTL

\* A sign-in that is told of success holds a flow whose session was stored, and
\* holds it alone.
THEOREM SuccessSaved == Spec => []SuccessWasSaved
<1>1. IInv => SuccessWasSaved
  BY DEF IInv
<1>2. QED
  BY Invariant, <1>1, PTL

\* A listener that runs and was not cancelled is the registered one.
THEOREM ListenersRegistered == Spec => []LiveListenerRegistered
<1>1. IInv => LiveListenerRegistered
  BY DEF IInv
<1>2. QED
  BY Invariant, <1>1, PTL

\* Without a failure, a stored session is one that Telegram accepts, or a
\* sign-out stands between the two.
THEOREM StoredAuthorized == Spec => []StoredIsAuthorized
<1>1. IInv => StoredIsAuthorized
  BY DEF IInv
<1>2. QED
  BY Invariant, <1>1, PTL

-----------------------------------------------------------------------------
(* The sign-in *)

\* A step of the whole is a step of the sign-in, or leaves it alone.
LEMMA NextIsSignIn == [TelegramNext]_tvars => [Next]_vars
<1> SUFFICES ASSUME TelegramNext PROVE [Next]_vars
  BY DEF tvars
<1>1. CASE \/ \E s \in SendCodes :
                CheckSession(s) \/ SendCodeStep(s) \/ FlowStep(s) \/ Deadline(s) \/ TimerStep(s)
           \/ \E r \in SignIns : Lookup(r) \/ SignInStep(r)
           \/ \E o \in SignOuts : StopListener(o) \/ SignOutStep(o)
           \/ \E b \in Boots : BootStep(b)
  BY <1>1 DEF Next
<1>2. CASE \E l \in Listeners : ListenerEnds(l)
  BY <1>2 DEF Next, ListenerEnds
<1>3. CASE \E b \in Boots : ProcessDies(b)
  BY <1>3 DEF Next, ProcessDies
<1>4. CASE UNCHANGED vars
  BY <1>4
<1>5. QED
  BY <1>1, <1>2, <1>3, <1>4 DEF TelegramNext

\* Connections, messages and channels take nothing from the sign-in: it stays
\* the one of MtprotoAuth, whose theorems hold of the whole.
THEOREM SignInRefinement == TelegramSpec => Spec
<1>1. TelegramInit => Init
  BY DEF TelegramInit
<1>2. QED
  BY <1>1, NextIsSignIn, PTL DEF TelegramSpec, Spec

-----------------------------------------------------------------------------
(* Direct messages *)

\* A handler that goes on after the INSERT has its row, which says nothing of a
\* reply before the handler's end.
HandlerHolds(h) ==
    /\ dm[h].pc \notin {"none", "insert", "done"} => Stored(h)
    /\ Stored(h) /\ dm[h].pc # "done" => ~inbox[h].sent /\ ~inbox[h].error
    /\ dm[h].pc = "sent" => h \in replied
    /\ h \in replied => Stored(h)
    /\ Stored(h) => inbox[h].id = tgMessageID(h[1])
    /\ Stored(h) /\ inbox[h].sent => h \in replied /\ ~inbox[h].error

\* Of the handlers of one message, one inserts a row.
OneRow == \A h, g \in Handlers : Stored(h) /\ Stored(g) /\ h[1] = g[1] => h = g

RepliesHold == DMTypeOK /\ (\A h \in Handlers : HandlerHolds(h)) /\ OneRow

\* A step that leaves the messages alone preserves all of it.
LEMMA DMStutter == RepliesHold /\ UNCHANGED dmVars => RepliesHold'
BY DEF RepliesHold, DMTypeOK, HandlerHolds, OneRow, Stored, dmVars

\* The row of h may change, and no other.
LEMMA Updated ==
    ASSUME DMTypeOK, NEW h \in Handlers, NEW row \in Row, Update(h, row)
    PROVE  /\ inbox' \in [Handlers -> Row \cup {NoOne}]
           /\ inbox'[h] \in {inbox[h], row}
           /\ \A g \in Handlers \ {h} : inbox'[g] = inbox[g]
BY DEF Update, DMTypeOK

\* A step of one handler inserts no row, and leaves the others alone.
LEMMA OthersKeep ==
    ASSUME RepliesHold, NEW h \in Handlers, DMTypeOK', HandlerHolds(h)', Stored(h)' => Stored(h),
           \A g \in Handlers \ {h} : /\ dm'[g] = dm[g] /\ inbox'[g] = inbox[g]
                                     /\ g \in replied' <=> g \in replied
    PROVE  RepliesHold'
<1>1. ASSUME NEW g \in Handlers \ {h} PROVE HandlerHolds(g)' /\ (Stored(g)' => Stored(g))
  BY <1>1 DEF RepliesHold, HandlerHolds, Stored
<1>2. QED
  BY <1>1 DEF RepliesHold, OneRow

\* Only the fields of handlers that do not tell where they are change.
LEMMA SamePlaces ==
    ASSUME RepliesHold, UNCHANGED <<inbox, replied>>, DMTypeOK',
           \A h \in Handlers : dm'[h].pc = dm[h].pc
    PROVE  RepliesHold'
BY DEF RepliesHold, HandlerHolds, OneRow, Stored

\* The connections of listeners.
LEMMA ConnectionStep ==
    ASSUME TypeOK, RepliesHold, NEW l \in Listeners, Connect(l) \/ Refused(l) \/ Disconnected(l)
    PROVE  RepliesHold'
<1> USE DEF DMTypeOK, Handling, Places, RepliesHold
<1>1. CASE Dial(l)
  <2>1. DMTypeOK' /\ \A h \in Handlers : dm'[h].pc = dm[h].pc
    BY <1>1 DEF Dial, Held, TypeOK
  <2>2. QED
    BY <1>1, <2>1, SamePlaces DEF Dial
<1>2. CASE Connected(l)
  <2>1. DMTypeOK' /\ \A h \in Handlers : dm'[h].pc = dm[h].pc
    BY <1>2 DEF Connected, Held
  <2>2. QED
    BY <1>2, <2>1, SamePlaces DEF Connected
<1>3. CASE Refused(l)
  <2>1. DMTypeOK' /\ \A h \in Handlers : dm'[h].pc = dm[h].pc
    BY <1>3 DEF Refused
  <2>2. QED
    BY <1>3, <2>1, SamePlaces DEF Refused
<1>4. CASE Disconnected(l)
  <2>1. DMTypeOK' /\ \A h \in Handlers : dm'[h].pc = dm[h].pc
    BY <1>4 DEF Disconnected, Cut
  <2>2. QED
    BY <1>4, <2>1, SamePlaces DEF Disconnected
<1>5. QED
  BY <1>1, <1>2, <1>3, <1>4 DEF Connect

\* A message arrives.
LEMMA ArrivalStep ==
    ASSUME RepliesHold, NEW d \in DMs, onNewMessage(d)
    PROVE  RepliesHold'
<1>1. \A h \in Handlers : dm'[h].pc = dm[h].pc \/ (dm[h].pc = "none" /\ dm'[h].pc = "insert")
  BY DEF onNewMessage, Handlers, RepliesHold, DMTypeOK, Handling, Places
<1>2. DMTypeOK' /\ UNCHANGED <<inbox, replied>>
  BY DEF onNewMessage, Handlers, RepliesHold, DMTypeOK, Handling, Places
<1>3. QED
  BY <1>1, <1>2 DEF RepliesHold, HandlerHolds, OneRow, Stored

\* A handler that goes to another place keeps the rest of what it holds.
LEMMA GoneTo ==
    ASSUME DMTypeOK, NEW h \in Handlers, NEW pc \in Places, DMTo(h, pc)
    PROVE  /\ dm' \in [Handlers -> Handling] /\ dm'[h].pc = pc
           /\ \A g \in Handlers \ {h} : dm'[g] = dm[g]
BY DEF DMTypeOK, DMTo, Handling

\* So does one that takes a listener, a channel or a client with it.
LEMMA GoneWith ==
    ASSUME DMTypeOK, NEW h \in Handlers, NEW x \in Handling, dm' = [dm EXCEPT ![h] = x]
    PROVE  /\ dm' \in [Handlers -> Handling] /\ dm'[h] = x
           /\ \A g \in Handlers \ {h} : dm'[g] = dm[g]
BY DEF DMTypeOK

\* A handler that ends holds nothing.
LEMMA GoneForGood ==
    ASSUME DMTypeOK, NEW h \in Handlers, Ends(h)
    PROVE  /\ dm' \in [Handlers -> Handling] /\ dm'[h].pc = "done"
           /\ \A g \in Handlers \ {h} : dm'[g] = dm[g]
<1>1. Ended \in Handling /\ Ended.pc = "done"
  BY DEF Ended, Unhandled, Handling, Places
<1>2. QED
  BY <1>1 DEF DMTypeOK, Ends

\* The INSERT: no handler of the same message has a row that it would not
\* conflict with.
LEMMA InsertStep ==
    ASSUME RepliesHold, NEW h \in Handlers, PersistInbound(h)
    PROVE  RepliesHold'
<1> DEFINE row == [id |-> tgMessageID(h[1]), mode |-> "none", sent |-> FALSE, error |-> FALSE]
<1>1. row \in Row /\ row # NoOne
  <2>1. row \in Row
    BY DEF Row, tgMessageID
  <2>2. QED
    BY <2>1, DMAssumption
<1>2. DMTypeOK /\ HandlerHolds(h) /\ dm[h].pc = "insert" /\ UNCHANGED <<link, with, replied>>
  BY DEF PersistInbound, RepliesHold
<1>3. /\ dm' \in [Handlers -> Handling] /\ dm'[h].pc \in {"llm", "done"}
      /\ \A g \in Handlers \ {h} : dm'[g] = dm[g]
  <2>1. DMTo(h, "llm") \/ Ends(h)
    BY DEF PersistInbound
  <2>2. "llm" \in Places
    BY DEF Places
  <2>3. QED
    BY <1>2, <2>1, <2>2, GoneTo, GoneForGood
<1>4. CASE UNCHANGED inbox /\ Ends(h)
  <2>1. dm'[h].pc = "done"
    BY <1>2, <1>4, GoneForGood
  <2>2. DMTypeOK'
    BY <1>2, <1>3, <1>4 DEF DMTypeOK
  <2>3. HandlerHolds(h)' /\ (Stored(h)' => Stored(h))
    BY <1>2, <1>4, <2>1 DEF HandlerHolds, Stored
  <2>4. QED
    BY <1>2, <1>3, <1>4, <2>2, <2>3, OthersKeep
<1>5. CASE ~Conflicts(h[1]) /\ Inserts(h)
  <2>1. /\ inbox' \in [Handlers -> Row \cup {NoOne}] /\ inbox'[h] = row
        /\ \A g \in Handlers \ {h} : inbox'[g] = inbox[g]
    BY <1>1, <1>2, <1>5 DEF Inserts, DMTypeOK
  <2>2. DMTypeOK'
    BY <1>2, <1>3, <2>1 DEF DMTypeOK
  <2>3. \A g \in Handlers : Stored(g) => inbox[g].id # tgMessageID(h[1])
    BY <1>5 DEF Conflicts
  <2>4. \A g \in Handlers : Stored(g) => inbox[g].id = tgMessageID(g[1])
    BY DEF RepliesHold, HandlerHolds
  <2>5. \A g \in Handlers : Stored(g) => g[1] # h[1]
    BY <2>3, <2>4
  <2>6. h \notin replied
    BY <1>2, <2>5 DEF HandlerHolds
  <2>7. HandlerHolds(h)'
    <3>1. tgMessageID(h[1])' = tgMessageID(h[1])
      BY DEF tgMessageID
    <3>2. QED
      BY <1>1, <1>2, <1>3, <2>1, <2>6, <3>1 DEF HandlerHolds, Stored
  <2>8. ASSUME NEW g \in Handlers \ {h} PROVE HandlerHolds(g)' /\ (Stored(g)' => Stored(g))
    BY <1>2, <1>3, <2>1, <2>8 DEF RepliesHold, HandlerHolds, Stored, tgMessageID
  <2>9. OneRow'
    BY <2>5, <2>8 DEF RepliesHold, OneRow
  <2>10. QED
    BY <2>2, <2>7, <2>8, <2>9 DEF RepliesHold
<1>6. QED
  BY <1>4, <1>5 DEF PersistInbound

\* A statement about the row of a handler, which goes on or ends.
LEMMA UpdateStep ==
    ASSUME RepliesHold, NEW h \in Handlers, NEW row \in Row, Update(h, row),
           UNCHANGED <<link, with, replied>>, DMTo(h, "find") \/ Ends(h),
           dm[h].pc \in {"decided", "sent", "failed"}, row.id = inbox[h].id,
           (row.sent <=> inbox[h].sent) \/ (dm[h].pc = "sent" /\ Ends(h)),
           (row.error <=> inbox[h].error) \/ (dm[h].pc = "failed" /\ Ends(h)),
           ~row.sent \/ ~row.error
    PROVE  RepliesHold'
<1>1. DMTypeOK /\ HandlerHolds(h) /\ Stored(h)
  BY DEF RepliesHold, HandlerHolds
<1>2. /\ inbox' \in [Handlers -> Row \cup {NoOne}] /\ inbox'[h] \in {inbox[h], row}
      /\ \A g \in Handlers \ {h} : inbox'[g] = inbox[g]
  BY <1>1, Updated
<1>3. /\ dm' \in [Handlers -> Handling] /\ \A g \in Handlers \ {h} : dm'[g] = dm[g]
      /\ (DMTo(h, "find") /\ dm'[h].pc = "find") \/ dm'[h].pc = "done"
  <2>1. "find" \in Places
    BY DEF Places
  <2>2. QED
    BY <1>1, <2>1, GoneTo, GoneForGood
<1>4. DMTypeOK'
  BY <1>1, <1>2, <1>3 DEF DMTypeOK
<1>5. HandlerHolds(h)'
  <2>1. CASE inbox'[h] = inbox[h]
    BY <1>1, <1>3, <2>1 DEF HandlerHolds, Stored, tgMessageID
  <2>2. CASE inbox'[h] = row
    <3>1. row # NoOne /\ row.id = tgMessageID(h[1])
      BY <1>1, DMAssumption DEF HandlerHolds
    <3>2. ~inbox[h].sent /\ ~inbox[h].error
      BY <1>1 DEF HandlerHolds
    <3>3. dm'[h].pc = "done" \/ (dm'[h].pc = "find" /\ ~row.sent /\ ~row.error)
      <4>1. CASE Ends(h)
        BY <1>1, <4>1, GoneForGood
      <4>2. CASE ~Ends(h)
        <5>1. dm'[h].pc = "find"
          BY <1>1, <4>2, GoneTo DEF Places
        <5>2. QED
          BY <3>2, <4>2, <5>1
      <4>3. QED
        BY <4>1, <4>2
    <3>4. row.sent => h \in replied /\ ~row.error
      BY <1>1, <3>2 DEF HandlerHolds
    <3>5. replied' = replied
      OBVIOUS
    <3>6. QED
      BY <2>2, <3>1, <3>3, <3>4, <3>5 DEF HandlerHolds, Stored, tgMessageID
  <2>3. QED
    BY <1>2, <2>1, <2>2
<1>6. QED
  BY <1>1, <1>2, <1>3, <1>4, <1>5, OthersKeep

\* HandleDM, step by step.
LEMMA HandlerStep ==
    ASSUME TypeOK, RepliesHold, NEW h \in Handlers, HandleDM(h)
    PROVE  RepliesHold'
<1> DEFINE Moves(pcs) ==
      /\ dm[h].pc \notin {"none", "insert", "done"}
      /\ DMTypeOK' /\ dm'[h].pc \in pcs
      /\ \A g \in Handlers \ {h} : dm'[g] = dm[g]
<1>1. DMTypeOK /\ HandlerHolds(h) /\ (Stored(h) => inbox[h] \in Row)
  BY DEF RepliesHold, DMTypeOK, Stored
<1>2. ASSUME Moves({"llm", "decided", "find", "ready", "wait", "api", "send", "failed", "done"}),
             UNCHANGED <<inbox, replied>>
      PROVE  RepliesHold'
  <2>1. HandlerHolds(h)' /\ (Stored(h)' => Stored(h))
    BY <1>1, <1>2 DEF HandlerHolds, Stored, tgMessageID
  <2>2. QED
    BY <1>2, <2>1, OthersKeep
<1>3. CASE PersistInbound(h)
  BY <1>3, InsertStep
<1>4. CASE ProcessVKMessage(h)
  BY <1>2, <1>4 DEF ProcessVKMessage, DMTo, RepliesHold, DMTypeOK, Handling, Places
<1>5. CASE UpdateDecision(h)
  <2> DEFINE row == [inbox[h] EXCEPT !.mode = dm[h].mode]
  <2>1. Stored(h) /\ inbox[h] \in Row /\ dm[h].pc = "decided"
    BY <1>1, <1>5 DEF UpdateDecision, HandlerHolds
  <2>2. /\ row \in Row /\ row.id = inbox[h].id
        /\ (row.sent <=> inbox[h].sent) /\ (row.error <=> inbox[h].error) /\ ~row.sent
    BY <1>1, <2>1 DEF Row, DMTypeOK, Handling, HandlerHolds
  <2>3. Update(h, row) /\ UNCHANGED <<link, with, replied>> /\ (DMTo(h, "find") \/ Ends(h))
    BY <1>5 DEF UpdateDecision
  <2>4. QED
    BY <2>1, <2>2, <2>3, UpdateStep
<1>6. CASE FindListener(h)
  <2> DEFINE x == [dm[h] EXCEPT !.pc = IF users = NoOne THEN "failed" ELSE "ready", !.on = users]
  <2>1. dm[h] \in Handling /\ dm[h].pc = "find" /\ DMTypeOK
    BY <1>6 DEF FindListener, RepliesHold, DMTypeOK
  <2>2. x \in Handling /\ x.pc \in {"failed", "ready"}
    BY <2>1 DEF Handling, Places, TypeOK
  <2>3. dm' = [dm EXCEPT ![h] = x]
    BY <1>6, <2>1 DEF FindListener, DMTypeOK, Handling
  <2>4. QED
    BY <1>2, <1>6, <2>1, <2>2, <2>3, GoneWith DEF FindListener, DMTypeOK
<1>7. CASE ReadReady(h)
  <2> DEFINE x == [dm[h] EXCEPT !.pc = "wait",
                !.ready = IF link[dm[h].on] \in {"up", "lost"} THEN "closed" ELSE "open"]
  <2>1. dm[h] \in Handling /\ dm[h].pc = "ready" /\ DMTypeOK
    BY <1>7 DEF ReadReady, RepliesHold, DMTypeOK
  <2>2. x \in Handling /\ x.pc \in {"wait"}
    BY <2>1 DEF Handling, Places
  <2>3. dm' = [dm EXCEPT ![h] = x]
    BY <1>7, <2>1 DEF ReadReady, DMTypeOK, Handling
  <2>4. QED
    BY <1>2, <1>7, <2>1, <2>2, <2>3, GoneWith DEF ReadReady, DMTypeOK
<1>8. CASE WaitReady(h)
  BY <1>2, <1>8 DEF WaitReady, DMTo, RepliesHold, DMTypeOK, Handling, Places
<1>9. CASE ReadAPI(h)
  <2> DEFINE x == [dm[h] EXCEPT !.pc = IF link[dm[h].on] \in {"up", "lost"} THEN "send" ELSE "failed",
                !.live = link[dm[h].on] = "up"]
  <2>1. dm[h] \in Handling /\ dm[h].pc = "api" /\ DMTypeOK
    BY <1>9 DEF ReadAPI, RepliesHold, DMTypeOK
  <2>2. x \in Handling /\ x.pc \in {"send", "failed"}
    BY <2>1 DEF Handling, Places
  <2>3. dm' = [dm EXCEPT ![h] = x]
    BY <1>9, <2>1 DEF ReadAPI, DMTypeOK, Handling
  <2>4. QED
    BY <1>2, <1>9, <2>1, <2>2, <2>3, GoneWith DEF ReadAPI, DMTypeOK
<1>10. CASE SendText(h)
  <2>1. Moves({"sent", "failed"}) /\ UNCHANGED inbox
    BY <1>10 DEF SendText, DMTo, RepliesHold, DMTypeOK, Handling, Places
  <2>2. replied' \in {replied, replied \cup {h}} /\ (dm'[h].pc = "sent" => h \in replied')
    BY <1>10 DEF SendText, DMTo, RepliesHold, DMTypeOK, Handling, Places
  <2>3. HandlerHolds(h)' /\ (Stored(h)' => Stored(h))
    BY <1>1, <2>1, <2>2 DEF HandlerHolds, Stored, tgMessageID
  <2>4. QED
    BY <2>1, <2>2, <2>3, OthersKeep
<1>11. CASE MarkReplySent(h)
  <2> DEFINE row == [inbox[h] EXCEPT !.sent = TRUE]
  <2>1. Stored(h) /\ inbox[h] \in Row /\ dm[h].pc = "sent"
    BY <1>1, <1>11 DEF MarkReplySent, HandlerHolds
  <2>2. row \in Row /\ row.id = inbox[h].id /\ (row.error <=> inbox[h].error) /\ ~row.error
    BY <1>1, <2>1 DEF Row, HandlerHolds
  <2>3. Update(h, row) /\ UNCHANGED <<link, with, replied>> /\ Ends(h)
    BY <1>11 DEF MarkReplySent
  <2>4. QED
    BY <2>1, <2>2, <2>3, UpdateStep
<1>12. CASE UpdateError(h)
  <2> DEFINE row == [inbox[h] EXCEPT !.error = TRUE]
  <2>1. Stored(h) /\ inbox[h] \in Row /\ dm[h].pc = "failed"
    BY <1>1, <1>12 DEF UpdateError, HandlerHolds
  <2>2. row \in Row /\ row.id = inbox[h].id /\ (row.sent <=> inbox[h].sent) /\ ~row.sent
    BY <1>1, <2>1 DEF Row, HandlerHolds
  <2>3. Update(h, row) /\ UNCHANGED <<link, with, replied>> /\ Ends(h)
    BY <1>12 DEF UpdateError
  <2>4. QED
    BY <2>1, <2>2, <2>3, UpdateStep
<1>13. QED
  BY <1>3, <1>4, <1>5, <1>6, <1>7, <1>8, <1>9, <1>10, <1>11, <1>12 DEF HandleDM

\* A restart ends every handler, and the rows stay as they are.
LEMMA DeathStep ==
    ASSUME RepliesHold, NEW b \in Boots, ProcessDies(b)
    PROVE  RepliesHold'
<1>1. \A h \in Handlers : dm'[h].pc \in {"none", "done"} /\ (dm'[h].pc = "none" => dm[h].pc = "none")
  BY DEF ProcessDies, Ended, Unhandled
<1>2. DMTypeOK' /\ UNCHANGED <<inbox, replied>>
  BY DEF ProcessDies, Ended, Unhandled, RepliesHold, DMTypeOK, Handling, Places
<1>3. QED
  BY <1>1, <1>2 DEF RepliesHold, HandlerHolds, OneRow, Stored, tgMessageID

\* A listener that returns leaves the handlers where they are.
LEMMA ListenerEndStep ==
    ASSUME RepliesHold, NEW l \in Listeners, ListenerEnds(l)
    PROVE  RepliesHold'
<1>1. DMTypeOK' /\ \A h \in Handlers : dm'[h].pc = dm[h].pc
  BY DEF ListenerEnds, Cut, RepliesHold, DMTypeOK, Handling, Places
<1>2. QED
  BY <1>1, SamePlaces DEF ListenerEnds

\* Every row and every reply belong together in every state.
THEOREM RepliesInvariant == TelegramSpec => []RepliesHold
<1>1. TelegramInit => RepliesHold
  BY DEF TelegramInit, DMInit, RepliesHold, DMTypeOK, HandlerHolds, OneRow, Stored, Unhandled, Handling,
     Places
<1>2. TypeOK /\ RepliesHold /\ [TelegramNext]_tvars => RepliesHold'
  <2> SUFFICES ASSUME TypeOK, RepliesHold, [TelegramNext]_tvars PROVE RepliesHold'
    OBVIOUS
  <2>1. CASE UNCHANGED dmVars
    BY <2>1, DMStutter
  <2>2. CASE \E l \in Listeners : ListenerEnds(l)
    BY <2>2, ListenerEndStep
  <2>3. CASE \E b \in Boots : ProcessDies(b)
    BY <2>3, DeathStep
  <2>4. CASE DMNext
    BY <2>4, ConnectionStep, ArrivalStep, HandlerStep DEF DMNext
  <2>5. QED
    BY <2>1, <2>2, <2>3, <2>4 DEF TelegramNext, tvars
<1>3. QED
  BY <1>1, <1>2, SignInRefinement, TypeCorrect, PTL DEF TelegramSpec

\* However many connections receive a message, it gets one reply at most, and a
\* row that says sent stands for a reply that Telegram delivered.
THEOREM ReplySafety == TelegramSpec => []RepliesAreRecorded
<1>1. RepliesHold => RepliesAreRecorded
  BY DEF RepliesHold, DMTypeOK, HandlerHolds, OneRow, RepliesAreRecorded
<1>2. QED
  BY <1>1, RepliesInvariant, PTL

-----------------------------------------------------------------------------
(* Channels *)

\* A request that writes, and who for.
Connecting(k) == connect[k].pc \in {"consent", "integration"}
ActorsKnown ==
    /\ \A k \in Connects : Connecting(k) => connect[k].by \in Owners /\ connect[k].to \in Chans
    /\ \A d \in Leaves : Leaving(d) => leave[d].by \in Owners /\ leave[d].of \in Chans
    /\ \A h \in Hooks : hook[h].pc = "insert" => hook[h].post \in Posts /\ hook[h].owner \in Owners

\* The unique index holds an inserted consent against every other...
OneConsent ==
    /\ \A k, q \in Connects :
          connect[k].pc = "integration" /\ connect[q].pc = "integration" /\ k # q
             => connect[k].by # connect[q].by
    /\ \A k \in Connects, c \in Chans :
          connect[k].pc = "integration" => consent[<<connect[k].by, c>>] # "granted"

\* ...and a disconnect has locked what its owner has connected, will revoke all
\* of it, and deletes all posts but those that come too late for it.
LeavesAll ==
    /\ \A d, e \in Leaves : Leaving(d) /\ Leaving(e) /\ d # e => leave[d].by # leave[e].by
    /\ \A d \in Leaves : Leaving(d) =>
          /\ leave[d].of \in leave[d].rows
          /\ leave[d].rows = {c \in Chans : integration[<<leave[d].by, c>>] = "active"}
    /\ \A d \in Leaves : leave[d].pc \in {"purge", "commit"} =>
          leave[d].consents = {c \in Chans : consent[<<leave[d].by, c>>] = "granted"}
    /\ \A d \in Leaves : leave[d].pc = "commit" =>
          \A p \in Posts : post[p] = leave[d].by /\ p[1] = leave[d].of
                             => p \in leave[d].posts \/ p \in late

ChannelsHold == ChannelsTypeOK /\ ActorsKnown /\ OneConsent /\ LeavesAll /\ PostsAreConsented

\* A step that leaves the channels alone preserves all of it.
LEMMA ChannelsStutter == ChannelsHold /\ UNCHANGED channelVars => ChannelsHold'
BY DEF ChannelsHold, ChannelsTypeOK, ActorsKnown, OneConsent, LeavesAll, PostsAreConsented,
   channelVars, tables, Connecting, Leaving

\* A request that moves on keeps its owner and channel.
LEMMA ConnectTo ==
    ASSUME ChannelsTypeOK, NEW k \in Connects, NEW pc \in {"integration", "done"},
           connect' = [connect EXCEPT ![k].pc = pc], UNCHANGED <<tables, leave, hook, late>>
    PROVE  /\ ChannelsTypeOK'
           /\ connect'[k].pc = pc /\ connect'[k].by = connect[k].by /\ connect'[k].to = connect[k].to
           /\ \A q \in Connects \ {k} : connect'[q] = connect[q]
BY DEF ChannelsTypeOK, tables

\* ConnectChannel.
LEMMA ConnectStep ==
    ASSUME ChannelsHold, NEW k \in Connects,
           ConnectChannel(k) \/ InsertConsent(k) \/ InsertIntegration(k)
    PROVE  ChannelsHold'
<1> USE DEF ChannelsHold
<1>1. CASE ConnectChannel(k)
  <2>1. PICK u \in Owners, c \in Chans : connect' = [connect EXCEPT ![k] = [pc |-> "consent", by |-> u, to |-> c]]
    BY <1>1 DEF ConnectChannel
  <2>2. UNCHANGED <<tables, leave, hook, late>>
    BY <1>1 DEF ConnectChannel
  <2>3. ChannelsTypeOK'
    BY <2>1, <2>2 DEF ChannelsTypeOK, tables
  <2>4. QED
    BY <2>1, <2>2, <2>3 DEF ChannelsTypeOK, tables, ActorsKnown, OneConsent, LeavesAll, PostsAreConsented,
       Connecting, Leaving
<1>2. CASE InsertConsent(k)
  <2> DEFINE refused == \E c \in Chans : consent[<<connect[k].by, c>>] = "granted"
             pc == IF refused THEN "done" ELSE "integration"
  <2>1. /\ connect[k].pc = "consent" /\ connect' = [connect EXCEPT ![k].pc = pc]
        /\ UNCHANGED <<tables, leave, hook, late>>
    BY <1>2 DEF InsertConsent
  <2>2. /\ ChannelsTypeOK' /\ connect'[k].pc = pc
        /\ connect'[k].by = connect[k].by /\ connect'[k].to = connect[k].to
        /\ \A q \in Connects \ {k} : connect'[q] = connect[q]
    <3>1. pc \in {"integration", "done"}
      OBVIOUS
    <3>2. QED
      BY <2>1, <3>1, ConnectTo
  <2>3. ActorsKnown'
    BY <2>1, <2>2 DEF tables, ActorsKnown, Connecting, Leaving
  <2>4. OneConsent'
    <3>1. \A q \in Connects : connect[q].pc = "integration" => connect[q].by # connect[k].by
      BY <1>2 DEF InsertConsent
    <3>2. connect'[k].pc = "integration" => ~refused
      BY <2>2
    <3>3. QED
      BY <2>1, <2>2, <3>1, <3>2 DEF tables, OneConsent
  <2>5. QED
    BY <2>1, <2>2, <2>3, <2>4 DEF tables, LeavesAll, PostsAreConsented, Leaving
<1>3. CASE InsertIntegration(k)
  <2> DEFINE x == <<connect[k].by, connect[k].to>>
             u == connect[k].by
  <2>1. /\ connect[k].pc = "integration" /\ u \in Owners /\ connect[k].to \in Chans
        /\ connect' = [connect EXCEPT ![k].pc = "done"]
        /\ UNCHANGED <<post, leave, hook, late>>
    BY <1>3 DEF InsertIntegration, ActorsKnown, Connecting
  <2>2. CASE UNCHANGED <<integration, consent>>
    BY <2>1, <2>2 DEF ChannelsTypeOK, ActorsKnown, OneConsent, LeavesAll, PostsAreConsented,
       Connecting, Leaving
  <2>3. CASE /\ integration[x] = "none"
             /\ integration' = [integration EXCEPT ![x] = "active"]
             /\ consent' = [consent EXCEPT ![x] = "granted"]
    <3>1. x \in Owners \X Chans /\ ChannelsTypeOK' /\ ActorsKnown'
      BY <2>1, <2>3 DEF ChannelsTypeOK, ActorsKnown, Connecting, Leaving
    <3>2. \A c \in Chans : consent[<<u, c>>] # "granted" /\ integration[<<u, c>>] # "active"
      BY <2>1 DEF OneConsent, PostsAreConsented
    <3>3. \A v \in Owners, c \in Chans : <<v, c>> # x =>
             integration'[<<v, c>>] = integration[<<v, c>>] /\ consent'[<<v, c>>] = consent[<<v, c>>]
      BY <2>3, <3>1 DEF ChannelsTypeOK
    <3>4. integration'[x] = "active" /\ consent'[x] = "granted"
      BY <2>3, <3>1 DEF ChannelsTypeOK
    <3>5. \A d \in Leaves : Leaving(d) => leave[d].by # u
      <4>1. \A d \in Leaves : Leaving(d) => /\ leave[d].of \in Chans
                                            /\ integration[<<leave[d].by, leave[d].of>>] = "active"
        BY DEF LeavesAll, ActorsKnown
      <4>2. QED
        BY <3>2, <4>1
    <3>6. OneConsent'
      BY <2>1, <3>3 DEF OneConsent, ChannelsTypeOK, ActorsKnown, Connecting
    <3>7. \A d \in Leaves : Leaving(d) =>
             \A c \in Chans : /\ integration'[<<leave[d].by, c>>] = integration[<<leave[d].by, c>>]
                               /\ consent'[<<leave[d].by, c>>] = consent[<<leave[d].by, c>>]
      BY <3>3, <3>5 DEF ActorsKnown
    <3>8. LeavesAll'
      BY <2>1, <3>7 DEF LeavesAll, Leaving
    <3>9. PostsAreConsented'
      <4>1. \A v \in Owners : \A c, e \in Chans :
               integration'[<<v, c>>] = "active" /\ integration'[<<v, e>>] = "active" => c = e
        BY <3>2, <3>3 DEF PostsAreConsented
      <4>2. \A y \in Owners \X Chans : integration'[y] = "active" <=> consent'[y] = "granted"
        BY <3>3, <3>4 DEF PostsAreConsented
      <4>3. \A p \in Posts : post'[p] # Nobody => integration'[<<post'[p], p[1]>>] = "active" \/ p \in late'
        <5> SUFFICES ASSUME NEW p \in Posts, post[p] # Nobody
                     PROVE  integration'[<<post[p], p[1]>>] = "active" \/ p \in late
          BY <2>1
        <5>1. post[p] \in Owners /\ p[1] \in Chans
          BY DEF ChannelsTypeOK, Posts
        <5>2. integration[<<post[p], p[1]>>] = "active" \/ p \in late
          BY DEF PostsAreConsented
        <5>3. QED
          BY <3>3, <3>4, <5>1, <5>2
      <4>4. QED
        BY <4>1, <4>2, <4>3 DEF PostsAreConsented
    <3>10. QED
      BY <3>1, <3>6, <3>8, <3>9
  <2>4. QED
    BY <1>3, <2>2, <2>3 DEF InsertIntegration
<1>4. QED
  BY <1>1, <1>2, <1>3

\* DisconnectChannel.
LEMMA LeaveStep ==
    ASSUME ChannelsHold, NEW d \in Leaves,
           RevokeIntegration(d) \/ RevokeConsents(d) \/ DeletePosts(d) \/ CommitLeave(d)
    PROVE  ChannelsHold'
<1> USE DEF ChannelsHold
<1>1. CASE RevokeIntegration(d)
  <2>1. PICK u \in Owners, c \in Chans :
          /\ integration[<<u, c>>] = "active"
          /\ \A e \in Leaves : Leaving(e) => leave[e].by # u
          /\ leave' = [leave EXCEPT ![d] = [@ EXCEPT !.pc = "consents", !.by = u, !.of = c,
                           !.rows = {b \in Chans : integration[<<u, b>>] = "active"}]]
    BY <1>1 DEF RevokeIntegration
  <2>2. UNCHANGED <<tables, connect, hook, late>>
    BY <1>1 DEF RevokeIntegration
  <2>3. ChannelsTypeOK'
    <3> DEFINE x == [leave[d] EXCEPT !.pc = "consents", !.by = u, !.of = c,
                           !.rows = {b \in Chans : integration[<<u, b>>] = "active"}]
    <3>1. leave' = [leave EXCEPT ![d] = x]
      BY <2>1
    <3>2. x \in [pc : {"idle", "consents", "purge", "commit", "done"},
                 by : Owners \cup {Nobody}, of : Chans \cup {Nobody},
                 rows : SUBSET Chans, consents : SUBSET Chans, posts : SUBSET Posts]
      BY DEF ChannelsTypeOK
    <3>3. QED
      BY <2>2, <3>1, <3>2 DEF ChannelsTypeOK, tables
  <2>4. \A e \in Leaves \ {d} : leave'[e] = leave[e]
    BY <2>1 DEF ChannelsTypeOK
  <2>5. /\ leave'[d].pc = "consents" /\ leave'[d].by = u /\ leave'[d].of = c
        /\ leave'[d].rows = {b \in Chans : integration[<<u, b>>] = "active"}
    BY <2>1 DEF ChannelsTypeOK
  <2>6. ActorsKnown' /\ OneConsent' /\ PostsAreConsented'
    BY <2>2, <2>4, <2>5 DEF tables, ActorsKnown, OneConsent, PostsAreConsented, Connecting, Leaving
  <2>7. LeavesAll'
    BY <2>1, <2>2, <2>4, <2>5 DEF tables, LeavesAll, Leaving
  <2>8. QED
    BY <2>3, <2>6, <2>7
<1>2. CASE RevokeConsents(d)
  <2> DEFINE granted == {c \in Chans : consent[<<leave[d].by, c>>] = "granted"}
  <2>1. /\ leave[d].pc = "consents"
        /\ leave' = [leave EXCEPT ![d] = [@ EXCEPT !.pc = "purge", !.consents = granted]]
        /\ UNCHANGED <<tables, connect, hook, late>>
    BY <1>2 DEF RevokeConsents
  <2>2. ChannelsTypeOK'
    <3>1. PICK q, r : q = leave[d] /\ r = [q EXCEPT !.pc = "purge", !.consents = granted]
      OBVIOUS
    <3>2. leave' = [leave EXCEPT ![d] = r]
      BY <2>1, <3>1
    <3>3. granted \subseteq Chans
      OBVIOUS
    <3> HIDE DEF granted
    <3>4. q \in [pc : {"idle", "consents", "purge", "commit", "done"},
                by : Owners \cup {Nobody}, of : Chans \cup {Nobody},
                rows : SUBSET Chans, consents : SUBSET Chans, posts : SUBSET Posts]
      BY <3>1 DEF ChannelsTypeOK
    <3>5. r \in [pc : {"idle", "consents", "purge", "commit", "done"},
                by : Owners \cup {Nobody}, of : Chans \cup {Nobody},
                rows : SUBSET Chans, consents : SUBSET Chans, posts : SUBSET Posts]
      BY <3>1, <3>3, <3>4
    <3>6. QED
      BY <2>1, <3>2, <3>5 DEF ChannelsTypeOK, tables
  <2>3. /\ \A e \in Leaves \ {d} : leave'[e] = leave[e]
        /\ leave'[d].pc = "purge" /\ leave'[d].by = leave[d].by /\ leave'[d].of = leave[d].of
        /\ leave'[d].rows = leave[d].rows /\ leave'[d].consents = granted
    BY <2>1 DEF ChannelsTypeOK
  <2>4. QED
    BY <2>1, <2>2, <2>3 DEF tables, ActorsKnown, OneConsent, LeavesAll, PostsAreConsented, Connecting, Leaving
<1>3. CASE DeletePosts(d)
  <2> DEFINE mine == {p \in Posts : post[p] = leave[d].by /\ p[1] = leave[d].of}
  <2>1. /\ leave[d].pc = "purge"
        /\ leave' = [leave EXCEPT ![d] = [@ EXCEPT !.pc = "commit", !.posts = mine]]
        /\ UNCHANGED <<tables, connect, hook, late>>
    BY <1>3 DEF DeletePosts
  <2>2. ChannelsTypeOK'
    <3>1. PICK q, r : q = leave[d] /\ r = [q EXCEPT !.pc = "commit", !.posts = mine]
      OBVIOUS
    <3>2. leave' = [leave EXCEPT ![d] = r]
      BY <2>1, <3>1
    <3>3. mine \subseteq Posts
      OBVIOUS
    <3> HIDE DEF mine
    <3>4. q \in [pc : {"idle", "consents", "purge", "commit", "done"},
                by : Owners \cup {Nobody}, of : Chans \cup {Nobody},
                rows : SUBSET Chans, consents : SUBSET Chans, posts : SUBSET Posts]
      BY <3>1 DEF ChannelsTypeOK
    <3>5. r \in [pc : {"idle", "consents", "purge", "commit", "done"},
                by : Owners \cup {Nobody}, of : Chans \cup {Nobody},
                rows : SUBSET Chans, consents : SUBSET Chans, posts : SUBSET Posts]
      BY <3>1, <3>3, <3>4
    <3>6. QED
      BY <2>1, <3>2, <3>5 DEF ChannelsTypeOK, tables
  <2>3. /\ \A e \in Leaves \ {d} : leave'[e] = leave[e]
        /\ leave'[d].pc = "commit" /\ leave'[d].by = leave[d].by /\ leave'[d].of = leave[d].of
        /\ leave'[d].rows = leave[d].rows /\ leave'[d].consents = leave[d].consents
        /\ leave'[d].posts = mine
    BY <2>1 DEF ChannelsTypeOK
  <2>4. QED
    BY <2>1, <2>2, <2>3 DEF tables, ActorsKnown, OneConsent, LeavesAll, PostsAreConsented, Connecting, Leaving
<1>4. CASE CommitLeave(d)
  <2> DEFINE u == leave[d].by
             revoked(f, S) == [x \in Owners \X Chans |-> IF x[1] = u /\ x[2] \in S THEN "revoked" ELSE f[x]]
  <2>1. /\ leave[d].pc = "commit" /\ Leaving(d)
        /\ integration' = revoked(integration, leave[d].rows)
        /\ consent' = revoked(consent, leave[d].consents)
        /\ post' = [p \in Posts |-> IF p \in leave[d].posts THEN Nobody ELSE post[p]]
        /\ leave' = [leave EXCEPT ![d].pc = "done"]
        /\ UNCHANGED <<connect, hook, late>>
    BY <1>4 DEF CommitLeave, Leaving
  <2>2. ChannelsTypeOK'
    BY <2>1 DEF ChannelsTypeOK
  <2>3. u \in Owners /\ leave[d].of \in Chans
    BY <2>1 DEF ActorsKnown
  <2>4. leave'[d].pc = "done" /\ \A e \in Leaves \ {d} : leave'[e] = leave[e]
    BY <2>1 DEF ChannelsTypeOK
  <2>5. \A c \in Chans : integration'[<<u, c>>] # "active" /\ consent'[<<u, c>>] # "granted"
    BY <2>1, <2>3 DEF LeavesAll
  <2>6. \A v \in Owners, c \in Chans : v # u =>
           integration'[<<v, c>>] = integration[<<v, c>>] /\ consent'[<<v, c>>] = consent[<<v, c>>]
    BY <2>1
  <2>7. \A p \in Posts : post'[p] # Nobody => post'[p] = post[p] /\ p \notin leave[d].posts
    BY <2>1
  <2>8. \A e \in Leaves \ {d} : Leaving(e) => leave[e].by \in Owners /\ leave[e].by # u
    BY <2>1 DEF LeavesAll, ActorsKnown
  <2>9. ActorsKnown'
    BY <2>1, <2>4 DEF ActorsKnown, Connecting, Leaving
  <2>10. OneConsent'
    BY <2>1, <2>5, <2>6 DEF OneConsent, ActorsKnown, Connecting
  <2>11. LeavesAll'
    <3>1. \A e, f \in Leaves : Leaving(e)' /\ Leaving(f)' /\ e # f => leave'[e].by # leave'[f].by
      BY <2>4 DEF LeavesAll, Leaving
    <3>2. \A e \in Leaves : Leaving(e)' =>
             /\ leave'[e].of \in leave'[e].rows
             /\ leave'[e].rows = {c \in Chans : integration'[<<leave'[e].by, c>>] = "active"}
      BY <2>4, <2>6, <2>8 DEF LeavesAll, Leaving
    <3>3. \A e \in Leaves : leave'[e].pc \in {"purge", "commit"} =>
             leave'[e].consents = {c \in Chans : consent'[<<leave'[e].by, c>>] = "granted"}
      BY <2>4, <2>6, <2>8 DEF LeavesAll, Leaving
    <3>4. \A e \in Leaves : leave'[e].pc = "commit" =>
             \A p \in Posts : post'[p] = leave'[e].by /\ p[1] = leave'[e].of
                                => p \in leave'[e].posts \/ p \in late'
      <4>1. Nobody \notin Owners
        BY ChannelsAssumption
      <4>2. QED
        BY <2>1, <2>4, <2>7, <2>8, <4>1 DEF LeavesAll, Leaving
    <3>5. QED
      BY <3>1, <3>2, <3>3, <3>4 DEF LeavesAll, Leaving
  <2>12. PostsAreConsented'
    <3>1. \A v \in Owners : \A c, e \in Chans :
             integration'[<<v, c>>] = "active" /\ integration'[<<v, e>>] = "active" => c = e
      BY <2>5, <2>6 DEF PostsAreConsented
    <3>2. \A v \in Owners, c \in Chans : integration'[<<v, c>>] = "active" <=> consent'[<<v, c>>] = "granted"
      BY <2>5, <2>6 DEF PostsAreConsented
    <3>3. ASSUME NEW p \in Posts, post'[p] # Nobody
          PROVE  integration'[<<post'[p], p[1]>>] = "active" \/ p \in late'
      <4>1. post'[p] = post[p] /\ p \notin leave[d].posts /\ post[p] \in Owners /\ p[1] \in Chans
        BY <2>7, <3>3 DEF ChannelsTypeOK, Posts
      <4>2. integration[<<post[p], p[1]>>] = "active" \/ p \in late
        BY <3>3, <4>1 DEF PostsAreConsented
      <4>3. CASE post[p] # u
        BY <2>1, <2>6, <4>1, <4>2, <4>3
      <4>4. CASE post[p] = u /\ p \notin late
        <5>1. integration[<<u, p[1]>>] = "active"
          BY <4>2, <4>4
        <5>2. integration[<<u, leave[d].of>>] = "active"
          BY <2>1, <2>3 DEF LeavesAll
        <5>3. p[1] = leave[d].of
          BY <2>3, <4>1, <5>1, <5>2 DEF PostsAreConsented
        <5>4. QED
          BY <2>1, <4>1, <4>4, <5>3 DEF LeavesAll
      <4>5. QED
        BY <2>1, <4>3, <4>4
    <3>4. QED
      BY <3>1, <3>2, <3>3 DEF PostsAreConsented
  <2>13. QED
    BY <2>2, <2>9, <2>10, <2>11, <2>12
<1>5. QED
  BY <1>1, <1>2, <1>3, <1>4

\* The webhook.
LEMMA HookStep ==
    ASSUME ChannelsHold, NEW h \in Hooks, ProcessUpdate(h) \/ InsertPost(h)
    PROVE  ChannelsHold'
<1> USE DEF ChannelsHold
<1>1. CASE ProcessUpdate(h)
  <2>1. PICK p \in Posts, u \in Owners : hook' = [hook EXCEPT ![h] = [pc |-> "insert", post |-> p, owner |-> u]]
    BY <1>1 DEF ProcessUpdate
  <2>2. UNCHANGED <<tables, connect, leave, late>>
    BY <1>1 DEF ProcessUpdate
  <2>3. ChannelsTypeOK' /\ ActorsKnown'
    BY <2>1, <2>2 DEF ChannelsTypeOK, tables, ActorsKnown, Connecting, Leaving
  <2>4. QED
    BY <2>2, <2>3 DEF tables, OneConsent, LeavesAll, PostsAreConsented, Leaving
<1>2. CASE InsertPost(h)
  <2> DEFINE p == hook[h].post
             u == hook[h].owner
             left == \/ integration[<<u, p[1]>>] # "active"
                     \/ \E d \in Leaves : leave[d].pc = "commit" /\ leave[d].by = u
  <2>1. /\ p \in Posts /\ u \in Owners /\ hook' = [hook EXCEPT ![h].pc = "done"]
        /\ UNCHANGED <<integration, consent, connect, leave>>
    BY <1>2 DEF InsertPost, ActorsKnown
  <2>2. \/ /\ post[p] = Nobody /\ post' = [post EXCEPT ![p] = u]
           /\ late' = IF left THEN late \cup {p} ELSE late
        \/ UNCHANGED <<post, late>>
    BY <1>2 DEF InsertPost
  <2>3. ChannelsTypeOK'
    BY <2>1, <2>2 DEF ChannelsTypeOK
  <2>4. ActorsKnown' /\ OneConsent'
    BY <2>1, <2>2 DEF ActorsKnown, OneConsent, Connecting, Leaving, ChannelsTypeOK
  <2>5. \A q \in Posts : \/ post'[q] = post[q]
                         \/ q = p /\ post'[q] = u /\ (left => p \in late')
    BY <2>1, <2>2 DEF ChannelsTypeOK
  <2>6. late \subseteq late'
    BY <2>2
  <2>7. LeavesAll'
    BY <2>1, <2>5, <2>6 DEF LeavesAll, Leaving
  <2>8. PostsAreConsented'
    BY <2>1, <2>5, <2>6 DEF PostsAreConsented
  <2>9. QED
    BY <2>3, <2>4, <2>7, <2>8
<1>3. QED
  BY <1>1, <1>2

\* A transaction that is rolled back has written nothing.
LEMMA RollbackStep == ChannelsHold /\ Rollback => ChannelsHold'
<1> SUFFICES ASSUME ChannelsHold, Rollback PROVE ChannelsHold'
  OBVIOUS
<1> USE DEF ChannelsHold
<1>1. UNCHANGED <<tables, hook, late>>
  BY DEF Rollback
<1>2. CASE \E k \in Connects : connect' = [connect EXCEPT ![k].pc = "done"] /\ UNCHANGED leave
  <2>1. PICK k \in Connects : connect' = [connect EXCEPT ![k].pc = "done"] /\ UNCHANGED leave
    BY <1>2
  <2>2. /\ ChannelsTypeOK' /\ connect'[k].pc = "done"
        /\ \A q \in Connects \ {k} : connect'[q] = connect[q]
    BY <1>1, <2>1, ConnectTo
  <2>3. QED
    BY <1>1, <2>1, <2>2 DEF tables, ActorsKnown, OneConsent, LeavesAll, PostsAreConsented,
       Connecting, Leaving
<1>3. CASE \E d \in Leaves : leave' = [leave EXCEPT ![d].pc = "done"] /\ UNCHANGED connect
  <2>1. PICK d \in Leaves : leave' = [leave EXCEPT ![d].pc = "done"] /\ UNCHANGED connect
    BY <1>3
  <2>2. ChannelsTypeOK'
    BY <1>1, <2>1 DEF ChannelsTypeOK, tables
  <2>3. leave'[d].pc = "done" /\ \A e \in Leaves \ {d} : leave'[e] = leave[e]
    BY <2>1 DEF ChannelsTypeOK
  <2>4. QED
    BY <1>1, <2>1, <2>2, <2>3 DEF tables, ActorsKnown, OneConsent, LeavesAll, PostsAreConsented,
       Connecting, Leaving
<1>4. QED
  BY <1>2, <1>3 DEF Rollback

\* The channels stay consistent in every state.
THEOREM ChannelsInvariant == TelegramSpec => []ChannelsHold
<1>1. TelegramInit => ChannelsHold
  BY DEF TelegramInit, ChannelsInit, ChannelsHold, ChannelsTypeOK, ActorsKnown, OneConsent, LeavesAll,
     PostsAreConsented, Connecting, Leaving, Posts
<1>2. ChannelsHold /\ [TelegramNext]_tvars => ChannelsHold'
  <2> SUFFICES ASSUME ChannelsHold, [TelegramNext]_tvars PROVE ChannelsHold'
    OBVIOUS
  <2>1. CASE UNCHANGED channelVars
    BY <2>1, ChannelsStutter
  <2>2. CASE ChannelsNext
    BY <2>2, ConnectStep, LeaveStep, HookStep, RollbackStep DEF ChannelsNext
  <2>3. QED
    BY <2>1, <2>2 DEF TelegramNext, tvars
<1>3. QED
  BY <1>1, <1>2, PTL DEF TelegramSpec

\* For any number of owners, channels and requests: one active channel and one
\* consent an owner, and no post without both, but those that came too late.
THEOREM ConsentSafety == TelegramSpec => []PostsAreConsented
<1>1. ChannelsHold => PostsAreConsented
  BY DEF ChannelsHold
<1>2. QED
  BY <1>1, ChannelsInvariant, PTL

\* Every variable of the sign-in, the connections, the messages and the channels
\* stays within its type.
THEOREM TelegramTypeCorrect == TelegramSpec => []TelegramTypeOK
<1>1. TypeOK /\ RepliesHold /\ ChannelsHold => TelegramTypeOK
  BY DEF TelegramTypeOK, RepliesHold, ChannelsHold
<1>2. QED
  BY <1>1, SignInRefinement, TypeCorrect, RepliesInvariant, ChannelsInvariant, PTL
=============================================================================
