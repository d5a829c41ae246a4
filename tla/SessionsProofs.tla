--------------------------- MODULE SessionsProofs ---------------------------
(***************************************************************************)
(* Sessions last and logouts are final, for every number of browsers,      *)
(* sessions and requests in flight.  The invariant ties the store to the   *)
(* history of the sessions created, and says that a session that is being  *)
(* created is known to nobody yet.                                         *)
(***************************************************************************)
EXTENDS Sessions, TLAPS

CallRecord ==
  {Idle}
  \cup [at : {"creating"}, by : Browser, sid : Sid, left : Left]
  \cup [at : {"checking"}, by : Browser, sid : Sid \cup {NoCookie},
        then : {"serving", "loggingOut"}]
  \cup [at : {"serving", "loggingOut", "answering"}, by : Browser,
        sid : Sid \cup {NoCookie}]

Shapes ==
  /\ calls \in [Call -> CallRecord]
  /\ cookie \in [Browser -> Sid \cup {NoCookie}]
  /\ minted \subseteq Sid
  /\ sessions \in [DOMAIN sessions -> Left] /\ created \in [DOMAIN created -> Left]
  /\ sweeper = Waiting \/ sweeper \in [at : {"ticked"}, lag : 0 .. MaxLag]

\* A created session is in the store unless it is logged out or expired.
StoreMatches ==
  /\ DOMAIN sessions \subseteq DOMAIN created /\ DOMAIN created \subseteq minted
  /\ loggedOut \subseteq DOMAIN created
  /\ \A s \in DOMAIN sessions : sessions[s] = created[s] /\ s \notin loggedOut
  /\ \A s \in DOMAIN created :
       s \in DOMAIN sessions \/ s \in loggedOut \/ created[s] < 0

\* A session that is being created is new, and created once.
CallsMatch ==
  \A r \in Call :
    /\ calls[r].at = "creating" =>
         /\ calls[r].sid \in minted \ DOMAIN created
         /\ \A q \in Call : q # r /\ calls[q].at = "creating" =>
                              calls[q].sid # calls[r].sid
    /\ calls[r].at = "loggingOut" => calls[r].sid \in DOMAIN created

IInv == Shapes /\ StoreMatches /\ CallsMatch

-----------------------------------------------------------------------------
\* The time left saturates below, where it stays expired.
LEMMA TimesLeft ==
  /\ Left \subseteq Int /\ Life \in Left
  /\ \A n \in Left : Less(n) \in Left /\ (n < 0 => Less(n) < 0)
BY SessionsAssumption DEF Left, Less

LEMMA InitHolds == Init => IInv
BY SessionsAssumption
   DEF Init, IInv, Shapes, StoreMatches, CallsMatch, CallRecord, Idle, Empty

\* A call that does not create a session goes on; the store stays as it is.
LEMMA CallGoesOn ==
  ASSUME IInv, NEW r \in Call, NEW call \in CallRecord, To(r, call),
         call.at # "creating",
         call.at = "loggingOut" => call.sid \in DOMAIN created,
         cookie' \in [Browser -> Sid \cup {NoCookie}],
         UNCHANGED <<storeVars, sweeper>>
  PROVE  IInv'
<1>1. /\ calls' \in [Call -> CallRecord]
      /\ calls'[r] = call /\ \A q \in Call : q # r => calls'[q] = calls[q]
  BY DEF To, IInv, Shapes
<1>2. Shapes' /\ StoreMatches'
  BY <1>1 DEF IInv, Shapes, StoreMatches, storeVars
<1>3. CallsMatch'
  BY <1>1 DEF IInv, CallsMatch, storeVars
<1>4. QED
  BY <1>2, <1>3 DEF IInv

LEMMA LoginHolds ==
  ASSUME IInv, NEW r \in Call, NEW b \in Browser, NEW s \in Sid, Login(r, b, s)
  PROVE  IInv'
<1> DEFINE call == [at |-> "creating", by |-> b, sid |-> s, left |-> Life]
<1>1. call \in CallRecord
  BY TimesLeft DEF CallRecord
<1>2. /\ calls' \in [Call -> CallRecord]
      /\ calls'[r] = call /\ \A q \in Call : q # r => calls'[q] = calls[q]
  BY <1>1 DEF Login, To, IInv, Shapes
<1>3. Shapes' /\ StoreMatches'
  BY <1>2 DEF Login, IInv, Shapes, StoreMatches
<1>4. CallsMatch'
  BY <1>2 DEF Login, IInv, StoreMatches, CallsMatch
<1>5. QED
  BY <1>3, <1>4 DEF IInv

LEMMA StoreSessionHolds ==
  ASSUME IInv, NEW r \in Call, StoreSession(r) PROVE IInv'
<1> DEFINE s == calls[r].sid
           left == calls[r].left
           call == [at |-> "answering", by |-> calls[r].by, sid |-> s]
<1>1. calls[r] \in [at : {"creating"}, by : Browser, sid : Sid, left : Left]
  BY DEF StoreSession, IInv, Shapes, CallRecord, Idle
<1>2. call \in CallRecord
  BY <1>1 DEF CallRecord
<1>3. /\ calls' \in [Call -> CallRecord]
      /\ calls'[r] = call /\ \A q \in Call : q # r => calls'[q] = calls[q]
  BY <1>2 DEF StoreSession, To, IInv, Shapes
<1>4. /\ sessions' = With(sessions, s, left) /\ created' = With(created, s, left)
      /\ UNCHANGED <<minted, loggedOut, cookie, sweeper>>
  BY DEF StoreSession
<1>5. s \in minted \ DOMAIN created /\ left \in Left
  BY <1>1 DEF StoreSession, IInv, CallsMatch
<1>6. Shapes'
  BY <1>3, <1>4, <1>5 DEF With, IInv, Shapes
<1>7. StoreMatches'
  BY <1>4, <1>5 DEF With, IInv, StoreMatches, Shapes
<1>8. CallsMatch'
  BY <1>1, <1>3, <1>4, <1>5 DEF StoreSession, With, IInv, CallsMatch
<1>9. QED
  BY <1>6, <1>7, <1>8 DEF IInv

LEMMA LogoutHolds == ASSUME IInv, NEW r \in Call, Logout(r) PROVE IInv'
<1> DEFINE s == calls[r].sid
           call == [at |-> "answering", by |-> calls[r].by, sid |-> NoCookie]
<1>1. calls[r].by \in Browser /\ s \in DOMAIN created
  BY DEF Logout, IInv, Shapes, CallsMatch, CallRecord, Idle
<1>2. call \in CallRecord
  BY <1>1 DEF CallRecord
<1>3. /\ calls' \in [Call -> CallRecord]
      /\ calls'[r] = call /\ \A q \in Call : q # r => calls'[q] = calls[q]
  BY <1>2 DEF Logout, To, IInv, Shapes
<1>4. /\ sessions' = [t \in DOMAIN sessions \ {s} |-> sessions[t]]
      /\ loggedOut' = loggedOut \cup {s}
      /\ UNCHANGED <<minted, created, cookie, sweeper>>
  BY DEF Logout, Restrict
<1>5. Shapes' /\ StoreMatches'
  BY <1>1, <1>3, <1>4 DEF IInv, Shapes, StoreMatches
<1>6. CallsMatch'
  BY <1>3, <1>4 DEF IInv, CallsMatch
<1>7. QED
  BY <1>5, <1>6 DEF IInv

LEMMA SweepHolds == IInv /\ Sweep => IInv'
<1> SUFFICES ASSUME IInv, Sweep PROVE IInv'
  OBVIOUS
<1> DEFINE K == {s \in DOMAIN sessions : sessions[s] + sweeper.lag >= 0}
<1>1. /\ sessions' = [s \in K |-> sessions[s]]
      /\ UNCHANGED <<minted, created, loggedOut, cookie, calls>>
      /\ sweeper' = Waiting
  BY DEF Sweep, Restrict
<1>2. \A s \in DOMAIN sessions \ K : created[s] < 0
  BY TimesLeft DEF Sweep, IInv, Shapes, StoreMatches, Waiting
<1>3. Shapes' /\ StoreMatches'
  BY <1>1, <1>2 DEF IInv, Shapes, StoreMatches
<1>4. CallsMatch'
  BY <1>1 DEF IInv, CallsMatch
<1>5. QED
  BY <1>3, <1>4 DEF IInv

LEMMA TimePassesHolds == IInv /\ TimePasses => IInv'
<1> SUFFICES ASSUME IInv, TimePasses PROVE IInv'
  OBVIOUS
<1>1. /\ sessions' = [s \in DOMAIN sessions |-> Less(sessions[s])]
      /\ created' = [s \in DOMAIN created |-> Less(created[s])]
      /\ UNCHANGED <<minted, loggedOut, cookie>>
  BY DEF TimePasses, Older
<1>2. \A n \in Left : Less(n) \in Left /\ (n < 0 => Less(n) < 0)
  BY TimesLeft
<1>3. StoreMatches'
  BY <1>1, <1>2, TimesLeft DEF IInv, Shapes, StoreMatches
<1>4. \A r \in Call : calls[r].at = "creating" =>
        calls[r] \in [at : {"creating"}, by : Browser, sid : Sid, left : Left]
  BY DEF IInv, Shapes, CallRecord, Idle
<1>5. \A r \in Call :
        /\ calls'[r] \in CallRecord
        /\ calls'[r].at = calls[r].at
        /\ calls[r].at # "creating" => calls'[r] = calls[r]
        /\ calls[r].at = "creating" => calls'[r].sid = calls[r].sid
  <2> SUFFICES ASSUME NEW r \in Call
               PROVE  /\ calls'[r] \in CallRecord
                      /\ calls'[r].at = calls[r].at
                      /\ calls[r].at # "creating" => calls'[r] = calls[r]
                      /\ calls[r].at = "creating" => calls'[r].sid = calls[r].sid
    OBVIOUS
  <2>1. CASE calls[r].at = "creating"
    <3>1. calls'[r] = [calls[r] EXCEPT !.left = Less(calls[r].left)]
      BY <2>1 DEF TimePasses
    <3>2. Less(calls[r].left) \in Left
      BY <2>1, <1>4, <1>2
    <3>3. /\ calls'[r] \in [at : {"creating"}, by : Browser, sid : Sid, left : Left]
          /\ calls'[r].sid = calls[r].sid /\ calls'[r].at = "creating"
      BY <2>1, <3>1, <3>2, <1>4
    <3>4. QED
      BY <2>1, <3>3 DEF CallRecord
  <2>2. CASE calls[r].at # "creating"
    BY <2>2 DEF TimePasses, IInv, Shapes
  <2>3. QED
    BY <2>1, <2>2
<1>6. DOMAIN calls' = Call /\ calls' = [r \in Call |-> calls'[r]]
  BY DEF TimePasses
<1>7. calls' \in [Call -> CallRecord]
  BY <1>5, <1>6
<1>8. sweeper' = Waiting \/ sweeper' \in [at : {"ticked"}, lag : 0 .. MaxLag]
  BY SessionsAssumption DEF TimePasses, IInv, Shapes, Waiting
<1>9. Shapes'
  BY <1>1, <1>2, <1>7, <1>8 DEF IInv, Shapes
<1>10. CallsMatch'
  BY <1>1, <1>5 DEF IInv, CallsMatch
<1>11. QED
  BY <1>3, <1>9, <1>10 DEF IInv

LEMMA StepHolds == IInv /\ [Next]_vars => IInv'
<1> SUFFICES ASSUME IInv, [Next]_vars PROVE IInv'
  OBVIOUS
<1>1. ASSUME NEW r \in Call, NEW b \in Browser, NEW s \in Sid, Login(r, b, s)
      PROVE  IInv'
  BY <1>1, LoginHolds
<1>2. ASSUME NEW r \in Call, NEW b \in Browser, NEW what \in {"serving", "loggingOut"},
             Send(r, b, what)
      PROVE  IInv'
  <2>1. [at |-> "checking", by |-> b, sid |-> cookie[b], then |-> what] \in CallRecord
    BY DEF IInv, Shapes, CallRecord
  <2>2. QED
    BY <1>2, <2>1, CallGoesOn DEF Send, IInv, Shapes
<1>3. ASSUME NEW r \in Call, StoreSession(r) PROVE IInv'
  BY <1>3, StoreSessionHolds
<1>4. ASSUME NEW r \in Call, Pass(r) PROVE IInv'
  <2>1. /\ calls[r].then \in {"serving", "loggingOut"} /\ calls[r].by \in Browser
        /\ calls[r].sid \in DOMAIN created /\ calls[r].sid \in Sid
    BY <1>4 DEF Pass, Valid, IInv, Shapes, StoreMatches, CallRecord, Idle
  <2>2. [at |-> calls[r].then, by |-> calls[r].by, sid |-> calls[r].sid] \in CallRecord
    BY <2>1 DEF CallRecord
  <2>3. QED
    BY <1>4, <2>1, <2>2, CallGoesOn DEF Pass, IInv, Shapes
<1>5. ASSUME NEW r \in Call, Redirect(r) \/ Serve(r) PROVE IInv'
  <2>1. Idle \in CallRecord /\ Idle.at = "idle"
    BY DEF CallRecord, Idle
  <2>2. QED
    BY <1>5, <2>1, CallGoesOn DEF Redirect, Serve, IInv, Shapes
<1>6. ASSUME NEW r \in Call, Logout(r) PROVE IInv'
  BY <1>6, LogoutHolds
<1>7. ASSUME NEW r \in Call, Answer(r) PROVE IInv'
  <2>1. Idle \in CallRecord /\ Idle.at = "idle"
    BY DEF CallRecord, Idle
  <2>2. calls[r].sid \in Sid \cup {NoCookie}
    BY <1>7 DEF Answer, IInv, Shapes, CallRecord, Idle
  <2>3. cookie' \in [Browser -> Sid \cup {NoCookie}]
    BY <1>7, <2>2 DEF Answer, IInv, Shapes
  <2>4. QED
    BY <1>7, <2>1, <2>3, CallGoesOn DEF Answer
<1>8. ASSUME NEW b \in Browser, CloseBrowser(b) PROVE IInv'
  BY <1>8 DEF CloseBrowser, storeVars, IInv, Shapes, StoreMatches, CallsMatch
<1>9. CASE Tick
  BY <1>9, SessionsAssumption DEF Tick, storeVars, IInv, Shapes, StoreMatches, CallsMatch
<1>10. CASE Sweep
  BY <1>10, SweepHolds
<1>11. CASE Restart
  BY <1>11 DEF Restart, Empty, Idle, CallRecord, IInv, Shapes, StoreMatches, CallsMatch
<1>12. CASE TimePasses
  BY <1>12, TimePassesHolds
<1>13. CASE UNCHANGED vars
  BY <1>13 DEF vars, storeVars, IInv, Shapes, StoreMatches, CallsMatch
<1>14. QED
  BY <1>1, <1>2, <1>3, <1>4, <1>5, <1>6, <1>7, <1>8, <1>9, <1>10, <1>11, <1>12,
     <1>13 DEF Next

\* The store agrees with the sessions created, in every reachable state.
THEOREM InvariantHolds == Spec => []IInv
BY InitHolds, StepHolds, PTL DEF Spec

\* Sessions, calls and times stay well formed; only ids that were used up are
\* logged out.
THEOREM TypeCorrect == Spec => []TypeOK
<1>1. IInv => TypeOK
  <2> SUFFICES ASSUME IInv PROVE TypeOK
    OBVIOUS
  <2>1. DOMAIN sessions \in SUBSET Sid /\ DOMAIN created \in SUBSET Sid
    BY DEF IInv, Shapes, StoreMatches
  <2>2. {sessions, created} \subseteq Store
    BY <2>1 DEF Store, IInv, Shapes
  <2>3. \A r \in Call : calls[r] # Idle =>
          /\ calls[r].at \in {"creating", "checking", "serving", "loggingOut",
                              "answering"}
          /\ calls[r].by \in Browser /\ calls[r].sid \in Sid \cup {NoCookie}
    BY DEF IInv, Shapes, CallRecord
  <2>4. QED
    BY <2>2, <2>3 DEF TypeOK, IInv, Shapes, StoreMatches
<1>2. QED
  BY <1>1, InvariantHolds, PTL

\* A session lasts until it expires or is logged out (services/sessions.go:62).
THEOREM SessionsDoLast == Spec => []SessionsLast
<1>1. IInv => SessionsLast
  BY TimesLeft DEF IInv, Shapes, StoreMatches, SessionsLast, Valid
<1>2. QED
  BY <1>1, InvariantHolds, PTL

\* No request passes with a session that was logged out (ui/router.go:143).
THEOREM LogoutsEnd == Spec => LogoutEnds
<1> DEFINE Ends == \A r \in Call :
      calls[r].at = "checking" /\ calls'[r].at \in {"serving", "loggingOut"}
        => calls[r].sid \notin loggedOut
<1>1. IInv /\ [Next]_vars => [Ends]_vars
  <2> SUFFICES ASSUME IInv, Next, NEW r \in Call, calls[r].at = "checking",
                      calls'[r].at \in {"serving", "loggingOut"}
               PROVE  calls[r].sid \notin loggedOut
    OBVIOUS
  <2>1. Valid(calls[r].sid)
    <3>1. calls'[r] # calls[r] /\ calls \in [Call -> CallRecord]
      BY DEF IInv, Shapes
    <3>2. CASE Pass(r)
      BY <3>2 DEF Pass
    <3>3. ASSUME NEW q \in Call, q # r, NEW call, To(q, call) PROVE FALSE
      BY <3>1, <3>3 DEF To
    <3>4. CASE Redirect(r)
      BY <3>1, <3>4 DEF Redirect, To, Idle
    <3>5. CASE TimePasses
      BY <3>1, <3>5 DEF TimePasses
    <3>6. CASE Restart
      BY <3>6 DEF Restart, Idle
    <3>7. CASE Tick \/ Sweep \/ \E b \in Browser : CloseBrowser(b)
      BY <3>1, <3>7 DEF Tick, Sweep, CloseBrowser
    <3>8. ASSUME NEW q \in Call, NEW b \in Browser,
                 (\E s \in Sid : Login(q, b, s)) \/ Send(q, b, "serving")
                   \/ Send(q, b, "loggingOut")
          PROVE  Valid(calls[r].sid)
      <4>0. calls[q] = Idle
        BY <3>8 DEF Login, Send
      <4>1. q # r
        BY <4>0 DEF Idle
      <4>2. CASE \E s \in Sid : Login(q, b, s)
        BY <4>1, <4>2, <3>3 DEF Login
      <4>3. CASE Send(q, b, "serving") \/ Send(q, b, "loggingOut")
        BY <4>1, <4>3, <3>3 DEF Send
      <4>4. QED
        BY <3>8, <4>2, <4>3
    <3>9. ASSUME NEW q \in Call,
                 StoreSession(q) \/ Serve(q) \/ Logout(q) \/ Answer(q)
          PROVE  Valid(calls[r].sid)
      BY <3>3, <3>9 DEF StoreSession, Serve, Logout, Answer
    <3>10. ASSUME NEW q \in Call, q # r, Pass(q) \/ Redirect(q)
           PROVE  Valid(calls[r].sid)
      BY <3>3, <3>10 DEF Pass, Redirect
    <3>11. QED
      BY <3>2, <3>4, <3>5, <3>6, <3>7, <3>8, <3>9, <3>10 DEF Next
  <2>2. QED
    BY <2>1 DEF Valid, IInv, StoreMatches
<1>2. QED
  BY <1>1, InvariantHolds, PTL DEF Spec, LogoutEnds
=============================================================================
