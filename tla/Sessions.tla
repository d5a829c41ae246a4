------------------------------ MODULE Sessions ------------------------------
(***************************************************************************)
(* The sessions of the admin UI (services/sessions.go) with the browsers   *)
(* that present them.  A request reads its cookie when it is sent, is      *)
(* checked later and answered later still, while other requests log in or  *)
(* out and the sweeper waits for the lock with a time it has read.         *)
(*                                                                         *)
(* Times are relative to now: a session is stored with the time it has     *)
(* left, and the sweeper with how old its tick is.                         *)
(***************************************************************************)
EXTENDS Integers, Functions

CONSTANTS
  Sid,       \* the UUIDs, each used once
  Browser,
  Call,      \* requests in flight
  NoCookie,
  Life,      \* sessionExpiryDurationMs
  MaxLag     \* bound on the sweeper's wait for the lock

ASSUME SessionsAssumption ==
  /\ Life \in Nat \ {0} /\ MaxLag \in Nat
  /\ NoCookie \notin Sid

VARIABLES
  sessions,   \* activeSessions: the time each has left
  minted,     \* the ids used up
  cookie,     \* ForqSession in each browser
  calls,
  sweeper,    \* waiting for a tick, or for the lock
  created,    \* history: the time left of all sessions of this process
  loggedOut   \* history: the sessions a logout was done for

storeVars == <<sessions, minted, created, loggedOut>>
vars == <<storeVars, cookie, calls, sweeper>>

Left == -(MaxLag + 1) .. Life      \* saturates below
Store == UNION {[S -> Left] : S \in SUBSET Sid}

Idle == [at |-> "idle"]
Waiting == [at |-> "waiting"]

TypeOK ==
  /\ {sessions, created} \subseteq Store
  /\ minted \subseteq Sid /\ loggedOut \subseteq minted
  /\ cookie \in [Browser -> Sid \cup {NoCookie}]
  /\ \A r \in Call : calls[r] # Idle =>
       /\ calls[r].at \in {"creating", "checking", "serving", "loggingOut", "answering"}
       /\ calls[r].by \in Browser /\ calls[r].sid \in Sid \cup {NoCookie}
  /\ sweeper = Waiting \/ (sweeper.at = "ticked" /\ sweeper.lag \in 0 .. MaxLag)

Empty == [s \in {} |-> Life]

Init ==
  /\ sessions = Empty /\ created = Empty
  /\ minted = {} /\ loggedOut = {}
  /\ cookie = [b \in Browser |-> NoCookie]
  /\ calls = [r \in Call |-> Idle]
  /\ sweeper = Waiting

-----------------------------------------------------------------------------
To(r, call) == calls' = [calls EXCEPT ![r] = call]

\* processLogin with the right token: the id and the expiry are made before the
\* lock is taken.
Login(r, b, s) ==
  /\ calls[r] = Idle
  /\ s \notin minted
  /\ minted' = minted \cup {s}
  /\ To(r, [at |-> "creating", by |-> b, sid |-> s, left |-> Life])
  /\ UNCHANGED <<sessions, created, loggedOut, cookie, sweeper>>

With(f, s, left) == [t \in DOMAIN f \cup {s} |-> IF t = s THEN left ELSE f[t]]

\* mutants: a login ends the other sessions; the results are swapped
StoreSessionAlone(r) ==
  /\ calls[r].at = "creating"
  /\ sessions' = With(Empty, calls[r].sid, calls[r].left)
  /\ created' = With(created, calls[r].sid, calls[r].left)
  /\ To(r, [at |-> "answering", by |-> calls[r].by, sid |-> calls[r].sid])
  /\ UNCHANGED <<minted, loggedOut, cookie, sweeper>>

StoreSessionSwapped(r) ==
  /\ calls[r].at = "creating"
  /\ sessions' = With(sessions, calls[r].sid, calls[r].left)
  /\ created' = With(created, calls[r].sid, calls[r].left)
  /\ To(r, [at |-> "answering", by |-> calls[r].by, sid |-> calls[r].left])
  /\ UNCHANGED <<minted, loggedOut, cookie, sweeper>>

StoreSession(r) ==
  /\ calls[r].at = "creating"
  /\ sessions' = With(sessions, calls[r].sid, calls[r].left)
  /\ created' = With(created, calls[r].sid, calls[r].left)
  /\ To(r, [at |-> "answering", by |-> calls[r].by, sid |-> calls[r].sid])
  /\ UNCHANGED <<minted, loggedOut, cookie, sweeper>>

\* A protected page, or the logout.
Send(r, b, what) ==
  /\ calls[r] = Idle
  /\ To(r, [at |-> "checking", by |-> b, sid |-> cookie[b], then |-> what])
  /\ UNCHANGED <<storeVars, cookie, sweeper>>

\* IsSessionValid
Valid(s) == s \in DOMAIN sessions /\ sessions[s] > 0

\* sessionAuth lets the request through.
Pass(r) ==
  /\ calls[r].at = "checking" /\ Valid(calls[r].sid)
  /\ To(r, [at |-> calls[r].then, by |-> calls[r].by, sid |-> calls[r].sid])
  /\ UNCHANGED <<storeVars, cookie, sweeper>>

\* sessionAuth redirects to the login page; no cookie is set.
Redirect(r) ==
  /\ calls[r].at = "checking" /\ ~ Valid(calls[r].sid)
  /\ To(r, Idle)
  /\ UNCHANGED <<storeVars, cookie, sweeper>>

\* The page is rendered; no cookie is set.
Serve(r) ==
  /\ calls[r].at = "serving"
  /\ To(r, Idle)
  /\ UNCHANGED <<storeVars, cookie, sweeper>>

\* mutant: only the cookie is deleted
LogoutCookieOnly(r) ==
  /\ calls[r].at = "loggingOut"
  /\ loggedOut' = loggedOut \cup {calls[r].sid}
  /\ To(r, [at |-> "answering", by |-> calls[r].by, sid |-> NoCookie])
  /\ UNCHANGED <<sessions, minted, created, cookie, sweeper>>

\* processLogout: InvalidateSession, and the cookie is deleted.
Logout(r) ==
  /\ calls[r].at = "loggingOut"
  /\ sessions' = Restrict(sessions, DOMAIN sessions \ {calls[r].sid})
  /\ loggedOut' = loggedOut \cup {calls[r].sid}
  /\ To(r, [at |-> "answering", by |-> calls[r].by, sid |-> NoCookie])
  /\ UNCHANGED <<minted, created, cookie, sweeper>>

\* The response reaches the browser, which takes its cookie, or is lost.
Answer(r) ==
  /\ calls[r].at = "answering"
  /\ \/ cookie' = [cookie EXCEPT ![calls[r].by] = calls[r].sid]
     \/ UNCHANGED cookie
  /\ To(r, Idle)
  /\ UNCHANGED <<storeVars, sweeper>>

\* The cookie has no Max-Age: the browser drops it when it is closed.
CloseBrowser(b) ==
  /\ cookie' = [cookie EXCEPT ![b] = NoCookie]
  /\ UNCHANGED <<storeVars, calls, sweeper>>

-----------------------------------------------------------------------------
\* The ticker fires, or had fired while the sweeper was busy.
Tick ==
  /\ sweeper = Waiting
  /\ sweeper' = [at |-> "ticked", lag |-> 0]
  /\ UNCHANGED <<storeVars, cookie, calls>>

\* mutants: the comparison is the wrong way round; sessions are only dropped by
\* a logout
SweepLive ==
  /\ sweeper.at = "ticked"
  /\ sessions' = Restrict(sessions, {s \in DOMAIN sessions :
                                       sessions[s] + sweeper.lag <= 0})
  /\ sweeper' = Waiting
  /\ UNCHANGED <<minted, created, loggedOut, cookie, calls>>

SweepNothing ==
  /\ sweeper.at = "ticked"
  /\ sweeper' = Waiting
  /\ UNCHANGED <<storeVars, cookie, calls>>

\* expiry < now, where now is the time of the tick.
Sweep ==
  /\ sweeper.at = "ticked"
  /\ sessions' = Restrict(sessions, {s \in DOMAIN sessions :
                                       sessions[s] + sweeper.lag >= 0})
  /\ sweeper' = Waiting
  /\ UNCHANGED <<minted, created, loggedOut, cookie, calls>>

\* The sessions are lost, and so are the requests in flight.
Restart ==
  /\ sessions' = Empty /\ created' = Empty /\ loggedOut' = {}
  /\ calls' = [r \in Call |-> Idle]
  /\ sweeper' = Waiting
  /\ UNCHANGED <<minted, cookie>>

Less(left) == IF left > -(MaxLag + 1) THEN left - 1 ELSE left

Older(f) == [s \in DOMAIN f |-> Less(f[s])]

TimePasses ==
  /\ sweeper.at = "ticked" => sweeper.lag < MaxLag
  /\ sessions' = Older(sessions) /\ created' = Older(created)
  /\ calls' = [r \in Call |-> IF calls[r].at = "creating"
                              THEN [calls[r] EXCEPT !.left = Less(@)] ELSE calls[r]]
  /\ sweeper' = IF sweeper = Waiting THEN sweeper
                                     ELSE [sweeper EXCEPT !.lag = @ + 1]
  /\ UNCHANGED <<minted, loggedOut, cookie>>

Next ==
  \/ \E r \in Call :
       \/ \E b \in Browser :
            \/ \E s \in Sid : Login(r, b, s)
            \/ Send(r, b, "serving") \/ Send(r, b, "loggingOut")
       \/ StoreSession(r) \/ Pass(r) \/ Redirect(r) \/ Serve(r)
       \/ Logout(r) \/ Answer(r)
  \/ \E b \in Browser : CloseBrowser(b)
  \/ Tick \/ Sweep \/ Restart \/ TimePasses

\* Time passes, the ticker ticks and the sweeper gets the lock.
Spec ==
  Init /\ [][Next]_vars
  /\ WF_vars(TimePasses) /\ WF_vars(Tick) /\ WF_vars(Sweep)

-----------------------------------------------------------------------------
\* A session that nobody logged out is valid until it expires, whatever other
\* logins, logouts and sweeps with an old time do (services/sessions.go:62).
SessionsLast ==
  \A s \in DOMAIN created : created[s] > 0 /\ s \notin loggedOut => Valid(s)

\* A logout ends its session for good: no request checked after it passes, the
\* ones sent before it included (ui/router.go:143).
LogoutEnds ==
  [][\A r \in Call :
       calls[r].at = "checking" /\ calls'[r].at \in {"serving", "loggingOut"}
         => calls[r].sid \notin loggedOut]_vars

\* No session is kept for ever (services/sessions.go:33-42).
SessionsForgotten ==
  \A s \in Sid : s \in DOMAIN sessions ~> s \notin DOMAIN sessions
=============================================================================
