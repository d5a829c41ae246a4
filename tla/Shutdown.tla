------------------------------ MODULE Shutdown ------------------------------
(***************************************************************************)
(* The life of the process: main (main.go:39-185), the two HTTP servers,   *)
(* the goroutines of their requests, and the runners of the background     *)
(* jobs (jobs/runner.go) around the one write connection.                  *)
(*                                                                         *)
(* What a statement does is left out: a goroutine between two statements   *)
(* is "running", then it waits for the connection, then it is "writing".   *)
(* http.TimeoutHandler runs a handler in a goroutine of its own and        *)
(* answers without it when the context of the request ends: such a handler *)
(* is "answered" but may go on, even after its server was shut down.       *)
(***************************************************************************)
EXTENDS Naturals

CONSTANTS
  Jobs,      \* number of jobs; job n is the nth that main creates
  Handler    \* connections to the servers, each with the handler it runs

Job == 1 .. Jobs
Server == {"api", "ui"}
NoOne == 0

ASSUME ShutdownAssumption ==
  /\ Jobs \in Nat
  /\ Handler \cap (Job \cup {NoOne}) = {}

VARIABLES
  main,       \* where main is
  cancelled,  \* shutdownCtx, the parent of all request contexts, is cancelled
  late,       \* gracefulCtx has expired
  failed,     \* servers whose ListenAndServe has returned an error
  handlers,
  runners,
  asked,      \* jobs whose Close has stopped the ticker and closed `done`
  open,       \* jobs 1 .. open are not yet closed: the deferred calls left
  conn,       \* who holds the write connection
  repoOpen

vars == <<main, cancelled, late, failed, handlers, runners, asked, open, conn,
          repoOpen>>
mainVars == <<main, cancelled, late, asked, open, repoOpen>>

Phase == {"serving", "stoppingApi", "stoppingUi", "closing", "returning",
          "exited", "killed"}
Idle == [at |-> "idle"]
Busy == {"running", "waiting", "writing"}
Connection ==
  [at : {"connected"} \cup Busy, server : Server, answered : BOOLEAN]

TypeOK ==
  /\ main \in Phase
  /\ cancelled \in BOOLEAN /\ late \in BOOLEAN /\ repoOpen \in BOOLEAN
  /\ failed \subseteq Server
  /\ handlers \in [Handler -> {Idle} \cup Connection]
  /\ runners \in [Job -> {"waiting", "running", "writing", "stopped"}]
  /\ asked \subseteq Job
  /\ open \in 0 .. Jobs
  /\ conn \in Handler \cup Job \cup {NoOne}
  /\ \A h \in Handler : handlers[h].at = "writing" <=> conn = h
  /\ \A j \in Job : runners[j] = "writing" <=> conn = j

Init ==
  /\ main = "serving"
  /\ cancelled = FALSE
  /\ late = FALSE
  /\ failed = {}
  /\ handlers = [h \in Handler |-> Idle]
  /\ runners = [j \in Job |-> "waiting"]
  /\ asked = {}
  /\ open = Jobs
  /\ conn = NoOne
  /\ repoOpen = TRUE

Alive == main \notin {"exited", "killed"}

-----------------------------------------------------------------------------
(***************************************************************************)
(* Requests.                                                               *)
(***************************************************************************)
Listening(s) ==
  /\ s \notin failed
  /\ main = "serving" \/ (main = "stoppingApi" /\ s = "ui")

\* Connections that hold Shutdown of their server.
Held(s) ==
  {h \in Handler : handlers[h] # Idle /\ handlers[h].server = s
                   /\ ~ handlers[h].answered}

Connect(h) ==
  /\ handlers[h] = Idle
  /\ \E s \in Server :
       /\ Listening(s)
       /\ handlers' = [handlers EXCEPT
            ![h] = [at |-> "connected", server |-> s, answered |-> FALSE]]
  /\ UNCHANGED <<mainVars, failed, runners, conn>>

GoOn(h, from, to) ==
  /\ Alive
  /\ handlers[h].at = from
  /\ handlers' = [handlers EXCEPT ![h].at = to]
  /\ UNCHANGED <<mainVars, failed, runners>>

Request(h) == GoOn(h, "connected", "running") /\ UNCHANGED conn

\* A statement: its context must be live to wait for the connection, and the
\* wait ends when the context does, or when the repo is closed.
Call(h) ==
  ~ cancelled /\ repoOpen /\ GoOn(h, "running", "waiting") /\ UNCHANGED conn

GiveUp(h) == GoOn(h, "waiting", "running") /\ UNCHANGED conn

Acquire(h) ==
  repoOpen /\ conn = NoOne /\ GoOn(h, "waiting", "writing") /\ conn' = h

\* mutant: the rows of a failed statement are not closed, the connection leaks
ReleaseLeaking(h) == GoOn(h, "writing", "running") /\ UNCHANGED conn

Release(h) == GoOn(h, "writing", "running") /\ conn' = NoOne

\* The handler returns, or the client hangs up before it has sent a request.
\* A long poll returns when it finds a message, when its time is over, or
\* when its context is cancelled.
Return(h) ==
  /\ Alive
  /\ handlers[h].at \in {"connected", "running"}
  /\ handlers' = [handlers EXCEPT ![h] = Idle]
  /\ UNCHANGED <<mainVars, failed, runners, conn>>

\* TimeoutHandler answers for the handler, at its timeout or when the context
\* is cancelled.
Answer(h) ==
  /\ Alive
  /\ handlers[h].at \in Busy
  /\ ~ handlers[h].answered
  /\ handlers' = [handlers EXCEPT ![h].answered = TRUE]
  /\ UNCHANGED <<mainVars, failed, runners, conn>>

-----------------------------------------------------------------------------
(***************************************************************************)
(* Jobs.                                                                   *)
(***************************************************************************)
Move(j, from, to) ==
  /\ Alive
  /\ runners[j] = from
  /\ runners' = [runners EXCEPT ![j] = to]
  /\ UNCHANGED <<mainVars, failed, handlers>>

\* A stopped ticker sends no tick, not even one that was due before.
BeginTick(j) == j \notin asked /\ Move(j, "waiting", "running") /\ UNCHANGED conn

TickAcquires(j) == conn = NoOne /\ Move(j, "running", "writing") /\ conn' = j

TickReleases(j) == Move(j, "writing", "running") /\ conn' = NoOne

\* mutant: a panic is not recovered and ends the goroutine
EndTickPanicking(j) ==
  (Move(j, "running", "waiting") \/ Move(j, "running", "stopped"))
  /\ UNCHANGED conn

\* The tick is done, is cut at its timeout while it waits for the connection,
\* or panics and is recovered.
EndTick(j) == Move(j, "running", "waiting") /\ UNCHANGED conn

StopRunner(j) == j \in asked /\ Move(j, "waiting", "stopped") /\ UNCHANGED conn

-----------------------------------------------------------------------------
(***************************************************************************)
(* main.                                                                   *)
(***************************************************************************)
Signal ==
  /\ main = "serving"
  /\ cancelled' = TRUE
  /\ UNCHANGED <<main, late, failed, handlers, runners, asked, open, conn,
                 repoOpen>>

Fail(s) ==
  /\ Listening(s)
  /\ failed' = failed \cup {s}
  /\ UNCHANGED <<mainVars, handlers, runners, conn>>

\* mutant: only a signal cancels the contexts
StopKeeping ==
  /\ main = "serving"
  /\ cancelled \/ failed # {}
  /\ main' = "stoppingApi"
  /\ UNCHANGED <<cancelled, late, failed, handlers, runners, asked, open, conn,
                 repoOpen>>

\* A signal or a failed server ends serving; stopSignals cancels the contexts
\* in both cases.
Stop ==
  /\ main = "serving"
  /\ cancelled \/ failed # {}
  /\ main' = "stoppingApi"
  /\ cancelled' = TRUE
  /\ UNCHANGED <<late, failed, handlers, runners, asked, open, conn, repoOpen>>

\* stopSignals has restored the default: a second signal kills the process.
Kill ==
  /\ Alive /\ main # "serving"
  /\ main' = "killed"
  /\ UNCHANGED <<cancelled, late, failed, handlers, runners, asked, open, conn,
                 repoOpen>>

Deadline ==
  /\ main \in {"stoppingApi", "stoppingUi"}
  /\ late' = TRUE
  /\ UNCHANGED <<main, cancelled, failed, handlers, runners, asked, open, conn,
                 repoOpen>>

\* mutant: main does not wait for the server
DownUnawaited(s, here, next) ==
  /\ main = here
  /\ main' = next
  /\ UNCHANGED <<cancelled, late, failed, handlers, runners, asked, open, conn,
                 repoOpen>>

\* Shutdown returns when no connection holds it; at the deadline Close cuts
\* the connections that are left and their handlers go on without a client.
Down(s, here, next) ==
  /\ main = here
  /\ late \/ Held(s) = {}
  /\ handlers' = [h \in Handler |->
       IF h \notin Held(s) THEN handlers[h]
       ELSE IF handlers[h].at = "connected" THEN Idle
       ELSE [handlers[h] EXCEPT !.answered = TRUE]]
  /\ main' = next
  /\ UNCHANGED <<cancelled, late, failed, runners, asked, open, conn, repoOpen>>

ApiDown == Down("api", "stoppingApi", "stoppingUi")
UiDown == Down("ui", "stoppingUi", "closing")

\* The deferred calls: the last job created is closed first.
AskJob ==
  /\ main = "closing"
  /\ open > 0
  /\ asked' = asked \cup {open}
  /\ UNCHANGED <<main, cancelled, late, failed, handlers, runners, open, conn,
                 repoOpen>>

\* mutant: Close does not wait for the goroutine
JobClosedUnawaited ==
  /\ main = "closing"
  /\ open \in asked
  /\ open' = open - 1
  /\ UNCHANGED <<main, cancelled, late, failed, handlers, runners, asked, conn,
                 repoOpen>>

JobClosed ==
  /\ main = "closing"
  /\ open \in asked
  /\ runners[open] = "stopped"
  /\ open' = open - 1
  /\ UNCHANGED <<main, cancelled, late, failed, handlers, runners, asked, conn,
                 repoOpen>>

CloseRepo ==
  /\ main = "closing"
  /\ open = 0
  /\ repoOpen' = FALSE
  /\ main' = "returning"
  /\ UNCHANGED <<cancelled, late, failed, handlers, runners, asked, open, conn>>

Exit ==
  /\ main = "returning"
  /\ main' = "exited"
  /\ UNCHANGED <<cancelled, late, failed, handlers, runners, asked, open, conn,
                 repoOpen>>

-----------------------------------------------------------------------------
Serve(h) ==
  \/ Connect(h) \/ Request(h) \/ Call(h) \/ GiveUp(h) \/ Acquire(h)
  \/ Release(h) \/ Return(h) \/ Answer(h)

Work(j) ==
  BeginTick(j) \/ TickAcquires(j) \/ TickReleases(j) \/ EndTick(j) \/ StopRunner(j)

MainStep ==
  Stop \/ ApiDown \/ UiDown \/ AskJob \/ JobClosed \/ CloseRepo \/ Exit

Next ==
  \/ \E h \in Handler : Serve(h)
  \/ \E j \in Job : Work(j)
  \/ MainStep
  \/ Signal \/ Kill \/ Deadline
  \/ \E s \in Server : Fail(s)

(***************************************************************************)
(* Goroutines run when they can.  A tick is cut at its timeout, so it does *)
(* not take the connection again and again (strong fairness).  A request   *)
(* is promised nothing before its context is cancelled, and the deadline   *)
(* of the graceful shutdown is not relied on.                              *)
(***************************************************************************)
Fairness ==
  /\ WF_vars(MainStep)
  /\ \A h \in Handler :
       /\ WF_vars(Release(h))
       /\ WF_vars(Return(h) /\ handlers[h].at = "connected")
       /\ WF_vars(Answer(h) /\ cancelled)
  /\ \A j \in Job :
       /\ WF_vars(BeginTick(j)) /\ WF_vars(TickReleases(j))
       /\ SF_vars(EndTick(j)) /\ WF_vars(StopRunner(j))

Spec == Init /\ [][Next]_vars

FairSpec == Spec /\ Fairness

-----------------------------------------------------------------------------
\* "main.go closes the repo after the jobs, and a still-running tick must not
\* touch a closed DB" (runner.go:57): once the repo is closed no job ticks, and
\* none will.
NoTickOnClosedRepo == ~ repoOpen => \A j \in Job : runners[j] = "stopped"

\* No request whose client can still be answered meets a closed repo: such a
\* request would be a failure of a server that is being stopped gracefully
\* (main.go:169-184).
NoRequestOnClosedRepo == ~ repoOpen => \A s \in Server : Held(s) = {}

\* Whatever started it, the shutdown comes to its end: long polls do not hold
\* it until the deadline (main.go:158), and Close of a job does not wait for
\* ever for a tick that waits for the connection (runner.go:60).
ShutdownCompletes ==
  (cancelled \/ failed # {}) ~> ~ Alive

\* "the next tick runs as usual" (runner.go:13): while the process serves, no
\* panic, lost race for the connection or timeout ends a job.
JobsKeepTicking ==
  \A j \in Job : []<>(runners[j] = "running" \/ main # "serving")
=============================================================================
