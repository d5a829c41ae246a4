--------------------------- MODULE ShutdownProofs ---------------------------
(***************************************************************************)
(* The repo is closed after everything that uses it, for any number of     *)
(* jobs and connections.  The invariant follows main: its place tells      *)
(* which servers are down and which jobs have stopped.                     *)
(***************************************************************************)
EXTENDS Shutdown, TLAPS

JobsClosed == \A j \in Job : j > open => runners[j] = "stopped"

RepoLast == ~ repoOpen => open = 0 /\ main \in {"returning", "exited", "killed"}

ServersDown ==
  /\ ~ repoOpen \/ main \in {"stoppingUi", "closing", "returning", "exited"}
     => Held("api") = {}
  /\ ~ repoOpen \/ main \in {"closing", "returning", "exited"}
     => Held("ui") = {}

IInv == TypeOK /\ JobsClosed /\ RepoLast /\ ServersDown

\* What the actions leave alone.
Quiet == UNCHANGED <<main, open, repoOpen>>

-----------------------------------------------------------------------------
\* Types, per kind of action: requests, jobs, main.
LEMMA ServeTypes ==
  ASSUME TypeOK, NEW h \in Handler, Serve(h)
  PROVE  TypeOK'
<1> USE ShutdownAssumption DEF TypeOK, Connection, Busy, Idle, Job, Server, NoOne
<1>1. CASE Connect(h)
  BY <1>1 DEF Connect, mainVars
<1>2. CASE Request(h) \/ Call(h) \/ GiveUp(h)
  BY <1>2 DEF Request, Call, GiveUp, GoOn, mainVars
<1>3. CASE Acquire(h)
  BY <1>3 DEF Acquire, GoOn, mainVars
<1>4. CASE Release(h)
  BY <1>4 DEF Release, GoOn, mainVars
<1>5. CASE Return(h)
  BY <1>5 DEF Return, mainVars
<1>6. CASE Answer(h)
  <2>1. handlers[h] \in Connection
    BY <1>6 DEF Answer
  <2>2. handlers' \in [Handler -> {Idle} \cup Connection]
    BY <1>6, <2>1 DEF Answer
  <2>3. \A g \in Handler : handlers'[g].at = handlers[g].at
    BY <1>6, <2>1 DEF Answer
  <2>4. QED
    BY <1>6, <2>2, <2>3 DEF Answer, mainVars
<1>7. QED
  BY <1>1, <1>2, <1>3, <1>4, <1>5, <1>6 DEF Serve

LEMMA WorkTypes ==
  ASSUME TypeOK, NEW j \in Job, Work(j)
  PROVE  TypeOK'
<1> USE ShutdownAssumption DEF TypeOK, Job, NoOne, Move, mainVars
<1>1. CASE BeginTick(j) \/ EndTick(j) \/ StopRunner(j)
  BY <1>1 DEF BeginTick, EndTick, StopRunner
<1>2. CASE TickAcquires(j)
  BY <1>2 DEF TickAcquires
<1>3. CASE TickReleases(j)
  BY <1>3 DEF TickReleases
<1>4. QED
  BY <1>1, <1>2, <1>3 DEF Work

LEMMA DownTypes ==
  ASSUME TypeOK, NEW s \in Server, NEW here, NEW next \in Phase, Down(s, here, next)
  PROVE  TypeOK'
<1>1. \A h \in Handler :
        /\ handlers'[h] \in {Idle} \cup Connection
        /\ handlers'[h].at = "writing" <=> handlers[h].at = "writing"
  BY DEF TypeOK, Down, Held, Connection, Busy, Idle
<1>2. handlers' \in [Handler -> {Idle} \cup Connection]
  BY <1>1 DEF Down
<1>3. QED
  BY <1>1, <1>2 DEF TypeOK, Down

LEMMA MainTypes ==
  ASSUME TypeOK, MainStep \/ Signal \/ Kill \/ Deadline \/ \E s \in Server : Fail(s)
  PROVE  TypeOK'
<1>1. CASE ApiDown \/ UiDown
  BY <1>1, DownTypes DEF ApiDown, UiDown, Server, Phase
<1>2. CASE Stop \/ CloseRepo \/ Exit \/ Signal \/ Kill \/ Deadline
  <2>1. UNCHANGED <<failed, handlers, runners, asked, open, conn>>
    BY <1>2 DEF Stop, CloseRepo, Exit, Signal, Kill, Deadline
  <2>2. /\ main' \in Phase
        /\ cancelled' \in BOOLEAN /\ late' \in BOOLEAN /\ repoOpen' \in BOOLEAN
    BY <1>2 DEF Stop, CloseRepo, Exit, Signal, Kill, Deadline, TypeOK, Phase
  <2>3. QED
    BY <2>1, <2>2 DEF TypeOK
<1>3. CASE AskJob \/ JobClosed
  <2>1. open \in Job
    BY <1>3, ShutdownAssumption DEF AskJob, JobClosed, TypeOK, Job
  <2>2. asked \subseteq Job
    BY DEF TypeOK
  <2>3. asked' \subseteq Job
    BY <1>3, <2>1, <2>2 DEF AskJob, JobClosed
  <2>4. open' \in 0 .. Jobs
    BY <1>3, <2>1, ShutdownAssumption DEF AskJob, JobClosed, Job
  <2>5. UNCHANGED <<main, cancelled, late, failed, handlers, runners, conn, repoOpen>>
    BY <1>3 DEF AskJob, JobClosed
  <2>6. QED
    BY <2>3, <2>4, <2>5 DEF TypeOK
<1>4. CASE \E s \in Server : Fail(s)
  BY <1>4 DEF Fail, mainVars, TypeOK, Server
<1>5. QED
  BY <1>1, <1>2, <1>3, <1>4 DEF MainStep

LEMMA InitInvariant == Init => IInv
<1> SUFFICES ASSUME Init PROVE IInv
  OBVIOUS
<1>1. \A h \in Handler : handlers[h] = Idle /\ conn # h
  BY ShutdownAssumption DEF Init, NoOne
<1>2. \A j \in Job : runners[j] = "waiting" /\ conn # j
  BY ShutdownAssumption DEF Init, NoOne, Job
<1>3. handlers \in [Handler -> {Idle} \cup Connection]
  BY DEF Init
<1>4. runners \in [Job -> {"waiting", "running", "writing", "stopped"}]
  BY DEF Init
<1>5. TypeOK
  <2>1. \A h \in Handler : handlers[h].at = "writing" <=> conn = h
    BY <1>1 DEF Idle
  <2>2. \A j \in Job : runners[j] = "writing" <=> conn = j
    BY <1>2
  <2>3. open \in 0 .. Jobs
    BY ShutdownAssumption DEF Init
  <2>4. QED
    BY <1>3, <1>4, <2>1, <2>2, <2>3 DEF Init, TypeOK, Phase
<1>6. JobsClosed /\ RepoLast
  BY ShutdownAssumption DEF Init, JobsClosed, RepoLast, Job
<1>7. ServersDown
  BY <1>1 DEF Init, ServersDown, Held
<1>8. QED
  BY <1>5, <1>6, <1>7 DEF IInv

\* A server that main has shut down gets no connection any more.
LEMMA ServeKeepsDown ==
  ASSUME TypeOK, RepoLast, ServersDown, NEW h \in Handler, Serve(h)
  PROVE  ServersDown'
<1>1. Quiet
  BY DEF Quiet, Serve, Connect, Request, Call, GiveUp, Acquire, Release, Return,
         Answer, GoOn, mainVars
<1>2. CASE Connect(h)
  <2>1. PICK s \in Server :
          /\ Listening(s)
          /\ handlers' = [handlers EXCEPT
               ![h] = [at |-> "connected", server |-> s, answered |-> FALSE]]
    BY <1>2 DEF Connect
  <2>2. main = "serving" \/ (main = "stoppingApi" /\ s = "ui")
    BY <2>1 DEF Listening
  <2>3. repoOpen
    BY <2>2 DEF RepoLast
  <2>4. QED
    BY <1>1, <2>2, <2>3 DEF ServersDown, Quiet
<1>3. CASE ~ Connect(h)
  <2>1. \A s \in Server : Held(s)' \subseteq Held(s)
    BY <1>3 DEF Serve, Request, Call, GiveUp, Acquire, Release, Return, Answer,
                GoOn, Held, TypeOK, Idle, Connection, Busy
  <2>2. QED
    BY <1>1, <2>1 DEF ServersDown, Quiet, Server
<1>4. QED
  BY <1>2, <1>3

LEMMA DownEmpties ==
  ASSUME TypeOK, NEW s \in Server, NEW here, NEW next, Down(s, here, next)
  PROVE  /\ Held(s)' = {}
         /\ \A other \in Server : Held(other)' \subseteq Held(other)
<1>1. handlers' = [h \in Handler |->
        IF h \notin Held(s) THEN handlers[h]
        ELSE IF handlers[h].at = "connected" THEN Idle
        ELSE [handlers[h] EXCEPT !.answered = TRUE]]
  BY DEF Down
<1>2. ASSUME NEW h \in Held(s)
      PROVE  handlers'[h] = Idle \/ handlers'[h].answered
  BY <1>1, <1>2 DEF Held, TypeOK, Connection, Idle
<1>3. ASSUME NEW h \in Handler, h \notin Held(s)
      PROVE  handlers'[h] = handlers[h]
  BY <1>1, <1>3
<1>4. QED
  BY <1>2, <1>3 DEF Held

LEMMA MainKeepsDown ==
  ASSUME TypeOK, RepoLast, ServersDown,
         MainStep \/ Signal \/ Kill \/ Deadline \/ \E s \in Server : Fail(s)
  PROVE  ServersDown'
<1>1. CASE ApiDown
  <2>1. Held("api")' = {}
    BY <1>1, DownEmpties DEF ApiDown, Server
  <2>2. main' = "stoppingUi" /\ repoOpen' /\ repoOpen
    BY <1>1 DEF ApiDown, Down, RepoLast, TypeOK
  <2>3. QED
    BY <2>1, <2>2 DEF ServersDown
<1>2. CASE UiDown
  <2>1. Held("ui")' = {} /\ Held("api")' \subseteq Held("api")
    BY <1>2, DownEmpties DEF UiDown, Server
  <2>2. Held("api") = {}
    BY <1>2 DEF UiDown, Down, ServersDown
  <2>3. QED
    BY <2>1, <2>2 DEF ServersDown
<1>3. CASE Stop \/ AskJob \/ JobClosed \/ Exit \/ Signal \/ Kill \/ Deadline
  BY <1>3 DEF Stop, AskJob, JobClosed, Exit, Signal, Kill, Deadline,
              ServersDown, Held
<1>4. CASE CloseRepo
  BY <1>4 DEF CloseRepo, ServersDown, Held
<1>5. CASE \E s \in Server : Fail(s)
  BY <1>5 DEF Fail, mainVars, ServersDown, Held
<1>6. QED
  BY <1>1, <1>2, <1>3, <1>4, <1>5 DEF MainStep

\* A runner that has stopped does nothing more, and main counts it as closed
\* only then.
LEMMA StepKeepsClosed ==
  ASSUME TypeOK, JobsClosed, RepoLast, Next
  PROVE  JobsClosed' /\ RepoLast'
<1> USE DEF JobsClosed, RepoLast
<1>1. CASE \E h \in Handler : Serve(h)
  BY <1>1 DEF Serve, Connect, Request, Call, GiveUp, Acquire, Release, Return,
              Answer, GoOn, mainVars
<1>2. ASSUME NEW j \in Job, Work(j) PROVE JobsClosed' /\ RepoLast'
  BY <1>2 DEF Work, BeginTick, TickAcquires, TickReleases, EndTick, StopRunner,
              Move, mainVars, TypeOK
<1>3. CASE ApiDown \/ UiDown
  BY <1>3 DEF ApiDown, UiDown, Down
<1>4. CASE Stop \/ AskJob \/ CloseRepo \/ Exit \/ Signal \/ Kill \/ Deadline
  BY <1>4 DEF Stop, AskJob, CloseRepo, Exit, Signal, Kill, Deadline, Alive
<1>5. CASE JobClosed
  BY <1>5, ShutdownAssumption DEF JobClosed, TypeOK, Job
<1>6. CASE \E s \in Server : Fail(s)
  BY <1>6 DEF Fail, mainVars
<1>7. QED
  BY <1>1, <1>2, <1>3, <1>4, <1>5, <1>6 DEF Next, MainStep

LEMMA StepInvariant == IInv /\ [Next]_vars => IInv'
<1> SUFFICES ASSUME IInv, [Next]_vars PROVE IInv'
  OBVIOUS
<1>1. CASE UNCHANGED vars
  BY <1>1 DEF vars, IInv, TypeOK, JobsClosed, RepoLast, ServersDown, Held
<1>2. CASE Next
  <2>1. JobsClosed' /\ RepoLast'
    BY <1>2, StepKeepsClosed DEF IInv
  <2>2. CASE \E h \in Handler : Serve(h)
    BY <2>1, <2>2, ServeTypes, ServeKeepsDown DEF IInv
  <2>3. ASSUME NEW j \in Job, Work(j) PROVE IInv'
    <3>1. ServersDown'
      BY <2>3 DEF Work, BeginTick, TickAcquires, TickReleases, EndTick,
                  StopRunner, Move, mainVars, IInv, ServersDown, Held
    <3>2. QED
      BY <2>1, <2>3, <3>1, WorkTypes DEF IInv
  <2>4. CASE MainStep \/ Signal \/ Kill \/ Deadline \/ \E s \in Server : Fail(s)
    BY <2>1, <2>4, MainTypes, MainKeepsDown DEF IInv
  <2>5. QED
    BY <1>2, <2>2, <2>3, <2>4 DEF Next
<1>3. QED
  BY <1>1, <1>2

-----------------------------------------------------------------------------
\* main's invariant holds in every reachable state of the process.
THEOREM InvariantHolds == Spec => []IInv
  BY InitInvariant, StepInvariant, PTL DEF Spec

\* However many jobs there are and however their ticks meet the shutdown, no
\* tick runs on a closed repo (runner.go:57-64).
THEOREM TicksEndFirst == Spec => []NoTickOnClosedRepo
<1>1. IInv => NoTickOnClosedRepo
  BY ShutdownAssumption DEF IInv, RepoLast, JobsClosed, NoTickOnClosedRepo, Job
<1>2. QED
  BY <1>1, InvariantHolds, PTL

\* No request that can still be answered runs on a closed repo
\* (main.go:169-184).
THEOREM RequestsEndFirst == Spec => []NoRequestOnClosedRepo
<1>1. IInv => NoRequestOnClosedRepo
  BY DEF IInv, ServersDown, NoRequestOnClosedRepo, Server
<1>2. QED
  BY <1>1, InvariantHolds, PTL

\* The state of the process stays well formed; the connection has one holder.
THEOREM TypeCorrect == Spec => []TypeOK
<1>1. IInv => TypeOK
  BY DEF IInv
<1>2. QED
  BY <1>1, InvariantHolds, PTL
=============================================================================
