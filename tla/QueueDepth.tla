----------------------------- MODULE QueueDepth -----------------------------
(***************************************************************************)
(* The gauge forq_queue_depth (jobs/metrics/queuesdepth.go) beside the     *)
(* messages it shows.  A tick reads the statistics, resets the gauge and   *)
(* sets it queue by queue; Prometheus can scrape it in every state.        *)
(***************************************************************************)
EXTENDS MessageTable

VARIABLES
  job,        \* where the tick is, with the statistics it has read
  gauge       \* the series of the gauge

gaugeVars == <<tableVars, job, gauge>>

\* SelectAllQueuesWithStats: a row per queue that has messages.
Here(q) == {i \in Id : place[i] = q}
Stats == [q \in {p \in Queue : Here(p) # {}} |-> Cardinality(Here(q))]

Waiting == [at |-> "waiting"]
None == [q \in {} |-> 0]
Depths == UNION {[S -> 1 .. Cardinality(Id)] : S \in SUBSET Queue}

GaugeTypeOK ==
  /\ Table!TypeOK
  /\ gauge \in Depths
  /\ job = Waiting \/ (job.at \in {"read", "setting"} /\ job.stats \in Depths)

GaugeInit ==
  /\ Table!Init
  /\ job = Waiting
  /\ gauge = None

-----------------------------------------------------------------------------
Messages == Table!Next /\ UNCHANGED <<job, gauge>>

\* A tick whose read fails does nothing.
ReadStats ==
  /\ job = Waiting
  /\ job' = [at |-> "read", stats |-> Stats]
  /\ UNCHANGED <<tableVars, gauge>>

\* mutant: drained queues keep their series
ResetNothing ==
  /\ job.at = "read"
  /\ UNCHANGED gauge
  /\ job' = [job EXCEPT !.at = "setting"]
  /\ UNCHANGED tableVars

ResetQueueDepths ==
  /\ job.at = "read"
  /\ gauge' = None
  /\ job' = [job EXCEPT !.at = "setting"]
  /\ UNCHANGED tableVars

\* The rows come in the order of the names, a queue before its DLQ.
First(stats) == IF "queue" \in DOMAIN stats THEN "queue" ELSE "dlq"

Rest(stats) == [q \in DOMAIN stats \ {First(stats)} |-> stats[q]]

\* mutant: each depth is read when it is set
SetQueueDepthFresh ==
  LET q == First(job.stats) IN
  /\ job.at = "setting" /\ DOMAIN job.stats # {}
  /\ gauge' = [p \in DOMAIN gauge \cup {q} |->
                 IF p = q THEN Cardinality(Here(q)) ELSE gauge[p]]
  /\ job' = [job EXCEPT !.stats = Rest(job.stats)]
  /\ UNCHANGED tableVars

SetQueueDepth ==
  LET q == First(job.stats) IN
  /\ job.at = "setting" /\ DOMAIN job.stats # {}
  /\ gauge' = [p \in DOMAIN gauge \cup {q} |->
                 IF p = q THEN job.stats[q] ELSE gauge[p]]
  /\ job' = [job EXCEPT !.stats = Rest(job.stats)]
  /\ UNCHANGED tableVars

EndTick ==
  /\ job.at = "setting" /\ DOMAIN job.stats = {}
  /\ job' = Waiting
  /\ UNCHANGED <<tableVars, gauge>>

Tick == ReadStats \/ ResetQueueDepths \/ SetQueueDepth \/ EndTick

GaugeNext == Messages \/ Tick

\* The job ticks again and again, and its reads succeed.
GaugeSpec == GaugeInit /\ [][GaugeNext]_gaugeVars /\ WF_gaugeVars(Tick)

-----------------------------------------------------------------------------
\* When the messages come to rest, what the gauge shows becomes right, and each
\* queue that has messages is shown again and again: the series of a drained
\* queue does not stay, and an old value does not come back (queuesdepth.go:21,
\* prometheus.go:144-147).
GaugeFollows ==
  \/ []<><<Messages>>_tableVars
  \/ /\ <>[](\A q \in DOMAIN gauge : q \in DOMAIN Stats /\ gauge[q] = Stats[q])
     /\ \A q \in Queue : []<>(Here(q) # {} => q \in DOMAIN gauge)

\* A message that moves between a queue and its DLQ during a tick, or while the
\* gauge is scraped half filled, is not shown in both: the series come from one
\* read and the reset comes before the first (queuesdepth.go:15-26).
Shown(q) == IF q \in DOMAIN gauge THEN gauge[q] ELSE 0

ShownOnce ==
  Shown("queue") + Shown("dlq") <= Cardinality({i \in Id : place[i] # "new"})
=============================================================================
