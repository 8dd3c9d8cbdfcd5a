---------------------------- MODULE UpnpEventing ----------------------------
(***************************************************************************)
(* Events to subscribers (src/upnp_eventing.cpp): a table of               *)
(* subscriptions, a queue of notify jobs with at most one job per          *)
(* subscription, a worker that hands jobs to a pool of senders, and the    *)
(* pacing of events to one dispatch per interval.  The publisher is the    *)
(* thread of a scan (src/media_sources_common.cpp), the requests come from *)
(* the HTTP server, whose Stop clears the table.                           *)
(*                                                                         *)
(* Time is what the code compares: `window` says how far the interval that *)
(* began with the last dispatch has come, and a subscription has lapsed or *)
(* has not.  Every wait of the worker is on a predicate that only changes  *)
(* under m_mutex, so it is a guard.                                        *)
(***************************************************************************)
EXTENDS Naturals, SequencesExt

CONSTANTS MaxSubscriptions,   \* kMaxUpnpSubscriptions
          MaxQueuedJobs,      \* kMaxQueuedNotifyJobs
          Senders,            \* kMaxUpnpNotifyWorkers
          MaxSids,            \* bound: subscriptions ever made
          MaxUpdates,         \* bound: the last SystemUpdateID
          MaxStops,           \* bound: stops of the HTTP server
          StoreFirst          \* whether NotifySystemUpdateId's store is seen before its load

ASSUME EventingAssumption ==
  /\ MaxSubscriptions \in Nat \ {0} /\ MaxQueuedJobs \in Nat \ {0} /\ Senders \in Nat \ {0}
  /\ MaxSids \in Nat /\ MaxUpdates \in Nat \ {0} /\ MaxStops \in Nat /\ StoreFirst \in BOOLEAN

VARIABLES
  systemUpdateId, batch,  \* MediaSources: m_systemUpdateId, and m_publishBatchDepth # 0
  publish,                \* the publisher: the id it tells and what is left of NotifySystemUpdateId
  lastId, count,          \* the atomics m_lastSystemUpdateId and m_subscriberCount
  subs,                   \* m_subscriptions
  issued,                 \* SIDs made so far (m_sidCounter)
  queue, generation,      \* m_queue, m_generation
  trailing, window,       \* m_trailing..., and now - m_lastDispatchTime
  workerStarted,
  pool, sending,          \* m_notifyPool's queue, and the jobs its threads are sending
  http, process,          \* the HTTP server; the process and its static destructors
  received, lost          \* history: jobs that arrived; subscriptions that lost one

catalog == <<systemUpdateId, batch>>
sender  == <<pool, sending, received>>
stage   == <<http, process, generation>>
eventVars == <<catalog, publish, lastId, count, subs, issued, queue, trailing, window,
          workerStarted, sender, stage, lost>>

Sid == 1 .. MaxSids
Service == {"content_directory", "connection_manager"}
Job == [sid : Sid, seq : 0 .. MaxUpdates, first : BOOLEAN, id : 0 .. MaxUpdates, gen : 0 .. MaxStops + 1]
NoTrailing == [pending |-> FALSE, id |-> 0]

SidsOf(jobs) == {j.sid : j \in Range(jobs)}
Without(table, s) == Restrict(table, DOMAIN table \ {s})
With(table, s, subscription) ==
  [x \in DOMAIN table \union {s} |-> IF x = s THEN subscription ELSE table[x]]

-----------------------------------------------------------------------------
EventsInit ==
  /\ systemUpdateId = 0 /\ batch = FALSE
  /\ publish = [todo |-> {}, id |-> 0] /\ lastId = 0
  /\ count = 0 /\ subs = <<>> /\ issued = 0
  /\ queue = <<>> /\ trailing = NoTrailing /\ window = "elapsed" /\ workerStarted = FALSE
  /\ pool = <<>> /\ sending = {} /\ received = {} /\ lost = {}
  /\ http = "running" /\ process = "up" /\ generation = 0

(* QueueNotifyJobLocked: a job replaces the queued one of its SID, a full queue loses its oldest *)
Enqueue(jobs, job) ==
  IF job.sid \in SidsOf(jobs)
  THEN [i \in DOMAIN jobs |-> IF jobs[i].sid = job.sid THEN job ELSE jobs[i]]
  ELSE Append(IF Len(jobs) >= MaxQueuedJobs THEN Tail(jobs) ELSE jobs, job)

(* The queue with the jobs added, one after another *)
Queued(jobs) ==
  LET after[n \in 0 .. Len(jobs)] == IF n = 0 THEN queue ELSE Enqueue(after[n - 1], jobs[n])
  IN  after[Len(jobs)]

(* Adds the jobs, and notes the SIDs whose job the queue has lost *)
Queue(jobs) ==
  /\ queue' = Queued(jobs)
  /\ lost' = lost \union ((SidsOf(queue) \union SidsOf(jobs)) \ SidsOf(queue'))

\* fault: the mirror of the table's size is forgotten
SetSubsOnly(table) == subs' = table /\ UNCHANGED count

SetSubs(table) == subs' = table /\ count' = Cardinality(DOMAIN table)

\* faults: the sequence number stands still, or counts by two
SameSeq(n) == n
SeqByTwo(n) == n + 2

NextSeq(n) == n + 1

(* DispatchNotifyToSubscribersLocked: the lapsed are erased, every subscriber *)
(* of ContentDirectory gets a job; the hash map's order is any order          *)
Dispatch(id) ==
  LET alive == {s \in DOMAIN subs : ~subs[s].lapsed}
      told  == {s \in alive : subs[s].service = "content_directory"}
      JobOf(s) == [sid |-> s, seq |-> subs[s].seq, first |-> FALSE, id |-> id, gen |-> generation]
  IN /\ SetSubs([s \in alive |-> IF s \in told THEN [subs[s] EXCEPT !.seq = NextSeq(@)] ELSE subs[s]])
     /\ \E order \in SetToSeqs(told) : Queue([i \in DOMAIN order |-> JobOf(order[i])])
     /\ window' = "running" /\ trailing' = [trailing EXCEPT !.pending = FALSE]

\* fault: within an interval the first id is kept
MergeFirst(id) == IF trailing.pending THEN trailing ELSE [pending |-> TRUE, id |-> id]

(* The trailing event carries the latest id *)
Merge(id) == [pending |-> TRUE, id |-> id]

\* fault: the trailing event does not wait for the end of the interval
DueAtOnce == TRUE

(* m_trailingFireAt is the end of the interval, or long past after a clear *)
Due == window # "running"

(* StartWorkerLocked, called when there is something to do *)
StartWorker == workerStarted' = (workerStarted \/ queue' # <<>> \/ trailing'.pending)

-----------------------------------------------------------------------------
(* The publisher.  A change inside a batch is counted and not told. *)
Idle == publish.todo = {}
Tell(id) == publish' = [todo |-> {"store", "load"}, id |-> id]

BeginBatch ==
  /\ Idle /\ ~batch /\ systemUpdateId < MaxUpdates /\ batch' = TRUE
  /\ UNCHANGED <<systemUpdateId, publish, lastId, count, subs, issued, queue, trailing, window,
                 workerStarted, sender, stage, lost>>

PublishItem ==
  /\ Idle /\ systemUpdateId + (IF batch THEN 1 ELSE 0) < MaxUpdates
  /\ systemUpdateId' = systemUpdateId + 1
  /\ IF batch THEN UNCHANGED publish ELSE Tell(systemUpdateId')
  /\ UNCHANGED <<batch, lastId, count, subs, issued, queue, trailing, window, workerStarted,
                 sender, stage, lost>>

EndBatch ==
  /\ Idle /\ batch
  /\ batch' = FALSE /\ systemUpdateId' = systemUpdateId + 1 /\ Tell(systemUpdateId')
  /\ UNCHANGED <<lastId, count, subs, issued, queue, trailing, window, workerStarted,
                 sender, stage, lost>>

(* NotifySystemUpdateId: the relaxed store, the load of the fast path (which *)
(* the memory model lets overtake it), and the section under m_mutex         *)
NotifyStores ==
  /\ "store" \in publish.todo
  /\ lastId' = publish.id /\ publish' = [publish EXCEPT !.todo = @ \ {"store"}]
  /\ UNCHANGED <<catalog, count, subs, issued, queue, trailing, window, workerStarted,
                 sender, stage, lost>>

NotifyLoads ==
  /\ "load" \in publish.todo /\ (StoreFirst => "store" \notin publish.todo)
  /\ publish' = [publish EXCEPT !.todo = (@ \ {"load"}) \union (IF count = 0 THEN {} ELSE {"dispatch"})]
  /\ UNCHANGED <<catalog, lastId, count, subs, issued, queue, trailing, window, workerStarted,
                 sender, stage, lost>>

(* After ClearSubscriptions the last dispatch is time_point::min(), and     *)
(* now - min() overflows: either side of the comparison may be taken        *)
NotifyDispatches ==
  /\ publish.todo = {"dispatch"}
  /\ publish' = [publish EXCEPT !.todo = {}]
  /\ \/ window \in {"elapsed", "cleared"} /\ Dispatch(publish.id)
     \/ /\ window \in {"running", "cleared"}
        /\ trailing' = Merge(publish.id)
        /\ UNCHANGED <<count, subs, queue, window, lost>>
  /\ StartWorker
  /\ UNCHANGED <<catalog, lastId, issued, sender, stage>>

-----------------------------------------------------------------------------
(* HandleEventSubscription.  The server serves a request it has begun until Stop has joined its threads. *)
Serving == http # "stopped" /\ process = "up"

(* RegisterSubscription: a full table gives up the one nearest to its end *)
Victims == LET lapsed == {s \in DOMAIN subs : subs[s].lapsed}
           IN  IF lapsed # {} THEN lapsed ELSE DOMAIN subs

Subscribe(service) ==
  /\ Serving /\ issued < MaxSids
  /\ issued' = issued + 1
  /\ LET s     == issued + 1
         fresh == [service |-> service, seq |-> 0, lapsed |-> FALSE]
         first == [sid |-> s, seq |-> 0, first |-> TRUE, id |-> lastId, gen |-> generation]
     IN /\ IF Cardinality(DOMAIN subs) < MaxSubscriptions
           THEN SetSubs(With(subs, s, fresh))
           ELSE \E v \in Victims : SetSubs(With(Without(subs, v), s, fresh))
        /\ Queue(IF service = "content_directory" THEN <<first>> ELSE <<>>)
  /\ workerStarted' = (workerStarted \/ queue' # <<>>)
  /\ UNCHANGED <<catalog, publish, lastId, trailing, window, sender, stage>>

(* RenewSubscription does not ask whether the lease is over *)
Renew(s) ==
  /\ Serving /\ s \in DOMAIN subs
  /\ subs' = [subs EXCEPT ![s].lapsed = FALSE]
  /\ UNCHANGED <<catalog, publish, lastId, count, issued, queue, trailing, window, workerStarted,
                 sender, stage, lost>>

(* RemoveSubscription *)
Unsubscribe(s) ==
  /\ Serving /\ s \in DOMAIN subs
  /\ SetSubs(Without(subs, s))
  /\ UNCHANGED <<catalog, publish, lastId, issued, queue, trailing, window, workerStarted,
                 sender, stage, lost>>

(* HttpServer::Stop clears first (ClearSubscriptions) and joins its threads later *)
HttpStop ==
  /\ http = "running" /\ process = "up" /\ generation < MaxStops
  /\ http' = "stopping" /\ generation' = generation + 1
  /\ SetSubs(<<>>) /\ queue' = <<>> /\ trailing' = NoTrailing /\ window' = "cleared"
  /\ UNCHANGED <<catalog, publish, lastId, issued, workerStarted, sender, process, lost>>

HttpMoves ==
  /\ process = "up"
  /\ \/ http = "stopping" /\ http' = "stopped"
     \/ http = "stopped" /\ http' = "running"
  /\ UNCHANGED <<catalog, publish, lastId, count, subs, issued, queue, trailing, window,
                 workerStarted, sender, process, generation, lost>>

-----------------------------------------------------------------------------
(* WorkerLoop: a queued job comes first, else a trailing event that is due *)
WorkerSubmits ==
  /\ workerStarted /\ queue # <<>>
  /\ queue' = Tail(queue)
  /\ pool' = IF Head(queue).gen = generation /\ Head(queue).sid \in DOMAIN subs
             THEN Append(pool, Head(queue)) ELSE pool
  /\ UNCHANGED <<catalog, publish, lastId, count, subs, issued, trailing, window, workerStarted,
                 sending, received, stage, lost>>

WorkerFiresTrailing ==
  /\ workerStarted /\ queue = <<>> /\ trailing.pending /\ Due
  /\ Dispatch(trailing.id)
  /\ UNCHANGED <<catalog, publish, lastId, issued, workerStarted, sender, stage>>

SenderTakes ==
  /\ pool # <<>> /\ Cardinality(sending) < Senders
  /\ pool' = Tail(pool) /\ sending' = sending \union {Head(pool)}
  /\ UNCHANGED <<catalog, publish, lastId, count, subs, issued, queue, trailing, window,
                 workerStarted, received, stage, lost>>

(* SendNotifyJob: it arrives; it fails and ends the subscription (ExpireSubscription); *)
(* or there is no curl handle and nothing happens                                      *)
SendNotifyJob(job) ==
  /\ job \in sending /\ sending' = sending \ {job}
  /\ \/ received' = received \union {job} /\ UNCHANGED <<subs, count, lost>>
     \/ SetSubs(Without(subs, job.sid)) /\ UNCHANGED <<received, lost>>
     \/ lost' = lost \union {job.sid} /\ UNCHANGED <<subs, count, received>>
  /\ UNCHANGED <<catalog, publish, lastId, issued, queue, trailing, window, workerStarted, pool, stage>>

(* The static destructor's StopWorker: m_subscriberCount is left as it was. *)
(* The pool goes after the worker, when it has nothing more to send.        *)
StopWorker ==
  /\ process = "up" /\ http = "stopped" /\ Idle
  /\ process' = "leaving" /\ generation' = generation + 1
  /\ subs' = <<>> /\ queue' = <<>> /\ trailing' = NoTrailing
  /\ UNCHANGED <<catalog, publish, lastId, count, issued, window, workerStarted, sender, http, lost>>

PoolEnds ==
  /\ process = "leaving" /\ pool = <<>> /\ sending = {}
  /\ process' = "gone"
  /\ UNCHANGED <<catalog, publish, lastId, count, subs, issued, queue, trailing, window,
                 workerStarted, sender, http, generation, lost>>

(* Time *)
IntervalEnds ==
  /\ window = "running" /\ window' = "elapsed"
  /\ UNCHANGED <<catalog, publish, lastId, count, subs, issued, queue, trailing, workerStarted,
                 sender, stage, lost>>

LeaseEnds(s) ==
  /\ s \in DOMAIN subs /\ subs' = [subs EXCEPT ![s].lapsed = TRUE]
  /\ UNCHANGED <<catalog, publish, lastId, count, issued, queue, trailing, window, workerStarted,
                 sender, stage, lost>>

Publisher == process = "up" /\ (BeginBatch \/ PublishItem \/ EndBatch \/ NotifyStores \/ NotifyLoads
                                \/ NotifyDispatches)
Request == \/ \E service \in Service : Subscribe(service)
           \/ \E s \in Sid : Renew(s) \/ Unsubscribe(s)
Worker == WorkerSubmits \/ WorkerFiresTrailing
Sender == SenderTakes \/ \E job \in sending : SendNotifyJob(job)

EventsNext ==
  \/ Publisher \/ Request \/ HttpStop \/ HttpMoves
  \/ Worker \/ Sender \/ StopWorker \/ PoolEnds
  \/ IntervalEnds \/ \E s \in Sid : LeaseEnds(s)

EventsSpec == EventsInit /\ [][EventsNext]_eventVars

(* Threads run, a transfer ends (10 s at most) and time passes *)
EventsFairSpec ==
  /\ EventsSpec
  /\ WF_eventVars(process = "up" /\ (EndBatch \/ NotifyStores \/ NotifyLoads \/ NotifyDispatches))
  /\ WF_eventVars(Worker) /\ WF_eventVars(SenderTakes) /\ WF_eventVars(\E job \in sending : SendNotifyJob(job))
  /\ WF_eventVars(IntervalEnds) /\ WF_eventVars(PoolEnds)

-----------------------------------------------------------------------------
EventsTypeOK ==
  /\ systemUpdateId \in 0 .. MaxUpdates /\ batch \in BOOLEAN /\ lastId \in 0 .. MaxUpdates
  /\ publish \in [todo : SUBSET {"store", "load", "dispatch"}, id : 0 .. MaxUpdates]
  /\ issued \in 0 .. MaxSids /\ DOMAIN subs \subseteq 1 .. issued /\ count \in 0 .. MaxSids
  /\ \A s \in DOMAIN subs : subs[s] \in [service : Service, seq : 0 .. MaxUpdates, lapsed : BOOLEAN]
  /\ queue \in Seq(Job) /\ pool \in Seq(Job) /\ sending \subseteq Job /\ received \subseteq Job
  /\ trailing \in [pending : BOOLEAN, id : 0 .. MaxUpdates]
  /\ window \in {"elapsed", "running", "cleared"} /\ workerStarted \in BOOLEAN /\ lost \subseteq Sid
  /\ http \in {"running", "stopping", "stopped"} /\ process \in {"up", "leaving", "gone"}
  /\ generation \in 0 .. MaxStops + 1

(* The count the fast path reads without the lock is the table's size, and *)
(* the table keeps to its limit: upnp_eventing.cpp changes the table in six places. *)
CountIsExact ==
  /\ process = "up" => count = Cardinality(DOMAIN subs)
  /\ Cardinality(DOMAIN subs) <= MaxSubscriptions

(* The queue holds one job per subscription and only jobs of the table that *)
(* is in force: a stop leaves none behind, whatever was queued before it.   *)
QueueIsCoalesced ==
  /\ Len(queue) <= MaxQueuedJobs
  /\ \A i, j \in DOMAIN queue : queue[i].sid = queue[j].sid => i = j
  /\ \A i \in DOMAIN queue : queue[i].gen = generation

(* The table, its count and the queue agree, across stops and expiries.     *)
TablesAgree == EventsTypeOK /\ CountIsExact /\ QueueIsCoalesced

(* Senders may deliver a subscriber's events in any order, and SEQ restores it: *)
(* a higher number never carries an older SystemUpdateID, and two events have   *)
(* the same number only if one of them is the initial event and the number is 0. *)
SeqTellsNewer ==
  \A a, b \in received \union sending \union Range(pool) \union Range(queue) :
    a.sid = b.sid =>
      /\ a.seq < b.seq /\ ~b.first => a.id <= b.id
      /\ a.seq = b.seq /\ a # b => a.seq = 0 /\ a.first # b.first

(* At most one dispatch per interval (Protocol-Reference, "Later events"):   *)
(* events are numbered only by a step that begins a new interval.            *)
Paced ==
  [][(\E s \in DOMAIN subs \intersect DOMAIN subs' : subs'[s].seq # subs[s].seq)
       => window # "running" /\ window' = "running"]_eventVars

(* A subscriber of ContentDirectory is told the catalogue's SystemUpdateID again *)
(* and again, or its subscription ends, whatever was merged, queued or still     *)
(* unread when the change was made (jobs the full queue or curl lost excepted).  *)
LatestTold ==
  \A s \in Sid :
    []<>(\/ s \notin DOMAIN subs \/ subs[s].service # "content_directory" \/ s \in lost
         \/ batch \/ subs[s].lapsed
         \/ \E job \in received : job.sid = s /\ job.id = systemUpdateId)
=============================================================================
