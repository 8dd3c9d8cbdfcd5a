-------------------------------- MODULE Ssdp --------------------------------
(***************************************************************************)
(* The discovery service: the thread that listens and repeats the          *)
(* announcement, the thread of the first bursts, the thread that sends the *)
(* delayed replies to searches, and Start and Stop, in the POSIX build     *)
(* (posix_ssdp.cpp) and the Windows one (ssdp.cpp), which differ in how a  *)
(* Start may fail.                                                         *)
(*                                                                         *)
(* A call of Start or Stop that finds another in progress returns at once  *)
(* (m_lifecycleBusy), a Start of a running service and a Stop of a stopped *)
(* one too: these change nothing and are not steps.                        *)
(***************************************************************************)
EXTENDS Integers, Sequences, FiniteSets

CONSTANTS
  Endpoint, Family, FamilyOf,   \* the addresses to announce, and of which family each is
  Search, ClientFamily,         \* a control point with what it asks for
  Cap,                          \* kMaxDelayedResponses
  Bursts,                       \* entries of kFollowUpDelaysMs
  MaxSearches,                  \* bound: searches received
  MaxStarts                     \* bound: calls of Start

ASSUME SsdpAssumption ==
  /\ FamilyOf \in [Endpoint -> Family]
  /\ ClientFamily \in [Search -> Family]
  /\ Cap \in Nat \ {0}
  /\ Bursts \in Nat
  /\ MaxSearches \in Nat
  /\ MaxStarts \in Nat

VARIABLES
  stage,          \* where the one call of Start or Stop is
  running, endpoints,
  sock,           \* per family: none, open, or shut by shutdown()
  worker,         \* ThreadWorker
  ready,          \* the sockets select reported that it has not read yet
  responder,      \* ResponseWorker
  hand,           \* the reply it took from the queue
  burst,          \* the thread of the first bursts, and the bursts it has left
  todo,           \* who is in a NOTIFY round, and the endpoints left of it
  queue,          \* m_delayedResponses
  flushing,       \* what Stop took out of it to send
  undone,         \* history: rounds of alive an endpoint saw after its byebye
  asked, starts

vars == <<stage, running, endpoints, sock, worker, ready, responder, hand, burst,
          todo, queue, flushing, undone, asked, starts>>
life == <<stage, running, endpoints, sock, starts>>
answers == <<queue, hand, responder, flushing>>

Announcer == {"worker", "burst", "caller"}
\* When a reply is due: now, within the 250 ms a Stop waits for, or later.
Due == {"now", "soon", "late"}
\* "fresh": its socket is one of the present run.
Reply == [for : Search, due : Due, fresh : BOOLEAN]
Nobody == [for |-> CHOOSE s \in Search : TRUE, due |-> "now", fresh |-> TRUE]
Drop(q, i) == SubSeq(q, 1, i - 1) \o SubSeq(q, i + 1, Len(q))
\* m_responseMutex is held by the responder from its look at the queue until it sleeps.
Unlocked == responder # "dozing"
Aged(r) == [r EXCEPT !.fresh = FALSE]

Init ==
  /\ stage = "idle" /\ running = FALSE /\ endpoints = {}
  /\ sock = [f \in Family |-> "none"]
  /\ worker = "none" /\ ready = {} /\ responder = "none" /\ hand = Nobody
  /\ burst = [at |-> "none", left |-> 0]
  /\ todo = [t \in Announcer |-> {}]
  /\ queue = <<>> /\ flushing = <<>>
  /\ undone = [e \in Endpoint |-> 0]
  /\ asked = 0 /\ starts = 0

-----------------------------------------------------------------------------
(* Start *)

CallStart(E) ==
  /\ stage = "idle" /\ ~running /\ starts < MaxStarts
  /\ stage' = "starting"
  /\ endpoints' = E
  /\ starts' = starts + 1
  /\ UNCHANGED <<running, sock, worker, ready, responder, hand, burst, todo, queue,
                 flushing, undone, asked>>

\* The threads begin, each at the top of its function.
Launch(opened) ==
  /\ sock' = [f \in Family |-> IF f \in opened THEN "open" ELSE "none"]
  /\ running' = TRUE
  /\ worker' = "select" /\ responder' = "check"
  /\ burst' = [at |-> "wait", left |-> Bursts]
  /\ stage' = "idle"
  /\ UNCHANGED <<endpoints, ready, hand, todo, queue, flushing, undone, asked, starts>>

\* fault: a start that fails forgets the endpoints it was given.
StartForgets ==
  /\ stage' = "idle" /\ endpoints' = {}
  /\ UNCHANGED <<running, sock, worker, ready, responder, hand, burst, todo, queue, flushing,
                 undone, asked, starts>>
StartFails ==
  /\ stage' = "idle"
  /\ UNCHANGED <<running, endpoints, sock, worker, ready, responder, hand, burst, todo,
                 queue, flushing, undone, asked, starts>>

\* One socket is enough; whether a multicast group was joined is not looked at.
StartPosix ==
  /\ stage = "starting"
  /\ \E opened \in SUBSET Family : IF opened # {} THEN Launch(opened) ELSE StartFails

\* A group must be joined on an endpoint, and the thread must be created.
StartWindows ==
  /\ stage = "starting"
  /\ \E opened \in SUBSET Family, created \in BOOLEAN :
       \E joined \in SUBSET {e \in endpoints : FamilyOf[e] \in opened} :
         IF joined # {} /\ created THEN Launch(opened) ELSE StartFails

-----------------------------------------------------------------------------
(* NOTIFY rounds: under the family's send mutex all targets of one endpoint *)

\* An alive after the endpoint's byebye undoes it; after shutdown() a send fails.
Announce(t) ==
  \E e \in todo[t] :
    /\ todo' = [todo EXCEPT ![t] = @ \ {e}]
    /\ undone' = IF /\ t # "caller" /\ stage = "byebye" /\ e \notin todo["caller"]
                    /\ sock[FamilyOf[e]] = "open"
                 THEN [undone EXCEPT ![e] = @ + 1] ELSE undone
    /\ UNCHANGED <<life, answers, worker, ready, burst, asked>>

Round(t) == todo' = [todo EXCEPT ![t] = endpoints]

-----------------------------------------------------------------------------
(* ThreadWorker *)

\* fault: the thread does not look at m_running after select.
NeverQuits == FALSE
Quits == ~running

WorkerSelects ==
  /\ worker = "select" /\ todo["worker"] = {}
  /\ UNCHANGED <<life, answers, burst, undone, asked>>
  /\ IF Quits
     THEN worker' = "none" /\ UNCHANGED <<todo, ready>>
     ELSE /\ worker' = "receive"
          /\ ready' \in SUBSET {f \in Family : sock[f] # "none"}
          /\ (Round("worker") \/ UNCHANGED todo)          \* the interval may have passed

\* Datagrams that are no search, ask for something else or match no endpoint end here.
WorkerIgnores ==
  /\ worker = "receive" /\ todo["worker"] = {} /\ ready # {}
  /\ \E f \in ready : ready' = ready \ {f}
  /\ UNCHANGED <<life, answers, worker, burst, todo, undone, asked>>

WorkerLoops ==
  /\ worker = "receive" /\ todo["worker"] = {} /\ ready = {}
  /\ worker' = "select"
  /\ UNCHANGED <<life, answers, ready, burst, todo, undone, asked>>

\* CoalesceDelayedResponse: the newer reply takes the place, and the due time, of the older.
Same(s) == {i \in DOMAIN queue : queue[i].for = s}
Room == IF Len(queue) >= Cap THEN Tail(queue) ELSE queue
Queued(r) ==
  IF Same(r.for) # {} THEN [i \in DOMAIN queue |-> IF i \in Same(r.for) THEN r ELSE queue[i]]
  ELSE Append(Room, r)
\* fault: a new reply does not wake the responder.
NotifyNone == responder
NotifyOne == IF responder \in {"asleep", "timed"} THEN "check" ELSE responder

\* HandleSearchRequest: a delay of 0 sends at once (if still running), else it is queued.
WorkerAnswers ==
  \E s \in Search, due \in Due :
    /\ worker = "receive" /\ todo["worker"] = {}
    /\ ClientFamily[s] \in ready /\ sock[ClientFamily[s]] = "open"
    /\ \E e \in endpoints : FamilyOf[e] = ClientFamily[s]
    /\ asked < MaxSearches
    /\ asked' = asked + 1
    /\ ready' = ready \ {ClientFamily[s]}
    /\ IF due = "now" THEN UNCHANGED <<queue, responder>>
       ELSE /\ Unlocked
            /\ queue' = Queued([for |-> s, due |-> due, fresh |-> TRUE])
            /\ responder' = IF Same(s) # {} THEN responder ELSE NotifyOne
    /\ UNCHANGED <<life, worker, hand, flushing, burst, todo, undone>>

-----------------------------------------------------------------------------
(* The thread of the first bursts: two rounds, 150 ms apart, per burst *)

BurstBegins ==
  /\ burst.at = "wait"
  /\ IF ~running \/ burst.left = 0
     THEN burst' = [at |-> "none", left |-> 0] /\ UNCHANGED todo
     ELSE burst' = [at |-> "first", left |-> burst.left - 1] /\ Round("burst")
  /\ UNCHANGED <<life, answers, worker, ready, undone, asked>>

\* No look at m_running between the two rounds of a burst.
BurstRepeats ==
  /\ burst.at = "first" /\ todo["burst"] = {}
  /\ burst' = [burst EXCEPT !.at = "second"]
  /\ Round("burst")
  /\ UNCHANGED <<life, answers, worker, ready, undone, asked>>

BurstWaits ==
  /\ burst.at = "second" /\ todo["burst"] = {}
  /\ burst' = [burst EXCEPT !.at = "wait"]
  /\ UNCHANGED <<life, answers, worker, ready, todo, undone, asked>>

-----------------------------------------------------------------------------
(* ResponseWorker *)

IsDue == {i \in DOMAIN queue : queue[i].due = "now"}

ResponderChecks ==
  /\ responder = "check"
  /\ \/ /\ ~running
        /\ queue' = <<>> /\ responder' = "none" /\ UNCHANGED hand
     \/ /\ running /\ queue = <<>>
        /\ responder' = "dozing" /\ UNCHANGED <<queue, hand>>
     \/ /\ running /\ queue # <<>> /\ IsDue = {}
        /\ responder' = "timed" /\ UNCHANGED <<queue, hand>>
     \/ \E i \in IsDue :
          /\ running
          /\ hand' = queue[i] /\ queue' = Drop(queue, i) /\ responder' = "send"
  /\ UNCHANGED <<life, flushing, worker, ready, burst, todo, undone, asked>>

\* m_running was read as true, but the notification of a Stop may come before the sleep.
ResponderSleeps ==
  /\ responder = "dozing" /\ responder' = "asleep"
  /\ UNCHANGED <<life, queue, hand, flushing, worker, ready, burst, todo, undone, asked>>

\* wait_until ends, at the due time it was given or later.
ResponderWakes ==
  /\ responder = "timed" /\ responder' = "check"
  /\ UNCHANGED <<life, queue, hand, flushing, worker, ready, burst, todo, undone, asked>>

ResponderSends ==
  /\ responder = "send" /\ responder' = "check"
  /\ hand' = Nobody
  /\ UNCHANGED <<life, queue, flushing, worker, ready, burst, todo, undone, asked>>

Sooner(d) == IF d = "late" THEN "soon" ELSE "now"
TimePasses ==
  /\ \E i \in DOMAIN queue :
       /\ queue[i].due # "now"
       /\ queue' = [queue EXCEPT ![i].due = Sooner(@)]
  /\ UNCHANGED <<life, hand, responder, flushing, worker, ready, burst, todo, undone, asked>>

-----------------------------------------------------------------------------
(* Stop *)

Early == {r \in Reply : r.due \in {"now", "soon"}}
\* The queued replies that are in S, in their order: one pass over the queue.
Passing(S) ==
  LET kept[n \in 0 .. Len(queue)] ==
        IF n = 0 THEN <<>>
        ELSE IF queue[n] \in S THEN Append(kept[n - 1], queue[n]) ELSE kept[n - 1]
  IN  kept[Len(queue)]
CallStop ==
  /\ stage = "idle" /\ running /\ Unlocked
  /\ flushing' = Passing(Early)
  /\ queue' = Passing(Reply \ Early)
  /\ stage' = "flush"
  /\ UNCHANGED <<running, endpoints, sock, starts, worker, ready, responder, hand, burst,
                 todo, undone, asked>>

StopFlushes ==
  /\ stage = "flush" /\ flushing # <<>>
  /\ flushing' = Tail(flushing)
  /\ UNCHANGED <<life, queue, hand, responder, worker, ready, burst, todo, undone, asked>>

StopSaysByebye ==
  /\ stage = "flush" /\ flushing = <<>>
  /\ running' = FALSE
  /\ stage' = "byebye" /\ Round("caller")
  /\ undone' = [e \in Endpoint |-> 0]
  /\ UNCHANGED <<endpoints, sock, starts, answers, worker, ready, burst, asked>>

StopShutsDown ==
  /\ stage = "byebye" /\ todo["caller"] = {}
  /\ sock' = [f \in Family |-> IF sock[f] = "open" THEN "shut" ELSE sock[f]]
  /\ responder' = NotifyOne                   \* notify_all, not under the waiter's mutex
  /\ stage' = "joinWorker"
  /\ UNCHANGED <<running, endpoints, starts, queue, hand, flushing, worker, ready, burst,
                 todo, undone, asked>>

WorkerJoined == worker = "none"
ResponderJoined == responder = "none"
\* fault: the thread of the bursts is detached, as the comment at its creation warns.
BurstDetached == TRUE
BurstJoined == burst.at = "none"

StopJoins ==
  /\ \/ stage = "joinWorker" /\ WorkerJoined /\ stage' = "joinResponder"
     \/ stage = "joinResponder" /\ ResponderJoined /\ stage' = "joinBurst"
  /\ UNCHANGED <<running, endpoints, sock, starts, answers, worker, ready, burst, todo,
                 undone, asked>>

StopCloses ==
  /\ stage = "joinBurst" /\ BurstJoined
  /\ sock' = [f \in Family |-> "none"]
  /\ queue' = [i \in DOMAIN queue |-> Aged(queue[i])]
  /\ stage' = "idle"
  /\ UNCHANGED <<running, endpoints, starts, hand, responder, flushing, worker, ready,
                 burst, todo, undone, asked>>

-----------------------------------------------------------------------------
Worker == WorkerSelects \/ WorkerIgnores \/ WorkerLoops \/ WorkerAnswers \/ Announce("worker")
Burst == BurstBegins \/ BurstRepeats \/ BurstWaits \/ Announce("burst")
Responder == ResponderChecks \/ ResponderSleeps \/ ResponderWakes \/ ResponderSends
Opening == StartPosix \/ StartWindows
Stopping == StopFlushes \/ StopSaysByebye \/ Announce("caller") \/ StopShutsDown \/ StopJoins \/ StopCloses

Next ==
  \/ \E E \in SUBSET Endpoint : CallStart(E)
  \/ Opening
  \/ CallStop
  \/ Stopping
  \/ Worker
  \/ Burst
  \/ Responder
  \/ TimePasses

\* Threads that can go on do, calls in progress too, and time passes.
Fairness == WF_vars(Opening) /\ WF_vars(Stopping) /\ WF_vars(Worker) /\ WF_vars(Burst)
            /\ WF_vars(Responder) /\ WF_vars(TimePasses)
Spec == Init /\ [][Next]_vars /\ Fairness

-----------------------------------------------------------------------------
\* The types of the state, and the limit of the queue.
TypeOK ==
  /\ stage \in {"idle", "starting", "flush", "byebye", "joinWorker", "joinResponder", "joinBurst"}
  /\ running \in BOOLEAN /\ endpoints \subseteq Endpoint
  /\ sock \in [Family -> {"none", "open", "shut"}]
  /\ worker \in {"none", "select", "receive"} /\ ready \subseteq Family
  /\ responder \in {"none", "check", "dozing", "asleep", "timed", "send"}
  /\ hand \in Reply \union {Nobody}
  /\ burst.at \in {"none", "wait", "first", "second"} /\ burst.left \in 0..Bursts
  /\ todo \in [Announcer -> SUBSET Endpoint]
  /\ queue \in Seq(Reply) /\ Len(queue) <= Cap
  /\ flushing \in Seq(Reply)
  /\ asked \in 0..MaxSearches /\ starts \in 0..MaxStarts

\* When no call is in progress and the service does not run, no thread of it is left, nobody is
\* in the middle of a round, and no socket is open: what Stop joins before it closes.
StoppedIsQuiet ==
  stage \in {"idle", "starting"} /\ ~running =>
    /\ worker = "none" /\ responder = "none" /\ burst.at = "none"
    /\ \A t \in Announcer : todo[t] = {}
    /\ \A f \in Family : sock[f] = "none"

\* A control point that repeats a search gets one reply: no two queued ones are for the same
\* client and targets (CoalesceDelayedResponse).
OneReplyEach == \A i, j \in DOMAIN queue : queue[i].for = queue[j].for => i = j

\* A byebye may be followed by alive messages of rounds that were under way, and by no more:
\* one round of the worker and the two of a burst.
ByebyeSoonHolds == \A e \in Endpoint : undone[e] <= 3

\* A queued reply leaves the queue, sent, replaced, pushed out or dropped by a Stop.
RepliesLeave ==
  \A s \in Search : (running /\ Same(s) # {}) ~> (Same(s) = {} \/ ~running)

\* A Stop ends, unless the responder went to sleep after the notification it waits for.
StopEnds ==
  stage = "flush" ~> (stage = "idle" \/ (~running /\ responder = "asleep"))

\* A stop leaves nothing behind, and the queue holds no reply twice.
ServiceSound == TypeOK /\ StoppedIsQuiet /\ OneReplyEach

\* Neither a reply nor a Stop waits for ever.
NothingIsStuck == RepliesLeave /\ StopEnds

\* The refinement: the abstract phase is read off where the call is.
AbsPhase ==
  CASE stage = "starting" -> "starting"
    [] stage \notin {"idle", "starting"} -> "stopping"
    [] stage = "idle" /\ running -> "on"
    [] OTHER -> "off"
Abs == INSTANCE Advertiser
  WITH EndpointSets <- SUBSET Endpoint, phase <- AbsPhase, advertised <- endpoints
\* Threads, queue and sockets are invisible to the callers: they see one call at a time, a set of
\* endpoints from a start until the next, and a stop that is over when everything is closed.
ImplementsAdvertiser == Abs!Spec
=============================================================================
