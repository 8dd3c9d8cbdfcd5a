----------------------------- MODULE HttpServer -----------------------------
(***************************************************************************)
(* Threads and connections of the HTTP server.  The two builds share the   *)
(* interface and differ inside: on POSIX (src/posix_httpserver.cpp) one    *)
(* accept loop per address family submits to a BoundedThreadPool; on       *)
(* Windows (src/httpserver.cpp) one accept thread serves both families,    *)
(* waits for room before it accepts and hands clients to a system pool.    *)
(* Several threads may call Start and Stop; m_lifecycleBusy lets one in.   *)
(*                                                                         *)
(* A worker's whole conversation with a client is one stay in `serving`:   *)
(* what it answers is module HttpReply.                                    *)
(***************************************************************************)
EXTENDS Integers, SequencesExt

CONSTANTS Caller,       \* threads that call Start and Stop
          Client,       \* connections
          MaxClients,   \* kMaxClientThreads
          MaxCalls      \* bound: calls of Start and Stop

ASSUME HttpAssumption == MaxClients \in Nat \ {0} /\ MaxCalls \in Nat /\ IsFiniteSet(Client)

VARIABLES
  platform,           \* the build
  busy, step, result, \* m_lifecycleBusy; per caller where it is and what Start said last
  calls,
  running, sockets,   \* m_running; the families that listen
  woken,              \* the byte in the wakeup pipe
  loop,               \* accept loops: POSIX one per family, Windows the one of family 4
  hand,               \* per accept loop: what it has accepted
  expected, alive,    \* the loops counted for IsHealthy
  early,              \* history: a loop ended before Start seeded the count
  conn,               \* per client: where its connection is
  queue, serving,     \* accepted clients that wait for a thread, and those that have one
  active, telling     \* Windows: m_activeClientCount, callbacks about to notify

lifecycle == <<busy, step, result, calls, running, sockets, woken>>
counts    == <<expected, alive, early>>
work      == <<queue, serving, active, telling>>
vars == <<platform, lifecycle, loop, hand, counts, conn, work>>

Family == {4, 6}
Posix   == platform = "posix"
Windows == platform = "windows"
NoClient == "none"

(* A loop that has ended stays "gone" until the next Start. *)
Ended(f) == loop[f] \in {"none", "gone"}

Init ==
  /\ platform \in {"posix", "windows"}
  /\ busy = FALSE /\ step = [k \in Caller |-> "idle"] /\ result = [k \in Caller |-> "none"] /\ calls = 0
  /\ running = FALSE /\ sockets = {} /\ woken = FALSE
  /\ loop = [f \in Family |-> "none"] /\ hand = [f \in Family |-> NoClient]
  /\ expected = 0 /\ alive = 0 /\ early = FALSE
  /\ conn = [c \in Client |-> "away"]
  /\ queue = <<>> /\ serving = {} /\ active = 0 /\ telling = 0

Goto(k, s) == step' = [step EXCEPT ![k] = s]

(* The guard is released at every return. *)
Return(k, answer) ==
  /\ Goto(k, "idle") /\ busy' = FALSE
  /\ result' = [result EXCEPT ![k] = answer]

-----------------------------------------------------------------------------
(* A call that finds the other one in progress returns at once. *)
Enters(k, first) ==
  IF busy THEN UNCHANGED <<busy, step>> ELSE busy' = TRUE /\ Goto(k, first)

Call(k) ==
  /\ step[k] = "idle" /\ calls < MaxCalls /\ calls' = calls + 1
  /\ \E first \in {"start", "stop"} : Enters(k, first)
  /\ UNCHANGED <<platform, result, running, sockets, woken, loop, hand, counts, conn, work>>

(* Start up to the threads: sockets of one or both families, the pool *)
StartRunning(k) ==
  /\ step[k] = "start" /\ running /\ Return(k, "ok")
  /\ UNCHANGED <<platform, calls, running, sockets, woken, loop, hand, counts, conn, work>>

StartPosix(k) ==
  /\ Posix /\ step[k] = "start" /\ ~running
  /\ \E bound \in SUBSET Family :
       /\ sockets' = bound
       /\ IF bound # {}
          THEN /\ running' = TRUE /\ expected' = 0 /\ alive' = 0 /\ early' = FALSE
               /\ Goto(k, "spawn4") /\ UNCHANGED <<busy, result>>
          ELSE Return(k, "failed") /\ UNCHANGED <<running, counts>>
  /\ woken' = FALSE
  /\ UNCHANGED <<platform, calls, loop, hand, conn, work>>

Spawn(k, f, next) ==
  /\ step[k] = (IF f = 4 THEN "spawn4" ELSE "spawn6") /\ Goto(k, next)
  /\ IF f \in sockets
     THEN expected' = expected + 1 /\ loop' = [loop EXCEPT ![f] = "poll"]
     ELSE UNCHANGED <<expected, loop>>
  /\ UNCHANGED <<platform, busy, result, calls, running, sockets, woken, hand, alive, early, conn, work>>

Seed == expected

(* The count of live loops is set to the expected one after they may have run. *)
StartSeeds(k) ==
  /\ step[k] = "seed"
  /\ alive' = Seed /\ Return(k, "ok")
  /\ UNCHANGED <<platform, calls, running, sockets, woken, loop, hand, expected, early, conn, work>>

(* Windows: the listening sockets are exclusive, so a family whose socket an *)
(* earlier failure has left open cannot be bound again.  The Stop that Start *)
(* calls when a later step fails finds m_lifecycleBusy set and does nothing. *)
StartWindows(k) ==
  /\ Windows /\ step[k] = "start" /\ ~running
  /\ \E bound \in SUBSET (Family \ sockets) :
       IF bound = {}
       THEN Return(k, "failed") /\ UNCHANGED <<running, sockets, counts, loop>>
       ELSE /\ sockets' = sockets \union bound
            /\ \/ Return(k, "failed") /\ UNCHANGED <<running, counts, loop>>
               \/ /\ running' = TRUE /\ Return(k, "failed")
                  /\ expected' = 1 /\ alive' = 0 /\ UNCHANGED <<early, loop>>
               \/ /\ running' = TRUE /\ Return(k, "ok")
                  /\ expected' = 1 /\ alive' = 1 /\ loop' = [loop EXCEPT ![4] = "check"]
                  /\ UNCHANGED early
  /\ UNCHANGED <<platform, calls, woken, hand, conn, work>>

(* Stop *)
StopBegins(k) ==
  /\ step[k] = "stop"
  /\ IF Windows /\ ~running /\ sockets = {}
     THEN Return(k, result[k]) /\ UNCHANGED running
     ELSE running' = FALSE /\ Goto(k, "wake") /\ UNCHANGED <<busy, result>>
  /\ UNCHANGED <<platform, calls, sockets, woken, loop, hand, counts, conn, work>>

(* notify_all, without the mutex of the accept thread's wait *)
Wakes(f) == IF loop[f] = "asleep" THEN "check" ELSE loop[f]

(* POSIX writes the pipe and shuts the sockets down; Windows notifies the accept thread. *)
StopWakes(k) ==
  /\ step[k] = "wake" /\ Goto(k, "join")
  /\ woken' = Posix /\ loop' = [f \in Family |-> Wakes(f)]
  /\ UNCHANGED <<platform, busy, result, calls, running, sockets, hand, counts, conn, work>>

\* fault: the listening sockets are closed and the pool ended before the loops are joined
JoinsNone == TRUE

Joined == \A f \in Family : Ended(f)

StopJoins(k) ==
  /\ step[k] = "join" /\ Joined
  /\ sockets' = {} /\ Goto(k, "pool")
  /\ conn' = [c \in Client |-> IF conn[c] = "backlog" THEN "closed" ELSE conn[c]]
  /\ UNCHANGED <<platform, busy, result, calls, running, woken, loop, hand, counts, work>>

(* The pool ends when its threads have drained it. *)
StopEndsPool(k) ==
  /\ step[k] = "pool" /\ queue = <<>> /\ serving = {} /\ telling = 0
  /\ woken' = FALSE /\ Return(k, result[k])
  /\ UNCHANGED <<platform, calls, running, sockets, loop, hand, counts, conn, work>>

-----------------------------------------------------------------------------
(* Clients connect while a socket listens, and wait in the kernel. *)
Connect(c) ==
  /\ conn[c] = "away" /\ sockets # {} /\ conn' = [conn EXCEPT ![c] = "backlog"]
  /\ UNCHANGED <<platform, lifecycle, loop, hand, counts, work>>

(* AcceptLoop on POSIX: an address that is not allowed is turned away (403); *)
(* poll may fail; the byte in the pipe ends the loop                         *)
Accept(f, c) ==
  /\ Posix /\ loop[f] = "poll" /\ f \in sockets /\ conn[c] = "backlog"
  /\ \/ /\ conn' = [conn EXCEPT ![c] = "closed"] /\ UNCHANGED <<loop, hand>>
     \/ /\ conn' = [conn EXCEPT ![c] = "accepted"]
        /\ hand' = [hand EXCEPT ![f] = c] /\ loop' = [loop EXCEPT ![f] = "submit"]
  /\ UNCHANGED <<platform, lifecycle, counts, work>>

\* fault: the queue has no limit
RoomAlways == TRUE

Room == Len(queue) < MaxClients

(* BoundedThreadPool::Submit waits for room in the queue. *)
Submit(f) ==
  /\ Posix /\ loop[f] = "submit" /\ Room
  /\ queue' = Append(queue, hand[f]) /\ hand' = [hand EXCEPT ![f] = NoClient]
  /\ loop' = [loop EXCEPT ![f] = "poll"]
  /\ UNCHANGED <<platform, lifecycle, counts, conn, serving, active, telling>>

\* fault: the loop leaves the count as it is
LeavesNone(n) == n

Leaves(n) == n - 1

(* A loop ends when it finds the pipe's byte; poll may also fail. *)
LoopEnds(f) ==
  /\ Posix /\ loop[f] = "poll" /\ (woken \/ running)
  /\ loop' = [loop EXCEPT ![f] = "gone"] /\ alive' = Leaves(alive)
  /\ early' = (early \/ \E k \in Caller : step[k] \in {"spawn6", "seed"})
  /\ UNCHANGED <<platform, lifecycle, hand, expected, conn, work>>

-----------------------------------------------------------------------------
(* AcceptThreadWorker: the wait for room evaluates its predicate and sleeps under m_capacityMutex. *)
Full == active >= MaxClients

CheckCapacity ==
  /\ Windows /\ loop[4] = "check"
  /\ loop' = [loop EXCEPT ![4] = IF ~running THEN "gone" ELSE IF Full THEN "dozing" ELSE "select"]
  /\ alive' = IF running THEN alive ELSE 0
  /\ UNCHANGED <<platform, lifecycle, hand, expected, early, conn, work>>

Doze ==
  /\ loop[4] = "dozing" /\ loop' = [loop EXCEPT ![4] = "asleep"]
  /\ UNCHANGED <<platform, lifecycle, hand, counts, conn, work>>

(* select ends after a second at most; every ready socket is accepted once *)
Select ==
  /\ loop[4] = "select"
  /\ \E taken \in SUBSET {c \in Client : conn[c] = "backlog"} :
       /\ Cardinality(taken) <= Cardinality(sockets)
       /\ \E admitted \in SUBSET taken : \E order \in SetToSeqs(admitted) :
            /\ conn' = [c \in Client |-> IF c \in admitted THEN "accepted"
                                         ELSE IF c \in taken THEN "closed" ELSE conn[c]]
            /\ queue' = queue \o order
            /\ active' = active + Cardinality(admitted)
  /\ loop' = [loop EXCEPT ![4] = "check"]
  /\ UNCHANGED <<platform, lifecycle, hand, counts, serving, telling>>

(* A thread of either pool takes the next client (HandleClient), which may  *)
(* stay as long as it keeps asking; a server that stops ends it after the   *)
(* request it is in.                                                        *)
TakeClient ==
  /\ queue # <<>> /\ Cardinality(serving) < MaxClients
  /\ serving' = serving \union {Head(queue)} /\ queue' = Tail(queue)
  /\ UNCHANGED <<platform, lifecycle, loop, hand, counts, conn, active, telling>>

\* fault: the callback changes the count without the mutex
UnlockedAlways == TRUE

Unlocked == loop[4] # "dozing"

ClientDone(c) ==
  /\ c \in serving /\ (Windows => Unlocked)
  /\ serving' = serving \ {c} /\ conn' = [conn EXCEPT ![c] = "closed"]
  /\ IF Windows THEN active' = active - 1 /\ telling' = telling + 1 ELSE UNCHANGED <<active, telling>>
  /\ UNCHANGED <<platform, lifecycle, loop, hand, counts, queue>>

(* WorkerCallback: notify_one, after the mutex is released *)
TellRoom ==
  /\ telling > 0 /\ telling' = telling - 1
  /\ loop' = [f \in Family |-> Wakes(f)]
  /\ UNCHANGED <<platform, lifecycle, hand, counts, conn, queue, serving, active>>

Control(k) ==
  \/ StartRunning(k) \/ StartPosix(k) \/ Spawn(k, 4, "spawn6") \/ Spawn(k, 6, "seed") \/ StartSeeds(k)
  \/ StartWindows(k) \/ StopBegins(k) \/ StopWakes(k) \/ StopJoins(k) \/ StopEndsPool(k)
AcceptThread == CheckCapacity \/ Doze \/ Select

Next ==
  \/ \E k \in Caller : Call(k) \/ Control(k)
  \/ \E f \in Family : Submit(f) \/ LoopEnds(f) \/ \E c \in Client : Accept(f, c)
  \/ \E c \in Client : Connect(c) \/ ClientDone(c)
  \/ AcceptThread \/ TakeClient \/ TellRoom

Spec == Init /\ [][Next]_vars

(* Threads run; while the server stops, a client's request ends. *)
FairSpec ==
  /\ Spec
  /\ \A k \in Caller : WF_vars(Control(k))
  /\ \A f \in Family : WF_vars(Submit(f)) /\ WF_vars(woken /\ LoopEnds(f))
  /\ WF_vars(AcceptThread) /\ WF_vars(TakeClient) /\ WF_vars(TellRoom)
  /\ \A c \in Client : WF_vars(~running /\ ClientDone(c))

-----------------------------------------------------------------------------
TypeOK ==
  /\ platform \in {"posix", "windows"} /\ busy \in BOOLEAN /\ calls \in 0 .. MaxCalls
  /\ step \in [Caller -> {"idle", "start", "spawn4", "spawn6", "seed", "stop", "wake", "join", "pool"}]
  /\ result \in [Caller -> {"none", "ok", "failed"}]
  /\ running \in BOOLEAN /\ sockets \subseteq Family /\ woken \in BOOLEAN /\ early \in BOOLEAN
  /\ loop \in [Family -> {"none", "gone", "poll", "submit", "check", "dozing", "asleep", "select"}]
  /\ hand \in [Family -> Client \union {NoClient}]
  /\ expected \in 0 .. 2 /\ alive \in -2 .. 2
  /\ conn \in [Client -> {"away", "backlog", "accepted", "closed"}]
  /\ queue \in Seq(Client) /\ serving \subseteq Client
  /\ active \in 0 .. Cardinality(Client) /\ telling \in 0 .. Cardinality(Client)

(* kMaxClientThreads bounds what is accepted and not finished: on POSIX the  *)
(* threads, as many in the queue and one in each loop's hand; on Windows one *)
(* more than the limit, because select answers for two sockets at once.      *)
ClientsBounded ==
  /\ Cardinality(serving) <= MaxClients
  /\ Posix => Len(queue) <= MaxClients
  /\ Windows => Len(queue) + Cardinality(serving) = active /\ active <= MaxClients + 1

(* Clients, sockets and threads keep to their limits.                        *)
LimitsHold == TypeOK /\ ClientsBounded

(* When neither Start nor Stop is under way and the server does not run, no  *)
(* loop is left, and no connection is queued or served: a thread that reads  *)
(* the closed sockets or the pool that is gone would.                        *)
StoppedIsQuiet ==
  ~running /\ ~busy =>
    /\ \A f \in Family : Ended(f) /\ hand[f] = NoClient
    /\ queue = <<>> /\ serving = {} /\ telling = 0
    /\ Posix => sockets = {}

(* IsHealthy: when Start has returned, the health poll reports every accept  *)
(* loop that has ended since ("Only the exit-side decrement later detects an *)
(* accept loop that actually died"); one that ended before it is lost.       *)
Healthy == alive = expected
DeathIsSeen ==
  Posix /\ running /\ ~busy /\ Healthy => early \/ \A f \in sockets : ~Ended(f)

(* A call of Stop ends, whoever sleeps, whatever is queued: Stop notifies    *)
(* without the mutex, and a notification it loses is made good by the        *)
(* callbacks of the clients the accept thread waits for.                     *)
StopEnds == \A k \in Caller : step[k] = "stop" ~> step[k] = "idle"
=============================================================================
