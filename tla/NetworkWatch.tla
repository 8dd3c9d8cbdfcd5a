----------------------------- MODULE NetworkWatch -----------------------------
(***************************************************************************)
(* How the server follows the network: the threads that hear of a change   *)
(* (netlink, or the two IP Helper callbacks), the debouncer with its       *)
(* deferred thread, the window's call on resume, the decision what to do   *)
(* (Server::RestartSsdpForNetworkChange), and Start and Stop beside them.  *)
(* Discovery itself is the Advertiser, which Ssdp implements.              *)
(***************************************************************************)
EXTENDS Integers, FiniteSets, Addresses

CONSTANTS
  Address,        \* what the machine may have
  Sources,        \* who hears of a change: netlink, or iface and unicast
  Resumes,        \* bound: calls on resume (Windows window; 0 elsewhere)
  Flaky,          \* may the enumeration of the endpoints fail?
  Interval,       \* of the debouncer, in ticks: 1.5 s
  RestartGap,     \* between two restarts, in ticks: 2 s
  MaxChanges,     \* bound: changes of the network and resumes together
  MaxStarts       \* bound: calls of Start

ASSUME NetworkAssumption ==
  /\ {"deferred", "resume", "main"} \cap Sources = {}
  /\ Interval \in Nat \ {0} /\ RestartGap \in Nat /\ Interval < RestartGap
  /\ Resumes \in Nat /\ Flaky \in BOOLEAN /\ MaxChanges \in Nat /\ MaxStarts \in Nat

VARIABLES
  net,            \* the addresses there are
  unread,         \* sources with a notification to deliver
  watching,       \* between StartNetworkChangeWatch and its Stop
  lately,         \* time until the debouncer acts at once again (0: now)
  pending,        \* m_trailingPending
  deferring,      \* g_deferredThreadRunning
  pc, look,       \* where a thread is in its fire, and the endpoints it enumerated
  rested,         \* time until a restart is allowed again (0: now)
  running, mode, announced, restored, endpoints,      \* Server
  phase, advertised,                                  \* Advertiser
  main,           \* where Start or Stop is
  owed,           \* history: a notification was read, and no look at the network since
  skipped,        \* history: the last look was not acted on because of the two seconds
  strayed,        \* history: a Stop went by while a resume was restarting SSDP
  changes, starts, resumes

world == <<net, changes>>
watch == <<unread, watching, lately, pending, deferring>>
server == <<running, mode, announced, restored, endpoints>>
ads == <<phase, advertised>>
notes == <<owed, skipped, strayed>>
spent == <<starts, resumes>>
vars == <<world, watch, pc, look, rested, server, ads, main, notes, spent>>

Ad == INSTANCE Advertiser WITH EndpointSets <- SUBSET Address

Thread == Sources \cup {"deferred", "resume"}
InCall == {"lose", "losing", "stop", "stopping", "start", "starting"}
Locked == \E t \in Thread : pc[t] \in InCall          \* m_ssdpRestartMutex
Goto(t, l) == pc' = [pc EXCEPT ![t] = l]
Return(t) == Goto(t, IF t = "deferred" THEN "ending" ELSE "idle")

Init ==
  /\ net \in SUBSET Address /\ changes = 0
  /\ unread = {} /\ watching = FALSE /\ lately = 0 /\ pending = FALSE /\ deferring = FALSE
  /\ pc = [t \in Thread |-> "idle"] /\ look = [t \in Thread |-> {}] /\ rested = 0
  /\ running = FALSE /\ mode = "normal" /\ announced = FALSE /\ restored = FALSE /\ endpoints = {}
  /\ Ad!Init /\ main = "idle"
  /\ owed = FALSE /\ skipped = FALSE /\ strayed = FALSE /\ starts = 0 /\ resumes = 0

NetChanges ==
  /\ changes + resumes < MaxChanges /\ changes' = changes + 1
  /\ net' \in SUBSET Address \ {net}
  /\ IF watching THEN \E S \in SUBSET Sources \ {{}} : unread' = unread \cup S ELSE UNCHANGED unread
  /\ UNCHANGED <<watching, lately, pending, deferring, pc, look, rested, server, ads, main, notes, spent>>

Less(n) == IF n = 0 THEN 0 ELSE n - 1
Tick ==
  /\ lately + rested > 0
  /\ lately' = Less(lately) /\ rested' = Less(rested)
  /\ UNCHANGED <<world, unread, watching, pending, deferring, pc, look, server, ads, main, notes, spent>>

-----------------------------------------------------------------------------
(* The watcher and its debouncer *)

\* fault: a change inside the interval is dropped.
RefusedForGood == pending' = FALSE
Refused == pending' = TRUE

\* OnChangeShouldActNow: act and begin an interval, or leave it to the end of this one.
SourceHears(s) ==
  /\ pc[s] = "idle" /\ s \in unread
  /\ unread' = unread \ {s}
  /\ owed' = TRUE
  /\ IF lately = 0 THEN lately' = Interval /\ pending' = FALSE /\ Goto(s, "fire")
     ELSE Refused /\ Goto(s, "schedule") /\ UNCHANGED lately
  /\ UNCHANGED <<world, watching, deferring, look, rested, server, ads, main, skipped, strayed, spent>>

\* ScheduleDeferredFire: a thread that is still marked as running is trusted to see the change.
SourceSchedules(s) ==
  /\ pc[s] = "schedule"
  /\ deferring' = TRUE
  /\ IF deferring THEN Goto(s, "idle") ELSE pc' = [pc EXCEPT ![s] = "idle", !["deferred"] = "loop"]
  /\ UNCHANGED <<world, unread, watching, lately, pending, look, rested, server, ads, main, notes, spent>>

\* fault: MarkTrailingHandled moves the interval and leaves the flag.
HandledNot == UNCHANGED pending
\* The change is marked as handled before it is acted on.
Handled == pending' = FALSE

DeferredWakes ==
  /\ pc["deferred"] = "loop"
  /\ IF pending
     THEN /\ lately = 0                               \* sleep_until(TrailingDeadline())
          /\ lately' = Interval /\ Handled /\ Goto("deferred", "fire")
     ELSE Goto("deferred", "ending") /\ UNCHANGED <<lately, pending>>
  /\ UNCHANGED <<world, unread, watching, deferring, look, rested, server, ads, main, notes, spent>>

\* A change that came since it fired is left pending, and nobody is left to act on it.
DeferredEnds ==
  /\ pc["deferred"] = "ending"
  /\ deferring' = FALSE /\ Goto("deferred", "idle")
  /\ UNCHANGED <<world, unread, watching, lately, pending, look, rested, server, ads, main, notes, spent>>

Resume ==
  /\ pc["resume"] = "idle" /\ resumes < Resumes /\ changes + resumes < MaxChanges
  /\ resumes' = resumes + 1 /\ Goto("resume", "fire")
  /\ UNCHANGED <<world, watch, look, rested, server, ads, main, notes, starts>>

-----------------------------------------------------------------------------
(* Server::RestartSsdpForNetworkChange *)

FireOfStopped(t) ==
  /\ pc[t] = "fire" /\ ~Locked /\ ~running
  /\ Return(t)
  /\ UNCHANGED <<world, watch, look, rested, server, ads, main, notes, spent>>

\* DecideNetworkModeEvent: Lost.  The mode comes first, so that nobody asks SSDP for its health.
Lose(t, E) ==
  /\ mode = "normal" /\ E = {}
  /\ mode' = "localhost" /\ announced' = FALSE
  /\ Goto(t, "lose")
  /\ UNCHANGED <<restored, skipped>>

\* Restored is announced once, until the network is lost again.
InLocalhost(t, E) ==
  /\ mode = "localhost"
  /\ announced' = (E # {})
  /\ restored' = (restored \/ (E # {} /\ ~announced))
  /\ Return(t)
  /\ UNCHANGED <<mode, skipped>>

\* Compared with what SSDP announces, not with the endpoints of the last look.
\* fault: the comparison is with the set the server found at the last look.
UnchangedSinceLook(E) == E = endpoints
Unchanged(E) == E = advertised

InNormal(t, E) ==
  /\ mode = "normal" /\ E # {}
  /\ skipped' = (~Unchanged(E) /\ rested > 0)
  /\ IF Unchanged(E) \/ rested > 0 THEN Return(t) ELSE Goto(t, "stop")
  /\ UNCHANGED <<mode, announced, restored>>

Looks == {net} \cup (IF Flaky THEN {{}} ELSE {})

Fire(t) ==
  /\ pc[t] = "fire" /\ ~Locked /\ running
  /\ owed' = FALSE
  /\ \E E \in Looks :
       /\ endpoints' = E /\ look' = [look EXCEPT ![t] = E]
       /\ Lose(t, E) \/ InLocalhost(t, E) \/ InNormal(t, E)
  /\ UNCHANGED <<world, watch, rested, running, ads, main, strayed, spent>>

\* SSDP::Stop: nothing to do when off, rejected during another call.
HandlerStops(t) ==
  /\ pc[t] \in {"lose", "stop"}
  /\ IF phase = "on"
     THEN Ad!BeginStop /\ Goto(t, IF pc[t] = "lose" THEN "losing" ELSE "stopping")
     ELSE UNCHANGED ads /\ (IF pc[t] = "lose" THEN Return(t) ELSE Goto(t, "start"))
  /\ UNCHANGED <<world, watch, look, rested, server, main, notes, spent>>

HandlerStopped(t) ==
  /\ pc[t] \in {"losing", "stopping"} /\ Ad!Stopped
  /\ IF pc[t] = "losing" THEN Return(t) ELSE Goto(t, "start")
  /\ UNCHANGED <<world, watch, look, rested, server, main, notes, spent>>

HandlerStarts(t) ==
  /\ pc[t] = "start"
  /\ IF phase = "off" THEN Ad!BeginStart(look[t]) /\ Goto(t, "starting") /\ UNCHANGED rested
     ELSE UNCHANGED ads /\ Return(t) /\ rested' = RestartGap
  /\ UNCHANGED <<world, watch, look, server, main, notes, spent>>

\* A start that fails is not tried again: the set counts as announced.
HandlerStarted(t) ==
  /\ pc[t] = "starting" /\ (Ad!Started \/ Ad!StartFails)
  /\ Return(t) /\ rested' = RestartGap
  /\ UNCHANGED <<world, watch, look, server, main, notes, spent>>

-----------------------------------------------------------------------------
(* Server::Start and Stop, and the user interface *)

StartLooks ==
  /\ main = "idle" /\ ~running /\ starts < MaxStarts
  /\ starts' = starts + 1
  /\ \E E \in Looks :
       /\ endpoints' = E
       /\ mode' = IF E = {} THEN "localhost" ELSE "normal"
       /\ main' = IF E = {} THEN "run" ELSE "announce"
  /\ announced' = FALSE /\ restored' = FALSE /\ skipped' = FALSE /\ owed' = FALSE
  /\ strayed' = (phase # "off" \/ pc["resume"] \in InCall)
  /\ UNCHANGED <<world, watch, pc, look, rested, running, ads, resumes>>

StartAnnounces ==
  /\ main = "announce"
  /\ \/ phase = "off" /\ Ad!BeginStart(endpoints) /\ main' = "announcing"
     \/ phase = "on" /\ UNCHANGED ads /\ main' = "run"
     \/ phase \in {"starting", "stopping"} /\ UNCHANGED ads /\ main' = "idle"
  /\ UNCHANGED <<world, watch, pc, look, rested, server, notes, spent>>

StartAnnounced ==
  /\ main = "announcing"
  /\ \/ Ad!Started /\ main' = "run"
     \/ Ad!StartFails /\ main' = "idle"
  /\ UNCHANGED <<world, watch, pc, look, rested, server, notes, spent>>

StartRuns ==
  /\ main = "run" /\ main' = "watch" /\ running' = TRUE
  /\ UNCHANGED <<world, watch, pc, look, rested, mode, announced, restored, endpoints, ads, notes, spent>>

\* The socket, or the registration, may be refused: nobody is told.
StartWatches ==
  /\ main = "watch" /\ main' = "idle"
  /\ watching' \in BOOLEAN
  /\ UNCHANGED <<world, unread, lately, pending, deferring, pc, look, rested, server, ads, notes, spent>>

Stop ==
  /\ main = "idle" /\ running
  /\ running' = FALSE /\ main' = "unwatch"
  /\ strayed' = (strayed \/ pc["resume"] \in InCall)
  /\ UNCHANGED <<world, watch, pc, look, rested, mode, announced, restored, endpoints, ads, owed, skipped, spent>>

StopUnwatches ==
  /\ main = "unwatch" /\ main' = "join"
  /\ watching' = FALSE /\ unread' = {}
  /\ UNCHANGED <<world, lately, pending, deferring, pc, look, rested, server, ads, notes, spent>>

Joined == \A t \in Sources \cup {"deferred"} : pc[t] = "idle"

StopJoins ==
  /\ main = "join" /\ Joined
  /\ main' = "silence" /\ deferring' = FALSE
  /\ UNCHANGED <<world, unread, watching, lately, pending, pc, look, rested, server, ads, notes, spent>>

StopSilences ==
  /\ main = "silence"
  /\ IF phase = "on" THEN Ad!BeginStop /\ main' = "silencing" ELSE UNCHANGED ads /\ main' = "finish"
  /\ UNCHANGED <<world, watch, pc, look, rested, server, notes, spent>>

StopSilenced ==
  /\ main = "silencing" /\ Ad!Stopped /\ main' = "finish"
  /\ UNCHANGED <<world, watch, pc, look, rested, server, notes, spent>>

StopFinishes ==
  /\ main = "finish" /\ main' = "idle"
  /\ mode' = "normal" /\ announced' = FALSE /\ restored' = FALSE /\ endpoints' = {}
  /\ UNCHANGED <<world, watch, pc, look, rested, running, ads, notes, spent>>

\* ConsumeNetworkRestored: the interface asks, and offers a restart.
ConsumeNetworkRestored ==
  /\ restored /\ running /\ restored' = FALSE
  /\ UNCHANGED <<world, watch, pc, look, rested, running, mode, announced, endpoints, ads, main, notes, spent>>

-----------------------------------------------------------------------------
Watch == (\E s \in Sources : SourceHears(s) \/ SourceSchedules(s)) \/ DeferredWakes \/ DeferredEnds
Handler(t) == FireOfStopped(t) \/ Fire(t) \/ HandlerStops(t) \/ HandlerStopped(t)
              \/ HandlerStarts(t) \/ HandlerStarted(t)
Call == StartAnnounces \/ StartAnnounced \/ StartRuns \/ StartWatches \/ StopUnwatches
        \/ StopJoins \/ StopSilences \/ StopSilenced \/ StopFinishes

Next ==
  \/ NetChanges
  \/ Tick
  \/ Watch
  \/ Resume
  \/ \E t \in Thread : Handler(t)
  \/ StartLooks
  \/ Stop
  \/ Call
  \/ ConsumeNetworkRestored

\* Time passes, threads run, a call of Start or Stop goes on; an SSDP::Stop ends (but see
\* Ssdp!StopEnds).
Fairness == WF_vars(Tick) /\ WF_vars(Watch) /\ WF_vars(Call) /\ \A t \in Thread : WF_vars(Handler(t))
Spec == Init /\ [][Next]_vars /\ Fairness

-----------------------------------------------------------------------------
Quiet == main = "idle" /\ unread = {} /\ \A t \in Thread : pc[t] = "idle"

\* The types of the state.
TypeOK ==
  /\ net \subseteq Address /\ unread \subseteq Sources
  /\ {watching, pending, deferring, running, announced, restored, owed, skipped, strayed} \subseteq BOOLEAN
  /\ lately \in 0..Interval /\ rested \in 0..RestartGap
  /\ pc \in [Thread -> InCall \cup {"idle", "schedule", "fire", "loop", "ending"}]
  /\ look \in [Thread -> SUBSET Address] /\ endpoints \subseteq Address /\ advertised \subseteq Address
  /\ mode \in {"normal", "localhost"} /\ phase \in {"off", "starting", "on", "stopping"}
  /\ main \in {"idle", "announce", "announcing", "run", "watch", "unwatch", "join", "silence",
               "silencing", "finish"}

\* A notification that was read is never forgotten by the debouncer while the server runs: until
\* the network is looked at, a thread is on its way to look or the change is pending.
OwedIsPending == owed /\ running => pending \/ \E t \in Thread : pc[t] \in {"schedule", "fire"}

\* Once a Stop has returned, nothing is announced; only a resume that was restarting SSDP when
\* the Stop came by can leave it on.
StoppedIsSilent == Quiet /\ ~running /\ ~strayed => phase = "off"

\* In localhost mode nothing is announced, and the return of the network has been announced to
\* the user exactly when the last look saw one.
LocalhostIsSilent ==
  Quiet /\ running /\ mode = "localhost" =>
    /\ phase = "off" \/ strayed
    /\ announced = (endpoints # {}) \/ starts = 0

\* In normal mode SSDP announces what the last look saw, however restarts, losses and failures
\* interleaved; the one exception is the rule of two seconds, and a stray resume.
LookIsAnnounced ==
  Quiet /\ running /\ mode = "normal" => advertised = endpoints \/ skipped \/ strayed

\* What is announced follows from the network, the mode and the calls, and the endpoints taken
\* from the network are those a control point reaches.
AnnouncedAsSeen ==
  TypeOK /\ StoppedIsSilent /\ LocalhostIsSilent /\ LookIsAnnounced /\ EndpointsReach

\* Violated: "so the last change in a burst is never lost" (docs/Discovery.md:178).
LastChangeSeen == Quiet /\ running /\ lately = 0 => ~owed

\* Start and Stop return: no thread that Stop joins waits for something Stop holds.
CallsReturn == (main # "idle") ~> (main = "idle")

\* A pending change that has its thread is looked at, or the server stops.
TrailingFires == (pc["deferred"] = "loop" /\ pending) ~> (~pending \/ ~running)

\* Neither a call nor a deferred change waits for ever.
WaitsEnd == CallsReturn /\ TrailingFires
=============================================================================
