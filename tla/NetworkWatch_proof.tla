-------------------------- MODULE NetworkWatch_proof --------------------------
(***************************************************************************)
(* What is proved of NetworkWatch for every set of addresses and sources   *)
(* and for any number of changes, resumes and starts: the types, that a    *)
(* change that was read is never forgotten by the debouncer, and that what *)
(* is announced follows from the network, the mode and the calls.          *)
(***************************************************************************)
EXTENDS NetworkWatch, TLAPS

(* Who watches: the server that runs, or a Stop that has just begun. *)
WatchFollows ==
  /\ watching => main = "unwatch" \/ (main = "idle" /\ running)
  /\ ~watching => unread = {}
  /\ main = "watch" => running

(* A start has looked at the network, and nothing was read since. *)
StartHasLooked == main \in {"announce", "announcing", "run"} => ~owed

(* A deferred thread that is under way is marked as running, so that no    *)
(* source starts it anew.                                                  *)
DeferredIsMarked == pc["deferred"] # "idle" => deferring

(* What is owed is pending or about to be looked at: a thread that goes to *)
(* schedule has left the change pending, or the deferred thread took it.   *)
OwedIsTaken == owed /\ running => pending \/ \E t \in Thread : pc[t] = "fire"

Inv == TypeOK /\ WatchFollows /\ StartHasLooked /\ DeferredIsMarked /\ OwedIsTaken

-----------------------------------------------------------------------------
(* The threads are the sources, which are none of the others. *)
LEMMA ThreadsAreApart ==
  /\ {"deferred", "resume"} \subseteq Thread /\ Sources \subseteq Thread
  /\ "deferred" \notin Sources /\ "resume" \notin Sources
BY NetworkAssumption DEF NetworkAssumption, Thread

(* The invariant holds before the first start. *)
LEMMA InvInit == Init => Inv
<1> SUFFICES ASSUME Init PROVE Inv
  OBVIOUS
<1>1. TypeOK
  <2>1. {watching, pending, deferring, running, announced, restored, owed, skipped, strayed}
          \subseteq BOOLEAN
    BY DEF Init
  <2>2. lately \in 0..Interval /\ rested \in 0..RestartGap
    BY NetworkAssumption DEF Init, NetworkAssumption
  <2> QED
    BY <2>1, <2>2 DEF Init, TypeOK, Ad!Init, InCall
<1> QED
  BY <1>1, ThreadsAreApart DEF Init, Inv, WatchFollows, StartHasLooked, DeferredIsMarked,
     OwedIsTaken

(* The world and the user keep the invariant. *)
LEMMA WorldKeeps ==
  ASSUME Inv,
         NetChanges \/ Tick \/ Resume \/ ConsumeNetworkRestored
  PROVE  Inv'
<1> USE ThreadsAreApart DEF Inv, world, watch, server, ads, notes, spent
<1>1. CASE NetChanges
  <2>1. TypeOK'
    BY <1>1, NetworkAssumption DEF NetChanges, TypeOK, InCall, NetworkAssumption
  <2>2. WatchFollows' /\ StartHasLooked' /\ DeferredIsMarked'
    BY <1>1 DEF NetChanges, TypeOK, WatchFollows, StartHasLooked, DeferredIsMarked
  <2>3. OwedIsTaken'
    BY <1>1 DEF NetChanges, TypeOK, OwedIsTaken, StartHasLooked, DeferredIsMarked
  <2> QED
    BY <2>1, <2>2, <2>3
<1>2. CASE Tick
  <2>1. TypeOK'
    BY <1>2, NetworkAssumption DEF Tick, Less, TypeOK, InCall, NetworkAssumption
  <2>2. WatchFollows' /\ StartHasLooked' /\ DeferredIsMarked'
    BY <1>2 DEF Tick, Less, TypeOK, WatchFollows, StartHasLooked, DeferredIsMarked
  <2>3. OwedIsTaken'
    BY <1>2 DEF Tick, Less, TypeOK, OwedIsTaken, StartHasLooked, DeferredIsMarked
  <2> QED
    BY <2>1, <2>2, <2>3
<1>3. CASE Resume
  <2>1. TypeOK'
    BY <1>3, NetworkAssumption DEF Resume, Goto, TypeOK, InCall, NetworkAssumption
  <2>2. WatchFollows' /\ StartHasLooked' /\ DeferredIsMarked'
    BY <1>3 DEF Resume, Goto, TypeOK, WatchFollows, StartHasLooked, DeferredIsMarked
  <2>3. OwedIsTaken'
    BY <1>3 DEF Resume, Goto, TypeOK, OwedIsTaken, StartHasLooked, DeferredIsMarked
  <2> QED
    BY <2>1, <2>2, <2>3
<1>4. CASE ConsumeNetworkRestored
  <2>1. TypeOK'
    BY <1>4, NetworkAssumption DEF ConsumeNetworkRestored, TypeOK, InCall, NetworkAssumption
  <2>2. WatchFollows' /\ StartHasLooked' /\ DeferredIsMarked'
    BY <1>4 DEF ConsumeNetworkRestored, TypeOK, WatchFollows, StartHasLooked, DeferredIsMarked
  <2>3. OwedIsTaken'
    BY <1>4 DEF ConsumeNetworkRestored, TypeOK, OwedIsTaken, StartHasLooked, DeferredIsMarked
  <2> QED
    BY <2>1, <2>2, <2>3
<1> QED
  BY <1>1, <1>2, <1>3, <1>4

(* A source that hears keeps it. *)
LEMMA SourceKeeps ==
  ASSUME Inv, NEW s \in Sources,
         SourceHears(s) \/ SourceSchedules(s)
  PROVE  Inv'
<1> USE ThreadsAreApart DEF Inv, world, watch, server, ads, notes, spent
<1>1. CASE SourceHears(s)
  <2>1. TypeOK'
    <3>1. pc' \in [Thread -> InCall \cup {"idle", "schedule", "fire", "loop", "ending"}]
      BY <1>1 DEF SourceHears, Goto, TypeOK
    <3>2. lately' \in 0..Interval
      <4>1. lately \in 0..Interval /\ Interval \in Nat
        BY NetworkAssumption DEF TypeOK, NetworkAssumption
      <4>2. lately' = lately \/ lately' = Interval
        BY <1>1 DEF SourceHears
      <4> QED
        BY <4>1, <4>2
    <3>3. pending' \in BOOLEAN
      BY <1>1 DEF SourceHears, Refused, TypeOK
    <3> QED
      BY <1>1, <3>1, <3>2, <3>3 DEF SourceHears, TypeOK
  <2>2. WatchFollows' /\ StartHasLooked' /\ DeferredIsMarked'
    BY <1>1 DEF SourceHears, Refused, Goto, TypeOK, WatchFollows, StartHasLooked,
       DeferredIsMarked
  <2>3. OwedIsTaken'
    BY <1>1 DEF SourceHears, Refused, Goto, TypeOK, OwedIsTaken, StartHasLooked,
       DeferredIsMarked
  <2> QED
    BY <2>1, <2>2, <2>3
<1>2. CASE SourceSchedules(s)
  <2>1. TypeOK'
    BY <1>2, NetworkAssumption DEF SourceSchedules, Goto, TypeOK, InCall, NetworkAssumption
  <2>2. WatchFollows' /\ StartHasLooked' /\ DeferredIsMarked'
    BY <1>2 DEF SourceSchedules, Goto, TypeOK, WatchFollows, StartHasLooked, DeferredIsMarked
  <2>3. OwedIsTaken'
    BY <1>2 DEF SourceSchedules, Goto, TypeOK, OwedIsTaken, StartHasLooked, DeferredIsMarked
  <2> QED
    BY <2>1, <2>2, <2>3
<1> QED
  BY <1>1, <1>2

(* The deferred thread keeps it. *)
LEMMA DeferredKeeps ==
  ASSUME Inv,
         DeferredWakes \/ DeferredEnds
  PROVE  Inv'
<1> USE ThreadsAreApart DEF Inv, world, watch, server, ads, notes, spent
<1>1. CASE DeferredWakes
  <2>1. TypeOK'
    <3>1. pc' \in [Thread -> InCall \cup {"idle", "schedule", "fire", "loop", "ending"}]
      BY <1>1 DEF DeferredWakes, Goto, TypeOK
    <3>2. lately' \in 0..Interval
      <4>1. lately \in 0..Interval /\ Interval \in Nat
        BY NetworkAssumption DEF TypeOK, NetworkAssumption
      <4>2. lately' = lately \/ lately' = Interval
        BY <1>1 DEF DeferredWakes
      <4> QED
        BY <4>1, <4>2
    <3>3. pending' \in BOOLEAN
      BY <1>1 DEF DeferredWakes, Handled, TypeOK
    <3> QED
      BY <1>1, <3>1, <3>2, <3>3 DEF DeferredWakes, TypeOK
  <2>2. WatchFollows' /\ StartHasLooked' /\ DeferredIsMarked'
    BY <1>1 DEF DeferredWakes, Handled, Goto, TypeOK, WatchFollows, StartHasLooked,
       DeferredIsMarked
  <2>3. OwedIsTaken'
    BY <1>1 DEF DeferredWakes, Handled, Goto, TypeOK, OwedIsTaken, StartHasLooked,
       DeferredIsMarked
  <2> QED
    BY <2>1, <2>2, <2>3
<1>2. CASE DeferredEnds
  <2>1. TypeOK'
    BY <1>2, NetworkAssumption DEF DeferredEnds, Goto, TypeOK, InCall, NetworkAssumption
  <2>2. WatchFollows' /\ StartHasLooked' /\ DeferredIsMarked'
    BY <1>2 DEF DeferredEnds, Goto, TypeOK, WatchFollows, StartHasLooked, DeferredIsMarked
  <2>3. OwedIsTaken'
    BY <1>2 DEF DeferredEnds, Goto, TypeOK, OwedIsTaken, StartHasLooked, DeferredIsMarked
  <2> QED
    BY <2>1, <2>2, <2>3
<1> QED
  BY <1>1, <1>2

(* The decision what to do keeps it, whoever takes it. *)
LEMMA HandlerKeeps ==
  ASSUME Inv, NEW t \in Thread,
         Handler(t)
  PROVE  Inv'
<1> USE ThreadsAreApart DEF Inv, world, watch, server, ads, notes, spent
<1>1. CASE FireOfStopped(t)
  <2>1. TypeOK'
    BY <1>1, NetworkAssumption DEF FireOfStopped, Return, Goto, TypeOK, InCall,
       NetworkAssumption
  <2>2. WatchFollows' /\ StartHasLooked' /\ DeferredIsMarked'
    BY <1>1 DEF FireOfStopped, Return, Goto, TypeOK, WatchFollows, StartHasLooked,
       DeferredIsMarked
  <2>3. OwedIsTaken'
    BY <1>1 DEF FireOfStopped, Return, Goto, TypeOK, OwedIsTaken, StartHasLooked,
       DeferredIsMarked
  <2> QED
    BY <2>1, <2>2, <2>3
<1>2. CASE Fire(t)
  <2>1. TypeOK'
    <3>1. PICK E \in Looks : /\ endpoints' = E /\ look' = [look EXCEPT ![t] = E]
                             /\ Lose(t, E) \/ InLocalhost(t, E) \/ InNormal(t, E)
      BY <1>2 DEF Fire
    <3>2. E \subseteq Address
      BY DEF Looks, TypeOK
    <3>3. pc' \in [Thread -> InCall \cup {"idle", "schedule", "fire", "loop", "ending"}]
      BY <3>1 DEF Lose, InLocalhost, InNormal, Return, Goto, TypeOK, InCall
    <3>4. look' \in [Thread -> SUBSET Address] /\ endpoints' \subseteq Address
      BY <3>1, <3>2 DEF TypeOK
    <3>5. {announced', restored', skipped'} \subseteq BOOLEAN /\ mode' \in {"normal", "localhost"}
      BY <3>1 DEF Lose, InLocalhost, InNormal, TypeOK
    <3> QED
      BY <1>2, <3>3, <3>4, <3>5 DEF Fire, TypeOK
  <2>2. WatchFollows' /\ StartHasLooked' /\ DeferredIsMarked'
    BY <1>2 DEF Fire, Looks, Lose, InLocalhost, InNormal, Return, Goto, TypeOK, WatchFollows,
       StartHasLooked, DeferredIsMarked
  <2>3. OwedIsTaken'
    BY <1>2 DEF Fire, Looks, Lose, InLocalhost, InNormal, Return, Goto, TypeOK, OwedIsTaken,
       StartHasLooked, DeferredIsMarked
  <2> QED
    BY <2>1, <2>2, <2>3
<1>3. CASE HandlerStops(t)
  <2>1. TypeOK'
    BY <1>3, NetworkAssumption DEF HandlerStops, Return, Goto, Ad!BeginStop, TypeOK, InCall,
       NetworkAssumption
  <2>2. WatchFollows' /\ StartHasLooked' /\ DeferredIsMarked'
    BY <1>3 DEF HandlerStops, Return, Goto, Ad!BeginStop, TypeOK, WatchFollows, StartHasLooked,
       DeferredIsMarked
  <2>3. OwedIsTaken'
    BY <1>3 DEF HandlerStops, Return, Goto, Ad!BeginStop, TypeOK, OwedIsTaken, StartHasLooked,
       DeferredIsMarked
  <2> QED
    BY <2>1, <2>2, <2>3
<1>4. CASE HandlerStopped(t)
  <2>1. TypeOK'
    BY <1>4, NetworkAssumption DEF HandlerStopped, Return, Goto, Ad!Stopped, TypeOK, InCall,
       NetworkAssumption
  <2>2. WatchFollows' /\ StartHasLooked' /\ DeferredIsMarked'
    BY <1>4 DEF HandlerStopped, Return, Goto, Ad!Stopped, TypeOK, WatchFollows, StartHasLooked,
       DeferredIsMarked
  <2>3. OwedIsTaken'
    BY <1>4 DEF HandlerStopped, Return, Goto, Ad!Stopped, TypeOK, OwedIsTaken, StartHasLooked,
       DeferredIsMarked
  <2> QED
    BY <2>1, <2>2, <2>3
<1>5. CASE HandlerStarts(t)
  <2>1. TypeOK'
    BY <1>5, NetworkAssumption DEF HandlerStarts, Return, Goto, Ad!BeginStart, TypeOK, InCall,
       NetworkAssumption
  <2>2. WatchFollows' /\ StartHasLooked' /\ DeferredIsMarked'
    BY <1>5 DEF HandlerStarts, Return, Goto, Ad!BeginStart, TypeOK, WatchFollows,
       StartHasLooked, DeferredIsMarked
  <2>3. OwedIsTaken'
    BY <1>5 DEF HandlerStarts, Return, Goto, Ad!BeginStart, TypeOK, OwedIsTaken,
       StartHasLooked, DeferredIsMarked
  <2> QED
    BY <2>1, <2>2, <2>3
<1>6. CASE HandlerStarted(t)
  <2>1. TypeOK'
    BY <1>6, NetworkAssumption DEF HandlerStarted, Return, Goto, Ad!Started, Ad!StartFails,
       TypeOK, InCall, NetworkAssumption
  <2>2. WatchFollows' /\ StartHasLooked' /\ DeferredIsMarked'
    BY <1>6 DEF HandlerStarted, Return, Goto, Ad!Started, Ad!StartFails, TypeOK, WatchFollows,
       StartHasLooked, DeferredIsMarked
  <2>3. OwedIsTaken'
    BY <1>6 DEF HandlerStarted, Return, Goto, Ad!Started, Ad!StartFails, TypeOK, OwedIsTaken,
       StartHasLooked, DeferredIsMarked
  <2> QED
    BY <2>1, <2>2, <2>3
<1> QED
  BY <1>1, <1>2, <1>3, <1>4, <1>5, <1>6 DEF Handler

(* A call of Start keeps it. *)
LEMMA StartKeeps ==
  ASSUME Inv,
         StartLooks \/ StartAnnounces \/ StartAnnounced \/ StartRuns \/ StartWatches
  PROVE  Inv'
<1> USE ThreadsAreApart DEF Inv, world, watch, server, ads, notes, spent
<1>1. CASE StartLooks
  <2>1. TypeOK'
    BY <1>1, NetworkAssumption DEF StartLooks, Looks, TypeOK, InCall, NetworkAssumption
  <2>2. WatchFollows' /\ StartHasLooked' /\ DeferredIsMarked'
    BY <1>1 DEF StartLooks, Looks, TypeOK, WatchFollows, StartHasLooked, DeferredIsMarked
  <2>3. OwedIsTaken'
    BY <1>1 DEF StartLooks, Looks, TypeOK, OwedIsTaken, StartHasLooked, DeferredIsMarked
  <2> QED
    BY <2>1, <2>2, <2>3
<1>2. CASE StartAnnounces
  <2>1. TypeOK'
    BY <1>2, NetworkAssumption DEF StartAnnounces, Ad!BeginStart, TypeOK, InCall,
       NetworkAssumption
  <2>2. WatchFollows' /\ StartHasLooked' /\ DeferredIsMarked'
    BY <1>2 DEF StartAnnounces, Ad!BeginStart, TypeOK, WatchFollows, StartHasLooked,
       DeferredIsMarked
  <2>3. OwedIsTaken'
    BY <1>2 DEF StartAnnounces, Ad!BeginStart, TypeOK, OwedIsTaken, StartHasLooked,
       DeferredIsMarked
  <2> QED
    BY <2>1, <2>2, <2>3
<1>3. CASE StartAnnounced
  <2>1. TypeOK'
    BY <1>3, NetworkAssumption DEF StartAnnounced, Ad!Started, Ad!StartFails, TypeOK, InCall,
       NetworkAssumption
  <2>2. WatchFollows' /\ StartHasLooked' /\ DeferredIsMarked'
    BY <1>3 DEF StartAnnounced, Ad!Started, Ad!StartFails, TypeOK, WatchFollows,
       StartHasLooked, DeferredIsMarked
  <2>3. OwedIsTaken'
    BY <1>3 DEF StartAnnounced, Ad!Started, Ad!StartFails, TypeOK, OwedIsTaken, StartHasLooked,
       DeferredIsMarked
  <2> QED
    BY <2>1, <2>2, <2>3
<1>4. CASE StartRuns
  <2>1. TypeOK'
    BY <1>4, NetworkAssumption DEF StartRuns, TypeOK, InCall, NetworkAssumption
  <2>2. WatchFollows' /\ StartHasLooked' /\ DeferredIsMarked'
    BY <1>4 DEF StartRuns, TypeOK, WatchFollows, StartHasLooked, DeferredIsMarked
  <2>3. OwedIsTaken'
    BY <1>4 DEF StartRuns, TypeOK, OwedIsTaken, StartHasLooked, DeferredIsMarked
  <2> QED
    BY <2>1, <2>2, <2>3
<1>5. CASE StartWatches
  <2>1. TypeOK'
    BY <1>5, NetworkAssumption DEF StartWatches, TypeOK, InCall, NetworkAssumption
  <2>2. WatchFollows' /\ StartHasLooked' /\ DeferredIsMarked'
    BY <1>5 DEF StartWatches, TypeOK, WatchFollows, StartHasLooked, DeferredIsMarked
  <2>3. OwedIsTaken'
    BY <1>5 DEF StartWatches, TypeOK, OwedIsTaken, StartHasLooked, DeferredIsMarked
  <2> QED
    BY <2>1, <2>2, <2>3
<1> QED
  BY <1>1, <1>2, <1>3, <1>4, <1>5

(* A call of Stop keeps it. *)
LEMMA StopKeeps ==
  ASSUME Inv,
         Stop \/ StopUnwatches \/ StopJoins \/ StopSilences \/ StopSilenced \/ StopFinishes
  PROVE  Inv'
<1> USE ThreadsAreApart DEF Inv, world, watch, server, ads, notes, spent
<1>1. CASE Stop
  <2>1. TypeOK'
    BY <1>1, NetworkAssumption DEF Stop, TypeOK, InCall, NetworkAssumption
  <2>2. WatchFollows' /\ StartHasLooked' /\ DeferredIsMarked'
    BY <1>1 DEF Stop, TypeOK, WatchFollows, StartHasLooked, DeferredIsMarked
  <2>3. OwedIsTaken'
    BY <1>1 DEF Stop, TypeOK, OwedIsTaken, StartHasLooked, DeferredIsMarked
  <2> QED
    BY <2>1, <2>2, <2>3
<1>2. CASE StopUnwatches
  <2>1. TypeOK'
    BY <1>2, NetworkAssumption DEF StopUnwatches, TypeOK, InCall, NetworkAssumption
  <2>2. WatchFollows' /\ StartHasLooked' /\ DeferredIsMarked'
    BY <1>2 DEF StopUnwatches, TypeOK, WatchFollows, StartHasLooked, DeferredIsMarked
  <2>3. OwedIsTaken'
    BY <1>2 DEF StopUnwatches, TypeOK, OwedIsTaken, StartHasLooked, DeferredIsMarked
  <2> QED
    BY <2>1, <2>2, <2>3
<1>3. CASE StopJoins
  <2>1. TypeOK'
    BY <1>3, NetworkAssumption DEF StopJoins, Joined, TypeOK, InCall, NetworkAssumption
  <2>2. WatchFollows' /\ StartHasLooked' /\ DeferredIsMarked'
    BY <1>3 DEF StopJoins, Joined, TypeOK, WatchFollows, StartHasLooked, DeferredIsMarked
  <2>3. OwedIsTaken'
    BY <1>3 DEF StopJoins, Joined, TypeOK, OwedIsTaken, StartHasLooked, DeferredIsMarked
  <2> QED
    BY <2>1, <2>2, <2>3
<1>4. CASE StopSilences
  <2>1. TypeOK'
    BY <1>4, NetworkAssumption DEF StopSilences, Ad!BeginStop, TypeOK, InCall, NetworkAssumption
  <2>2. WatchFollows' /\ StartHasLooked' /\ DeferredIsMarked'
    BY <1>4 DEF StopSilences, Ad!BeginStop, TypeOK, WatchFollows, StartHasLooked,
       DeferredIsMarked
  <2>3. OwedIsTaken'
    BY <1>4 DEF StopSilences, Ad!BeginStop, TypeOK, OwedIsTaken, StartHasLooked,
       DeferredIsMarked
  <2> QED
    BY <2>1, <2>2, <2>3
<1>5. CASE StopSilenced
  <2>1. TypeOK'
    BY <1>5, NetworkAssumption DEF StopSilenced, Ad!Stopped, TypeOK, InCall, NetworkAssumption
  <2>2. WatchFollows' /\ StartHasLooked' /\ DeferredIsMarked'
    BY <1>5 DEF StopSilenced, Ad!Stopped, TypeOK, WatchFollows, StartHasLooked, DeferredIsMarked
  <2>3. OwedIsTaken'
    BY <1>5 DEF StopSilenced, Ad!Stopped, TypeOK, OwedIsTaken, StartHasLooked, DeferredIsMarked
  <2> QED
    BY <2>1, <2>2, <2>3
<1>6. CASE StopFinishes
  <2>1. TypeOK'
    BY <1>6, NetworkAssumption DEF StopFinishes, TypeOK, InCall, NetworkAssumption
  <2>2. WatchFollows' /\ StartHasLooked' /\ DeferredIsMarked'
    BY <1>6 DEF StopFinishes, TypeOK, WatchFollows, StartHasLooked, DeferredIsMarked
  <2>3. OwedIsTaken'
    BY <1>6 DEF StopFinishes, TypeOK, OwedIsTaken, StartHasLooked, DeferredIsMarked
  <2> QED
    BY <2>1, <2>2, <2>3
<1> QED
  BY <1>1, <1>2, <1>3, <1>4, <1>5, <1>6

(* Every step keeps the invariant. *)
LEMMA InvNext == Inv /\ [Next]_vars => Inv'
<1> SUFFICES ASSUME Inv, [Next]_vars PROVE Inv'
  OBVIOUS
<1>1. CASE UNCHANGED vars
  BY <1>1 DEF vars, world, watch, server, ads, notes, spent, Inv, TypeOK, WatchFollows,
              StartHasLooked, DeferredIsMarked, OwedIsTaken
<1>2. CASE Watch
  BY <1>2, SourceKeeps, DeferredKeeps DEF Watch
<1>3. CASE \E t \in Thread : Handler(t)
  BY <1>3, HandlerKeeps
<1>4. CASE StartLooks \/ Stop \/ Call
  BY <1>4, StartKeeps, StopKeeps DEF Call
<1>5. CASE NetChanges \/ Tick \/ Resume \/ ConsumeNetworkRestored
  BY <1>5, WorldKeeps
<1> QED
  BY <1>1, <1>2, <1>3, <1>4, <1>5 DEF Next

(* The invariant holds in every state. *)
THEOREM InvHolds == Spec => []Inv
BY InvInit, InvNext, PTL DEF Spec

(* A change that was read while the server runs is pending, or a thread is *)
(* on its way to look at the network: for any number of sources and        *)
(* changes, however they overlap with the deferred thread's end.           *)
THEOREM NoChangeIsForgotten == Spec => []OwedIsPending
<1>1. Inv => OwedIsPending
  BY DEF Inv, OwedIsTaken, OwedIsPending
<1> QED
  BY <1>1, InvHolds, PTL

-----------------------------------------------------------------------------
(* From here on: what is announced.  NoneIn says that no thread is at      *)
(* restarting SSDP, which the mutex lets one thread do at a time.          *)
NoneIn == \A t \in Thread : pc[t] \notin InCall
OneIn  == \A t, u \in Thread : pc[t] \in InCall /\ pc[u] \in InCall => t = u

(* The threads Stop joins are gone until a start has begun to watch. *)
Down == main \in {"silence", "silencing", "finish", "announce", "announcing", "run", "watch"}
        \/ (main = "idle" /\ ~running)
JoinedWhenDown == Down => \A t \in Sources \cup {"deferred"} : pc[t] = "idle"

(* A resume that was restarting SSDP when Stop came by is a stray one. *)
ResumeIsOut == ~strayed /\ ~running => pc["resume"] \notin InCall

(* Only these places of a call go with a server that runs, or does not. *)
RunningFollows ==
  /\ main \in {"announce", "announcing", "run", "unwatch", "join", "silence", "silencing", "finish"}
       => ~running
  /\ main = "watch" => running

(* What the thread that restarts SSDP knows of it. *)
Knows(t) ==
  /\ pc[t] \in {"losing", "stopping"} => phase = "stopping"
  /\ pc[t] \in {"lose", "stop"} => phase \in {"on", "off"}
  /\ pc[t] = "start" => phase = "off"
  /\ pc[t] = "starting" => phase = "starting" /\ advertised = look[t]
  /\ pc[t] \in {"lose", "losing"} => mode = "localhost"
  /\ pc[t] \in {"stop", "stopping", "start", "starting"} => mode = "normal" /\ endpoints = look[t]

(* What holds of a server that runs, or whose Stop has not come to SSDP,   *)
(* while nobody restarts it.                                               *)
Settled ==
  /\ phase \in {"on", "off"}
  /\ mode = "normal" => advertised = endpoints \/ skipped
  /\ mode = "localhost" => phase = "off"

(* Without a stray resume SSDP is where the calls of Start and Stop and    *)
(* the threads' restarts have left it.                                     *)
SsdpFollows ==
  ~strayed =>
    /\ main \in {"announce", "finish"} \/ (main = "idle" /\ ~running) => phase = "off" /\ NoneIn
    /\ main = "announce" => mode = "normal"
    /\ main = "announcing" =>
         phase = "starting" /\ NoneIn /\ advertised = endpoints /\ mode = "normal"
    /\ main = "run" => NoneIn /\ Settled
    /\ main = "silence" => NoneIn /\ phase \in {"on", "off"}
    /\ main = "silencing" => NoneIn /\ phase = "stopping"
    /\ main \in {"watch", "unwatch", "join"} \/ (main = "idle" /\ running) =>
         /\ NoneIn => Settled
         /\ \A t \in Thread : Knows(t)

(* In localhost mode the user was told what the last look saw. *)
UserIsTold == mode = "localhost" => (announced <=> endpoints # {})

AnnounceInv ==
  OneIn /\ JoinedWhenDown /\ ResumeIsOut /\ RunningFollows /\ SsdpFollows /\ UserIsTold

(* It holds before the first start. *)
LEMMA AnnounceInit == Init => AnnounceInv
BY ThreadsAreApart DEF Init, AnnounceInv, OneIn, JoinedWhenDown, ResumeIsOut, RunningFollows,
   SsdpFollows, UserIsTold, NoneIn, InCall, Ad!Init, Thread

(* The world, the user, the sources and the deferred thread keep it. *)
LEMMA WorldAnnounces ==
  ASSUME Inv, AnnounceInv,
         NetChanges \/ Tick \/ Resume \/ ConsumeNetworkRestored \/ Watch
  PROVE  AnnounceInv'
<1> USE ThreadsAreApart DEF Inv, AnnounceInv, TypeOK, WatchFollows, DeferredIsMarked,
        world, watch, server, ads, notes, spent
<1>1. CASE NetChanges \/ Tick \/ ConsumeNetworkRestored
  <2>1. OneIn' /\ JoinedWhenDown' /\ ResumeIsOut' /\ RunningFollows' /\ UserIsTold'
    BY <1>1 DEF NetChanges, Tick, ConsumeNetworkRestored, OneIn, JoinedWhenDown, ResumeIsOut,
       RunningFollows, UserIsTold, InCall, Down, Thread
  <2>2. SsdpFollows'
    BY <1>1 DEF NetChanges, Tick, ConsumeNetworkRestored, OneIn, JoinedWhenDown, ResumeIsOut,
       RunningFollows, SsdpFollows, UserIsTold, NoneIn, Settled, Knows, InCall, Down, Thread
  <2> QED
    BY <2>1, <2>2
<1>2. CASE Resume
  <2>1. OneIn' /\ JoinedWhenDown' /\ ResumeIsOut' /\ RunningFollows' /\ UserIsTold'
    BY <1>2 DEF Resume, Goto, OneIn, JoinedWhenDown, ResumeIsOut, RunningFollows, UserIsTold,
       InCall, Down, Thread
  <2>2. SsdpFollows'
    BY <1>2 DEF Resume, Goto, OneIn, JoinedWhenDown, ResumeIsOut, RunningFollows, SsdpFollows,
       UserIsTold, NoneIn, Settled, Knows, InCall, Down, Thread
  <2> QED
    BY <2>1, <2>2
<1>3. CASE \E s \in Sources : SourceHears(s)
  <2>1. OneIn' /\ JoinedWhenDown' /\ ResumeIsOut' /\ RunningFollows' /\ UserIsTold'
    BY <1>3 DEF SourceHears, Goto, OneIn, JoinedWhenDown, ResumeIsOut, RunningFollows,
       UserIsTold, InCall, Down, Thread
  <2>2. SsdpFollows'
    BY <1>3 DEF SourceHears, Goto, OneIn, JoinedWhenDown, ResumeIsOut, RunningFollows,
       SsdpFollows, UserIsTold, NoneIn, Settled, Knows, InCall, Down, Thread
  <2> QED
    BY <2>1, <2>2
<1>4. CASE \E s \in Sources : SourceSchedules(s)
  <2>1. OneIn' /\ JoinedWhenDown' /\ ResumeIsOut' /\ RunningFollows' /\ UserIsTold'
    BY <1>4 DEF SourceSchedules, Goto, OneIn, JoinedWhenDown, ResumeIsOut, RunningFollows,
       UserIsTold, InCall, Down, Thread
  <2>2. SsdpFollows'
    BY <1>4 DEF SourceSchedules, Goto, OneIn, JoinedWhenDown, ResumeIsOut, RunningFollows,
       SsdpFollows, UserIsTold, NoneIn, Settled, Knows, InCall, Down, Thread
  <2> QED
    BY <2>1, <2>2
<1>5. CASE DeferredWakes
  <2>1. OneIn' /\ JoinedWhenDown' /\ ResumeIsOut' /\ RunningFollows' /\ UserIsTold'
    BY <1>5 DEF DeferredWakes, Goto, OneIn, JoinedWhenDown, ResumeIsOut, RunningFollows,
       UserIsTold, InCall, Down, Thread
  <2>2. SsdpFollows'
    BY <1>5 DEF DeferredWakes, Goto, OneIn, JoinedWhenDown, ResumeIsOut, RunningFollows,
       SsdpFollows, UserIsTold, NoneIn, Settled, Knows, InCall, Down, Thread
  <2> QED
    BY <2>1, <2>2
<1>6. CASE DeferredEnds
  <2>1. OneIn' /\ JoinedWhenDown' /\ ResumeIsOut' /\ RunningFollows' /\ UserIsTold'
    BY <1>6 DEF DeferredEnds, Goto, OneIn, JoinedWhenDown, ResumeIsOut, RunningFollows,
       UserIsTold, InCall, Down, Thread
  <2>2. SsdpFollows'
    BY <1>6 DEF DeferredEnds, Goto, OneIn, JoinedWhenDown, ResumeIsOut, RunningFollows,
       SsdpFollows, UserIsTold, NoneIn, Settled, Knows, InCall, Down, Thread
  <2> QED
    BY <2>1, <2>2
<1> QED
  BY <1>1, <1>2, <1>3, <1>4, <1>5, <1>6 DEF Watch

(* The decision what to do keeps it. *)
LEMMA HandlerAnnounces ==
  ASSUME Inv, AnnounceInv, NEW t \in Thread,
         Handler(t)
  PROVE  AnnounceInv'
<1> USE ThreadsAreApart DEF Inv, AnnounceInv, TypeOK, WatchFollows, DeferredIsMarked,
        world, watch, server, ads, notes, spent
<1>1. CASE FireOfStopped(t)
  <2>1. OneIn' /\ JoinedWhenDown' /\ ResumeIsOut' /\ RunningFollows' /\ UserIsTold'
    BY <1>1 DEF FireOfStopped, Return, Goto, OneIn, JoinedWhenDown, ResumeIsOut,
       RunningFollows, UserIsTold, InCall, Down, Thread
  <2>2. SsdpFollows'
    BY <1>1 DEF FireOfStopped, Return, Goto, OneIn, JoinedWhenDown, ResumeIsOut,
       RunningFollows, SsdpFollows, UserIsTold, NoneIn, Settled, Knows, InCall, Down, Thread
  <2> QED
    BY <2>1, <2>2
<1>2. CASE Fire(t)
  <2>1. PICK E \in Looks : /\ endpoints' = E /\ look' = [look EXCEPT ![t] = E]
                           /\ Lose(t, E) \/ InLocalhost(t, E) \/ InNormal(t, E)
    BY <1>2 DEF Fire
  <2>2. /\ NoneIn /\ running /\ pc[t] = "fire"
        /\ UNCHANGED <<main, running, strayed, phase, advertised>>
    BY <1>2 DEF Fire, Locked, NoneIn
  <2>3. main \in {"idle", "watch"}
    BY <2>2 DEF RunningFollows
  <2>4. /\ pc' = [pc EXCEPT ![t] = pc'[t]]
        /\ \/ pc'[t] = (IF t = "deferred" THEN "ending" ELSE "idle")
           \/ pc'[t] = "lose" /\ Lose(t, E)
           \/ pc'[t] = "stop" /\ InNormal(t, E)
    BY <2>1 DEF Lose, InLocalhost, InNormal, Return, Goto
  <2>5. \A u \in Thread : u # t => pc'[u] = pc[u] /\ pc'[u] \notin InCall
    BY <2>2, <2>4 DEF NoneIn
  <2>6. OneIn' /\ RunningFollows' /\ ResumeIsOut'
    BY <2>2, <2>3, <2>5 DEF OneIn, RunningFollows, ResumeIsOut
  <2>7. JoinedWhenDown'
    BY <2>2, <2>3, <2>5 DEF JoinedWhenDown, Down
  <2>8. UserIsTold'
    BY <2>1 DEF UserIsTold, Lose, InLocalhost, InNormal
  <2>9. ~strayed => Settled
    BY <2>2, <2>3 DEF SsdpFollows
  <2>10. ~strayed => /\ NoneIn' => Settled'
                     /\ \A u \in Thread : Knows(u)'
    <3>1. \A u \in Thread : u # t => Knows(u)'
      BY <2>5 DEF Knows, InCall
    <3>2. CASE Lose(t, E)
      BY <2>1, <2>2, <2>4, <2>9, <3>1, <3>2 DEF Lose, Goto, Settled, Knows, NoneIn, InCall
    <3>3. CASE InLocalhost(t, E)
      BY <2>1, <2>2, <2>4, <2>9, <3>1, <3>3 DEF InLocalhost, Return, Goto, Settled, Knows, InCall
    <3>4. CASE InNormal(t, E)
      BY <2>1, <2>2, <2>4, <2>9, <3>1, <3>4, ZenonT(60)
         DEF InNormal, Unchanged, Return, Goto, Settled, Knows, NoneIn, InCall
    <3> QED
      BY <2>1, <3>2, <3>3, <3>4
  <2>11. SsdpFollows'
    BY <2>2, <2>3, <2>10 DEF SsdpFollows
  <2> QED
    BY <2>6, <2>7, <2>8, <2>11
<1>3. CASE HandlerStops(t)
  <2>1. OneIn' /\ JoinedWhenDown' /\ ResumeIsOut' /\ RunningFollows' /\ UserIsTold'
    BY <1>3 DEF HandlerStops, Return, Goto, Ad!BeginStop, OneIn, JoinedWhenDown, ResumeIsOut,
       RunningFollows, UserIsTold, InCall, Down, Thread
  <2>2. SsdpFollows'
    BY <1>3 DEF HandlerStops, Return, Goto, Ad!BeginStop, OneIn, JoinedWhenDown, ResumeIsOut,
       RunningFollows, SsdpFollows, UserIsTold, NoneIn, Settled, Knows, InCall, Down, Thread
  <2> QED
    BY <2>1, <2>2
<1>4. CASE HandlerStopped(t)
  <2>1. OneIn' /\ JoinedWhenDown' /\ ResumeIsOut' /\ RunningFollows' /\ UserIsTold'
    BY <1>4 DEF HandlerStopped, Return, Goto, Ad!Stopped, OneIn, JoinedWhenDown, ResumeIsOut,
       RunningFollows, UserIsTold, InCall, Down, Thread
  <2>2. SsdpFollows'
    BY <1>4 DEF HandlerStopped, Return, Goto, Ad!Stopped, OneIn, JoinedWhenDown, ResumeIsOut,
       RunningFollows, SsdpFollows, UserIsTold, NoneIn, Settled, Knows, InCall, Down, Thread
  <2> QED
    BY <2>1, <2>2
<1>5. CASE HandlerStarts(t)
  <2>1. OneIn' /\ JoinedWhenDown' /\ ResumeIsOut' /\ RunningFollows' /\ UserIsTold'
    BY <1>5 DEF HandlerStarts, Return, Goto, Ad!BeginStart, OneIn, JoinedWhenDown, ResumeIsOut,
       RunningFollows, UserIsTold, InCall, Down, Thread
  <2>2. SsdpFollows'
    BY <1>5 DEF HandlerStarts, Return, Goto, Ad!BeginStart, OneIn, JoinedWhenDown, ResumeIsOut,
       RunningFollows, SsdpFollows, UserIsTold, NoneIn, Settled, Knows, InCall, Down, Thread
  <2> QED
    BY <2>1, <2>2
<1>6. CASE HandlerStarted(t)
  <2>1. OneIn' /\ JoinedWhenDown' /\ ResumeIsOut' /\ RunningFollows' /\ UserIsTold'
    BY <1>6 DEF HandlerStarted, Return, Goto, Ad!Started, Ad!StartFails, OneIn, JoinedWhenDown,
       ResumeIsOut, RunningFollows, UserIsTold, InCall, Down, Thread
  <2>2. SsdpFollows'
    BY <1>6 DEF HandlerStarted, Return, Goto, Ad!Started, Ad!StartFails, OneIn, JoinedWhenDown,
       ResumeIsOut, RunningFollows, SsdpFollows, UserIsTold, NoneIn, Settled, Knows, InCall,
       Down, Thread
  <2> QED
    BY <2>1, <2>2
<1> QED
  BY <1>1, <1>2, <1>3, <1>4, <1>5, <1>6 DEF Handler

(* A call of Start keeps it. *)
LEMMA StartAnnounceKeeps ==
  ASSUME Inv, AnnounceInv,
         StartLooks \/ StartAnnounces \/ StartAnnounced \/ StartRuns \/ StartWatches
  PROVE  AnnounceInv'
<1> USE ThreadsAreApart DEF Inv, AnnounceInv, TypeOK, WatchFollows, DeferredIsMarked,
        world, watch, server, ads, notes, spent
<1>1. CASE StartLooks
  <2>1. OneIn' /\ JoinedWhenDown' /\ ResumeIsOut' /\ RunningFollows' /\ UserIsTold'
    BY <1>1 DEF StartLooks, Looks, OneIn, JoinedWhenDown, ResumeIsOut, RunningFollows,
       UserIsTold, InCall, Down, Thread
  <2>2. SsdpFollows'
    BY <1>1 DEF StartLooks, Looks, OneIn, JoinedWhenDown, ResumeIsOut, RunningFollows,
       SsdpFollows, UserIsTold, NoneIn, Settled, Knows, InCall, Down, Thread
  <2> QED
    BY <2>1, <2>2
<1>2. CASE StartAnnounces
  <2>1. OneIn' /\ JoinedWhenDown' /\ ResumeIsOut' /\ RunningFollows' /\ UserIsTold'
    BY <1>2 DEF StartAnnounces, Ad!BeginStart, OneIn, JoinedWhenDown, ResumeIsOut,
       RunningFollows, UserIsTold, InCall, Down, Thread
  <2>2. SsdpFollows'
    BY <1>2 DEF StartAnnounces, Ad!BeginStart, OneIn, JoinedWhenDown, ResumeIsOut,
       RunningFollows, SsdpFollows, UserIsTold, NoneIn, Settled, Knows, InCall, Down, Thread
  <2> QED
    BY <2>1, <2>2
<1>3. CASE StartAnnounced
  <2>1. OneIn' /\ JoinedWhenDown' /\ ResumeIsOut' /\ RunningFollows' /\ UserIsTold'
    BY <1>3 DEF StartAnnounced, Ad!Started, Ad!StartFails, OneIn, JoinedWhenDown, ResumeIsOut,
       RunningFollows, UserIsTold, InCall, Down, Thread
  <2>2. SsdpFollows'
    BY <1>3 DEF StartAnnounced, Ad!Started, Ad!StartFails, OneIn, JoinedWhenDown, ResumeIsOut,
       RunningFollows, SsdpFollows, UserIsTold, NoneIn, Settled, Knows, InCall, Down, Thread
  <2> QED
    BY <2>1, <2>2
<1>4. CASE StartRuns
  <2>1. OneIn' /\ JoinedWhenDown' /\ ResumeIsOut' /\ RunningFollows' /\ UserIsTold'
    BY <1>4 DEF StartRuns, OneIn, JoinedWhenDown, ResumeIsOut, RunningFollows, UserIsTold,
       InCall, Down, Thread
  <2>2. SsdpFollows'
    BY <1>4 DEF StartRuns, OneIn, JoinedWhenDown, ResumeIsOut, RunningFollows, SsdpFollows,
       UserIsTold, NoneIn, Settled, Knows, InCall, Down, Thread
  <2> QED
    BY <2>1, <2>2
<1>5. CASE StartWatches
  <2>1. OneIn' /\ JoinedWhenDown' /\ ResumeIsOut' /\ RunningFollows' /\ UserIsTold'
    BY <1>5 DEF StartWatches, OneIn, JoinedWhenDown, ResumeIsOut, RunningFollows, UserIsTold,
       InCall, Down, Thread
  <2>2. SsdpFollows'
    BY <1>5 DEF StartWatches, OneIn, JoinedWhenDown, ResumeIsOut, RunningFollows, SsdpFollows,
       UserIsTold, NoneIn, Settled, Knows, InCall, Down, Thread
  <2> QED
    BY <2>1, <2>2
<1> QED
  BY <1>1, <1>2, <1>3, <1>4, <1>5

(* A call of Stop keeps it. *)
LEMMA StopAnnounceKeeps ==
  ASSUME Inv, AnnounceInv,
         Stop \/ StopUnwatches \/ StopJoins \/ StopSilences \/ StopSilenced \/ StopFinishes
  PROVE  AnnounceInv'
<1> USE ThreadsAreApart DEF Inv, AnnounceInv, TypeOK, WatchFollows, DeferredIsMarked,
        world, watch, server, ads, notes, spent
<1>1. CASE Stop
  <2>1. OneIn' /\ JoinedWhenDown' /\ ResumeIsOut' /\ RunningFollows' /\ UserIsTold'
    BY <1>1 DEF Stop, OneIn, JoinedWhenDown, ResumeIsOut, RunningFollows, UserIsTold, InCall,
       Down, Thread
  <2>2. SsdpFollows'
    BY <1>1 DEF Stop, OneIn, JoinedWhenDown, ResumeIsOut, RunningFollows, SsdpFollows,
       UserIsTold, NoneIn, Settled, Knows, InCall, Down, Thread
  <2> QED
    BY <2>1, <2>2
<1>2. CASE StopUnwatches
  <2>1. OneIn' /\ JoinedWhenDown' /\ ResumeIsOut' /\ RunningFollows' /\ UserIsTold'
    BY <1>2 DEF StopUnwatches, OneIn, JoinedWhenDown, ResumeIsOut, RunningFollows, UserIsTold,
       InCall, Down, Thread
  <2>2. SsdpFollows'
    BY <1>2 DEF StopUnwatches, OneIn, JoinedWhenDown, ResumeIsOut, RunningFollows, SsdpFollows,
       UserIsTold, NoneIn, Settled, Knows, InCall, Down, Thread
  <2> QED
    BY <2>1, <2>2
<1>3. CASE StopJoins
  <2>1. OneIn' /\ JoinedWhenDown' /\ ResumeIsOut' /\ RunningFollows' /\ UserIsTold'
    BY <1>3 DEF StopJoins, Joined, OneIn, JoinedWhenDown, ResumeIsOut, RunningFollows,
       UserIsTold, InCall, Down, Thread
  <2>2. SsdpFollows'
    BY <1>3 DEF StopJoins, Joined, OneIn, JoinedWhenDown, ResumeIsOut, RunningFollows,
       SsdpFollows, UserIsTold, NoneIn, Settled, Knows, InCall, Down, Thread
  <2> QED
    BY <2>1, <2>2
<1>4. CASE StopSilences
  <2>1. OneIn' /\ JoinedWhenDown' /\ ResumeIsOut' /\ RunningFollows' /\ UserIsTold'
    BY <1>4 DEF StopSilences, Ad!BeginStop, OneIn, JoinedWhenDown, ResumeIsOut, RunningFollows,
       UserIsTold, InCall, Down, Thread
  <2>2. SsdpFollows'
    BY <1>4 DEF StopSilences, Ad!BeginStop, OneIn, JoinedWhenDown, ResumeIsOut, RunningFollows,
       SsdpFollows, UserIsTold, NoneIn, Settled, Knows, InCall, Down, Thread
  <2> QED
    BY <2>1, <2>2
<1>5. CASE StopSilenced
  <2>1. OneIn' /\ JoinedWhenDown' /\ ResumeIsOut' /\ RunningFollows' /\ UserIsTold'
    BY <1>5 DEF StopSilenced, Ad!Stopped, OneIn, JoinedWhenDown, ResumeIsOut, RunningFollows,
       UserIsTold, InCall, Down, Thread
  <2>2. SsdpFollows'
    BY <1>5 DEF StopSilenced, Ad!Stopped, OneIn, JoinedWhenDown, ResumeIsOut, RunningFollows,
       SsdpFollows, UserIsTold, NoneIn, Settled, Knows, InCall, Down, Thread
  <2> QED
    BY <2>1, <2>2
<1>6. CASE StopFinishes
  <2>1. OneIn' /\ JoinedWhenDown' /\ ResumeIsOut' /\ RunningFollows' /\ UserIsTold'
    BY <1>6 DEF StopFinishes, OneIn, JoinedWhenDown, ResumeIsOut, RunningFollows, UserIsTold,
       InCall, Down, Thread
  <2>2. SsdpFollows'
    BY <1>6 DEF StopFinishes, OneIn, JoinedWhenDown, ResumeIsOut, RunningFollows, SsdpFollows,
       UserIsTold, NoneIn, Settled, Knows, InCall, Down, Thread
  <2> QED
    BY <2>1, <2>2
<1> QED
  BY <1>1, <1>2, <1>3, <1>4, <1>5, <1>6

(* Every step keeps it. *)
LEMMA AnnounceNext == Inv /\ AnnounceInv /\ [Next]_vars => AnnounceInv'
<1> SUFFICES ASSUME Inv, AnnounceInv, [Next]_vars PROVE AnnounceInv'
  OBVIOUS
<1>1. CASE UNCHANGED vars
  BY <1>1 DEF vars, world, watch, server, ads, notes, spent, AnnounceInv, OneIn,
     JoinedWhenDown, ResumeIsOut, RunningFollows, SsdpFollows, UserIsTold, NoneIn, Settled,
     Knows, InCall, Down
<1>2. CASE NetChanges \/ Tick \/ Resume \/ ConsumeNetworkRestored \/ Watch
  BY <1>2, WorldAnnounces
<1>3. CASE \E t \in Thread : Handler(t)
  BY <1>3, HandlerAnnounces
<1>4. CASE StartLooks \/ Stop \/ Call
  BY <1>4, StartAnnounceKeeps, StopAnnounceKeeps DEF Call
<1> QED
  BY <1>1, <1>2, <1>3, <1>4 DEF Next

(* It holds in every state. *)
THEOREM AnnounceInvHolds == Spec => []AnnounceInv
BY AnnounceInit, AnnounceNext, InvHolds, PTL DEF Spec

(* What is announced follows from the network, the mode and the calls,     *)
(* however losses, restarts, failures and resumes interleave; that the     *)
(* endpoints taken from a network are those a control point reaches is a   *)
(* statement about constants, which TLC evaluates.                         *)
THEOREM AnnouncedFollows == Spec => [](EndpointsReach => AnnouncedAsSeen)
<1>1. Inv /\ AnnounceInv => StoppedIsSilent /\ LocalhostIsSilent /\ LookIsAnnounced
  BY ThreadsAreApart DEF Inv, TypeOK, AnnounceInv, SsdpFollows, UserIsTold, NoneIn, Settled,
     InCall,
     Quiet, StoppedIsSilent, LocalhostIsSilent, LookIsAnnounced
<1>2. Inv /\ AnnounceInv => (EndpointsReach => AnnouncedAsSeen)
  BY <1>1 DEF Inv, AnnouncedAsSeen
<1> QED
  BY <1>2, InvHolds, AnnounceInvHolds, PTL

=============================================================================
