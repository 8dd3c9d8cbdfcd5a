------------------------------ MODULE Http_proof ------------------------------
(***************************************************************************)
(* What is proved of the HTTP server.  HttpServer, for any number of       *)
(* callers, connections and threads: the limits of the pools, that a       *)
(* stopped server has no thread and no client, and that the health poll    *)
(* sees a loop that died.  HttpReply, for every size of file, every page   *)
(* size, every length of a send and any number of requests: the part cut   *)
(* out of an item is the part asked for, pages lead on to the last result, *)
(* and a connection that is kept has been sent what its headers announced. *)
(***************************************************************************)
EXTENDS HttpServer, HttpReply, FiniteSetTheorems, SequenceTheorems, TLAPS

-----------------------------------------------------------------------------
(* HttpServer *)
(* One call is under way at a time: where it is. *)
OneCall ==
  /\ \A k \in Caller : step[k] # "idle" => busy
  /\ \A j, k \in Caller : step[j] # "idle" /\ step[k] # "idle" => j = k
Phase ==
  IF \E k \in Caller : step[k] # "idle"
  THEN step[CHOOSE k \in Caller : step[k] # "idle"] ELSE "idle"

Steps    == {"idle", "start", "spawn4", "spawn6", "seed", "stop", "wake", "join", "pool"}
Spawning == {"spawn4", "spawn6", "seed"}
Leaving  == {"wake", "join", "pool"}
LoopsOver == \A f \in Family : Ended(f)

(* m_running tells the phase of the call. *)
PhasesFit ==
  /\ Phase \in Spawning => Posix /\ running
  /\ Phase \in Leaving => ~running
  /\ Phase = "pool" => LoopsOver /\ sockets = {}

(* A build has its own loops; those of POSIX have their sockets. *)
LoopsFit ==
  /\ Posix => \A f \in Family :
       /\ loop[f] \in {"none", "gone", "poll", "submit"}
       /\ ~Ended(f) => f \in sockets
  /\ Windows => loop[6] = "none" /\ loop[4] \notin {"poll", "submit"}
  /\ Phase = "spawn4" => LoopsOver
  /\ Phase = "spawn6" => Ended(6)
  /\ \A f \in Family : IF loop[f] = "submit" THEN hand[f] \in Client ELSE hand[f] = NoClient

(* A server that neither runs nor stops has nothing left. *)
NothingLeft ==
  ~running /\ Phase \notin Leaving =>
    /\ LoopsOver /\ queue = <<>> /\ serving = {} /\ telling = 0
    /\ Posix => sockets = {}

(* The loops that were counted, and those of them that have ended. *)
Counted(f) == IF f \in sockets THEN 1 ELSE 0
Dead(f)    == IF f \in sockets /\ Ended(f) THEN 1 ELSE 0

(* How far the counts have come while Start spawns, and what they say      *)
(* afterwards: an end that Start did not overwrite is counted.             *)
CountsFit ==
  /\ Windows => expected \in 0..1 /\ alive \in 0..1
  /\ Phase = "spawn4" => expected = 0 /\ alive = 0
  /\ Phase = "spawn6" => /\ expected = Counted(4) /\ alive = 0 - Dead(4)
                         /\ ~early => Dead(4) = 0
  /\ Phase = "seed" => /\ expected = Counted(4) + Counted(6)
                       /\ alive = 0 - Dead(4) - Dead(6)
                       /\ ~early => Dead(4) + Dead(6) = 0
  /\ Posix /\ Phase \notin Spawning =>
       /\ alive >= 0
       /\ sockets # {} => /\ expected = Counted(4) + Counted(6)
                          /\ alive >= expected - Dead(4) - Dead(6)
                          /\ ~early => alive = expected - Dead(4) - Dead(6)

Accepted == {c \in Client : conn[c] = "accepted"}
Closed   == {c \in Client : conn[c] = "closed"}

(* The accepted clients of Windows are the queued and the served ones, each *)
(* once, and the count of the active ones is theirs.                       *)
EachOnce ==
  /\ serving \subseteq Accepted
  /\ \A i \in DOMAIN queue : queue[i] \in Accepted \ serving
  /\ \A i, j \in DOMAIN queue : queue[i] = queue[j] => i = j
ClientsFit ==
  /\ Cardinality(serving) <= MaxClients
  /\ Posix => Len(queue) <= MaxClients /\ active = 0 /\ telling = 0
  /\ Windows =>
       /\ EachOnce
       /\ active = Len(queue) + Cardinality(serving) /\ active = Cardinality(Accepted)
       /\ active <= (IF loop[4] = "select" THEN MaxClients - 1 ELSE MaxClients + 1)
       /\ telling <= Cardinality(Closed)

Core == OneCall /\ PhasesFit /\ LoopsFit /\ NothingLeft /\ CountsFit
Inv  == TypeOK /\ Core /\ ClientsFit

-----------------------------------------------------------------------------
(* The phase is where the one call is, and moves with it. *)
LEMMA PhaseIs ==
  ASSUME OneCall, NEW k \in Caller, step[k] # "idle"
  PROVE  Phase = step[k]
<1> DEFINE c == CHOOSE j \in Caller : step[j] # "idle"
<1>1. c \in Caller /\ step[c] # "idle"
  OBVIOUS
<1>2. c = k
  BY <1>1 DEF OneCall
<1> QED
  BY <1>1, <1>2 DEF Phase

(* A step of the caller that holds the call moves the phase, and no other. *)
LEMMA PhaseMoves ==
  ASSUME Inv, NEW k \in Caller, step[k] # "idle" \/ ~busy, NEW s \in Steps, Goto(k, s),
         s = "idle" \/ busy'
  PROVE  OneCall' /\ Phase = step[k] /\ Phase' = s /\ step' \in [Caller -> Steps]
<1>1. step \in [Caller -> Steps] /\ OneCall
  BY DEF Inv, Core, TypeOK, Steps
<1>2. step' \in [Caller -> Steps] /\ step'[k] = s /\ \A j \in Caller \ {k} : step'[j] = step[j]
  BY <1>1 DEF Goto
<1>3. \A j \in Caller \ {k} : step[j] = "idle"
  BY <1>1 DEF OneCall
<1>4. OneCall'
  BY <1>2, <1>3 DEF OneCall
<1>5. Phase = step[k]
  <2>1. CASE step[k] # "idle"
    BY <1>1, <2>1, PhaseIs
  <2>2. CASE step[k] = "idle"
    BY <1>3, <2>2 DEF Phase
  <2> QED
    BY <2>1, <2>2
<1>6. Phase' = s
  <2>1. CASE s # "idle"
    <3> DEFINE c == CHOOSE j \in Caller : step'[j] # "idle"
    <3>1. c \in Caller /\ step'[c] # "idle"
      BY <1>2, <2>1
    <3>2. c = k
      BY <1>2, <1>3, <3>1
    <3> QED
      BY <1>2, <3>1, <3>2 DEF Phase
  <2>2. CASE s = "idle"
    BY <1>2, <1>3, <2>2 DEF Phase
  <2> QED
    BY <2>1, <2>2
<1> QED
  BY <1>2, <1>4, <1>5, <1>6

(* A step of another thread leaves the call where it is. *)
LEMMA PhaseStays ==
  ASSUME Inv, UNCHANGED <<step, busy>>
  PROVE  OneCall' /\ Phase' = Phase
BY DEF Inv, Core, OneCall, Phase

(* Sets of clients are finite. *)
LEMMA ClientsFinite ==
  ASSUME NEW S \in SUBSET Client
  PROVE  IsFiniteSet(S) /\ Cardinality(S) \in Nat /\ Cardinality(S) <= Cardinality(Client)
BY HttpAssumption, FS_Subset, FS_CardinalityType DEF HttpAssumption

(* The invariant holds before the first start. *)
LEMMA InvInit == Init => Inv
<1> SUFFICES ASSUME Init PROVE Inv
  OBVIOUS
<1> USE DEF Init
<1>1. Phase = "idle" /\ OneCall
  BY DEF Phase, OneCall
<1>2. Cardinality({}) = 0 /\ Cardinality(Client) \in Nat
  BY FS_EmptySet, ClientsFinite
<1>3. TypeOK
  <2>1. queue \in Seq(Client) /\ telling \in 0 .. Cardinality(Client) /\ active \in 0 .. Cardinality(Client)
    BY <1>2
  <2>2. expected \in 0 .. 2 /\ alive \in -2 .. 2 /\ calls \in 0 .. MaxCalls
    BY HttpAssumption DEF HttpAssumption
  <2> QED
    BY <2>1, <2>2 DEF TypeOK, Family
<1>4. PhasesFit /\ LoopsFit /\ NothingLeft /\ CountsFit
  BY <1>1 DEF PhasesFit, LoopsFit, NothingLeft, CountsFit, LoopsOver, Ended, Posix, Windows,
     Family, Spawning, Leaving
<1>5. ClientsFit
  <2>1. Accepted = {} /\ Closed = {}
    BY DEF Accepted, Closed
  <2>2. EachOnce
    BY <2>1 DEF EachOnce
  <2> QED
    BY <1>2, <2>1, <2>2, HttpAssumption DEF HttpAssumption, ClientsFit, Windows, Family
<1> QED
  BY <1>1, <1>3, <1>4, <1>5 DEF Inv, Core

-----------------------------------------------------------------------------
(* Steps that leave the server and its loops alone keep the core. *)
LEMMA CoreRests ==
  ASSUME Inv,
         UNCHANGED <<platform, busy, step, running, sockets, loop, hand, expected, alive, early>>,
         ~running /\ Phase \notin Leaving => queue' = <<>> /\ serving' = {} /\ telling' = 0
  PROVE  Core'
<1>1. OneCall' /\ Phase' = Phase
  BY PhaseStays
<1> QED
  BY <1>1 DEF Inv, Core, PhasesFit, LoopsFit, NothingLeft, CountsFit, LoopsOver, Ended,
     Counted, Dead, Spawning, Leaving, Posix, Windows

(* Steps that leave the clients where they are keep their counts. *)
LEMMA ClientsRest ==
  ASSUME Inv, UNCHANGED <<platform, queue, serving, active, telling>>,
         Accepted' = Accepted, Closed \subseteq Closed',
         Windows /\ loop'[4] = "select" => active <= MaxClients - 1
  PROVE  ClientsFit'
<1>1. Cardinality(Closed) <= Cardinality(Closed') /\ Cardinality(Closed) \in Nat
      /\ Cardinality(Closed') \in Nat
  <2>1. Closed' \in SUBSET Client
    BY DEF Closed
  <2> QED
    BY <2>1, ClientsFinite, FS_Subset
<1>2. telling \in Nat /\ active \in Nat /\ MaxClients \in Nat
  <2>1. Cardinality(Client) \in Nat
    BY ClientsFinite
  <2> QED
    BY <2>1, HttpAssumption DEF Inv, TypeOK, HttpAssumption
<1>3. Windows => EachOnce'
  BY DEF Inv, ClientsFit, EachOnce
<1>4. Windows => telling' <= Cardinality(Closed')
  BY <1>1, <1>2 DEF Inv, ClientsFit
<1>5. Windows => active' <= (IF loop'[4] = "select" THEN MaxClients - 1 ELSE MaxClients + 1)
  BY <1>2 DEF Inv, ClientsFit
<1> QED
  BY <1>3, <1>4, <1>5 DEF Inv, ClientsFit, Posix, Windows

(* Steps of a call that change nothing but where it is. *)
LEMMA CallOnly ==
  ASSUME Inv, OneCall', Phase \notin Spawning \cup Leaving, Phase' \notin Spawning \cup Leaving,
         step' \in [Caller -> Steps], busy' \in BOOLEAN, calls' \in 0 .. MaxCalls,
         result' \in [Caller -> {"none", "ok", "failed"}], woken' \in BOOLEAN,
         UNCHANGED <<platform, running, sockets, loop, hand, counts, conn, work>>
  PROVE  Inv'
<1> USE DEF Inv, counts, work
<1>1. TypeOK'
  BY DEF TypeOK, Steps
<1>2. Core'
  BY DEF Core, PhasesFit, LoopsFit, NothingLeft, CountsFit, LoopsOver, Ended, Counted, Dead,
     Spawning, Leaving, Posix, Windows
<1>3. ClientsFit'
  BY ClientsRest DEF Accepted, Closed, ClientsFit
<1> QED
  BY <1>1, <1>2, <1>3

(* A call begins, or comes to nothing. *)
LEMMA CallKeeps ==
  ASSUME Inv, NEW k \in Caller, Call(k) \/ StartRunning(k)
  PROVE  Inv'
<1> USE DEF counts, work
<1>0. /\ busy \in BOOLEAN /\ step \in [Caller -> Steps] /\ calls \in 0 .. MaxCalls /\ woken \in BOOLEAN
      /\ result \in [Caller -> {"none", "ok", "failed"}] /\ MaxCalls \in Nat
  BY HttpAssumption DEF Inv, TypeOK, Steps, HttpAssumption
<1>1. CASE StartRunning(k)
  <2>1. /\ Goto(k, "idle") /\ step[k] = "start" /\ busy' = FALSE
        /\ result' = [result EXCEPT ![k] = "ok"]
        /\ UNCHANGED <<platform, calls, running, sockets, woken, loop, hand, counts, conn, work>>
    BY <1>1 DEF StartRunning, Return
  <2>2. OneCall' /\ Phase = "start" /\ Phase' = "idle" /\ step' \in [Caller -> Steps]
    BY <2>1, PhaseMoves DEF Steps
  <2> QED
    BY <1>0, <2>1, <2>2, CallOnly DEF Spawning, Leaving
<1>2. CASE Call(k) /\ busy
  <2>1. /\ UNCHANGED <<platform, busy, step, result, running, sockets, woken, loop, hand, counts, conn, work>>
        /\ calls' \in 0 .. MaxCalls
    BY <1>0, <1>2 DEF Call, Enters
  <2>2. Core'
    BY <2>1, CoreRests DEF Inv, Core, NothingLeft
  <2>3. TypeOK'
    BY <2>1 DEF Inv, TypeOK
  <2>4. ClientsFit'
    BY <2>1, ClientsRest DEF Inv, Accepted, Closed, ClientsFit
  <2> QED
    BY <2>2, <2>3, <2>4 DEF Inv
<1>3. CASE Call(k) /\ ~busy
  <2>1. PICK first \in {"start", "stop"} : busy' = TRUE /\ Goto(k, first)
    BY <1>3 DEF Call, Enters
  <2>2. /\ step[k] = "idle" /\ calls' \in 0 .. MaxCalls
        /\ UNCHANGED <<platform, result, running, sockets, woken, loop, hand, counts, conn, work>>
    BY <1>0, <1>3 DEF Call
  <2>3. OneCall' /\ Phase = "idle" /\ Phase' = first /\ step' \in [Caller -> Steps]
    BY <1>3, <2>1, <2>2, PhaseMoves DEF Steps
  <2> QED
    BY <1>0, <2>1, <2>2, <2>3, CallOnly DEF Spawning, Leaving
<1> QED
  BY <1>0, <1>1, <1>2, <1>3

-----------------------------------------------------------------------------
(* Start on POSIX. *)
LEMMA StartPosixKeeps ==
  ASSUME Inv, NEW k \in Caller, StartPosix(k)
  PROVE  Inv'
<1> USE DEF Inv, counts, work
<1>0. PICK bound \in SUBSET Family :
        /\ sockets' = bound
        /\ IF bound # {}
           THEN /\ running' = TRUE /\ expected' = 0 /\ alive' = 0 /\ early' = FALSE
                /\ Goto(k, "spawn4") /\ UNCHANGED <<busy, result>>
           ELSE Return(k, "failed") /\ UNCHANGED <<running, counts>>
  BY DEF StartPosix
<1>1. /\ Posix /\ step[k] = "start" /\ ~running /\ woken' = FALSE
      /\ UNCHANGED <<platform, calls, loop, hand, conn, work>>
  BY DEF StartPosix
<1>2. busy = TRUE
  BY <1>1 DEF Core, OneCall, TypeOK
<1>3. result' \in [Caller -> {"none", "ok", "failed"}] /\ busy' \in BOOLEAN
  BY <1>0, <1>2 DEF TypeOK, Return
<1>4. PICK s \in {"spawn4", "idle"} :
        /\ Goto(k, s) /\ (s = "idle" \/ busy')
        /\ s = "spawn4" => running' = TRUE /\ expected' = 0 /\ alive' = 0 /\ early' = FALSE
        /\ s = "idle" => UNCHANGED <<running, counts>> /\ sockets' = {}
  <2>1. CASE bound = {}
    BY <1>0, <2>1 DEF Return
  <2>2. CASE bound # {}
    BY <1>0, <1>2, <2>2
  <2> QED
    BY <2>1, <2>2
<1>5. OneCall' /\ Phase = "start" /\ Phase' = s /\ step' \in [Caller -> Steps]
  BY <1>1, <1>2, <1>4, PhaseMoves DEF Steps
<1>6. TypeOK'
  <2>1. expected' \in 0 .. 2 /\ alive' \in -2 .. 2
    BY <1>4 DEF TypeOK
  <2>2. running' \in BOOLEAN /\ early' \in BOOLEAN /\ sockets' \subseteq Family
    BY <1>0, <1>4 DEF TypeOK
  <2> QED
    BY <1>1, <1>3, <1>5, <2>1, <2>2 DEF TypeOK, Steps
<1>7. LoopsOver /\ sockets = {} /\ queue = <<>> /\ serving = {} /\ telling = 0
  BY <1>1, <1>5 DEF Core, NothingLeft, Leaving
<1>8. Core'
  BY <1>1, <1>4, <1>5, <1>7 DEF Core, PhasesFit, LoopsFit, NothingLeft, CountsFit, LoopsOver,
     Ended, Counted, Dead, Spawning, Leaving, Posix, Windows, Family
<1>9. ClientsFit'
  BY <1>1, ClientsRest DEF Accepted, Closed, ClientsFit, Posix, Windows
<1> QED
  BY <1>6, <1>8, <1>9

(* A loop per family. *)
LEMMA SpawnKeeps ==
  ASSUME Inv, NEW k \in Caller, Spawn(k, 4, "spawn6") \/ Spawn(k, 6, "seed")
  PROVE  Inv'
<1> USE DEF Inv, counts, work
<1>0. PICK f \in Family, s \in {"spawn6", "seed"} :
        /\ Spawn(k, f, s) /\ step[k] = (IF f = 4 THEN "spawn4" ELSE "spawn6")
        /\ Goto(k, s) /\ f = (IF s = "spawn6" THEN 4 ELSE 6)
  BY DEF Spawn, Family
<1>1. /\ busy' = busy
      /\ UNCHANGED <<platform, result, calls, running, sockets, woken, hand, early, alive, conn, work>>
  BY <1>0 DEF Spawn
<1>2. OneCall' /\ Phase = step[k] /\ Phase' = s /\ step' \in [Caller -> Steps]
  <2>1. busy
    BY <1>0 DEF Core, OneCall
  <2> QED
    BY <1>0, <1>1, <2>1, PhaseMoves DEF Steps
<1>3. Posix /\ running
  BY <1>0, <1>2 DEF Core, PhasesFit, Spawning
<1>4. /\ f \in sockets => expected' = expected + 1 /\ loop' = [loop EXCEPT ![f] = "poll"]
      /\ f \notin sockets => expected' = expected /\ loop' = loop
  BY <1>0 DEF Spawn
<1>5. expected \in 0 .. 1
  BY <1>0, <1>2 DEF Core, CountsFit, Counted
<1>6. TypeOK'
  <2>1. expected' \in 0 .. 2 /\ loop' \in [Family -> {"none", "gone", "poll", "submit", "check", "dozing", "asleep", "select"}]
    BY <1>4, <1>5 DEF TypeOK
  <2> QED
    BY <1>1, <1>2, <2>1 DEF TypeOK, Steps
<1>7. Ended(f) /\ \A g \in Family : g # f => loop'[g] = loop[g]
  BY <1>0, <1>2, <1>4 DEF Core, LoopsFit, LoopsOver, TypeOK
<1>8. LoopsFit'
  <2>1. \A g \in Family : /\ loop'[g] \in {"none", "gone", "poll", "submit"}
                          /\ ~Ended(g)' => g \in sockets
                          /\ IF loop'[g] = "submit" THEN hand[g] \in Client ELSE hand[g] = NoClient
    BY <1>3, <1>4, <1>7 DEF Core, LoopsFit, Ended, TypeOK
  <2>2. Phase' = "spawn6" => Ended(6)'
    BY <1>0, <1>2, <1>4, <1>7 DEF Core, LoopsFit, LoopsOver, Ended, Family
  <2> QED
    BY <1>1, <1>2, <1>3, <2>1, <2>2 DEF LoopsFit, Posix, Windows
<1>9. CountsFit'
  <2>1. f \in sockets => ~Ended(f)'
    BY <1>4 DEF Ended, TypeOK
  <2>2. CASE f = 4
    <3>1. s = "spawn6" /\ Phase = "spawn4" /\ expected = 0 /\ alive = 0
      BY <1>0, <1>2, <2>2 DEF Core, CountsFit
    <3>2. Dead(4)' = 0 /\ Counted(4)' = (IF 4 \in sockets THEN 1 ELSE 0)
      BY <1>1, <2>1, <2>2 DEF Dead, Counted
    <3>3. expected' = Counted(4)'
      BY <1>4, <2>2, <3>1, <3>2
    <3> QED
      BY <1>1, <1>2, <1>3, <3>1, <3>2, <3>3 DEF CountsFit, Posix, Windows, Spawning
  <2>3. CASE f = 6
    <3>1. s = "seed" /\ Phase = "spawn6" /\ expected = Counted(4) /\ alive = 0 - Dead(4) /\ (~early => Dead(4) = 0)
      BY <1>0, <1>2, <2>3 DEF Core, CountsFit
    <3>2. Dead(6)' = 0 /\ Counted(6)' = (IF 6 \in sockets THEN 1 ELSE 0)
      BY <1>1, <2>1, <2>3 DEF Dead, Counted
    <3>3. Dead(4)' = Dead(4) /\ Counted(4)' = Counted(4) /\ Counted(4) \in {0, 1} /\ Dead(4) \in {0, 1}
      BY <1>1, <1>7, <2>3 DEF Dead, Counted, Ended, Family
    <3>4. expected' = Counted(4)' + Counted(6)'
      BY <1>4, <2>3, <3>1, <3>2, <3>3
    <3> QED
      BY <1>1, <1>2, <1>3, <3>1, <3>2, <3>3, <3>4 DEF CountsFit, Posix, Windows, Spawning
  <2> QED
    BY <2>2, <2>3 DEF Family
<1>10. Core'
  BY <1>1, <1>2, <1>3, <1>8, <1>9 DEF Core, PhasesFit, NothingLeft, Posix, Spawning, Leaving
<1>11. ClientsFit'
  BY <1>1, <1>3, ClientsRest DEF Accepted, Closed, ClientsFit, Posix, Windows
<1> QED
  BY <1>6, <1>10, <1>11

(* The count of live loops is set. *)
LEMMA SeedKeeps ==
  ASSUME Inv, NEW k \in Caller, StartSeeds(k)
  PROVE  Inv'
<1> USE DEF Inv, counts, work
<1>1. /\ step[k] = "seed" /\ Goto(k, "idle") /\ busy' = FALSE /\ alive' = expected
      /\ result' = [result EXCEPT ![k] = "ok"]
      /\ UNCHANGED <<platform, calls, running, sockets, woken, loop, hand, expected, early, conn, work>>
  BY DEF StartSeeds, Return, Seed
<1>2. OneCall' /\ Phase = "seed" /\ Phase' = "idle" /\ step' \in [Caller -> Steps]
  BY <1>1, PhaseMoves DEF Steps
<1>3. Posix /\ running /\ expected \in 0 .. 2
  BY <1>2 DEF Core, PhasesFit, Spawning, TypeOK
<1>4. TypeOK'
  <2>1. result' \in [Caller -> {"none", "ok", "failed"}] /\ alive' \in -2 .. 2
    BY <1>1, <1>3 DEF TypeOK
  <2> QED
    BY <1>1, <1>2, <2>1 DEF TypeOK, Steps
<1>5. CountsFit'
  <2>1. /\ expected = Counted(4) + Counted(6) /\ Dead(4) \in {0, 1} /\ Dead(6) \in {0, 1}
        /\ ~early => Dead(4) + Dead(6) = 0
    BY <1>2 DEF Core, CountsFit, Dead
  <2>2. /\ Counted(4)' = Counted(4) /\ Counted(6)' = Counted(6) /\ Dead(4)' = Dead(4) /\ Dead(6)' = Dead(6)
        /\ Counted(4) \in {0, 1} /\ Counted(6) \in {0, 1}
    BY <1>1 DEF Dead, Counted, Ended
  <2> QED
    BY <1>1, <1>2, <1>3, <2>1, <2>2 DEF CountsFit, Posix, Windows, Spawning
<1>6. Core'
  BY <1>1, <1>2, <1>3, <1>5 DEF Core, PhasesFit, LoopsFit, NothingLeft, LoopsOver, Ended,
     Spawning, Leaving, Posix, Windows
<1>7. ClientsFit'
  BY <1>1, ClientsRest DEF Accepted, Closed, ClientsFit
<1> QED
  BY <1>4, <1>6, <1>7

(* Start on Windows. *)
LEMMA StartWindowsKeeps ==
  ASSUME Inv, NEW k \in Caller, StartWindows(k)
  PROVE  Inv'
<1> USE DEF Inv, counts, work
<1>1. /\ Windows /\ step[k] = "start" /\ ~running
      /\ UNCHANGED <<platform, calls, woken, hand, conn, work>>
  BY DEF StartWindows
<1>2. PICK s \in {"ok", "failed"} :
        /\ Return(k, s) /\ sockets' \in SUBSET Family
        /\ \/ UNCHANGED <<running, counts, loop>>
           \/ /\ running' = TRUE /\ expected' = 1 /\ alive' \in {0, 1} /\ early' = early
              /\ loop' \in {loop, [loop EXCEPT ![4] = "check"]}
  <2>1. PICK bound \in SUBSET (Family \ sockets) : StartWindows(k)!2!(bound)
    BY DEF StartWindows
  <2>2. sockets \in SUBSET Family
    BY DEF TypeOK
  <2>3. CASE bound = {}
    BY <2>1, <2>2, <2>3
  <2>4. CASE bound # {}
    BY <2>1, <2>2, <2>4
  <2> QED
    BY <2>3, <2>4
<1>3. Goto(k, "idle") /\ busy' = FALSE /\ result' = [result EXCEPT ![k] = s]
  BY <1>2 DEF Return
<1>4. OneCall' /\ Phase = "start" /\ Phase' = "idle" /\ step' \in [Caller -> Steps]
  BY <1>1, <1>3, PhaseMoves DEF Steps
<1>5. TypeOK'
  <2>1. result' \in [Caller -> {"none", "ok", "failed"}]
    BY <1>2, <1>3 DEF TypeOK
  <2>2. expected' \in 0 .. 2 /\ alive' \in -2 .. 2
    BY <1>2 DEF TypeOK
  <2>3. running' \in BOOLEAN /\ early' \in BOOLEAN /\ sockets' \subseteq Family
    BY <1>2 DEF TypeOK
  <2>4. loop' \in [Family -> {"none", "gone", "poll", "submit", "check", "dozing", "asleep", "select"}]
    BY <1>2 DEF TypeOK
  <2> QED
    BY <1>1, <1>3, <1>4, <2>1, <2>2, <2>3, <2>4 DEF TypeOK, Steps
<1>6. loop'[4] \in {loop[4], "check"} /\ loop'[6] = loop[6] /\ (loop' = loop \/ running')
  BY <1>2 DEF TypeOK, Family
<1>7. Core'
  <2>1. LoopsFit'
    BY <1>1, <1>4, <1>6 DEF Core, LoopsFit, Posix, Windows, Family
  <2>2. CountsFit'
    BY <1>1, <1>2, <1>4 DEF Core, CountsFit, Spawning, Leaving, Posix, Windows
  <2>3. PhasesFit' /\ NothingLeft'
    BY <1>1, <1>2, <1>4, <1>6 DEF Core, PhasesFit, NothingLeft, LoopsOver, Ended, Family,
       Spawning, Leaving, Posix, Windows
  <2> QED
    BY <1>4, <2>1, <2>2, <2>3 DEF Core
<1>8. ClientsFit'
  BY <1>1, <1>6, ClientsRest DEF Accepted, Closed, ClientsFit, Windows
<1> QED
  BY <1>5, <1>7, <1>8

-----------------------------------------------------------------------------
(* Stop, up to the join. *)
LEMMA StopBeginsKeeps ==
  ASSUME Inv, NEW k \in Caller, StopBegins(k)
  PROVE  Inv'
<1> USE DEF Inv, counts, work
<1>1. /\ step[k] = "stop"
      /\ UNCHANGED <<platform, calls, sockets, woken, loop, hand, counts, conn, work>>
  BY DEF StopBegins
<1>2. CASE Windows /\ ~running /\ sockets = {}
  <2>1. Goto(k, "idle") /\ busy' = FALSE /\ result' = [result EXCEPT ![k] = result[k]] /\ running' = running
    BY <1>2 DEF StopBegins, Return
  <2>2. OneCall' /\ Phase = "stop" /\ Phase' = "idle" /\ step' \in [Caller -> Steps]
    BY <1>1, <2>1, PhaseMoves DEF Steps
  <2>3. result' \in [Caller -> {"none", "ok", "failed"}] /\ calls \in 0 .. MaxCalls /\ woken \in BOOLEAN
    BY <2>1 DEF TypeOK
  <2> QED
    BY <1>1, <2>1, <2>2, <2>3, CallOnly DEF Spawning, Leaving
<1>3. CASE ~(Windows /\ ~running /\ sockets = {})
  <2>1. running' = FALSE /\ Goto(k, "wake") /\ UNCHANGED <<busy, result>>
    BY <1>3 DEF StopBegins
  <2>2. OneCall' /\ Phase = "stop" /\ Phase' = "wake" /\ step' \in [Caller -> Steps]
    <3>1. busy'
      BY <1>1, <2>1 DEF Core, OneCall
    <3> QED
      BY <1>1, <2>1, <3>1, PhaseMoves DEF Steps
  <2>3. TypeOK'
    BY <1>1, <2>1, <2>2 DEF TypeOK, Steps
  <2>4. Core'
    BY <1>1, <2>1, <2>2 DEF Core, PhasesFit, LoopsFit, NothingLeft, CountsFit, LoopsOver,
       Ended, Counted, Dead, Spawning, Leaving, Posix, Windows
  <2>5. ClientsFit'
    BY <1>1, ClientsRest DEF Accepted, Closed, ClientsFit
  <2> QED
    BY <2>3, <2>4, <2>5
<1> QED
  BY <1>2, <1>3

(* Whoever sleeps is woken; nothing else of the loops changes. *)
LEMMA WokenLoops ==
  ASSUME Inv, loop' = [f \in Family |-> Wakes(f)], UNCHANGED <<platform, sockets, hand>>
  PROVE  /\ loop' \in [Family -> {"none", "gone", "poll", "submit", "check", "dozing", "asleep", "select"}]
         /\ \A f \in Family : Ended(f)' = Ended(f) /\ (loop'[f] = "select" => loop[f] = "select")
         /\ LoopsOver' = LoopsOver /\ Dead(4)' = Dead(4) /\ Dead(6)' = Dead(6)
         /\ Posix => loop' = loop
         /\ Windows => loop'[6] = loop[6] /\ loop'[4] \notin {"poll", "submit"}
         /\ \A f \in Family : IF loop'[f] = "submit" THEN hand'[f] \in Client ELSE hand'[f] = NoClient
<1>1. /\ \A f \in Family : loop[f] \in {"none", "gone", "poll", "submit", "check", "dozing", "asleep", "select"}
      /\ loop = [f \in Family |-> loop[f]]
  BY DEF Inv, TypeOK
<1>2. \A f \in Family : loop'[f] = (IF loop[f] = "asleep" THEN "check" ELSE loop[f])
  BY DEF Wakes
<1>3. \A f \in Family : Ended(f)' = Ended(f)
  BY <1>2 DEF Ended
<1>4. LoopsOver' = LoopsOver
  BY <1>3 DEF LoopsOver
<1>5. Dead(4)' = Dead(4) /\ Dead(6)' = Dead(6)
  BY <1>3 DEF Dead, Family
<1>6. ASSUME Posix PROVE loop' = loop
  <2>1. \A f \in Family : loop[f] # "asleep"
    BY <1>6 DEF Inv, Core, LoopsFit
  <2>2. [f \in Family |-> Wakes(f)] = [f \in Family |-> loop[f]]
    BY <2>1 DEF Wakes
  <2> QED
    BY <1>1, <2>2
<1>7. Windows => loop'[6] = loop[6] /\ loop'[4] \notin {"poll", "submit"}
  BY <1>2 DEF Inv, Core, LoopsFit, Family
<1>8. \A f \in Family : IF loop'[f] = "submit" THEN hand'[f] \in Client ELSE hand'[f] = NoClient
  BY <1>2 DEF Inv, Core, LoopsFit
<1>9. \A f \in Family : loop'[f] = "select" => loop[f] = "select"
  BY <1>2
<1>10. loop' \in [Family -> {"none", "gone", "poll", "submit", "check", "dozing", "asleep", "select"}]
  BY <1>1, <1>2
<1> QED
  BY <1>3, <1>4, <1>5, <1>6, <1>7, <1>8, <1>9, <1>10

(* Stop closes the sockets and wakes the loops. *)
LEMMA StopWakesKeeps ==
  ASSUME Inv, NEW k \in Caller, StopWakes(k)
  PROVE  Inv'
<1> USE DEF Inv, counts, work
<1>1. /\ step[k] = "wake" /\ Goto(k, "join") /\ woken' = Posix /\ loop' = [f \in Family |-> Wakes(f)]
      /\ UNCHANGED <<platform, busy, result, calls, running, sockets, hand, counts, conn, work>>
  BY DEF StopWakes
<1>2. OneCall' /\ Phase = "wake" /\ Phase' = "join" /\ step' \in [Caller -> Steps]
  <2>1. busy'
    BY <1>1 DEF Core, OneCall
  <2> QED
    BY <1>1, <2>1, PhaseMoves DEF Steps
<1>3. /\ loop' \in [Family -> {"none", "gone", "poll", "submit", "check", "dozing", "asleep", "select"}]
      /\ \A f \in Family : Ended(f)' = Ended(f) /\ (loop'[f] = "select" => loop[f] = "select")
      /\ LoopsOver' = LoopsOver /\ Dead(4)' = Dead(4) /\ Dead(6)' = Dead(6)
      /\ Posix => loop' = loop
      /\ Windows => loop'[6] = loop[6] /\ loop'[4] \notin {"poll", "submit"}
      /\ \A f \in Family : IF loop'[f] = "submit" THEN hand'[f] \in Client ELSE hand'[f] = NoClient
  BY <1>1, WokenLoops
<1>4. TypeOK'
  <2>1. woken' \in BOOLEAN
    BY <1>1 DEF Posix
  <2> QED
    BY <1>1, <1>2, <1>3, <2>1 DEF TypeOK, Steps
<1>5. Core'
  <2>1. LoopsFit'
    BY <1>1, <1>2, <1>3 DEF Core, LoopsFit, Posix, Windows
  <2>2. CountsFit'
    BY <1>1, <1>2, <1>3 DEF Core, CountsFit, Counted, Spawning, Leaving, Posix, Windows
  <2>3. PhasesFit' /\ NothingLeft'
    BY <1>1, <1>2 DEF Core, PhasesFit, NothingLeft, Spawning, Leaving, Posix, Windows
  <2> QED
    BY <1>2, <2>1, <2>2, <2>3 DEF Core
<1>6. ClientsFit'
  BY <1>1, <1>3, ClientsRest DEF Accepted, Closed, ClientsFit, Family
<1> QED
  BY <1>4, <1>5, <1>6

(* The loops are joined, and the clients of the backlog turned away. *)
LEMMA StopJoinsKeeps ==
  ASSUME Inv, NEW k \in Caller, StopJoins(k)
  PROVE  Inv'
<1> USE DEF Inv, counts, work
<1>1. /\ step[k] = "join" /\ LoopsOver /\ sockets' = {} /\ Goto(k, "pool")
      /\ conn' = [c \in Client |-> IF conn[c] = "backlog" THEN "closed" ELSE conn[c]]
      /\ UNCHANGED <<platform, busy, result, calls, running, woken, loop, hand, counts, work>>
  BY DEF StopJoins, Joined, LoopsOver
<1>2. OneCall' /\ Phase = "join" /\ Phase' = "pool" /\ step' \in [Caller -> Steps]
  <2>1. busy'
    BY <1>1 DEF Core, OneCall
  <2> QED
    BY <1>1, <2>1, PhaseMoves DEF Steps
<1>3. conn' \in [Client -> {"away", "backlog", "accepted", "closed"}]
  BY <1>1 DEF TypeOK
<1>4. TypeOK'
  BY <1>1, <1>2, <1>3 DEF TypeOK, Steps
<1>5. Core'
  BY <1>1, <1>2 DEF Core, PhasesFit, LoopsFit, NothingLeft, CountsFit, LoopsOver, Ended,
     Counted, Dead, Spawning, Leaving, Posix, Windows
<1>6. ClientsFit'
  BY <1>1, ClientsRest DEF Accepted, Closed, ClientsFit
<1> QED
  BY <1>4, <1>5, <1>6

(* The pool has ended. *)
LEMMA StopEndsPoolKeeps ==
  ASSUME Inv, NEW k \in Caller, StopEndsPool(k)
  PROVE  Inv'
<1> USE DEF Inv, counts, work
<1>1. /\ step[k] = "pool" /\ queue = <<>> /\ serving = {} /\ telling = 0 /\ woken' = FALSE
      /\ Goto(k, "idle") /\ busy' = FALSE /\ result' = [result EXCEPT ![k] = result[k]]
      /\ UNCHANGED <<platform, calls, running, sockets, loop, hand, counts, conn, work>>
  BY DEF StopEndsPool, Return
<1>2. OneCall' /\ Phase = "pool" /\ Phase' = "idle" /\ step' \in [Caller -> Steps]
  BY <1>1, PhaseMoves DEF Steps
<1>3. TypeOK'
  <2>1. result' \in [Caller -> {"none", "ok", "failed"}]
    BY <1>1 DEF TypeOK
  <2> QED
    BY <1>1, <1>2, <2>1 DEF TypeOK, Steps
<1>4. Core'
  BY <1>1, <1>2 DEF Core, PhasesFit, LoopsFit, NothingLeft, CountsFit, LoopsOver, Ended,
     Counted, Dead, Spawning, Leaving, Posix, Windows
<1>5. ClientsFit'
  BY <1>1, ClientsRest DEF Accepted, Closed, ClientsFit
<1> QED
  BY <1>3, <1>4, <1>5

-----------------------------------------------------------------------------
(* The accept loops of POSIX. *)
LEMMA PosixLoopKeeps ==
  ASSUME Inv, NEW f \in Family,
         Submit(f) \/ LoopEnds(f) \/ \E c \in Client : Accept(f, c)
  PROVE  Inv'
<1> USE DEF Inv, lifecycle, counts, work
<1>0. /\ Posix /\ UNCHANGED <<platform, busy, step, result, calls, running, sockets, woken, expected>>
      /\ loop[f] \in {"poll", "submit"} /\ UNCHANGED <<serving, active, telling>>
  BY DEF Submit, LoopEnds, Accept
<1>1. OneCall' /\ Phase' = Phase
  BY <1>0, PhaseStays
<1>2. f \in sockets /\ ~LoopsOver /\ Phase # "pool" /\ (running \/ Phase \in Leaving)
      /\ Phase # "spawn4" /\ (Phase = "spawn6" => f = 4)
  BY <1>0 DEF Core, LoopsFit, PhasesFit, NothingLeft, LoopsOver, Ended, Family
<1>3. CASE Submit(f)
  <2>1. /\ loop[f] = "submit" /\ Len(queue) < MaxClients /\ queue' = Append(queue, hand[f])
        /\ hand' = [hand EXCEPT ![f] = NoClient] /\ loop' = [loop EXCEPT ![f] = "poll"]
        /\ UNCHANGED <<counts, conn, serving, active, telling>>
    BY <1>3 DEF Submit, Room
  <2>2. queue' \in Seq(Client) /\ Len(queue') <= MaxClients
    <3>1. hand[f] \in Client /\ queue \in Seq(Client)
      BY <2>1 DEF Core, LoopsFit, TypeOK
    <3>2. queue' \in Seq(Client) /\ Len(queue') = Len(queue) + 1 /\ Len(queue) \in Nat
      BY <2>1, <3>1
    <3> QED
      BY <2>1, <3>2, HttpAssumption DEF HttpAssumption
  <2>3. TypeOK'
    BY <1>0, <2>1, <2>2 DEF TypeOK
  <2>4. \A g \in Family : loop'[g] = (IF g = f THEN "poll" ELSE loop[g])
                          /\ hand'[g] = (IF g = f THEN NoClient ELSE hand[g])
    BY <2>1 DEF TypeOK
  <2>5. \A g \in Family : Ended(g)' = Ended(g)
    BY <2>1, <2>4 DEF Ended
  <2>6. LoopsFit'
    BY <1>0, <1>1, <1>2, <2>4, <2>5 DEF Core, LoopsFit, LoopsOver, Posix, Windows, Family
  <2>7. CountsFit'
    <3>1. Dead(4)' = Dead(4) /\ Dead(6)' = Dead(6) /\ Counted(4)' = Counted(4) /\ Counted(6)' = Counted(6)
      BY <1>0, <2>5 DEF Dead, Counted, Family
    <3> QED
      BY <1>0, <1>1, <2>1, <3>1 DEF Core, CountsFit, Posix, Windows
  <2>8. PhasesFit' /\ NothingLeft'
    BY <1>0, <1>1, <1>2 DEF Core, PhasesFit, NothingLeft, Posix
  <2>9. ClientsFit'
    BY <1>0, <2>1, <2>2 DEF ClientsFit, Posix, Windows
  <2> QED
    BY <1>1, <2>3, <2>6, <2>7, <2>8, <2>9 DEF Core
<1>4. CASE LoopEnds(f)
  <2>1. /\ loop[f] = "poll" /\ loop' = [loop EXCEPT ![f] = "gone"] /\ alive' = alive - 1
        /\ early' = (early \/ \E k \in Caller : step[k] \in {"spawn6", "seed"})
        /\ UNCHANGED <<hand, conn, work>>
    BY <1>4 DEF LoopEnds, Leaves
  <2>2. \A g \in Family : loop'[g] = (IF g = f THEN "gone" ELSE loop[g])
    BY <2>1 DEF TypeOK
  <2>3. Ended(f)' /\ ~Ended(f) /\ \A g \in Family : g # f => Ended(g)' = Ended(g)
    BY <2>1, <2>2 DEF Ended
  <2>4. LoopsFit'
    BY <1>0, <1>1, <1>2, <2>1, <2>2, <2>3 DEF Core, LoopsFit, LoopsOver, Posix, Windows, Family
  <2>5. Phase \in {"spawn6", "seed"} => early'
    <3>1. ASSUME Phase \in {"spawn6", "seed"} PROVE \E k \in Caller : step[k] = Phase
      BY <3>1 DEF Phase
    <3> QED
      BY <2>1, <3>1
  <2>6. /\ Dead(f) = 0 /\ Dead(f)' = 1 /\ \A g \in Family : g # f => Dead(g)' = Dead(g)
        /\ Counted(4)' = Counted(4) /\ Counted(6)' = Counted(6) /\ Counted(f) = 1
        /\ \A g \in Family : Counted(g) \in {0, 1} /\ Dead(g) \in {0, 1} /\ Dead(g) <= Counted(g)
    BY <1>0, <1>2, <2>3 DEF Dead, Counted
  <2>7. /\ Phase = "spawn6" => /\ expected' = Counted(4)' /\ alive' = 0 - Dead(4)'
                               /\ alive' \in -2 .. 2
        /\ Phase = "seed" => /\ expected' = Counted(4)' + Counted(6)' /\ alive' = 0 - Dead(4)' - Dead(6)'
                             /\ alive' \in -2 .. 2
    BY <1>0, <1>2, <2>1, <2>6 DEF Core, CountsFit, Family
  <2>8. Phase \notin Spawning =>
          /\ alive' \in 0 .. 2
          /\ expected' = Counted(4)' + Counted(6)'
          /\ alive' >= expected' - Dead(4)' - Dead(6)'
    <3>1. ASSUME Phase \notin Spawning
          PROVE  alive \in 0 .. 2 /\ expected = Counted(4) + Counted(6) /\ alive >= expected - Dead(4) - Dead(6)
      BY <1>0, <1>2, <3>1 DEF Core, CountsFit, TypeOK
    <3> QED
      BY <1>0, <2>1, <2>6, <3>1 DEF Family
  <2>9. Phase \notin Spawning /\ ~early => alive' = expected' - Dead(4)' - Dead(6)'
    <3>1. ASSUME Phase \notin Spawning, ~early
          PROVE  alive = expected - Dead(4) - Dead(6) /\ alive \in Int /\ expected \in Int
      BY <1>0, <1>2, <3>1 DEF Core, CountsFit, TypeOK
    <3> QED
      BY <1>0, <2>1, <2>6, <3>1 DEF Family
  <2>10. early => early'
    BY <2>1
  <2>11. CountsFit'
    <3>1. Phase' = "spawn4" => expected' = 0 /\ alive' = 0
      BY <1>1, <1>2
    <3>2. (Windows')  => expected' \in 0..1 /\ alive' \in 0..1
      BY <1>0 DEF Posix, Windows
    <3>3. Phase' = "spawn6" => /\ expected' = Counted(4)' /\ alive' = 0 - Dead(4)' /\ (~early' => Dead(4)' = 0)
      BY <1>1, <2>5, <2>7
    <3>4. Phase' = "seed" => /\ expected' = Counted(4)' + Counted(6)' /\ alive' = 0 - Dead(4)' - Dead(6)'
                             /\ (~early' => Dead(4)' + Dead(6)' = 0)
      BY <1>1, <2>5, <2>7
    <3>5. Phase' \notin Spawning =>
             /\ alive' >= 0 /\ expected' = Counted(4)' + Counted(6)'
             /\ alive' >= expected' - Dead(4)' - Dead(6)'
             /\ ~early' => alive' = expected' - Dead(4)' - Dead(6)'
      BY <1>1, <2>8, <2>9, <2>10
    <3> QED
      BY <3>1, <3>2, <3>3, <3>4, <3>5 DEF CountsFit
  <2>12. TypeOK'
    <3>1. alive' \in -2 .. 2
      BY <1>2, <2>7, <2>8 DEF Spawning
    <3>2. early' \in BOOLEAN /\ loop' \in [Family -> {"none", "gone", "poll", "submit", "check", "dozing", "asleep", "select"}]
      BY <2>1 DEF TypeOK
    <3> QED
      BY <1>0, <2>1, <3>1, <3>2 DEF TypeOK
  <2>13. PhasesFit' /\ NothingLeft'
    BY <1>0, <1>1, <1>2 DEF Core, PhasesFit, NothingLeft, Posix
  <2>14. ClientsFit'
    BY <1>0, <2>1, ClientsRest DEF Accepted, Closed, ClientsFit, Posix, Windows
  <2> QED
    BY <1>1, <2>4, <2>11, <2>12, <2>13, <2>14 DEF Core
<1>5. ASSUME NEW c \in Client, Accept(f, c)
      PROVE  Inv'
  <2>1. PICK s \in {"poll", "submit"} :
          /\ loop[f] = "poll" /\ loop' = [loop EXCEPT ![f] = s]
          /\ hand' = [hand EXCEPT ![f] = IF s = "submit" THEN c ELSE @]
          /\ conn' = [conn EXCEPT ![c] = IF s = "submit" THEN "accepted" ELSE "closed"]
    <3>1. loop[f] = "poll" /\ loop = [loop EXCEPT ![f] = "poll"] /\ hand = [hand EXCEPT ![f] = @]
      BY <1>5 DEF Accept, TypeOK
    <3> QED
      BY <1>5, <3>1 DEF Accept
  <2>2. UNCHANGED <<counts, work>>
    BY <1>5 DEF Accept
  <2>3. \A g \in Family : loop'[g] = (IF g = f THEN s ELSE loop[g])
                          /\ hand'[g] = (IF g = f /\ s = "submit" THEN c ELSE hand[g])
    BY <2>1 DEF TypeOK
  <2>4. \A g \in Family : Ended(g)' = Ended(g)
    BY <2>1, <2>3 DEF Ended
  <2>5. TypeOK'
    <3>1. /\ loop' \in [Family -> {"none", "gone", "poll", "submit", "check", "dozing", "asleep", "select"}]
          /\ hand' \in [Family -> Client \union {NoClient}]
      BY <2>1 DEF TypeOK
    <3>2. conn' \in [Client -> {"away", "backlog", "accepted", "closed"}]
      BY <2>1 DEF TypeOK
    <3> QED
      BY <1>0, <2>2, <3>1, <3>2 DEF TypeOK
  <2>6. LoopsFit'
    <3>1. \A g \in Family : /\ loop'[g] \in {"none", "gone", "poll", "submit"}
                            /\ ~Ended(g)' => g \in sockets
                            /\ IF loop'[g] = "submit" THEN hand'[g] \in Client ELSE hand'[g] = NoClient
      BY <1>0, <2>1, <2>3, <2>4 DEF Core, LoopsFit
    <3> QED
      BY <1>0, <1>1, <1>2, <2>4, <3>1 DEF Core, LoopsFit, LoopsOver, Posix, Windows, Family
  <2>7. CountsFit'
    <3>1. Dead(4)' = Dead(4) /\ Dead(6)' = Dead(6) /\ Counted(4)' = Counted(4) /\ Counted(6)' = Counted(6)
      BY <1>0, <2>4 DEF Dead, Counted, Family
    <3> QED
      BY <1>0, <1>1, <2>2, <3>1 DEF Core, CountsFit, Posix, Windows
  <2>8. PhasesFit' /\ NothingLeft'
    BY <1>0, <1>1, <1>2 DEF Core, PhasesFit, NothingLeft, Posix
  <2>9. ClientsFit'
    BY <1>0, <2>2 DEF ClientsFit, Posix, Windows
  <2> QED
    BY <1>1, <2>5, <2>6, <2>7, <2>8, <2>9 DEF Core
<1> QED
  BY <1>3, <1>4, <1>5

-----------------------------------------------------------------------------
(* The accept thread of Windows, as far as the loop goes. *)
LEMMA AcceptThreadCore ==
  ASSUME Inv, Windows, loop[4] \in {"check", "dozing", "select"},
         NEW s \in {"gone", "check", "dozing", "asleep", "select"}, loop' = [loop EXCEPT ![4] = s],
         alive' \in 0 .. 1,
         UNCHANGED <<platform, busy, step, running, sockets, hand, expected, early>>
  PROVE  Core' /\ loop'[4] = s
         /\ loop' \in [Family -> {"none", "gone", "poll", "submit", "check", "dozing", "asleep", "select"}]
<1> USE DEF Inv
<1>1. OneCall' /\ Phase' = Phase
  BY PhaseStays
<1>2. loop'[4] = s /\ loop'[6] = loop[6]
      /\ loop' \in [Family -> {"none", "gone", "poll", "submit", "check", "dozing", "asleep", "select"}]
  BY DEF TypeOK, Family
<1>3. ~LoopsOver /\ Phase # "pool" /\ (running \/ Phase \in Leaving) /\ Phase \notin Spawning
  BY DEF Core, NothingLeft, PhasesFit, LoopsOver, Ended, Family, Posix, Windows
<1>4. LoopsFit'
  BY <1>1, <1>2, <1>3 DEF Core, LoopsFit, Posix, Windows, Family, Spawning
<1>5. CountsFit'
  BY <1>1, <1>3 DEF Core, CountsFit, Posix, Windows, Spawning
<1>6. PhasesFit' /\ NothingLeft'
  BY <1>1, <1>3 DEF Core, PhasesFit, NothingLeft, Posix
<1> QED
  BY <1>1, <1>2, <1>4, <1>5, <1>6 DEF Core

(* It looks for room, and goes to sleep. *)
LEMMA CapacityKeeps ==
  ASSUME Inv, CheckCapacity \/ Doze
  PROVE  Inv'
<1> USE DEF Inv, lifecycle, counts, work
<1>1. PICK s \in {"gone", "dozing", "select", "asleep"} :
        /\ Windows /\ loop[4] \in {"check", "dozing"} /\ loop' = [loop EXCEPT ![4] = s]
        /\ alive' \in {0, alive} /\ (s = "select" => active < MaxClients)
        /\ UNCHANGED <<platform, lifecycle, hand, expected, early, conn, work>>
  <2>1. CASE CheckCapacity
    <3>1. /\ Windows /\ loop[4] = "check"
          /\ loop' = [loop EXCEPT ![4] = IF ~running THEN "gone" ELSE IF Full THEN "dozing" ELSE "select"]
          /\ alive' = (IF running THEN alive ELSE 0)
          /\ UNCHANGED <<platform, lifecycle, hand, expected, early, conn, work>>
      BY <2>1 DEF CheckCapacity
    <3>2. alive' \in {0, alive}
      BY <3>1
    <3>3. CASE ~running
      BY <3>1, <3>2, <3>3
    <3>4. CASE running /\ Full
      BY <3>1, <3>2, <3>4
    <3>5. CASE running /\ ~Full
      <4>1. active < MaxClients
        <5>1. active \in Nat /\ MaxClients \in Nat
          BY ClientsFinite, HttpAssumption DEF TypeOK, HttpAssumption
        <5> QED
          BY <3>5, <5>1 DEF Full
      <4> QED
        BY <3>1, <3>2, <3>5, <4>1
    <3> QED
      BY <3>3, <3>4, <3>5
  <2>2. CASE Doze
    <3>1. loop[4] = "dozing" /\ ~Posix
      BY <2>2 DEF Doze, Core, LoopsFit, Family
    <3> QED
      BY <2>2, <3>1 DEF Doze, TypeOK, Posix, Windows
  <2> QED
    BY <2>1, <2>2
<1>2. alive' \in 0 .. 1
  BY <1>1 DEF Core, CountsFit
<1>3. Core' /\ loop'[4] = s
      /\ loop' \in [Family -> {"none", "gone", "poll", "submit", "check", "dozing", "asleep", "select"}]
  BY <1>1, <1>2, AcceptThreadCore
<1>4. TypeOK'
  <2>1. alive' \in -2 .. 2
    BY <1>2
  <2> QED
    BY <1>1, <1>3, <2>1 DEF TypeOK
<1>5. ClientsFit'
  <2>1. s = "select" => active <= MaxClients - 1
    BY <1>1, HttpAssumption DEF HttpAssumption, TypeOK
  <2> QED
    BY <1>1, <1>3, <2>1, ClientsRest DEF Accepted, Closed
<1> QED
  BY <1>3, <1>4, <1>5

(* The new clients of a select go to the end of the queue. *)
LEMMA QueueGrows ==
  ASSUME Inv, EachOnce, NEW admitted \in SUBSET {c \in Client : conn[c] = "backlog"},
         NEW order \in SetToSeqs(admitted), queue' = queue \o order
  PROVE  /\ queue' \in Seq(Client) /\ Len(queue') = Len(queue) + Cardinality(admitted)
         /\ \A i \in DOMAIN queue' : queue'[i] \in Accepted \cup admitted /\ queue'[i] \notin serving
         /\ \A i, j \in DOMAIN queue' : queue'[i] = queue'[j] => i = j
<1>1. Cardinality(admitted) \in Nat
  BY ClientsFinite
<1>2. /\ order \in [1 .. Cardinality(admitted) -> admitted]
      /\ \A i, j \in 1 .. Cardinality(admitted) : i # j => order[i] # order[j]
  BY DEF SetToSeqs
<1>3. order \in Seq(Client) /\ Len(order) = Cardinality(admitted) /\ DOMAIN order = 1 .. Cardinality(admitted)
  <2>1. order \in [1 .. Cardinality(admitted) -> Client]
    BY <1>2
  <2> QED
    BY <1>1, <2>1
<1>4. queue \in Seq(Client) /\ Len(queue) \in Nat /\ DOMAIN queue = 1 .. Len(queue)
  BY DEF Inv, TypeOK
<1>5. queue' \in Seq(Client) /\ Len(queue') = Len(queue) + Cardinality(admitted)
      /\ DOMAIN queue' = 1 .. (Len(queue) + Cardinality(admitted))
  <2>1. queue' \in Seq(Client)
    BY <1>3, <1>4
  <2>2. Len(queue') = Len(queue) + Len(order)
    BY <1>3, <1>4, ConcatProperties
  <2>3. DOMAIN queue' = 1 .. Len(queue')
    BY <2>1
  <2> QED
    BY <1>3, <2>1, <2>2, <2>3
<1>6. \A i \in DOMAIN queue' :
        /\ i <= Len(queue) => i \in DOMAIN queue /\ queue'[i] = queue[i]
        /\ i > Len(queue) => i - Len(queue) \in DOMAIN order /\ queue'[i] = order[i - Len(queue)]
  BY <1>1, <1>3, <1>4, <1>5
<1>7. \A i \in DOMAIN queue' : IF i <= Len(queue) THEN queue'[i] \in Accepted \ serving
                                                 ELSE queue'[i] \in admitted
  BY <1>2, <1>3, <1>4, <1>5, <1>6 DEF EachOnce
<1>8. admitted \cap Accepted = {} /\ admitted \cap serving = {}
  BY DEF Accepted, EachOnce
<1>9. ASSUME NEW i \in DOMAIN queue', NEW j \in DOMAIN queue', queue'[i] = queue'[j]
      PROVE  i = j
  <2>1. i \in Int /\ j \in Int /\ (i <= Len(queue) <=> j <= Len(queue))
    BY <1>4, <1>5, <1>7, <1>8, <1>9
  <2>2. CASE i <= Len(queue)
    BY <1>6, <1>9, <2>1, <2>2 DEF EachOnce
  <2>3. CASE i > Len(queue)
    <3>1. order[i - Len(queue)] = order[j - Len(queue)] /\ i - Len(queue) \in DOMAIN order /\ j - Len(queue) \in DOMAIN order
      BY <1>4, <1>6, <1>9, <2>1, <2>3
    <3>2. i - Len(queue) = j - Len(queue)
      BY <1>2, <1>3, <3>1
    <3> QED
      BY <1>4, <2>1, <3>2
  <2> QED
    BY <1>4, <2>1, <2>2, <2>3
<1> QED
  BY <1>5, <1>7, <1>8, <1>9

(* The Windows loop takes clients from select and admits as many as fit. *)
LEMMA SelectKeeps ==
  ASSUME Inv, Select
  PROVE  Inv'
<1> USE DEF Inv, lifecycle, counts, work
<1>1. PICK taken \in SUBSET {c \in Client : conn[c] = "backlog"} : Select!2!(taken)
  BY DEF Select
<1>0. PICK admitted \in SUBSET taken : \E order \in SetToSeqs(admitted) :
        /\ conn' = [c \in Client |-> IF c \in admitted THEN "accepted"
                                     ELSE IF c \in taken THEN "closed" ELSE conn[c]]
        /\ queue' = queue \o order
        /\ active' = active + Cardinality(admitted)
  BY <1>1
<1>2. PICK order \in SetToSeqs(admitted) :
        /\ conn' = [c \in Client |-> IF c \in admitted THEN "accepted"
                                     ELSE IF c \in taken THEN "closed" ELSE conn[c]]
        /\ queue' = queue \o order
        /\ active' = active + Cardinality(admitted)
  BY <1>0
<1>3. /\ loop[4] = "select" /\ loop' = [loop EXCEPT ![4] = "check"]
      /\ UNCHANGED <<platform, lifecycle, hand, counts, serving, telling>>
  BY DEF Select
<1>4. Windows
  BY <1>3 DEF Core, LoopsFit, TypeOK, Family, Posix, Windows
<1>5. alive \in 0 .. 1
  BY <1>4 DEF Core, CountsFit
<1>6. Core' /\ loop'[4] = "check"
      /\ loop' \in [Family -> {"none", "gone", "poll", "submit", "check", "dozing", "asleep", "select"}]
  BY <1>3, <1>4, <1>5, AcceptThreadCore
<1>7. Cardinality(admitted) <= 2 /\ Cardinality(admitted) \in Nat
  <2>1. Cardinality(taken) <= Cardinality(sockets) /\ IsFiniteSet(taken) /\ Cardinality(taken) \in Nat
    BY <1>1, ClientsFinite
  <2>2. IsFiniteSet(Family) /\ Cardinality(Family) = 2
    <3>1. IsFiniteSet({4}) /\ Cardinality({4}) = 1
      BY FS_Singleton
    <3>2. Family = {4} \cup {6}
      BY DEF Family
    <3>3. /\ IsFiniteSet({4} \cup {6})
          /\ Cardinality({4} \cup {6}) = (IF 6 \in {4} THEN Cardinality({4}) ELSE Cardinality({4}) + 1)
      <4> DEFINE F == {4}
      <4>1. IsFiniteSet(F)
        BY <3>1
      <4> HIDE DEF F
      <4>2. IsFiniteSet(F \cup {6}) /\ Cardinality(F \cup {6}) = (IF 6 \in F THEN Cardinality(F) ELSE Cardinality(F) + 1)
        BY <4>1, FS_AddElement
      <4> QED
        BY <4>2 DEF F
    <3>4. 6 \notin {4}
      OBVIOUS
    <3>5. Cardinality(Family) = 2
      BY <3>1, <3>2, <3>3, <3>4
    <3> QED
      BY <3>2, <3>3, <3>5
  <2>3. Cardinality(sockets) <= 2 /\ Cardinality(sockets) \in Nat
    BY <2>2, FS_Subset, FS_CardinalityType DEF TypeOK
  <2>4. Cardinality(admitted) <= Cardinality(taken) /\ Cardinality(admitted) \in Nat
    BY <2>1, FS_Subset, FS_CardinalityType
  <2> QED
    BY <2>1, <2>3, <2>4
<1>8. /\ queue' \in Seq(Client) /\ Len(queue') = Len(queue) + Cardinality(admitted)
      /\ \A i \in DOMAIN queue' : queue'[i] \in Accepted \cup admitted /\ queue'[i] \notin serving
      /\ \A i, j \in DOMAIN queue' : queue'[i] = queue'[j] => i = j
  <2>1. EachOnce /\ admitted \in SUBSET {c \in Client : conn[c] = "backlog"}
    BY <1>4 DEF ClientsFit
  <2> QED
    BY <1>2, <2>1, QueueGrows
<1>9. Accepted' = Accepted \cup admitted /\ Closed \subseteq Closed' /\ Accepted \cap admitted = {}
  BY <1>1, <1>2 DEF Accepted, Closed
<1>10. /\ Cardinality(Accepted') = Cardinality(Accepted) + Cardinality(admitted)
       /\ Cardinality(Accepted') \in Nat /\ Cardinality(Accepted') <= Cardinality(Client)
  <2>1. Accepted \in SUBSET Client /\ admitted \in SUBSET Client /\ Accepted' \in SUBSET Client
    BY <1>1 DEF Accepted
  <2>2. IsFiniteSet(Accepted) /\ IsFiniteSet(admitted) /\ Cardinality(Accepted) \in Nat
    BY <2>1, ClientsFinite
  <2>3. Cardinality(Accepted') = Cardinality(Accepted) + Cardinality(admitted) - Cardinality({})
    BY <1>9, <2>2, FS_Union
  <2> QED
    BY <1>7, <2>1, <2>2, <2>3, FS_EmptySet, ClientsFinite
<1>11. /\ active \in Nat /\ Len(queue) \in Nat /\ Cardinality(serving) \in Nat /\ Cardinality(Client) \in Nat
       /\ MaxClients \in Nat /\ telling \in Nat
  <2>1. Cardinality(Client) \in Nat /\ Cardinality(serving) \in Nat
    BY ClientsFinite DEF TypeOK
  <2> QED
    BY <2>1, HttpAssumption DEF TypeOK, HttpAssumption
<1>12. active' = Cardinality(Accepted') /\ active' = Len(queue') + Cardinality(serving) /\ active' <= MaxClients + 1
  BY <1>2, <1>3, <1>4, <1>7, <1>8, <1>10, <1>11, SMTT(60) DEF ClientsFit
<1>13. TypeOK'
  <2>1. active' \in 0 .. Cardinality(Client)
    BY <1>10, <1>11, <1>12
  <2>2. conn' \in [Client -> {"away", "backlog", "accepted", "closed"}]
    BY <1>2 DEF TypeOK
  <2> QED
    BY <1>3, <1>6, <1>8, <2>1, <2>2 DEF TypeOK
<1>14. telling <= Cardinality(Closed')
  <2>1. Closed' \in SUBSET Client
    BY DEF Closed
  <2>2. Cardinality(Closed) <= Cardinality(Closed') /\ Cardinality(Closed) \in Nat /\ Cardinality(Closed') \in Nat
    BY <1>9, <2>1, ClientsFinite, FS_Subset
  <2> QED
    BY <1>4, <1>11, <2>2 DEF ClientsFit
<1>15. EachOnce'
  BY <1>3, <1>4, <1>8, <1>9 DEF EachOnce, ClientsFit
<1>16. ClientsFit'
  BY <1>3, <1>4, <1>6, <1>12, <1>14, <1>15 DEF ClientsFit, Posix, Windows
<1> QED
  BY <1>6, <1>13, <1>16

-----------------------------------------------------------------------------
(* Clients come, are taken and leave. *)
LEMMA ConnectKeeps ==
  ASSUME Inv, NEW c \in Client, Connect(c)
  PROVE  Inv'
<1> USE DEF Inv, lifecycle, counts, work
<1>1. /\ conn[c] = "away" /\ conn' = [conn EXCEPT ![c] = "backlog"]
      /\ UNCHANGED <<platform, lifecycle, loop, hand, counts, work>>
  BY DEF Connect
<1>2. conn' \in [Client -> {"away", "backlog", "accepted", "closed"}]
  BY <1>1 DEF TypeOK
<1>3. Accepted' = Accepted /\ Closed' = Closed
  BY <1>1 DEF Accepted, Closed, TypeOK
<1>4. TypeOK'
  BY <1>1, <1>2 DEF TypeOK
<1>5. Core'
  BY <1>1, CoreRests DEF Core, NothingLeft
<1>6. ClientsFit'
  BY <1>1, <1>3, ClientsRest DEF ClientsFit
<1> QED
  BY <1>4, <1>5, <1>6

(* A thread takes the first client of the queue. *)
LEMMA TakeClientKeeps ==
  ASSUME Inv, TakeClient
  PROVE  Inv'
<1> USE DEF Inv, lifecycle, counts, work
<1>1. /\ queue # <<>> /\ Cardinality(serving) < MaxClients
      /\ serving' = serving \union {Head(queue)} /\ queue' = Tail(queue)
      /\ UNCHANGED <<platform, lifecycle, loop, hand, counts, conn, active, telling>>
  BY DEF TakeClient
<1>2. queue \in Seq(Client) /\ Len(queue) \in Nat \ {0} /\ DOMAIN queue = 1 .. Len(queue)
  BY <1>1 DEF TypeOK
<1>3. /\ queue' \in Seq(Client) /\ Len(queue') = Len(queue) - 1 /\ DOMAIN queue' = 1 .. (Len(queue) - 1)
      /\ \A i \in DOMAIN queue' : queue'[i] = queue[i + 1] /\ i + 1 \in DOMAIN queue
      /\ Head(queue) = queue[1] /\ 1 \in DOMAIN queue /\ Head(queue) \in Client
  BY <1>1, <1>2
<1>4. serving' \subseteq Client /\ IsFiniteSet(serving) /\ Cardinality(serving) \in Nat
  BY <1>1, <1>3, ClientsFinite DEF TypeOK
<1>5. Cardinality(serving') = (IF Head(queue) \in serving THEN Cardinality(serving) ELSE Cardinality(serving) + 1)
  BY <1>1, <1>4, FS_AddElement
<1>6. TypeOK'
  BY <1>1, <1>3, <1>4 DEF TypeOK
<1>7. Core'
  BY <1>1, CoreRests DEF Core, NothingLeft
<1>8. Cardinality(serving') <= MaxClients
  BY <1>1, <1>4, <1>5, HttpAssumption DEF HttpAssumption
<1>9. CASE Posix
  <2>1. Len(queue') <= MaxClients /\ active' = 0 /\ telling' = 0
    BY <1>1, <1>2, <1>3, <1>9, HttpAssumption DEF ClientsFit, HttpAssumption
  <2>2. ClientsFit'
    BY <1>1, <1>8, <1>9, <2>1 DEF ClientsFit, Posix, Windows
  <2> QED
    BY <1>6, <1>7, <2>2
<1>10. CASE Windows
  <2>1. EachOnce
    BY <1>10 DEF ClientsFit
  <2>2. Head(queue) \in Accepted \ serving
    BY <1>3, <2>1 DEF EachOnce
  <2>3. \A i \in DOMAIN queue' : queue'[i] \in Accepted \ serving /\ queue'[i] # Head(queue)
    BY <1>2, <1>3, <2>1 DEF EachOnce
  <2>4. \A i, j \in DOMAIN queue' : queue'[i] = queue'[j] => i = j
    BY <1>2, <1>3, <2>1 DEF EachOnce
  <2>5. Accepted' = Accepted /\ Closed' = Closed
    BY <1>1 DEF Accepted, Closed
  <2>6. EachOnce'
    BY <1>1, <2>1, <2>2, <2>3, <2>4, <2>5 DEF EachOnce
  <2>7. Len(queue') + Cardinality(serving') = Len(queue) + Cardinality(serving)
    BY <1>2, <1>3, <1>4, <1>5, <2>2
  <2>8. ClientsFit'
    BY <1>1, <1>8, <1>10, <2>5, <2>6, <2>7 DEF ClientsFit, Posix, Windows
  <2> QED
    BY <1>6, <1>7, <2>8
<1> QED
  BY <1>9, <1>10 DEF TypeOK, Posix, Windows

(* A client is done with: its thread leaves the count. *)
LEMMA ClientDoneKeeps ==
  ASSUME Inv, NEW c \in Client, ClientDone(c)
  PROVE  Inv'
<1> USE DEF Inv, lifecycle, counts, work
<1>1. /\ c \in serving /\ serving' = serving \ {c} /\ conn' = [conn EXCEPT ![c] = "closed"]
      /\ UNCHANGED <<platform, lifecycle, loop, hand, counts, queue>>
      /\ Windows => active' = active - 1 /\ telling' = telling + 1
      /\ ~Windows => active' = active /\ telling' = telling
  BY DEF ClientDone
<1>2. IsFiniteSet(serving) /\ Cardinality(serving) \in Nat /\ Cardinality(serving') = Cardinality(serving) - 1
      /\ Cardinality(serving') \in Nat
  <2>1. IsFiniteSet(serving) /\ Cardinality(serving) \in Nat /\ serving' \in SUBSET Client
    BY <1>1, ClientsFinite DEF TypeOK
  <2> QED
    BY <1>1, <2>1, FS_RemoveElement, ClientsFinite
<1>3. Core'
  BY <1>1, CoreRests DEF Core, NothingLeft
<1>4. conn' \in [Client -> {"away", "backlog", "accepted", "closed"}] /\ serving' \subseteq Client
  BY <1>1 DEF TypeOK
<1>5. /\ active \in Nat /\ telling \in Nat /\ Len(queue) \in Nat /\ Cardinality(Client) \in Nat
      /\ MaxClients \in Nat
  <2>1. Cardinality(Client) \in Nat
    BY ClientsFinite
  <2> QED
    BY <2>1, HttpAssumption DEF TypeOK, HttpAssumption
<1>6. Cardinality(serving') <= MaxClients
  BY <1>2, <1>5 DEF ClientsFit
<1>7. CASE ~Windows
  <2>1. TypeOK'
    BY <1>1, <1>4, <1>7 DEF TypeOK
  <2>2. ClientsFit'
    BY <1>1, <1>6, <1>7 DEF ClientsFit, Posix, Windows
  <2> QED
    BY <1>3, <2>1, <2>2
<1>8. CASE Windows
  <2>1. EachOnce
    BY <1>8 DEF ClientsFit
  <2>2. c \in Accepted /\ c \notin Closed /\ Accepted' = Accepted \ {c} /\ Closed' = Closed \cup {c}
    <3>1. c \in Accepted
      BY <1>1, <2>1 DEF EachOnce
    <3> QED
      BY <1>1, <3>1 DEF Accepted, Closed, TypeOK
  <2>3. /\ Cardinality(Accepted') = Cardinality(Accepted) - 1 /\ Cardinality(Closed') = Cardinality(Closed) + 1
        /\ Cardinality(Accepted) \in Nat /\ Cardinality(Closed) \in Nat
        /\ Cardinality(Closed') <= Cardinality(Client)
    <3>1. Accepted \in SUBSET Client /\ Closed \in SUBSET Client /\ Closed' \in SUBSET Client
      BY DEF Accepted, Closed
    <3>2. IsFiniteSet(Accepted) /\ IsFiniteSet(Closed) /\ Cardinality(Accepted) \in Nat
          /\ Cardinality(Closed) \in Nat /\ Cardinality(Closed') <= Cardinality(Client)
      BY <3>1, ClientsFinite
    <3> QED
      BY <2>2, <3>2, FS_AddElement, FS_RemoveElement
  <2>4. /\ active = Len(queue) + Cardinality(serving) /\ active = Cardinality(Accepted)
        /\ active <= (IF loop[4] = "select" THEN MaxClients - 1 ELSE MaxClients + 1)
        /\ telling <= Cardinality(Closed)
    BY <1>8 DEF ClientsFit
  <2>5. /\ active' = Len(queue') + Cardinality(serving') /\ active' = Cardinality(Accepted')
        /\ active' <= (IF loop'[4] = "select" THEN MaxClients - 1 ELSE MaxClients + 1)
        /\ telling' <= Cardinality(Closed')
    BY <1>1, <1>2, <1>5, <1>8, <2>3, <2>4, SMTT(60)
  <2>6. EachOnce'
    BY <1>1, <2>1, <2>2 DEF EachOnce
  <2>7. ClientsFit'
    BY <1>1, <1>6, <1>8, <2>5, <2>6 DEF ClientsFit, Posix, Windows
  <2>8. TypeOK'
    <3>1. active' \in 0 .. Cardinality(Client) /\ telling' \in 0 .. Cardinality(Client)
      <4>1. active \in 0 .. Cardinality(Client)
        BY DEF TypeOK
      <4> QED
        BY <1>1, <1>2, <1>5, <1>8, <2>3, <2>4, <4>1, SMTT(60)
    <3> QED
      BY <1>1, <1>4, <3>1 DEF TypeOK
  <2> QED
    BY <1>3, <2>7, <2>8
<1> QED
  BY <1>7, <1>8

(* A callback tells the accept thread that there is room. *)
LEMMA TellRoomKeeps ==
  ASSUME Inv, TellRoom
  PROVE  Inv'
<1> USE DEF Inv, lifecycle, counts, work
<1>1. /\ telling > 0 /\ telling' = telling - 1 /\ loop' = [f \in Family |-> Wakes(f)]
      /\ UNCHANGED <<platform, lifecycle, hand, counts, conn, queue, serving, active>>
  BY DEF TellRoom
<1>2. telling \in Nat /\ telling' \in 0 .. Cardinality(Client)
  <2>1. Cardinality(Client) \in Nat
    BY ClientsFinite
  <2> QED
    BY <1>1, <2>1 DEF TypeOK
<1>3. /\ loop' \in [Family -> {"none", "gone", "poll", "submit", "check", "dozing", "asleep", "select"}]
      /\ \A f \in Family : Ended(f)' = Ended(f) /\ (loop'[f] = "select" => loop[f] = "select")
      /\ LoopsOver' = LoopsOver /\ Dead(4)' = Dead(4) /\ Dead(6)' = Dead(6)
      /\ Posix => loop' = loop
      /\ Windows => loop'[6] = loop[6] /\ loop'[4] \notin {"poll", "submit"}
      /\ \A f \in Family : IF loop'[f] = "submit" THEN hand'[f] \in Client ELSE hand'[f] = NoClient
  BY <1>1, WokenLoops
<1>4. TypeOK'
  BY <1>1, <1>2, <1>3 DEF TypeOK
<1>5. OneCall' /\ Phase' = Phase
  BY <1>1, PhaseStays
<1>6. Windows
  <2>1. ~Posix
    BY <1>1, <1>2 DEF ClientsFit
  <2> QED
    BY <2>1 DEF TypeOK, Posix, Windows
<1>7. Core'
  <2>1. LoopsFit'
    BY <1>1, <1>3, <1>5, <1>6 DEF Core, LoopsFit, Posix, Windows, Family
  <2>2. CountsFit'
    BY <1>1, <1>3, <1>5, <1>6 DEF Core, CountsFit, Counted, Spawning, Leaving, Posix, Windows
  <2>3. PhasesFit' /\ NothingLeft'
    BY <1>1, <1>2, <1>3, <1>5 DEF Core, PhasesFit, NothingLeft, Spawning, Leaving, Posix,
       Windows
  <2> QED
    BY <1>5, <2>1, <2>2, <2>3 DEF Core
<1>8. ClientsFit'
  <2>1. Windows
    BY <1>6
  <2>2. EachOnce'
    BY <1>1, <2>1 DEF ClientsFit, EachOnce, Accepted
  <2>3. Cardinality(Closed) \in Nat
    BY ClientsFinite DEF Closed
  <2>4. telling' <= Cardinality(Closed)
    BY <1>1, <1>2, <2>1, <2>3 DEF ClientsFit
  <2>5. /\ active = Len(queue) + Cardinality(serving) /\ active = Cardinality(Accepted)
        /\ active <= (IF loop'[4] = "select" THEN MaxClients - 1 ELSE MaxClients + 1)
    <3>1. active \in Nat /\ MaxClients \in Nat
      <4>1. Cardinality(Client) \in Nat
        BY ClientsFinite
      <4> QED
        BY <4>1, HttpAssumption DEF TypeOK, HttpAssumption
    <3> QED
      BY <1>3, <2>1, <3>1 DEF ClientsFit, Family
  <2> QED
    BY <1>1, <2>1, <2>2, <2>4, <2>5 DEF ClientsFit, Accepted, Closed, Posix, Windows
<1> QED
  BY <1>4, <1>7, <1>8

-----------------------------------------------------------------------------
(* Every step keeps the invariant. *)
LEMMA InvNext == Inv /\ [Next]_vars => Inv'
<1> SUFFICES ASSUME Inv, [Next]_vars PROVE Inv'
  OBVIOUS
<1>1. CASE UNCHANGED vars
  <2>1. UNCHANGED <<platform, busy, step, result, calls, running, sockets, woken, loop, hand,
                    expected, alive, early, conn, queue, serving, active, telling>>
    BY <1>1 DEF vars, lifecycle, counts, work
  <2>2. TypeOK'
    BY <2>1 DEF Inv, TypeOK
  <2>3. Core'
    BY <2>1, CoreRests DEF Inv, Core, NothingLeft
  <2>4. ClientsFit'
    BY <2>1, ClientsRest DEF Inv, ClientsFit, Accepted, Closed
  <2> QED
    BY <2>2, <2>3, <2>4 DEF Inv
<1>2. ASSUME NEW k \in Caller, Call(k) \/ Control(k)
      PROVE  Inv'
  BY <1>2, CallKeeps, StartPosixKeeps, SpawnKeeps, SeedKeeps, StartWindowsKeeps,
     StopBeginsKeeps,
     StopWakesKeeps, StopJoinsKeeps, StopEndsPoolKeeps DEF Control
<1>3. ASSUME NEW f \in Family, Submit(f) \/ LoopEnds(f) \/ \E c \in Client : Accept(f, c)
      PROVE  Inv'
  BY <1>3, PosixLoopKeeps
<1>4. ASSUME NEW c \in Client, Connect(c) \/ ClientDone(c)
      PROVE  Inv'
  BY <1>4, ConnectKeeps, ClientDoneKeeps
<1>5. ASSUME AcceptThread \/ TakeClient \/ TellRoom
      PROVE  Inv'
  BY <1>5, CapacityKeeps, SelectKeeps, TakeClientKeeps, TellRoomKeeps DEF AcceptThread
<1> QED
  BY <1>1, <1>2, <1>3, <1>4, <1>5 DEF Next

(* The invariant holds in every state. *)
THEOREM InvHolds == Spec => []Inv
BY InvInit, InvNext, PTL DEF Spec

(* The threads, the queue and the connections keep to their limits, however *)
(* many clients come and whoever calls Start and Stop (LimitsHold).        *)
THEOREM LimitsAreKept == Spec => []LimitsHold
<1>1. Inv => LimitsHold
  <2>1. Inv => ClientsBounded
    <3> SUFFICES ASSUME Inv PROVE ClientsBounded
      OBVIOUS
    <3>1. Windows => active <= MaxClients + 1
      <4>1. active \in Nat /\ MaxClients \in Nat
        <5>1. Cardinality(Client) \in Nat
          BY ClientsFinite
        <5> QED
          BY <5>1, HttpAssumption DEF Inv, TypeOK, HttpAssumption
      <4> QED
        BY <4>1 DEF Inv, ClientsFit
    <3> QED
      BY <3>1 DEF Inv, ClientsFit, ClientsBounded
  <2> QED
    BY <2>1 DEF Inv, LimitsHold
<1> QED
  BY <1>1, InvHolds, PTL

(* A server that neither runs nor is being started or stopped has no accept *)
(* loop and no client left, in the queue or with a thread (StoppedIsQuiet). *)
THEOREM NothingRunsOn == Spec => []StoppedIsQuiet
<1>1. Inv => StoppedIsQuiet
  <2> SUFFICES ASSUME Inv, ~running, ~busy PROVE StoppedIsQuiet
    BY DEF StoppedIsQuiet
  <2>1. Phase = "idle"
    BY DEF Inv, Core, OneCall, Phase
  <2>2. LoopsOver /\ queue = <<>> /\ serving = {} /\ telling = 0 /\ (Posix => sockets = {})
    BY <2>1 DEF Inv, Core, NothingLeft, Leaving
  <2>3. \A f \in Family : Ended(f) /\ hand[f] = NoClient
    BY <2>2 DEF Inv, Core, LoopsFit, LoopsOver, Ended
  <2> QED
    BY <2>2, <2>3 DEF StoppedIsQuiet
<1> QED
  BY <1>1, InvHolds, PTL

(* A server that says it is healthy has all its accept loops, unless one   *)
(* ended before Start had seeded the count (DeathIsSeen).                  *)
THEOREM HealthTellsDeath == Spec => []DeathIsSeen
<1>1. Inv => DeathIsSeen
  <2> SUFFICES ASSUME Inv, Posix, running, ~busy, Healthy, ~early, NEW f \in sockets, Ended(f)
               PROVE  FALSE
    BY DEF DeathIsSeen
  <2>1. Phase = "idle"
    BY DEF Inv, Core, OneCall, Phase
  <2>2. alive = expected - Dead(4) - Dead(6) /\ expected \in Int
    BY <2>1 DEF Inv, Core, CountsFit, Spawning, TypeOK
  <2>3. Dead(4) \in {0, 1} /\ Dead(6) \in {0, 1} /\ f \in Family
    BY DEF Dead, Inv, TypeOK
  <2>4. Dead(f) = 1
    BY DEF Dead
  <2> QED
    BY <2>2, <2>3, <2>4 DEF Healthy, Family
<1> QED
  BY <1>1, InvHolds, PTL

-----------------------------------------------------------------------------
(* HttpReply *)

(* What the routes rely on: the request is one of those a client can make. *)
RequestFits ==
  /\ req.range \in RangeHeader
  /\ req.target = "ContentDirectory" /\ req.detail = "ok" => req.call \in CDCall
  /\ req.target = "ConnectionManager" /\ req.detail = "ok" => req.call \in CMCall

CacheFits == cache \in {None} \cup 0 .. MaxSize

EventCall == req.target = "event" \/ req.method \in {"SUBSCRIBE", "UNSUBSCRIBE"}

(* A reply with no body has no length unless it is the answer to a HEAD, and *)
(* one that lets the connection go on has said so.                           *)
ReplyFits ==
  /\ reply.body \in {"none", "text", "file", "remote"}
  /\ reply.body = "none" => HeadOnly \/ reply.length = 0
  /\ reply.body # "none" => ~HeadOnly
  /\ reply.body = "file" => reply.length \in Nat
  /\ reply.ends \/ reply.says = "keep-alive" \/ EventCall

Answering == at \in {"headers", "file", "remote", "done"}
BodySent ==
  (reply.body = "remote" /\ offer # reply.length) \/ sent = IF HeadOnly THEN 0 ELSE reply.length

ReplyInv ==
  /\ RequestFits /\ CacheFits
  /\ Answering => ReplyFits
  /\ at = "file" => reply.body = "file" /\ sent \in Nat /\ sent <= reply.length
  /\ at = "remote" => reply.body = "remote"
  /\ at = "done" /\ ~stalled => BodySent
  /\ at = "accepted" => asked = 0
  /\ KeptAliveIsFramed
  /\ PartsAreRight

-----------------------------------------------------------------------------
(* Cutting a range out: what is sent is what is wanted, and it is not empty. *)
LEMMA RangeIsCut ==
  ASSUME NEW h \in RangeHeader, NEW size \in Nat, size > 0 \/ h.kind # "none", Satisfiable(h, size)
  PROVE  /\ RangeStart(h, size) \in Nat /\ RangeEnd(h, size) \in Nat
         /\ RangeStart(h, size) <= RangeEnd(h, size)
         /\ Wanted(h, size) = RangeStart(h, size) .. RangeEnd(h, size)
<1>1. CASE h.kind = "none"
  BY <1>1 DEF RangeStart, RangeEnd, Wanted
<1>2. CASE h.kind = "suffix"
  <2>1. h.last \in Nat /\ size > 0 /\ h.last > 0
    BY <1>2, ReplyAssumption DEF ReplyAssumption, RangeHeader, Satisfiable, NoRange, None
  <2> QED
    BY <1>2, <2>1 DEF RangeStart, RangeEnd, Wanted
<1>3. CASE h.kind = "span"
  <2>1. h.first \in Nat /\ (h.last = None \/ h.last \in Nat)
    BY <1>3, ReplyAssumption DEF ReplyAssumption, RangeHeader, NoRange
  <2>2. h.first < size /\ LastOf(h, size) >= h.first
    BY <1>3 DEF Satisfiable
  <2>3. Wanted(h, size) = {o \in 0 .. size - 1 : o >= h.first /\ (h.last = None \/ o <= h.last)}
    BY <1>3 DEF Wanted
  <2>4. RangeStart(h, size) = h.first /\ RangeEnd(h, size) = Smaller(LastOf(h, size), size - 1)
    BY <1>3 DEF RangeStart, RangeEnd
  <2> QED
    BY <2>1, <2>2, <2>3, <2>4 DEF LastOf, Smaller, None
<1>4. h.kind \in {"none", "suffix", "span"}
  BY DEF Satisfiable
<1> QED
  BY <1>1, <1>2, <1>3, <1>4

(* A range that is refused wants nothing. *)
LEMMA RefusedIsEmpty ==
  ASSUME NEW h \in RangeHeader, NEW size \in Nat, ~Satisfiable(h, size)
  PROVE  Wanted(h, size) = {}
<1>1. CASE h.kind = "bad"
  BY <1>1 DEF Wanted
<1>2. CASE h.kind = "suffix"
  <2>1. h.last \in Nat /\ (size = 0 \/ h.last = 0)
    BY <1>2, ReplyAssumption DEF ReplyAssumption, RangeHeader, Satisfiable, NoRange, None
  <2> QED
    BY <1>2, <2>1 DEF Wanted
<1>3. CASE h.kind = "span"
  <2>1. h.first \in Nat /\ (h.last = None \/ h.last \in Nat)
    BY <1>3, ReplyAssumption DEF ReplyAssumption, RangeHeader, NoRange
  <2>2. size = 0 \/ h.first >= size \/ LastOf(h, size) < h.first
    BY <1>3, <2>1 DEF Satisfiable, LastOf, None
  <2>3. Wanted(h, size) = {o \in 0 .. size - 1 : o >= h.first /\ (h.last = None \/ o <= h.last)}
    BY <1>3 DEF Wanted
  <2> QED
    BY <2>1, <2>2, <2>3 DEF LastOf, None
<1>4. h.kind \in {"none", "bad", "suffix", "span"} /\ h.kind # "none"
  BY DEF Satisfiable, RangeHeader, NoRange
<1> QED
  BY <1>1, <1>2, <1>3, <1>4

(* Pages: one that starts within the results begins there, and it holds no  *)
(* more than was asked for, than is allowed, and than there is.             *)
LEMMA PageLeadsOn ==
  ASSUME NEW n \in Nat, NEW start \in Nat, NEW count \in Nat
  PROVE  /\ start < n => start + 1 \in Page(n, start, count)
         /\ Page(n, start, count) \subseteq 1 .. n
         /\ Cardinality(Page(n, start, count)) <= (IF count = 0 THEN MaxPage ELSE count)
<1> DEFINE left == IF start >= n THEN 0 ELSE n - start
           k    == ClampBrowseRequestedCount(count, left)
<1>1. left \in Nat /\ (start < n => left > 0 /\ start + left = n)
  OBVIOUS
<1>2. k \in Nat /\ k <= left /\ k <= (IF count = 0 THEN MaxPage ELSE count) /\ (left > 0 => k > 0)
  BY <1>1, PageAssumption DEF PageAssumption, ClampBrowseRequestedCount, Lesser
<1>3. Page(n, start, count) = start + 1 .. start + k
  BY DEF Page
<1> HIDE DEF k
<1>4. Cardinality(start + 1 .. start + k) = k
  <2>1. start + 1 \in Int /\ start + k \in Int
    BY <1>2
  <2>2. Cardinality(start + 1 .. start + k)
          = IF start + 1 > start + k THEN 0 ELSE (start + k) - (start + 1) + 1
    BY <2>1, FS_Interval
  <2> QED
    BY <1>2, <2>2
<1> QED
  BY <1>1, <1>2, <1>3, <1>4

(* A call that is answered with results has numbers for its arguments. *)
LEMMA AnsweredHasNumbers ==
  ASSUME NEW c \in CDCall, NEW ready \in BOOLEAN,
         ContentDirectoryFault(c, ready) = 0, c.action \in {"Browse", "Search"}
  PROVE  c.start \in Nat /\ c.count \in Nat
<1>1. c.start \in Number /\ c.count \in Number
  BY DEF CDCall, CallOf, Number, Simple
<1>2. c.start \notin {Missing, Bad} /\ c.count \notin {Missing, Bad}
  <2>1. CASE c.action = "Search"
    <3>1. SearchFault(c) = 0
      BY <2>1 DEF ContentDirectoryFault, Simple
    <3> QED
      BY <3>1 DEF SearchFault, Absent, Unusable
  <2>2. CASE c.action = "Browse"
    <3>1. BrowseFault(c) = 0
      BY <2>2 DEF ContentDirectoryFault, Simple
    <3> QED
      BY <3>1 DEF BrowseFault, Absent, Unusable
  <2> QED
    BY <2>1, <2>2
<1> QED
  BY <1>1, <1>2 DEF Number, Missing, Bad

-----------------------------------------------------------------------------
(* What a route's reply r has to keep; n is the item's size. *)
Fits(r) ==
  /\ r.body \in {"none", "text", "file", "remote"}
  /\ r.body = "none" => HeadOnly \/ r.length = 0
  /\ r.body # "none" => ~HeadOnly
  /\ r.body = "file" => r.length \in Nat
  /\ r.ends \/ r.says = "keep-alive" \/ EventCall

PartRight(n, r) ==
  /\ req.target \in {"file", "remote"} =>
       /\ r.status = 416 => Wanted(req.range, n) = {}
       /\ r.status = 206 => Wanted(req.range, n) = r.from .. r.from + r.length - 1
       /\ r.status = 206 => r.length > 0
  /\ r.answer.matches > 0 =>
       /\ req.call.start < r.answer.matches => req.call.start + 1 \in r.answer.page
       /\ r.answer.page \subseteq 1 .. r.answer.matches
       /\ Cardinality(r.answer.page) <= (IF req.call.count = 0 THEN MaxPage ELSE req.call.count)

(* A route whose reply fits keeps the invariant. *)
LEMMA AnswerKeeps ==
  ASSUME ReplyInv, NEW n, NEW r, AnswerOf(n, r), Fits(r), PartRight(n, r)
  PROVE  ReplyInv'
<1>1. /\ total' = n /\ reply' = r /\ at' = "headers" /\ sent' = 0
      /\ UNCHANGED <<build, serverRuns, cache, asked, req, offer, stalled>>
  BY DEF AnswerOf, Answer
<1>2. ReplyFits'
  BY <1>1 DEF ReplyFits, Fits, HeadOnly, EventCall
<1>3. RangeIsRight'
  BY <1>1 DEF PartRight, RangeIsRight
<1>4. PagingGetsOn'
  BY <1>1 DEF PartRight, PagingGetsOn
<1> QED
  BY <1>1, <1>2, <1>3, <1>4
  DEF ReplyInv, RequestFits, CacheFits, Answering, KeptAliveIsFramed, PartsAreRight

(* The body and the headers' word on the connection *)
LEMMA BodyFits ==
  ASSUME NEW kind \in {"text", "file", "remote"}
  PROVE  (HeadOnly /\ Body(kind) = "none") \/ (~HeadOnly /\ Body(kind) = kind)
BY DEF Body

(* The handler returns, or the headers have said that it does not. *)
LEMMA SaysFits == Ends \/ Says = "keep-alive"
BY DEF Ends, Says

(* A part of an item *)
LEMMA RangedFits ==
  ASSUME ReplyInv, NEW n \in Nat, n > 0 \/ req.range.kind # "none", Satisfiable(req.range, n),
         NEW kind \in {"file", "remote"}, NEW ends, ends \/ req.keep
  PROVE  LET r == Ranged(req.range, n, Body(kind), ends) IN Fits(r) /\ PartRight(n, r)
<1> DEFINE r == Ranged(req.range, n, Body(kind), ends)
           h == req.range
<1>1. /\ RangeStart(h, n) \in Nat /\ RangeEnd(h, n) \in Nat /\ RangeStart(h, n) <= RangeEnd(h, n)
      /\ Wanted(h, n) = RangeStart(h, n) .. RangeEnd(h, n)
  BY RangeIsCut DEF ReplyInv, RequestFits
<1>2. /\ r.length = RangeEnd(h, n) - RangeStart(h, n) + 1 /\ r.from = RangeStart(h, n)
      /\ r.status \in {200, 206} /\ r.body = Body(kind) /\ r.says = Says /\ r.ends = ends
      /\ r.answer.matches = 0
  BY DEF Ranged, Reply, Faulted
<1> HIDE DEF r
<1>3. r.length \in Nat /\ r.length > 0 /\ r.from + r.length - 1 = RangeEnd(h, n)
  BY <1>1, <1>2
<1>4. Fits(r)
  BY <1>2, <1>3 DEF Fits, Body, Says
<1>5. PartRight(n, r)
  BY <1>1, <1>2, <1>3 DEF PartRight
<1> QED
  BY <1>4, <1>5 DEF r

(* A range that is refused *)
LEMMA RefusedFits ==
  ASSUME ReplyInv, NEW n \in Nat, ~Satisfiable(req.range, n)
  PROVE  Fits(Fixed(416)) /\ PartRight(n, Fixed(416))
BY RefusedIsEmpty DEF ReplyInv, RequestFits, Fits, PartRight, Fixed, Reply, Faulted

(* A file that is empty, asked for whole: the reply is a 200 without content. *)
LEMMA EmptyFits ==
  ASSUME ReplyInv, req.range.kind = "none"
  PROVE  LET r == Ranged(req.range, 0, Body("file"), Ends) IN Fits(r) /\ PartRight(0, r)
<1> DEFINE r == Ranged(req.range, 0, Body("file"), Ends)
           h == req.range
<1>1. RangeStart(h, 0) = 0 /\ RangeEnd(h, 0) = -1
  BY DEF RangeStart, RangeEnd
<1>2. /\ r.length = RangeEnd(h, 0) - RangeStart(h, 0) + 1 /\ r.from = RangeStart(h, 0)
      /\ r.status = 200 /\ r.body = Body("file") /\ r.says = Says /\ r.ends = Ends
      /\ r.answer.matches = 0
  BY DEF Ranged, Reply, Faulted
<1> HIDE DEF r
<1>3. r.length = 0
  BY <1>1, <1>2
<1>4. Fits(r)
  <2>1. r.ends \/ r.says = "keep-alive"
    BY <1>2, SaysFits
  <2> QED
    BY <1>2, <1>3, <2>1, BodyFits DEF Fits
<1>5. PartRight(0, r)
  BY <1>2 DEF PartRight
<1> QED
  BY <1>4, <1>5 DEF r

-----------------------------------------------------------------------------
(* The routes, one by one: each answers so that the invariant is kept.       *)
(* First a reply with neither a range nor results.                           *)
LEMMA PlainKeeps ==
  ASSUME ReplyInv, NEW n, NEW r, AnswerOf(n, r), Fits(r), r.status \notin {206, 416}, r.answer.matches = 0
  PROVE  ReplyInv'
<1>1. PartRight(n, r)
  BY DEF PartRight
<1> QED
  BY <1>1, AnswerKeeps

(* An error, after which the connection is closed *)
LEMMA FixedKeeps ==
  ASSUME ReplyInv, NEW n, NEW status \in {400, 403, 404, 502}, AnswerOf(n, Fixed(status))
  PROVE  ReplyInv'
<1> DEFINE r == Fixed(status)
<1>1. r.status = status /\ r.length = 0 /\ r.body = "none" /\ r.ends = TRUE /\ r.answer.matches = 0
  BY DEF Fixed, Reply, Faulted
<1>2. AnswerOf(n, r)
  OBVIOUS
<1> HIDE DEF r
<1>3. Fits(r)
  BY <1>1 DEF Fits
<1> QED
  BY <1>1, <1>2, <1>3, PlainKeeps

(* A body that is sent whole, the connection going on if it was asked to *)
LEMMA ServedKeeps ==
  ASSUME ReplyInv, NEW n, NEW length, NEW kind \in {"text", "file", "remote"}, kind = "file" => length \in Nat,
         AnswerOf(n, Reply(200, length, Body(kind), Says, Ends))
  PROVE  ReplyInv'
<1> DEFINE r == Reply(200, length, Body(kind), Says, Ends)
<1>1. r.status = 200 /\ r.length = length /\ r.body = Body(kind) /\ r.says = Says /\ r.answer.matches = 0
  BY DEF Reply, Faulted
<1>2. r.ends \/ r.says = "keep-alive"
  BY SaysFits DEF Reply
<1>3. AnswerOf(n, r)
  OBVIOUS
<1> HIDE DEF r
<1>4. Fits(r)
  BY <1>1, <1>2, BodyFits DEF Fits
<1> QED
  BY <1>1, <1>3, <1>4, PlainKeeps

(* One after which it is closed *)
LEMMA LastKeeps ==
  ASSUME ReplyInv, NEW n, NEW length, NEW kind \in {"text", "file", "remote"}, kind = "file" => length \in Nat,
         AnswerOf(n, Reply(200, length, Body(kind), "close", TRUE))
  PROVE  ReplyInv'
<1> DEFINE r == Reply(200, length, Body(kind), "close", TRUE)
<1>1. r.status = 200 /\ r.length = length /\ r.body = Body(kind) /\ r.ends /\ r.answer.matches = 0
  BY DEF Reply, Faulted
<1>2. AnswerOf(n, r)
  OBVIOUS
<1> HIDE DEF r
<1>3. Fits(r)
  BY <1>1, BodyFits DEF Fits
<1> QED
  BY <1>1, <1>2, <1>3, PlainKeeps

(* Texts, manifests and subscriptions *)
LEMMA TextKeeps ==
  ASSUME ReplyInv, RouteRefused \/ RouteText \/ RouteHls \/ RouteEvent
  PROVE  ReplyInv'
<1>1. CASE RouteRefused
  <2>1. AnswerOf(None, Fixed(400)) \/ AnswerOf(None, Fixed(404))
    BY <1>1 DEF RouteRefused
  <2> QED
    BY <2>1, FixedKeeps
<1>2. CASE RouteText
  <2>1. AnswerOf(None, Fixed(404)) \/ AnswerOf(None, Reply(200, 1, Body("text"), Says, Ends))
    BY <1>2 DEF RouteText
  <2> QED
    BY <2>1, FixedKeeps, ServedKeeps
<1>3. CASE RouteHls
  <2>1. AnswerOf(None, Fixed(502)) \/ AnswerOf(None, Reply(200, 1, Body("text"), Says, Ends))
    BY <1>3 DEF RouteHls
  <2> QED
    BY <2>1, FixedKeeps, ServedKeeps
<1>4. CASE RouteEvent
  <2>1. EventCall /\ AnswerOf(None, Reply(EventStatus(req), 0, "none", "close", Ends))
    BY <1>4 DEF RouteEvent, EventCall
  <2> DEFINE r == Reply(EventStatus(req), 0, "none", "close", Ends)
  <2>2. r.status \in {200, 404, 412} /\ r.length = 0 /\ r.body = "none" /\ r.answer.matches = 0
    BY DEF Reply, Faulted, EventStatus
  <2>3. AnswerOf(None, r)
    BY <2>1
  <2> HIDE DEF r
  <2>4. Fits(r)
    BY <2>1, <2>2 DEF Fits
  <2> QED
    BY <2>2, <2>3, <2>4, PlainKeeps
<1> QED
  BY <1>1, <1>2, <1>3, <1>4

(* Items of this machine *)
LEMMA FileKeeps ==
  ASSUME ReplyInv, RouteFile
  PROVE  ReplyInv'
<1>1. PICK n \in {None} \cup 0 .. MaxSize :
         AnswerOf(n, IF n = None THEN Fixed(404)
                     ELSE IF build = "posix" /\ n = 0 THEN Reply(200, 0, Body("file"), Says, Ends)
                     ELSE IF Satisfiable(req.range, n) THEN Ranged(req.range, n, Body("file"), Ends)
                     ELSE Fixed(416))
  BY DEF RouteFile
<1>2. CASE n = None
  BY <1>1, <1>2, FixedKeeps
<1>3. CASE n # None /\ build = "posix" /\ n = 0
  <2>1. AnswerOf(n, Reply(200, 0, Body("file"), Says, Ends))
    BY <1>1, <1>3
  <2> QED
    BY <2>1, ServedKeeps
<1>4. CASE n # None /\ ~(build = "posix" /\ n = 0) /\ Satisfiable(req.range, n)
  <2>1. AnswerOf(n, Ranged(req.range, n, Body("file"), Ends)) /\ n \in Nat
    BY <1>1, <1>4, ReplyAssumption DEF ReplyAssumption
  <2>2. CASE n > 0 \/ req.range.kind # "none"
    BY <1>4, <2>1, <2>2, RangedFits, AnswerKeeps DEF Ends
  <2>3. CASE n = 0 /\ req.range.kind = "none"
    BY <2>1, <2>3, EmptyFits, AnswerKeeps
  <2> QED
    BY <2>1, <2>2, <2>3
<1>5. CASE n # None /\ ~(build = "posix" /\ n = 0) /\ ~Satisfiable(req.range, n)
  <2>1. AnswerOf(n, Fixed(416)) /\ n \in Nat
    BY <1>1, <1>5, ReplyAssumption DEF ReplyAssumption
  <2> QED
    BY <1>5, <2>1, RefusedFits, AnswerKeeps
<1> QED
  BY <1>1, <1>2, <1>3, <1>4, <1>5

(* Items elsewhere *)
LEMMA RemoteKeeps ==
  ASSUME ReplyInv, RouteRemote
  PROVE  ReplyInv'
<1> DEFINE ends == Ends \/ (HeadOnly /\ build = "windows")
<1>1. PICK n \in KnownSizes :
         AnswerOf(n, IF n = 0 THEN Reply(200, IF req.detail = "SEC_HHP_" THEN MaxSize + 1 ELSE None,
                                         Body("remote"), Says, ends)
                     ELSE IF Satisfiable(req.range, n) THEN Ranged(req.range, n, Body("remote"), ends)
                     ELSE Fixed(416))
  BY DEF RouteRemote
<1>2. n \in Nat
  BY <1>1, ReplyAssumption DEF ReplyAssumption, KnownSizes, ReplyInv, CacheFits
<1>3. CASE n = 0
  <2> DEFINE r == Reply(200, IF req.detail = "SEC_HHP_" THEN MaxSize + 1 ELSE None,
                        Body("remote"), Says, ends)
  <2>1. r.status = 200 /\ r.body = Body("remote") /\ r.says = Says /\ r.answer.matches = 0
    BY DEF Reply, Faulted
  <2>2. r.ends \/ r.says = "keep-alive"
    BY SaysFits DEF Reply
  <2>3. AnswerOf(n, r)
    BY <1>1, <1>3
  <2> HIDE DEF r
  <2>4. Fits(r)
    BY <2>1, <2>2, BodyFits DEF Fits
  <2> QED
    BY <2>1, <2>3, <2>4, PlainKeeps
<1>4. CASE n # 0 /\ Satisfiable(req.range, n)
  <2>1. AnswerOf(n, Ranged(req.range, n, Body("remote"), ends))
    BY <1>1, <1>4
  <2>2. n > 0 /\ (ends \/ req.keep)
    BY <1>2, <1>4 DEF Ends
  <2> QED
    BY <1>2, <1>4, <2>1, <2>2, RangedFits, AnswerKeeps
<1>5. CASE n # 0 /\ ~Satisfiable(req.range, n)
  BY <1>1, <1>2, <1>5, RefusedFits, AnswerKeeps
<1> QED
  BY <1>3, <1>4, <1>5

(* Subtitles and art *)
LEMMA AsideKeeps ==
  ASSUME ReplyInv, RouteAside \/ RouteRemoteSubtitle
  PROVE  ReplyInv'
<1>1. CASE RouteAside
  <2>1. PICK n \in {None} \cup 0 .. MaxSize :
          AnswerOf(n, IF n # None THEN Reply(200, n, Body("file"), "close", TRUE) ELSE Fixed(404))
    BY <1>1 DEF RouteAside
  <2>2. CASE n = None
    BY <2>1, <2>2, FixedKeeps
  <2>3. CASE n # None
    <3>1. AnswerOf(n, Reply(200, n, Body("file"), "close", TRUE))
      BY <2>1, <2>3, Zenon
    <3>2. n \in Nat
      BY <2>3, ReplyAssumption DEF ReplyAssumption
    <3> QED
      BY <3>1, <3>2, LastKeeps, ZenonT(60)
  <2> QED
    BY <2>2, <2>3
<1>2. CASE RouteRemoteSubtitle
  <2>1. CASE There
    <3>1. PICK n \in KnownSizes :
            AnswerOf(n, Reply(200, IF n > 0 THEN n ELSE None, Body("remote"), "close", TRUE))
      BY <1>2, <2>1 DEF RouteRemoteSubtitle
    <3> DEFINE length == IF n > 0 THEN n ELSE None
    <3>2. AnswerOf(n, Reply(200, length, Body("remote"), "close", TRUE))
      BY <3>1
    <3> HIDE DEF length
    <3> QED
      BY <3>2, LastKeeps, ZenonT(60)
  <2>2. CASE ~There
    <3>1. AnswerOf(None, Fixed(404))
      BY <1>2, <2>2 DEF RouteRemoteSubtitle
    <3> QED
      BY <3>1, FixedKeeps
  <2> QED
    BY <2>1, <2>2
<1> QED
  BY <1>1, <1>2

(* Control calls *)
LEMMA ControlKeeps ==
  ASSUME ReplyInv, RouteControl
  PROVE  ReplyInv'
<1>1. CASE req.detail # "ok"
  <2>1. AnswerOf(None, Fixed(400))
    BY <1>1 DEF RouteControl
  <2> QED
    BY <2>1, FixedKeeps
<1>2. CASE req.detail = "ok"
  <2>1. PICK n \in 0 .. MaxSize :
          \E ready \in BOOLEAN :
             AnswerOf(n, [Reply(200, 1, "text", Says, Ends) EXCEPT !.answer = ControlAnswer(n, ready)])
    BY <1>2 DEF RouteControl
  <2>2. PICK ready \in BOOLEAN :
          AnswerOf(n, [Reply(200, 1, "text", Says, Ends) EXCEPT !.answer = ControlAnswer(n, ready)])
    BY <2>1
  <2> DEFINE r == [Reply(200, 1, "text", Says, Ends) EXCEPT !.answer = ControlAnswer(n, ready)]
  <2>3. r.status = 200 /\ r.length = 1 /\ r.body = "text" /\ r.says = Says /\ r.ends = Ends
        /\ r.answer = ControlAnswer(n, ready)
    BY DEF Reply
  <2>4. ~HeadOnly /\ n \in Nat
    BY ReplyAssumption DEF ReplyAssumption, RouteControl, HeadOnly
  <2> HIDE DEF r
  <2>5. Fits(r)
    BY <2>3, <2>4 DEF Fits, Says, Ends
  <2>6. CASE ControlAnswer(n, ready).matches = 0
    <3>1. AnswerOf(n, r) /\ r.answer.matches = 0 /\ r.status \notin {206, 416}
      <4>1. AnswerOf(n, r)
        BY <2>2 DEF r
      <4> QED
        BY <2>3, <2>6, <4>1
    <3> QED
      BY <2>5, <3>1, PlainKeeps
  <2>7. CASE ControlAnswer(n, ready).matches # 0
    <3> DEFINE c == req.call
    <3>1. /\ c \in CDCall /\ ContentDirectoryFault(c, ready) = 0 /\ c.action \in {"Browse", "Search"}
          /\ ControlAnswer(n, ready) = Answered(c, n)
      <4>1. CASE req.target = "ContentDirectory"
        BY <1>2, <2>7, <4>1 DEF ControlAnswer, Faulted, ReplyInv, RequestFits
      <4>2. CASE req.target = "ConnectionManager"
        <5>1. c.action \notin {"Browse", "Search"}
          BY <1>2, <4>2 DEF ReplyInv, RequestFits, CMCall, CallOf
        <5> QED
          BY <2>7, <4>2, <5>1 DEF ControlAnswer, Faulted
      <4> QED
        BY <4>1, <4>2 DEF RouteControl
    <3>2. c.start \in Nat /\ c.count \in Nat
      BY <3>1, AnsweredHasNumbers
    <3>3. Results(c, n) \in Nat
      BY <2>4 DEF Results
    <3>4. r.answer.matches = Results(c, n) /\ r.answer.page = Page(Results(c, n), c.start, c.count)
      BY <2>3, <3>1 DEF Answered
    <3>5. PartRight(n, r)
      BY <2>3, <3>2, <3>3, <3>4, PageLeadsOn, SMTT(60) DEF PartRight
    <3> QED
      BY <2>2, <2>5, <3>5, AnswerKeeps DEF r
  <2> QED
    BY <2>6, <2>7
<1> QED
  BY <1>1, <1>2

-----------------------------------------------------------------------------
(* The steps between one request and the next. *)
Local == Admit \/ Loop \/ TakeRequest \/ ReadFails \/ Probe \/ Stop \/ Expires

(* They keep the invariant. *)
LEMMA LocalKeeps ==
  ASSUME ReplyInv, Local
  PROVE  ReplyInv'
<1> USE DEF ReplyInv, Answering, KeptAliveIsFramed, PartsAreRight, RangeIsRight, PagingGetsOn,
            RequestFits, CacheFits, request
<1>1. CASE Admit
  BY <1>1 DEF Admit
<1>2. CASE Loop
  BY <1>2, ReplyAssumption DEF Loop, NoRequest, RangeHeader
<1>3. CASE TakeRequest
  <2>1. req' \in Request
    BY <1>3 DEF TakeRequest
  <2>2. RequestFits'
    <3>1. req'.range \in RangeHeader
      BY <2>1, ReplyAssumption DEF Request, Asks, RangeHeader
    <3>2. req'.target = "ContentDirectory" /\ req'.detail = "ok" => req'.call \in CDCall
      BY <2>1 DEF Request, Asks, Target, Text
    <3>3. req'.target = "ConnectionManager" /\ req'.detail = "ok" => req'.call \in CMCall
      BY <2>1 DEF Request, Asks, Target, Text
    <3> QED
      BY <3>1, <3>2, <3>3
  <2> QED
    BY <1>3, <2>2 DEF TakeRequest
<1>4. CASE ReadFails
  BY <1>4 DEF ReadFails
<1>5. CASE Probe
  BY <1>5 DEF Probe, ReplyFits, HeadOnly, EventCall
<1>6. CASE Stop
  BY <1>6 DEF Stop, ReplyFits, HeadOnly, EventCall, BodySent
<1>7. CASE Expires
  BY <1>7 DEF Expires, ReplyFits, HeadOnly, EventCall, BodySent
<1> QED
  BY <1>1, <1>2, <1>3, <1>4, <1>5, <1>6, <1>7 DEF Local

(* The steps that send: the reply at hand stays what it is. *)
Sending == SendHeaders \/ SendFile \/ SendRemote \/ RemoteFails \/ Done

(* They keep the invariant. *)
LEMMA SendingKeeps ==
  ASSUME ReplyInv, Sending
  PROVE  ReplyInv'
<1>1. ReplyFits /\ req' = req /\ reply' = reply /\ total' = total /\ cache' = cache /\ asked' = asked
  BY DEF ReplyInv, Answering, Sending, SendHeaders, SendFile, SendRemote, RemoteFails, Done,
     StepTo, FileFails
<1>2. RequestFits' /\ CacheFits' /\ ReplyFits'
  BY <1>1 DEF ReplyInv, RequestFits, CacheFits, ReplyFits, HeadOnly, EventCall
<1>3. at' \in {"file", "remote", "done", "closed", "loop"}
  BY DEF Sending, SendHeaders, SendFile, SendRemote, RemoteFails, Done, StepTo, FileFails
<1>4. PartsAreRight'
  BY <1>3 DEF PartsAreRight, RangeIsRight, PagingGetsOn
<1>5. CASE SendHeaders
  <2>1. at' = (IF reply.body \in {"file", "remote"} THEN reply.body ELSE "done")
    BY <1>5 DEF SendHeaders, StepTo
  <2>2. ~stalled' => sent' = IF reply.body = "text" THEN reply.length ELSE 0
    BY <1>5 DEF SendHeaders, Sends
  <2>3. reply.body = "file" => sent' = 0
    BY <1>5 DEF SendHeaders, Sends
  <2>4. at' = "done" /\ ~stalled' => BodySent'
    BY <1>1, <2>1, <2>2 DEF BodySent, ReplyFits, HeadOnly
  <2>5. at' = "file" => reply'.body = "file" /\ sent' \in Nat /\ sent' <= reply'.length
    BY <1>1, <2>1, <2>3 DEF ReplyFits
  <2> QED
    BY <1>1, <1>2, <1>4, <2>1, <2>4, <2>5 DEF ReplyInv, KeptAliveIsFramed, ReplyFits
<1>6. CASE SendFile
  <2>1. at = "file" /\ reply.body = "file" /\ sent \in Nat /\ sent <= reply.length /\ reply.length \in Nat
    BY <1>1, <1>6 DEF SendFile, ReplyInv, ReplyFits
  <2>2. at' = "file" => sent' \in Nat /\ sent' <= reply.length
    BY <1>6, <2>1, ReplyAssumption DEF SendFile, StepTo, FileFails, Smaller, ReplyAssumption
  <2>3. at' = "done" => sent' = reply.length
    BY <1>6 DEF SendFile, StepTo, FileFails
  <2>4. at' \in {"file", "done", "closed"}
    BY <1>6 DEF SendFile, StepTo, FileFails
  <2>5. at' = "done" => BodySent'
    BY <1>1, <2>1, <2>3 DEF BodySent, ReplyFits, HeadOnly
  <2> QED
    BY <1>1, <1>2, <1>4, <2>1, <2>2, <2>4, <2>5 DEF ReplyInv, KeptAliveIsFramed
<1>7. CASE SendRemote
  <2>1. at = "remote" /\ reply.body = "remote" /\ at' \in {"remote", "closed", "done"}
    BY <1>7 DEF SendRemote, StepTo, ReplyInv
  <2>2. at' = "done" => sent' = offer' /\ sent' = sent
    BY <1>7 DEF SendRemote, StepTo
  <2>3. at' = "done" => BodySent'
    BY <1>1, <2>1, <2>2 DEF BodySent, ReplyFits, HeadOnly
  <2> QED
    BY <1>1, <1>2, <1>4, <2>1, <2>3 DEF ReplyInv, KeptAliveIsFramed
<1>8. CASE RemoteFails
  BY <1>1, <1>2, <1>4, <1>8 DEF RemoteFails, StepTo, ReplyInv, KeptAliveIsFramed
<1>9. CASE Done
  <2>1. at' = "loop" => ~reply.ends
    BY <1>9 DEF Done, StepTo
  <2>2. at' \in {"loop", "closed"} /\ (~stalled' => BodySent')
    BY <1>1, <1>9 DEF Done, StepTo, ReplyInv, BodySent, HeadOnly
  <2>3. KeptAliveIsFramed'
    BY <1>1, <2>1, <2>2 DEF KeptAliveIsFramed, ReplyFits, EventCall, BodySent
  <2> QED
    BY <1>1, <1>2, <1>4, <2>2, <2>3 DEF ReplyInv
<1> QED
  BY <1>5, <1>6, <1>7, <1>8, <1>9 DEF Sending

-----------------------------------------------------------------------------
(* The connection is accepted with nothing asked. *)
LEMMA ReplyInitHolds == ReplyInit => ReplyInv
<1> SUFFICES ASSUME ReplyInit PROVE ReplyInv
  OBVIOUS
<1>1. req = NoRequest /\ cache = None /\ at = "accepted" /\ asked = 0
  BY DEF ReplyInit
<1>2. req.range \in RangeHeader /\ req.target = "none"
  BY <1>1 DEF NoRequest, RangeHeader
<1> QED
  BY <1>1, <1>2 DEF ReplyInv, RequestFits, CacheFits, Answering, KeptAliveIsFramed,
     PartsAreRight, RangeIsRight, PagingGetsOn

(* Every step keeps the invariant. *)
LEMMA ReplyStepKeeps == ReplyInv /\ [ReplyNext]_replyVars => ReplyInv'
<1> SUFFICES ASSUME ReplyInv, [ReplyNext]_replyVars PROVE ReplyInv'
  OBVIOUS
<1>1. CASE UNCHANGED replyVars
  BY <1>1 DEF replyVars, request, ReplyInv, RequestFits, CacheFits, Answering, ReplyFits,
     HeadOnly, EventCall,
     BodySent, KeptAliveIsFramed, PartsAreRight, RangeIsRight, PagingGetsOn
<1>2. CASE ReplyNext
  BY <1>2, LocalKeeps, SendingKeeps, TextKeeps, FileKeeps, RemoteKeeps, AsideKeeps, ControlKeeps
  DEF ReplyNext, Handler, Local, Sending
<1> QED
  BY <1>1, <1>2

(* In every state of a connection's life the invariant holds. *)
THEOREM ReplyInvHolds == ReplySpec => []ReplyInv
BY ReplyInitHolds, ReplyStepKeeps, PTL DEF ReplySpec

(* HandleClient sends the part of an item that was asked for, whatever the  *)
(* size and the range, and a page of results that leads on to the next.     *)
THEOREM PartsAreTheRightOnes == ReplySpec => []PartsAreRight
<1>1. ReplyInv => PartsAreRight
  BY DEF ReplyInv
<1> QED
  BY <1>1, ReplyInvHolds, PTL

(* HandleClient goes on to the next request only after the bytes it said it *)
(* would send, on a connection it said it would keep.                       *)
THEOREM KeptIsFramed == ReplySpec => []KeptAliveIsFramed
<1>1. ReplyInv => KeptAliveIsFramed
  BY DEF ReplyInv
<1> QED
  BY <1>1, ReplyInvHolds, PTL

=============================================================================
