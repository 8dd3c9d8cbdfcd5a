------------------------------ MODULE Ssdp_proof ------------------------------
(***************************************************************************)
(* What is proved of Ssdp for every set of endpoints, families and         *)
(* searches and every number of bursts: a stopped service has no thread,   *)
(* no round and no socket left; a byebye is followed by three rounds of    *)
(* alive messages at most; the queue holds no two replies for one control  *)
(* point; and the service implements the Advertiser.                       *)
(***************************************************************************)
EXTENDS Ssdp, FiniteSetTheorems, WellFoundedInduction, TLAPS

(* The types of what the proofs look at. *)
Types ==
  /\ stage \in {"idle", "starting", "flush", "byebye", "joinWorker", "joinResponder", "joinBurst"}
  /\ running \in BOOLEAN
  /\ endpoints \subseteq Endpoint
  /\ sock \in [Family -> {"none", "open", "shut"}]
  /\ worker \in {"none", "select", "receive"}
  /\ responder \in {"none", "check", "dozing", "asleep", "timed", "send"}
  /\ burst \in [at : {"none", "wait", "first", "second"}, left : Nat]
  /\ todo \in [Announcer -> SUBSET Endpoint]
  /\ undone \in [Endpoint -> Nat]

(* m_running follows the call: a start sets it last, a stop resets it      *)
(* between the flush and the byebye.                                       *)
RunningFollows ==
  /\ stage = "starting" => ~running
  /\ stage = "flush" => running
  /\ stage \in {"byebye", "joinWorker", "joinResponder", "joinBurst"} => ~running

(* A NOTIFY round belongs to a thread that is there, or to the Stop that   *)
(* says byebye.                                                            *)
RoundsAreOwned ==
  /\ worker = "none" => todo["worker"] = {}
  /\ burst.at \in {"none", "wait"} => todo["burst"] = {}
  /\ stage # "byebye" => todo["caller"] = {}

(* A thread that was joined is gone until the next start. *)
JoinedIsGone ==
  /\ stage \in {"joinResponder", "joinBurst"} => worker = "none"
  /\ stage = "joinBurst" => responder = "none"

(* The rounds of alive messages for e that may still come. *)
Due1(e, t) == IF e \in todo[t] THEN 1 ELSE 0
ToCome(e) ==
  Due1(e, "worker") + (CASE burst.at = "first" -> 1 + Due1(e, "burst")
                         [] burst.at = "second" -> Due1(e, "burst")
                         [] OTHER -> 0)

(* Those that came after the byebye and those that may still come are      *)
(* three at most.                                                          *)
RoundsAreCounted ==
  \A e \in Endpoint : undone[e] <= 3 /\ (stage = "byebye" => undone[e] + ToCome(e) <= 3)

Inv ==
  /\ Types /\ RunningFollows /\ StoppedIsQuiet
  /\ RoundsAreOwned /\ JoinedIsGone /\ RoundsAreCounted

-----------------------------------------------------------------------------
(* The invariant holds before the first start. *)
LEMMA InvInit == Init => Inv
<1> SUFFICES ASSUME Init PROVE Inv
  OBVIOUS
<1> USE DEF Init
<1>1. Types
  BY DEF Types
<1>2. RunningFollows /\ StoppedIsQuiet /\ JoinedIsGone
  BY DEF RunningFollows, StoppedIsQuiet, JoinedIsGone
<1>3. RoundsAreOwned
  BY DEF RoundsAreOwned, Announcer
<1>4. RoundsAreCounted
  BY DEF RoundsAreCounted
<1> QED
  BY <1>1, <1>2, <1>3, <1>4 DEF Inv

-----------------------------------------------------------------------------
(* A thread or the Stop sends its round to one more endpoint. *)
LEMMA AnnounceKeeps ==
  ASSUME Inv, NEW t \in Announcer, Announce(t)
  PROVE  Inv'
<1> USE DEF Inv, Announce, life, answers
<1>0. PICK e \in todo[t] : Announce(t)!(e)
  OBVIOUS
<1>1. todo[t] \subseteq Endpoint /\ t \in {"worker", "burst", "caller"}
  BY DEF Types, Announcer
<1>2. todo' = [todo EXCEPT ![t] = @ \ {e}]
  BY <1>0
<1>3. Types'
  BY <1>0, <1>1 DEF Types
<1>4. RunningFollows' /\ StoppedIsQuiet' /\ JoinedIsGone' /\ RoundsAreOwned'
  BY <1>0, <1>1 DEF RunningFollows, StoppedIsQuiet, JoinedIsGone, RoundsAreOwned, Types,
     Announcer
<1>5. ASSUME NEW f \in Endpoint
      PROVE  undone'[f] <= 3 /\ (stage' = "byebye" => undone'[f] + ToCome(f)' <= 3)
  <2>1. undone[f] <= 3 /\ (stage = "byebye" => undone[f] + ToCome(f) <= 3) /\ undone[f] \in Nat
    BY DEF RoundsAreCounted, Types
  <2>2. CASE f = e /\ t # "caller" /\ stage = "byebye"
    <3>1. undone'[f] \in {undone[f], undone[f] + 1}
      BY <1>0, <2>2 DEF Types
    <3>2. t = "burst" => burst.at \in {"first", "second"}
      BY <1>1, <2>2 DEF RoundsAreOwned, Types
    <3>3. ToCome(f)' = ToCome(f) - 1
      BY <1>0, <1>1, <2>2, <3>2 DEF ToCome, Due1, Types, Announcer
    <3> QED
      BY <1>0, <2>1, <2>2, <3>1, <3>3 DEF ToCome, Due1
  <2>3. CASE ~(f = e /\ t # "caller" /\ stage = "byebye")
    <3>1. undone'[f] = undone[f] /\ stage' = stage
      BY <1>0, <2>3 DEF Types
    <3>2. stage = "byebye" => ToCome(f)' = ToCome(f)
      BY <1>0, <1>1, <2>3 DEF ToCome, Due1, Types, Announcer
    <3> QED
      BY <2>1, <3>1, <3>2
  <2> QED
    BY <2>2, <2>3
<1> QED
  BY <1>3, <1>4, <1>5 DEF RoundsAreCounted

(* The calls of Start and Stop keep the invariant. *)
LEMMA CallKeeps ==
  ASSUME Inv,
         \/ \E E \in SUBSET Endpoint : CallStart(E)
         \/ Opening \/ CallStop \/ StopFlushes \/ StopSaysByebye
         \/ StopShutsDown \/ StopJoins \/ StopCloses
  PROVE  Inv'
<1> USE DEF Inv
<1>1. CASE \E E \in SUBSET Endpoint : CallStart(E)
  <2>1. Types'
    BY <1>1 DEF CallStart, Types
  <2>2. RunningFollows' /\ StoppedIsQuiet' /\ JoinedIsGone' /\ RoundsAreOwned'
    BY <1>1 DEF CallStart, RunningFollows, StoppedIsQuiet, JoinedIsGone, RoundsAreOwned,
      Types, Announcer
  <2>3. RoundsAreCounted'
    BY <1>1 DEF CallStart, RoundsAreCounted, ToCome, Due1, Types, Announcer, RunningFollows
  <2> QED
    BY <2>1, <2>2, <2>3
<1>2. CASE Opening
  <2>0. stage = "starting" /\ \E opened \in SUBSET Family : Launch(opened) \/ StartFails
    BY <1>2 DEF Opening, StartPosix, StartWindows
  <2>1. CASE StartFails
    BY <2>0, <2>1 DEF StartFails, Types, RunningFollows, StoppedIsQuiet, JoinedIsGone,
      RoundsAreOwned,
      RoundsAreCounted
  <2>2. ASSUME NEW opened \in SUBSET Family, Launch(opened)
        PROVE  Inv'
    <3>1. burst' \in [at : {"none", "wait", "first", "second"}, left : Nat]
      BY <2>2, SsdpAssumption DEF Launch
    <3>2. Types'
      BY <2>2, <3>1 DEF Launch, Types
    <3>3. RunningFollows' /\ StoppedIsQuiet' /\ JoinedIsGone' /\ RoundsAreOwned'
      BY <2>0, <2>2 DEF Launch, RunningFollows, StoppedIsQuiet, JoinedIsGone,
        RoundsAreOwned, Types, Announcer
    <3>4. RoundsAreCounted'
      BY <2>2 DEF Launch, RoundsAreCounted
    <3> QED
      BY <3>2, <3>3, <3>4
  <2> QED
    BY <2>0, <2>1, <2>2
<1>3. CASE CallStop
  <2>1. Types'
    BY <1>3 DEF CallStop, Types
  <2>2. RunningFollows' /\ StoppedIsQuiet' /\ JoinedIsGone' /\ RoundsAreOwned'
    BY <1>3 DEF CallStop, RunningFollows, StoppedIsQuiet, JoinedIsGone, RoundsAreOwned,
      Types, Announcer
  <2>3. RoundsAreCounted'
    BY <1>3 DEF CallStop, RoundsAreCounted, ToCome, Due1, Types, Announcer, RunningFollows
  <2> QED
    BY <2>1, <2>2, <2>3
<1>4. CASE StopFlushes
  <2>1. Types'
    BY <1>4 DEF StopFlushes, life, Types
  <2>2. RunningFollows' /\ StoppedIsQuiet' /\ JoinedIsGone' /\ RoundsAreOwned'
    BY <1>4 DEF StopFlushes, life, RunningFollows, StoppedIsQuiet, JoinedIsGone,
      RoundsAreOwned, Types, Announcer
  <2>3. RoundsAreCounted'
    BY <1>4 DEF StopFlushes, life, RoundsAreCounted, ToCome, Due1, Types, Announcer,
       RunningFollows
  <2> QED
    BY <2>1, <2>2, <2>3
<1>5. CASE StopSaysByebye
  <2>1. Types'
    BY <1>5 DEF StopSaysByebye, Round, answers, Types, Announcer
  <2>2. RunningFollows' /\ StoppedIsQuiet' /\ JoinedIsGone' /\ RoundsAreOwned'
    BY <1>5 DEF StopSaysByebye, Round, answers, RunningFollows, StoppedIsQuiet,
      JoinedIsGone, RoundsAreOwned, Types, Announcer
  <2>3. RoundsAreCounted'
    BY <1>5 DEF StopSaysByebye, Round, answers, RoundsAreCounted, ToCome, Due1, Types,
      Announcer, RunningFollows
  <2> QED
    BY <2>1, <2>2, <2>3
<1>6. CASE StopShutsDown
  <2>1. Types'
    BY <1>6 DEF StopShutsDown, NotifyOne, Types
  <2>2. RunningFollows' /\ StoppedIsQuiet' /\ JoinedIsGone' /\ RoundsAreOwned'
    BY <1>6 DEF StopShutsDown, NotifyOne, RunningFollows, StoppedIsQuiet, JoinedIsGone,
      RoundsAreOwned, Types, Announcer
  <2>3. RoundsAreCounted'
    BY <1>6 DEF StopShutsDown, NotifyOne, RoundsAreCounted, ToCome, Due1, Types, Announcer,
      RunningFollows
  <2> QED
    BY <2>1, <2>2, <2>3
<1>7. CASE StopJoins
  <2>1. Types'
    BY <1>7 DEF StopJoins, WorkerJoined, ResponderJoined, answers, Types
  <2>2. RunningFollows' /\ StoppedIsQuiet' /\ JoinedIsGone' /\ RoundsAreOwned'
    BY <1>7 DEF StopJoins, WorkerJoined, ResponderJoined, answers, RunningFollows,
      StoppedIsQuiet, JoinedIsGone, RoundsAreOwned, Types, Announcer
  <2>3. RoundsAreCounted'
    BY <1>7 DEF StopJoins, WorkerJoined, ResponderJoined, answers, RoundsAreCounted, ToCome,
      Due1, Types, Announcer, RunningFollows
  <2> QED
    BY <2>1, <2>2, <2>3
<1>8. CASE StopCloses
  <2>1. Types'
    BY <1>8 DEF StopCloses, BurstJoined, Types
  <2>2. RunningFollows' /\ StoppedIsQuiet' /\ JoinedIsGone' /\ RoundsAreOwned'
    BY <1>8 DEF StopCloses, BurstJoined, RunningFollows, StoppedIsQuiet, JoinedIsGone,
      RoundsAreOwned, Types, Announcer
  <2>3. RoundsAreCounted'
    BY <1>8 DEF StopCloses, BurstJoined, RoundsAreCounted, ToCome, Due1, Types, Announcer,
      RunningFollows
  <2> QED
    BY <2>1, <2>2, <2>3
<1> QED
  BY <1>1, <1>2, <1>3, <1>4, <1>5, <1>6, <1>7, <1>8 

(* So do the steps of the threads. *)
LEMMA ThreadKeeps ==
  ASSUME Inv,
         \/ WorkerSelects \/ WorkerIgnores \/ WorkerLoops \/ WorkerAnswers
         \/ BurstBegins \/ BurstRepeats \/ BurstWaits
         \/ Responder \/ TimePasses
  PROVE  Inv'
<1> USE DEF Inv, life, answers
<1>1. CASE WorkerSelects
  <2>1. Types'
    BY <1>1 DEF WorkerSelects, Quits, Round, Types, Announcer
  <2>2. RunningFollows' /\ StoppedIsQuiet' /\ JoinedIsGone' /\ RoundsAreOwned'
    BY <1>1 DEF WorkerSelects, Quits, Round, RunningFollows, StoppedIsQuiet, JoinedIsGone,
      RoundsAreOwned, Types, Announcer
  <2>3. RoundsAreCounted'
    BY <1>1 DEF WorkerSelects, Quits, Round, RoundsAreCounted, ToCome, Due1, Types,
      Announcer, RunningFollows
  <2> QED
    BY <2>1, <2>2, <2>3
<1>2. CASE WorkerIgnores \/ WorkerLoops
  <2>1. Types'
    BY <1>2 DEF WorkerIgnores, WorkerLoops, Types
  <2>2. RunningFollows' /\ StoppedIsQuiet' /\ JoinedIsGone' /\ RoundsAreOwned'
    BY <1>2 DEF WorkerIgnores, WorkerLoops, RunningFollows, StoppedIsQuiet, JoinedIsGone,
      RoundsAreOwned, Types, Announcer
  <2>3. RoundsAreCounted'
    BY <1>2 DEF WorkerIgnores, WorkerLoops, RoundsAreCounted, ToCome, Due1, Types,
      Announcer, RunningFollows
  <2> QED
    BY <2>1, <2>2, <2>3
<1>3. CASE WorkerAnswers
  <2>1. Types'
    BY <1>3 DEF WorkerAnswers, NotifyOne, Types
  <2>2. RunningFollows' /\ StoppedIsQuiet' /\ JoinedIsGone' /\ RoundsAreOwned'
    BY <1>3 DEF WorkerAnswers, NotifyOne, RunningFollows, StoppedIsQuiet, JoinedIsGone,
      RoundsAreOwned, Types, Announcer
  <2>3. RoundsAreCounted'
    BY <1>3 DEF WorkerAnswers, NotifyOne, RoundsAreCounted, ToCome, Due1, Types, Announcer,
      RunningFollows
  <2> QED
    BY <2>1, <2>2, <2>3
<1>4. CASE BurstBegins
  <2>1. Types'
    BY <1>4 DEF BurstBegins, Round, Types, Announcer
  <2>2. RunningFollows' /\ StoppedIsQuiet' /\ JoinedIsGone' /\ RoundsAreOwned'
    BY <1>4 DEF BurstBegins, Round, RunningFollows, StoppedIsQuiet, JoinedIsGone,
      RoundsAreOwned, Types, Announcer
  <2>3. RoundsAreCounted'
    BY <1>4 DEF BurstBegins, Round, RoundsAreCounted, ToCome, Due1, Types, Announcer,
       RunningFollows
  <2> QED
    BY <2>1, <2>2, <2>3
<1>5. CASE BurstRepeats
  <2>1. Types'
    BY <1>5 DEF BurstRepeats, Round, Types, Announcer
  <2>2. RunningFollows' /\ StoppedIsQuiet' /\ JoinedIsGone' /\ RoundsAreOwned'
    BY <1>5 DEF BurstRepeats, Round, RunningFollows, StoppedIsQuiet, JoinedIsGone,
      RoundsAreOwned, Types, Announcer
  <2>3. RoundsAreCounted'
    BY <1>5 DEF BurstRepeats, Round, RoundsAreCounted, ToCome, Due1, Types, Announcer,
      RunningFollows
  <2> QED
    BY <2>1, <2>2, <2>3
<1>6. CASE BurstWaits
  <2>1. Types'
    BY <1>6 DEF BurstWaits, Types
  <2>2. RunningFollows' /\ StoppedIsQuiet' /\ JoinedIsGone' /\ RoundsAreOwned'
    BY <1>6 DEF BurstWaits, RunningFollows, StoppedIsQuiet, JoinedIsGone, RoundsAreOwned,
      Types, Announcer
  <2>3. RoundsAreCounted'
    BY <1>6 DEF BurstWaits, RoundsAreCounted, ToCome, Due1, Types, Announcer, RunningFollows
  <2> QED
    BY <2>1, <2>2, <2>3
<1>7. CASE Responder
  <2>1. Types'
    BY <1>7 DEF Responder, ResponderChecks, ResponderSleeps, ResponderWakes, ResponderSends,
       Types
  <2>2. RunningFollows' /\ StoppedIsQuiet' /\ JoinedIsGone' /\ RoundsAreOwned'
    BY <1>7 DEF Responder, ResponderChecks, ResponderSleeps, ResponderWakes, ResponderSends,
      RunningFollows, StoppedIsQuiet, JoinedIsGone, RoundsAreOwned, Types, Announcer
  <2>3. RoundsAreCounted'
    BY <1>7 DEF Responder, ResponderChecks, ResponderSleeps, ResponderWakes, ResponderSends,
      RoundsAreCounted, ToCome, Due1, Types, Announcer, RunningFollows
  <2> QED
    BY <2>1, <2>2, <2>3
<1>8. CASE TimePasses
  <2>1. Types'
    BY <1>8 DEF TimePasses, Types
  <2>2. RunningFollows' /\ StoppedIsQuiet' /\ JoinedIsGone' /\ RoundsAreOwned'
    BY <1>8 DEF TimePasses, RunningFollows, StoppedIsQuiet, JoinedIsGone, RoundsAreOwned,
      Types, Announcer
  <2>3. RoundsAreCounted'
    BY <1>8 DEF TimePasses, RoundsAreCounted, ToCome, Due1, Types, Announcer, RunningFollows
  <2> QED
    BY <2>1, <2>2, <2>3
<1> QED
  BY <1>1, <1>2, <1>3, <1>4, <1>5, <1>6, <1>7, <1>8

(* Every step keeps the invariant. *)
LEMMA InvNext == Inv /\ [Next]_vars => Inv'
<1> SUFFICES ASSUME Inv, [Next]_vars PROVE Inv'
  OBVIOUS
<1>1. CASE UNCHANGED vars
  BY <1>1 DEF vars, Inv, Types, RunningFollows, StoppedIsQuiet, JoinedIsGone, RoundsAreOwned,
              RoundsAreCounted, ToCome, Due1
<1>2. CASE Next
  <2>1. CASE \E t \in Announcer : Announce(t)
    BY <2>1, AnnounceKeeps
  <2> QED
    BY <1>2, <2>1, CallKeeps, ThreadKeeps DEF Next, Stopping, Worker, Burst, Announcer
<1> QED
  BY <1>1, <1>2

(* The invariant holds in every state. *)
THEOREM InvHolds == Spec => []Inv
BY InvInit, InvNext, PTL DEF Spec

(* When no call is in progress and the service does not run, no thread, no *)
(* round and no socket of it is left, whatever Stop met.                   *)
THEOREM NothingIsLeft == Spec => []StoppedIsQuiet
BY InvHolds, PTL DEF Inv

(* A byebye is followed by three rounds of alive messages at most, for any *)
(* number of bursts and endpoints.                                         *)
THEOREM ByebyeHolds == Spec => []ByebyeSoonHolds
<1>1. Inv => ByebyeSoonHolds
  BY DEF Inv, RoundsAreCounted, ByebyeSoonHolds
<1> QED
  BY <1>1, InvHolds, PTL

-----------------------------------------------------------------------------
(* Every set of naturals that is not empty has a least element: there is   *)
(* no endless descent among the finite intervals.                          *)
LEMMA LeastNatural ==
  ASSUME NEW T \in SUBSET Nat, T # {}
  PROVE  \E x \in T : \A y \in T : x <= y
<1> DEFINE F == {0 .. n : n \in T}
<1>1. F \subseteq FiniteSubsetsOf(Nat) /\ F # {}
  <2>1. \A n \in Nat : IsFiniteSet(0 .. n) /\ 0 .. n \subseteq Nat
    BY FS_Interval
  <2> QED
    BY <2>1 DEF FiniteSubsetsOf
<1>2. PICK A \in F : \A B \in F : ~(<<B, A>> \in StrictSubsetOrdering(Nat))
  <2>1. IsWellFoundedOn(StrictSubsetOrdering(Nat), FiniteSubsetsOf(Nat))
    BY FS_StrictSubsetOrderingWellFounded
  <2> HIDE DEF F
  <2> QED
    BY <1>1, <2>1, WFMin
<1>3. PICK x \in T : A = 0 .. x
  OBVIOUS
<1>4. ASSUME NEW y \in T, y < x
      PROVE  FALSE
  <2>1. /\ 0 .. y \in F /\ 0 .. y \subseteq Nat /\ 0 .. x \subseteq Nat
        /\ 0 .. y \subseteq 0 .. x /\ 0 .. y # 0 .. x
    BY <1>4
  <2> HIDE DEF F
  <2> QED
    BY <1>2, <1>3, <2>1 DEF StrictSubsetOrdering
<1> QED
  BY <1>4

OneEach(q) == \A i, j \in DOMAIN q : q[i].for = q[j].for => i = j

(* A reply taken from the middle of a queue. *)
LEMMA DropFacts ==
  ASSUME NEW S, NEW q \in Seq(S), NEW i \in DOMAIN q
  PROVE  /\ Drop(q, i) \in Seq(S) /\ Len(Drop(q, i)) = Len(q) - 1
         /\ OneEach(q) => OneEach(Drop(q, i))
<1> DEFINE a == SubSeq(q, 1, i - 1)
           b == SubSeq(q, i + 1, Len(q))
           At(k) == IF k < i THEN k ELSE k + 1
<1>1. i \in 1 .. Len(q) /\ Len(q) \in Nat
  OBVIOUS
<1>2. a \in Seq(S) /\ Len(a) = i - 1 /\ \A k \in 1 .. i - 1 : a[k] = q[k]
  BY <1>1
<1>3. b \in Seq(S) /\ Len(b) = Len(q) - i /\ \A k \in 1 .. Len(q) - i : b[k] = q[i + k]
  BY <1>1
<1>4. Drop(q, i) = a \o b
  BY DEF Drop
<1> HIDE DEF a, b
<1>5. /\ Drop(q, i) \in Seq(S) /\ Len(Drop(q, i)) = Len(q) - 1
      /\ DOMAIN Drop(q, i) = 1 .. Len(q) - 1
  BY <1>1, <1>2, <1>3, <1>4
<1>6. ASSUME NEW k \in 1 .. Len(q) - 1
      PROVE  At(k) \in DOMAIN q /\ Drop(q, i)[k] = q[At(k)]
  <2>1. At(k) \in 1 .. Len(q)
    BY <1>1
  <2>2. CASE k < i
    <3>1. k \in 1 .. i - 1
      BY <1>1, <2>2
    <3>2. (a \o b)[k] = a[k]
      BY <1>2, <1>3, <3>1
    <3> QED
      BY <1>2, <1>4, <2>1, <2>2, <3>1, <3>2
  <2>3. CASE ~(k < i)
    <3>1. /\ k - (i - 1) \in 1 .. Len(q) - i /\ i + (k - (i - 1)) = k + 1
          /\ k \in 1 .. (i - 1) + (Len(q) - i) /\ ~(k <= i - 1)
      BY <1>1, <2>3
    <3>2. (a \o b)[k] = b[k - (i - 1)]
      <4>1. \A l \in 1 .. Len(a) + Len(b) : ~(l <= Len(a)) => (a \o b)[l] = b[l - Len(a)]
        <5>1. a \in Seq(S) /\ b \in Seq(S)
          BY <1>2, <1>3
        <5> QED
          BY <5>1
      <4> QED
        BY <1>2, <1>3, <3>1, <4>1
    <3> QED
      BY <1>3, <1>4, <2>1, <2>3, <3>1, <3>2
  <2> QED
    BY <2>2, <2>3
<1>7. ASSUME OneEach(q), NEW k \in 1 .. Len(q) - 1, NEW l \in 1 .. Len(q) - 1,
             Drop(q, i)[k].for = Drop(q, i)[l].for
      PROVE  k = l
  <2>1. At(k) = At(l)
    BY <1>6, <1>7 DEF OneEach
  <2> QED
    BY <1>1, <2>1
<1> QED
  BY <1>5, <1>7 DEF OneEach

(* CoalesceDelayedResponse: a queue with one more reply has no two for one *)
(* control point, and keeps to its limit.                                  *)
LEMMA QueuedKeeps ==
  ASSUME NEW r \in Reply, queue \in Seq(Reply), Len(queue) <= Cap, OneEach(queue)
  PROVE  Queued(r) \in Seq(Reply) /\ Len(Queued(r)) <= Cap /\ OneEach(Queued(r))
<1>1. CASE Same(r.for) # {}
  <2>1. Queued(r) = [i \in DOMAIN queue |-> IF i \in Same(r.for) THEN r ELSE queue[i]]
    BY <1>1 DEF Queued
  <2>2. /\ Queued(r) \in Seq(Reply) /\ Len(Queued(r)) = Len(queue) /\ DOMAIN Queued(r) = DOMAIN queue
        /\ \A i \in DOMAIN queue : Queued(r)[i] = IF i \in Same(r.for) THEN r ELSE queue[i]
    BY <2>1
  <2>3. \A i \in DOMAIN queue : Queued(r)[i].for = queue[i].for
    BY <2>2 DEF Same
  <2> QED
    BY <2>2, <2>3 DEF OneEach
<1>2. CASE Same(r.for) = {}
  <2>1. Queued(r) = Append(Room, r)
    BY <1>2 DEF Queued
  <2>2. /\ Room \in Seq(Reply) /\ Len(Room) < Cap /\ OneEach(Room)
        /\ \A i \in DOMAIN Room : Room[i].for # r.for
    <3>1. CASE Len(queue) >= Cap
      <4>1. /\ Room = Tail(queue) /\ Room \in Seq(Reply) /\ Len(Room) = Len(queue) - 1
            /\ DOMAIN Room = 1 .. Len(queue) - 1 /\ DOMAIN queue = 1 .. Len(queue)
            /\ \A i \in 1 .. Len(queue) - 1 : Room[i] = queue[i + 1] /\ i + 1 \in DOMAIN queue
        BY <3>1, SsdpAssumption DEF Room, SsdpAssumption
      <4>2. Len(Room) < Cap
        BY <4>1, SsdpAssumption DEF SsdpAssumption
      <4>3. ASSUME NEW i \in DOMAIN Room, NEW j \in DOMAIN Room, Room[i].for = Room[j].for PROVE i = j
        <5>1. i + 1 = j + 1
          BY <4>1, <4>3 DEF OneEach
        <5> QED
          BY <4>1, <5>1
      <4> QED
        BY <1>2, <4>1, <4>2, <4>3 DEF OneEach, Same
    <3>2. CASE ~(Len(queue) >= Cap)
      BY <1>2, <3>2, SsdpAssumption DEF Room, OneEach, Same, SsdpAssumption
    <3> QED
      BY <3>1, <3>2
  <2> HIDE DEF Room
  <2>3. /\ Queued(r) \in Seq(Reply) /\ Len(Queued(r)) = Len(Room) + 1
        /\ DOMAIN Queued(r) = 1 .. Len(Room) + 1 /\ DOMAIN Room = 1 .. Len(Room)
        /\ \A i \in 1 .. Len(Room) + 1 : Queued(r)[i] = IF i = Len(Room) + 1 THEN r ELSE Room[i]
    BY <2>1, <2>2
  <2>4. Len(Queued(r)) <= Cap
    BY <2>2, <2>3, SsdpAssumption DEF SsdpAssumption
  <2>5. ASSUME NEW i \in 1 .. Len(Room) + 1, NEW j \in 1 .. Len(Room) + 1, Queued(r)[i].for = Queued(r)[j].for
        PROVE  i = j
    BY <2>2, <2>3, <2>5 DEF OneEach
  <2> QED
    BY <2>3, <2>4, <2>5 DEF OneEach
<1> QED
  BY <1>1, <1>2

Upto(f, S, n) ==
  f = [i \in 0 .. n |-> IF i = 0 THEN <<>>
                        ELSE IF queue[i] \in S THEN Append(f[i - 1], queue[i]) ELSE f[i - 1]]

(* The replies of S among the first, the first two, and so on: what        *)
(* Passing(S) is the last of.                                              *)
LEMMA PassingIsDefined ==
  ASSUME NEW S, queue \in Seq(Reply)
  PROVE  \E f : Upto(f, S, Len(queue)) /\ Passing(S) = f[Len(queue)]
<1> DEFINE Bad == {n \in 0 .. Len(queue) : ~ \E f : Upto(f, S, n)}
<1>1. Bad = {}
  <2> SUFFICES ASSUME Bad # {} PROVE FALSE
    OBVIOUS
  <2>1. PICK n \in Bad : \A k \in Bad : n <= k
    <3>1. Bad \in SUBSET Nat
      OBVIOUS
    <3> HIDE DEF Bad
    <3> QED
      BY <3>1, LeastNatural
  <2>2. CASE n = 0
    <3>1. Upto([i \in 0 .. 0 |-> <<>>], S, 0)
      BY DEF Upto
    <3> QED
      BY <2>2, <3>1
  <2>3. CASE n # 0
    <3>1. n \in Nat /\ n - 1 \in 0 .. Len(queue) /\ n - 1 \notin Bad
      BY <2>1, <2>3
    <3>2. PICK f : Upto(f, S, n - 1)
      BY <3>1
    <3> DEFINE Step(x, i) == IF queue[i] \in S THEN Append(x, queue[i]) ELSE x
    <3> DEFINE g == [i \in 0 .. n |-> IF i = n THEN Step(f[n - 1], n) ELSE f[i]]
    <3>3. Upto(g, S, n)
      <4>1. \A i \in 0 .. n - 1 : f[i] = IF i = 0 THEN <<>> ELSE Step(f[i - 1], i)
        BY <3>2, Zenon DEF Upto
      <4> HIDE DEF Step
      <4>2. \A i \in 0 .. n : i # n => i \in 0 .. n - 1
        BY <3>1
      <4>3. \A i \in 0 .. n : i # 0 => i - 1 \in 0 .. n /\ i - 1 # n
        BY <3>1
      <4>4. ASSUME NEW i \in 0 .. n
            PROVE  g[i] = IF i = 0 THEN <<>> ELSE Step(g[i - 1], i)
        <5>1. CASE i = 0
          BY <2>3, <4>1, <4>2, <5>1
        <5>2. CASE i # 0
          <6>1. g[i - 1] = f[i - 1]
            BY <4>3, <5>2
          <6>2. g[i] = Step(f[i - 1], i)
            BY <4>1, <4>2, <5>2
          <6> QED
            BY <5>2, <6>1, <6>2
        <5> QED
          BY <5>1, <5>2
      <4>5. g = [i \in 0 .. n |-> g[i]]
        OBVIOUS
      <4> HIDE DEF g
      <4>6. [i \in 0 .. n |-> g[i]] = [i \in 0 .. n |-> IF i = 0 THEN <<>> ELSE Step(g[i - 1], i)]
        BY <4>4, Zenon
      <4> QED
        BY <4>5, <4>6, Zenon DEF Upto, Step
    <3> QED
      BY <3>3
  <2> QED
    BY <2>2, <2>3
<1> DEFINE G == CHOOSE f : f = [i \in 0 .. Len(queue) |->
                  IF i = 0 THEN <<>>
                  ELSE IF queue[i] \in S THEN Append(f[i - 1], queue[i]) ELSE f[i - 1]]
<1>2. Passing(S) = G[Len(queue)]
  BY Zenon DEF Passing
<1>3. Upto(G, S, Len(queue))
  <2>0. Len(queue) \in 0 .. Len(queue)
    OBVIOUS
  <2>1. PICK f : Upto(f, S, Len(queue))
    BY <1>1, <2>0
  <2> QED
    BY <2>1, Zenon DEF Upto
<1> HIDE DEF G
<1> QED
  BY <1>2, <1>3

(* What a Stop leaves in the queue, and what it takes out, has no two      *)
(* replies for one control point either.                                   *)
LEMMA PassingKeeps ==
  ASSUME NEW S, queue \in Seq(Reply), OneEach(queue)
  PROVE  /\ Passing(S) \in Seq(Reply) /\ Len(Passing(S)) <= Len(queue) /\ OneEach(Passing(S))
<1>1. PICK f : Upto(f, S, Len(queue)) /\ Passing(S) = f[Len(queue)]
  BY PassingIsDefined
<1>2. \A i \in 0 .. Len(queue) :
        f[i] = IF i = 0 THEN <<>> ELSE IF queue[i] \in S THEN Append(f[i - 1], queue[i]) ELSE f[i - 1]
  BY <1>1, Zenon DEF Upto
<1> DEFINE Good(n) == /\ f[n] \in Seq(Reply) /\ Len(f[n]) <= n /\ OneEach(f[n])
                      /\ \A k \in DOMAIN f[n] : \E i \in 1 .. n : f[n][k] = queue[i]
           Bad == {n \in 0 .. Len(queue) : ~Good(n)}
<1>3. Bad = {}
  <2> SUFFICES ASSUME Bad # {} PROVE FALSE
    OBVIOUS
  <2>1. PICK n \in Bad : \A k \in Bad : n <= k
    <3>1. Bad \in SUBSET Nat
      OBVIOUS
    <3> HIDE DEF Bad
    <3> QED
      BY <3>1, LeastNatural
  <2>2. CASE n = 0
    <3>1. f[0] = <<>>
      BY <1>2
    <3>2. <<>> \in Seq(Reply) /\ Len(<<>>) = 0 /\ DOMAIN <<>> = {}
      OBVIOUS
    <3>3. Good(0)
      <4>1. f[0] \in Seq(Reply) /\ Len(f[0]) <= 0 /\ DOMAIN f[0] = {}
        BY <3>1, <3>2
      <4> QED
        BY <4>1, Zenon DEF OneEach
    <3> HIDE DEF Good
    <3> QED
      BY <2>2, <3>3
  <2>3. CASE n # 0
    <3>1. n \in 1 .. Len(queue) /\ n - 1 \in 0 .. Len(queue) /\ n - 1 \notin Bad
      BY <2>1, <2>3
    <3>2. Good(n - 1)
      BY <3>1
    <3>3. f[n] = (IF queue[n] \in S THEN Append(f[n - 1], queue[n]) ELSE f[n - 1]) /\ queue[n] \in Reply
      BY <1>2, <2>3, <3>1
    <3> DEFINE p == f[n - 1]
    <3>4. /\ p \in Seq(Reply) /\ Len(p) <= n - 1 /\ OneEach(p)
          /\ \A k \in DOMAIN p : \E i \in 1 .. n - 1 : p[k] = queue[i]
      BY <3>2
    <3>5. f[n] = IF queue[n] \in S THEN Append(p, queue[n]) ELSE p
      BY <3>3
    <3> HIDE DEF p
    <3>6. CASE queue[n] \in S
      <4>1. /\ f[n] \in Seq(Reply) /\ Len(f[n]) = Len(p) + 1 /\ DOMAIN f[n] = 1 .. Len(p) + 1
            /\ DOMAIN p = 1 .. Len(p)
            /\ \A k \in 1 .. Len(p) + 1 : f[n][k] = IF k = Len(p) + 1 THEN queue[n] ELSE p[k]
        <5>1. f[n] = Append(p, queue[n]) /\ queue[n] \in Reply /\ p \in Seq(Reply)
          BY <3>3, <3>4, <3>5, <3>6
        <5>2. \A q \in Seq(Reply), x \in Reply :
                /\ Append(q, x) \in Seq(Reply) /\ Len(Append(q, x)) = Len(q) + 1
                /\ DOMAIN Append(q, x) = 1 .. Len(q) + 1 /\ DOMAIN q = 1 .. Len(q)
                /\ \A k \in 1 .. Len(q) + 1 : Append(q, x)[k] = IF k = Len(q) + 1 THEN x ELSE q[k]
          OBVIOUS
        <5> QED
          BY <5>1, <5>2
      <4>2. Len(f[n]) <= n
        BY <3>1, <3>4, <4>1
      <4>3. \A k \in 1 .. Len(p) : p[k].for # queue[n].for
        <5>1. ASSUME NEW k \in 1 .. Len(p) PROVE p[k].for # queue[n].for
          <6>1. PICK i \in 1 .. n - 1 : p[k] = queue[i]
            BY <3>4, <4>1
          <6>2. i \in DOMAIN queue /\ n \in DOMAIN queue /\ i # n
            BY <3>1
          <6> QED
            BY <6>1, <6>2 DEF OneEach
        <5> QED
          BY <5>1
      <4>4. OneEach(f[n])
        <5>1. ASSUME NEW k \in 1 .. Len(p) + 1, NEW l \in 1 .. Len(p) + 1, f[n][k].for = f[n][l].for PROVE k = l
          <6>1. k # Len(p) + 1 => k \in 1 .. Len(p) /\ f[n][k] = p[k]
            BY <3>4, <4>1
          <6>2. l # Len(p) + 1 => l \in 1 .. Len(p) /\ f[n][l] = p[l]
            BY <3>4, <4>1
          <6>3. f[n][Len(p) + 1] = queue[n]
            BY <3>4, <4>1
          <6>4. \A x, y \in 1 .. Len(p) : p[x].for = p[y].for => x = y
            BY <3>4, <4>1, Zenon DEF OneEach
          <6> QED
            BY <4>3, <5>1, <6>1, <6>2, <6>3, <6>4, Zenon
        <5> QED
          BY <4>1, <5>1 DEF OneEach
      <4>5. ASSUME NEW k \in DOMAIN f[n] PROVE \E i \in 1 .. n : f[n][k] = queue[i]
        <5>1. CASE k = Len(p) + 1
          <6>1. f[n][k] = queue[n] /\ n \in 1 .. n
            BY <3>1, <4>1, <5>1
          <6> QED
            BY <6>1
        <5>2. CASE k # Len(p) + 1
          <6>1. k \in DOMAIN p /\ f[n][k] = p[k]
            BY <4>1, <5>2
          <6>2. PICK i \in 1 .. n - 1 : p[k] = queue[i]
            BY <3>4, <6>1
          <6>3. i \in 1 .. n
            BY <3>1
          <6> QED
            BY <6>1, <6>2, <6>3
        <5> QED
          BY <5>1, <5>2
      <4> QED
        BY <4>1, <4>2, <4>4, <4>5
    <3>7. CASE queue[n] \notin S
      <4>1. f[n] = p /\ 1 .. n - 1 \subseteq 1 .. n /\ Len(p) <= n
        BY <3>1, <3>4, <3>5, <3>7
      <4> QED
        BY <3>4, <4>1
    <3> QED
      BY <3>6, <3>7
  <2> QED
    BY <2>2, <2>3
<1>4. Good(Len(queue))
  BY <1>3
<1> QED
  BY <1>1, <1>4

(* The queue of replies, what a Stop took out of it, and the counters. *)
QueueInv ==
  /\ queue \in Seq(Reply) /\ Len(queue) <= Cap /\ OneEach(queue)
  /\ flushing \in Seq(Reply) /\ hand \in Reply \cup {Nobody}
  /\ ready \subseteq Family /\ burst.left \in 0 .. Bursts
  /\ asked \in 0 .. MaxSearches /\ starts \in 0 .. MaxStarts

(* A queue whose replies are other ones for the same control points. *)
LEMMA RelabelKeeps ==
  ASSUME QueueInv, NEW q \in Seq(Reply), DOMAIN q = DOMAIN queue,
         \A i \in DOMAIN queue : q[i].for = queue[i].for
  PROVE  Len(q) <= Cap /\ OneEach(q)
<1>1. Len(q) = Len(queue)
  <2>1. 1 .. Len(q) = 1 .. Len(queue) /\ Len(q) \in Nat /\ Len(queue) \in Nat
    BY DEF QueueInv
  <2> QED
    BY <2>1
<1>2. OneEach(q)
  BY DEF QueueInv, OneEach
<1> QED
  BY <1>1, <1>2 DEF QueueInv

(* The steps of the caller keep it. *)
LEMMA CallKeepsQueue ==
  ASSUME Inv, QueueInv,
         \/ \E E \in SUBSET Endpoint : CallStart(E)
         \/ Opening \/ CallStop \/ StopFlushes \/ StopSaysByebye
         \/ StopShutsDown \/ StopJoins \/ StopCloses
  PROVE  QueueInv'
<1> USE SsdpAssumption DEF SsdpAssumption
<1>1. CASE \E E \in SUBSET Endpoint : CallStart(E)
  BY <1>1 DEF CallStart, QueueInv
<1>2. CASE Opening
  BY <1>2 DEF Opening, StartPosix, StartWindows, Launch, StartFails, QueueInv
<1>3. CASE CallStop
  <2>1. /\ flushing' = Passing(Early) /\ queue' = Passing(Reply \ Early)
        /\ UNCHANGED <<hand, ready, burst, asked, starts>>
    BY <1>3 DEF CallStop
  <2>2. Passing(Early) \in Seq(Reply)
    BY PassingKeeps DEF QueueInv
  <2>3. /\ Passing(Reply \ Early) \in Seq(Reply) /\ Len(Passing(Reply \ Early)) <= Len(queue)
        /\ OneEach(Passing(Reply \ Early))
    BY PassingKeeps DEF QueueInv
  <2>4. queue' \in Seq(Reply) /\ Len(queue') <= Cap /\ OneEach(queue')
    BY <2>1, <2>3 DEF QueueInv
  <2>5. flushing' \in Seq(Reply)
    BY <2>1, <2>2
  <2> QED
    BY <2>1, <2>4, <2>5 DEF QueueInv
<1>4. CASE StopFlushes
  <2>1. flushing' = Tail(flushing) /\ flushing # <<>>
        /\ UNCHANGED <<queue, hand, ready, burst, asked, starts>>
    BY <1>4 DEF StopFlushes, life
  <2>2. flushing' \in Seq(Reply)
    BY <2>1 DEF QueueInv
  <2> QED
    BY <2>1, <2>2 DEF QueueInv
<1>5. CASE StopSaysByebye
  BY <1>5 DEF StopSaysByebye, Round, answers, QueueInv
<1>6. CASE StopShutsDown
  BY <1>6 DEF StopShutsDown, QueueInv
<1>7. CASE StopJoins
  BY <1>7 DEF StopJoins, answers, QueueInv
<1>8. CASE StopCloses
  <2>1. queue' = [i \in DOMAIN queue |-> Aged(queue[i])]
        /\ UNCHANGED <<hand, flushing, ready, burst, asked, starts>>
    BY <1>8 DEF StopCloses
  <2>2. \A r \in Reply : Aged(r) \in Reply /\ Aged(r).for = r.for
    BY DEF Reply, Aged
  <2>3. DOMAIN queue = 1 .. Len(queue) /\ Len(queue) \in Nat /\ \A i \in DOMAIN queue : queue[i] \in Reply
    BY DEF QueueInv
  <2>4. DOMAIN queue' = DOMAIN queue /\ \A i \in DOMAIN queue : queue'[i] = Aged(queue[i])
    BY <2>1
  <2>5. queue' \in Seq(Reply)
    BY <2>1, <2>2, <2>3
  <2>6. \A i \in DOMAIN queue : queue'[i].for = queue[i].for
    BY <2>2, <2>3, <2>4
  <2>7. Len(queue') <= Cap /\ OneEach(queue')
    BY <2>4, <2>5, <2>6, RelabelKeeps
  <2> QED
    BY <2>1, <2>5, <2>7 DEF QueueInv
<1> QED
  BY <1>1, <1>2, <1>3, <1>4, <1>5, <1>6, <1>7, <1>8

(* The steps of the threads keep it. *)
LEMMA ThreadKeepsQueue ==
  ASSUME Inv, QueueInv,
         \/ Worker \/ Burst \/ Announce("caller") \/ Responder \/ TimePasses
  PROVE  QueueInv'
<1> USE SsdpAssumption DEF SsdpAssumption
<1>1. CASE WorkerSelects \/ WorkerIgnores \/ WorkerLoops
  <2>1. UNCHANGED <<queue, flushing, hand, burst, asked, starts>> /\ ready' \subseteq Family
    BY <1>1 DEF WorkerSelects, WorkerIgnores, WorkerLoops, life, answers, QueueInv
  <2> QED
    BY <2>1 DEF QueueInv
<1>2. CASE WorkerAnswers
  <2>1. PICK s \in Search, due \in Due :
          /\ asked < MaxSearches /\ asked' = asked + 1 /\ ready' \subseteq ready
          /\ \/ queue' = queue
             \/ queue' = Queued([for |-> s, due |-> due, fresh |-> TRUE])
          /\ UNCHANGED <<life, hand, flushing, burst>>
    BY <1>2 DEF WorkerAnswers
  <2>2. [for |-> s, due |-> due, fresh |-> TRUE] \in Reply
    BY DEF Reply
  <2>3. queue' \in Seq(Reply) /\ Len(queue') <= Cap /\ OneEach(queue')
    BY <2>1, <2>2, QueuedKeeps DEF QueueInv
  <2>4. asked' \in 0 .. MaxSearches /\ ready' \subseteq Family
    BY <2>1 DEF QueueInv
  <2> QED
    BY <2>1, <2>3, <2>4 DEF QueueInv, life
<1>3. CASE \E t \in Announcer : Announce(t)
  <2>1. UNCHANGED <<life, answers, ready, burst, asked>>
    BY <1>3 DEF Announce
  <2> QED
    BY <2>1 DEF QueueInv, life, answers
<1>4. CASE BurstBegins \/ BurstRepeats \/ BurstWaits
  <2>1. UNCHANGED <<life, answers, ready, asked>>
    BY <1>4 DEF BurstBegins, BurstRepeats, BurstWaits
  <2>2. burst'.left \in 0 .. Bursts
    BY <1>4 DEF BurstBegins, BurstRepeats, BurstWaits, QueueInv, Inv, Types
  <2> QED
    BY <2>1, <2>2 DEF QueueInv, life, answers
<1>5. CASE ResponderChecks
  <2>1. UNCHANGED <<life, flushing, ready, burst, asked>>
    BY <1>5 DEF ResponderChecks
  <2>2. \/ queue' = <<>> /\ hand' = hand
        \/ queue' = queue /\ hand' = hand
        \/ \E i \in DOMAIN queue : hand' = queue[i] /\ queue' = Drop(queue, i)
    BY <1>5 DEF ResponderChecks, IsDue
  <2>3. ASSUME queue' = <<>> PROVE queue' \in Seq(Reply) /\ Len(queue') <= Cap /\ OneEach(queue')
    <3>1. queue' \in Seq(Reply) /\ Len(queue') = 0 /\ DOMAIN queue' = {}
      BY <2>3
    <3>2. OneEach(queue')
      BY <3>1, Zenon DEF OneEach
    <3> QED
      BY <3>1, <3>2
  <2>4. ASSUME NEW i \in DOMAIN queue, hand' = queue[i], queue' = Drop(queue, i)
        PROVE  queue' \in Seq(Reply) /\ Len(queue') <= Cap /\ OneEach(queue') /\ hand' \in Reply
    <3>1. Drop(queue, i) \in Seq(Reply) /\ Len(Drop(queue, i)) = Len(queue) - 1 /\ OneEach(Drop(queue, i))
      BY DropFacts DEF QueueInv
    <3>2. queue[i] \in Reply /\ Len(queue) \in Nat /\ Len(queue) <= Cap
      BY DEF QueueInv
    <3> QED
      BY <2>4, <3>1, <3>2
  <2> QED
    BY <2>1, <2>2, <2>3, <2>4 DEF QueueInv, life
<1>6. CASE ResponderSleeps \/ ResponderWakes \/ ResponderSends
  BY <1>6 DEF ResponderSleeps, ResponderWakes, ResponderSends, life, QueueInv
<1>7. CASE TimePasses
  <2>1. PICK i \in DOMAIN queue : queue' = [queue EXCEPT ![i].due = Sooner(@)]
    BY <1>7 DEF TimePasses
  <2>2. UNCHANGED <<life, hand, flushing, ready, burst, asked>>
    BY <1>7 DEF TimePasses
  <2>3. \A r \in Reply : [r EXCEPT !.due = Sooner(r.due)] \in Reply /\ [r EXCEPT !.due = Sooner(r.due)].for = r.for
    BY DEF Reply, Due, Sooner
  <2>4. DOMAIN queue = 1 .. Len(queue) /\ Len(queue) \in Nat /\ \A j \in DOMAIN queue : queue[j] \in Reply
    BY DEF QueueInv
  <2>5. /\ DOMAIN queue' = DOMAIN queue
        /\ \A j \in DOMAIN queue :
             queue'[j] = IF j = i THEN [queue[i] EXCEPT !.due = Sooner(queue[i].due)] ELSE queue[j]
    BY <2>1
  <2>6. \A j \in DOMAIN queue : queue'[j] \in Reply /\ queue'[j].for = queue[j].for
    BY <2>3, <2>4, <2>5
  <2>7. queue' \in Seq(Reply)
    <3>1. queue' = [j \in 1 .. Len(queue) |-> queue'[j]]
      BY <2>1, <2>4
    <3> QED
      BY <2>4, <2>6, <3>1
  <2>8. Len(queue') <= Cap /\ OneEach(queue')
    BY <2>5, <2>6, <2>7, RelabelKeeps
  <2> QED
    BY <2>2, <2>7, <2>8 DEF QueueInv, life
<1> QED
  BY <1>1, <1>2, <1>3, <1>4, <1>5, <1>6, <1>7 DEF Worker, Burst, Responder, Announcer

(* Every step keeps it. *)
LEMMA QueueInvNext == Inv /\ QueueInv /\ [Next]_vars => QueueInv'
<1> SUFFICES ASSUME Inv, QueueInv, [Next]_vars PROVE QueueInv'
  OBVIOUS
<1>1. CASE UNCHANGED vars
  BY <1>1 DEF vars, QueueInv
<1>2. CASE Next
  BY <1>2, CallKeepsQueue, ThreadKeepsQueue DEF Next, Stopping
<1> QED
  BY <1>1, <1>2

(* A stop leaves nothing behind, and no two replies for one control point  *)
(* are queued, although a newer search replaces a reply, a full queue      *)
(* loses its oldest, the responder takes one out of the middle, and a Stop *)
(* splits it (ServiceSound).                                               *)
THEOREM ServiceIsSound == Spec => []ServiceSound
<1>1. Init => QueueInv
  <2> SUFFICES ASSUME Init PROVE QueueInv
    OBVIOUS
  <2>1. queue \in Seq(Reply) /\ Len(queue) = 0 /\ DOMAIN queue = {} /\ flushing \in Seq(Reply)
    BY DEF Init
  <2>2. OneEach(queue)
    BY <2>1, Zenon DEF OneEach
  <2>3. hand \in Reply \cup {Nobody} /\ ready \subseteq Family
    BY DEF Init
  <2> QED
    BY <2>1, <2>2, <2>3, SsdpAssumption DEF Init, QueueInv, SsdpAssumption
<1>2. Inv /\ QueueInv => ServiceSound
  <2> SUFFICES ASSUME Inv, QueueInv PROVE ServiceSound
    OBVIOUS
  <2>1. TypeOK
    BY DEF Inv, Types, QueueInv, TypeOK
  <2>2. StoppedIsQuiet /\ OneReplyEach
    BY DEF Inv, QueueInv, OneEach, OneReplyEach
  <2> QED
    BY <2>1, <2>2 DEF ServiceSound
<1> QED
  BY <1>1, <1>2, InvHolds, QueueInvNext, PTL DEF Spec
-----------------------------------------------------------------------------
(* Every step of the service is one of the Advertiser, or none. *)
LEMMA StepIsAbstract == Inv /\ [Next]_vars => [Abs!Next]_(Abs!vars)
<1> SUFFICES ASSUME Inv, [Next]_vars PROVE Abs!Next \/ UNCHANGED Abs!vars
  OBVIOUS
<1> USE DEF Inv, Types, RunningFollows, AbsPhase, Abs!vars, Abs!Next
<1>1. CASE UNCHANGED vars
  BY <1>1 DEF vars
<1>2. CASE \E E \in SUBSET Endpoint : CallStart(E)
  BY <1>2 DEF CallStart, Abs!BeginStart
<1>3. CASE Opening
  BY <1>3 DEF Opening, StartPosix, StartWindows, Launch, StartFails, Abs!Started, Abs!StartFails
<1>4. CASE CallStop
  BY <1>4 DEF CallStop, Abs!BeginStop
<1>5. CASE StopCloses
  BY <1>5 DEF StopCloses, Abs!Stopped
<1>6. CASE StopFlushes \/ StopSaysByebye \/ StopShutsDown \/ StopJoins
  BY <1>6 DEF StopFlushes, StopSaysByebye, StopShutsDown, StopJoins, life
<1>7. CASE Worker \/ Burst \/ Announce("caller")
  <2>1. UNCHANGED life
    <3>1. CASE WorkerSelects \/ WorkerIgnores \/ WorkerLoops
      BY <3>1 DEF WorkerSelects, WorkerIgnores, WorkerLoops
    <3>2. CASE WorkerAnswers
      BY <3>2 DEF WorkerAnswers
    <3>3. CASE BurstBegins \/ BurstRepeats \/ BurstWaits
      BY <3>3 DEF BurstBegins, BurstRepeats, BurstWaits
    <3>4. CASE Announce("worker") \/ Announce("burst") \/ Announce("caller")
      BY <3>4 DEF Announce
    <3> QED
      BY <1>7, <3>1, <3>2, <3>3, <3>4 DEF Worker, Burst
  <2> QED
    BY <2>1 DEF life
<1>8. CASE Responder \/ TimePasses
  BY <1>8 DEF Responder, ResponderChecks, ResponderSleeps, ResponderWakes, ResponderSends,
    TimePasses, life
<1> QED
  BY <1>1, <1>2, <1>3, <1>4, <1>5, <1>6, <1>7, <1>8 DEF Next, Stopping

(* Threads, queue and sockets are invisible to callers: Ssdp implements    *)
(* the Advertiser, with which NetworkWatch is composed.                    *)
THEOREM Implements == Spec => ImplementsAdvertiser
<1>1. Init => Abs!Init
  BY DEF Init, Abs!Init, AbsPhase
<1> QED
  BY <1>1, InvHolds, StepIsAbstract, PTL DEF Spec, ImplementsAdvertiser, Abs!Spec

=============================================================================
