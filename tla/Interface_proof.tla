---------------------------- MODULE Interface_proof ----------------------------
(***************************************************************************)
(* What is proved of Interface for every set of overrides and every number *)
(* of polls: the window shows what there is, and a process that ends       *)
(* leaves nothing behind.                                                  *)
(***************************************************************************)
EXTENDS Interface, TLAPS

(* What a worker may have left to do: a report comes last. *)
WorkLists ==
  {<<>>, <<"report">>, <<"start", "report">>, <<"stop", "report">>,
   <<"stop", "start", "report">>, <<"progress", "start", "report">>,
   <<"stop", "progress", "start", "report">>}
  \cup {<<sent, "progress", "start", "report">> : sent \in Override}
  \cup {<<"stop", sent, "progress", "start", "report">> : sent \in Override}

(* A worker that is to start the server next, or after a progress report,  *)
(* finds it down.                                                          *)
DownBeforeStart ==
  work # <<>> /\ Head(work) \notin {"stop", "report"} => server = "down"

(* A server that is up serves the sources the window lists, in every state. *)
UpServesListed == IsUp => served = override

(* The reports that settle the state of the window. *)
Final == {i \in DOMAIN mail : mail[i] \in {"Running", "Stopped"}}

(* Only a worker that is done has said how it ended; it says so last, and  *)
(* it is still true when the window reads it.                              *)
ReportIsTrue ==
  /\ work # <<>> => Final = {}
  /\ \A i \in Final : /\ exit = "live" => (mail[i] = "Running" <=> IsUp)
                      /\ \A j \in Reports : j <= i
  /\ Gtk => Reports = DOMAIN mail

(* The process leaves after its window, and stops the server after its     *)
(* threads.                                                                *)
LeavesInOrder ==
  /\ exit # "live" => window = "gone"
  /\ exit \in {"stops", "ended"} => work = <<>> /\ ~scanner
  /\ exit = "ended" => server = "down"

(* Only a tick of the GTK timer reads the slot of the reports. *)
Parts == {"signal", "health", "result", "restored"}
TickFits ==
  tick \in Seq(Parts) /\ (Gtk \/ tick \in {<<>>, <<"health">>, <<"restored", "health">>})

Inv ==
  /\ TypeOK /\ TickFits /\ work \in WorkLists /\ DownBeforeStart /\ UpServesListed
  /\ ReportIsTrue /\ LeavesInOrder /\ SettledAgrees

--------------------------------------------------------------------------------
(* Lists of work are sequences. *)
LEMMA WorkIsSeq ==
  ASSUME NEW list \in WorkLists
  PROVE  list \in Seq({"start", "stop", "progress", "report"} \cup Override)
<1>1. CASE list = <<>>
  BY <1>1
<1>2. CASE list = <<"report">>
  BY <1>2
<1>3. CASE list = <<"start", "report">>
  BY <1>3
<1>4. CASE list = <<"stop", "report">>
  BY <1>4
<1>5. CASE list = <<"stop", "start", "report">>
  BY <1>5
<1>6. CASE list = <<"progress", "start", "report">>
  BY <1>6
<1>7. CASE list = <<"stop", "progress", "start", "report">>
  BY <1>7
<1>8. ASSUME NEW sent \in Override, list = <<sent, "progress", "start", "report">>
      PROVE  list \in Seq({"start", "stop", "progress", "report"} \cup Override)
  BY <1>8
<1>9. ASSUME NEW sent \in Override, list = <<"stop", sent, "progress", "start", "report">>
      PROVE  list \in Seq({"start", "stop", "progress", "report"} \cup Override)
  BY <1>9
<1> QED
  BY <1>1, <1>2, <1>3, <1>4, <1>5, <1>6, <1>7, <1>8, <1>9 DEF WorkLists

(* What is left when a worker has done the first of what it has to do. *)
WorkGoesOn ==
  /\ Tail(work) \in WorkLists
  /\ Head(work) = "report" => Tail(work) = <<>>
  /\ Head(work) = "start" => Tail(work) = <<"report">>
  /\ Head(work) \in {"start", "stop", "progress", "report"} \cup Override
  /\ Head(work) \in Override => Tail(work) = <<"progress", "start", "report">>
  /\ Head(work) = "progress" => Tail(work) = <<"start", "report">>

(* So it is for every list. *)
LEMMA WorkIsDone ==
  ASSUME work \in WorkLists, work # <<>>
  PROVE  WorkGoesOn
<1> USE InterfaceAssumption DEF WorkLists, InterfaceAssumption, WorkGoesOn
<1>1. CASE work = <<"report">>
  <2>1. Tail(work) = <<>> /\ Head(work) = "report"
    BY <1>1
  <2> QED
    BY <2>1
<1>2. CASE work = <<"start", "report">>
  <2>1. Tail(work) = <<"report">> /\ Head(work) = "start"
    BY <1>2
  <2> QED
    BY <2>1
<1>3. CASE work = <<"stop", "report">>
  <2>1. Tail(work) = <<"report">> /\ Head(work) = "stop"
    BY <1>3
  <2> QED
    BY <2>1
<1>4. CASE work = <<"stop", "start", "report">>
  <2>1. Tail(work) = <<"start", "report">> /\ Head(work) = "stop"
    BY <1>4
  <2> QED
    BY <2>1
<1>5. CASE work = <<"progress", "start", "report">>
  <2>1. Tail(work) = <<"start", "report">> /\ Head(work) = "progress"
    BY <1>5
  <2> QED
    BY <2>1
<1>6. CASE work = <<"stop", "progress", "start", "report">>
  <2>1. Tail(work) = <<"progress", "start", "report">> /\ Head(work) = "stop"
    BY <1>6
  <2> QED
    BY <2>1
<1>7. ASSUME NEW sent \in Override, work = <<sent, "progress", "start", "report">>
      PROVE  WorkGoesOn
  <2>1. Tail(work) = <<"progress", "start", "report">> /\ Head(work) = sent
    BY <1>7
  <2> QED
    BY <2>1
<1>8. ASSUME NEW sent \in Override, work = <<"stop", sent, "progress", "start", "report">>
      PROVE  WorkGoesOn
  <2>1. Tail(work) = <<sent, "progress", "start", "report">> /\ Head(work) = "stop"
    BY <1>8
  <2> QED
    BY <2>1
<1> QED
  BY <1>1, <1>2, <1>3, <1>4, <1>5, <1>6, <1>7, <1>8

(* The invariant holds when the process begins. *)
LEMMA InvInit == Init => Inv
<1> SUFFICES ASSUME Init PROVE Inv
  OBVIOUS
<1>1. TypeOK
  <2>1. /\ tick \in Seq({"signal", "health", "result", "restored"}) /\ mail \in Seq(States \cup {"scanned"})
        /\ work \in Seq({"start", "stop", "progress", "report"} \cup Override)
    BY DEF Init
  <2>2. /\ polls \in 0..Patience
        /\ override \in Override \cup {Config} /\ served \in Override \cup {Config}
    BY InterfaceAssumption DEF Init, InterfaceAssumption
  <2> QED
    BY <2>1, <2>2 DEF Init, TypeOK, States
<1> QED
  BY <1>1 DEF Init, Inv, TickFits, WorkLists, DownBeforeStart, UpServesListed, ReportIsTrue,
     Final, Reports,
     LeavesInOrder, SettledAgrees, Busy, IsUp

--------------------------------------------------------------------------------
(* What every step leaves of the timer. *)
Timer == TickFits' /\ polls' \in 0..Patience

(* A step that does not touch the timer leaves it so. *)
LEMMA TimerRests ==
  ASSUME Inv, UNCHANGED <<build, tick, polls>>
  PROVE  Timer
BY DEF Inv, TypeOK, TickFits, Timer, Gtk

(* Steps that only wind the timer, the rescan or the close keep the        *)
(* invariant.                                                              *)
LEMMA CalmKeeps ==
  ASSUME Inv, Timer, latched' \in BOOLEAN, scanning' \in BOOLEAN, scanner' \in BOOLEAN, threw' \in BOOLEAN,
         window' \in {"open", "closing", "gone"}, exit # "live" => window' = window,
         exit \in {"stops", "ended"} => scanner' = scanner,
         UNCHANGED <<build, state, work, mail, server, override, served, exit>>
  PROVE  Inv'
<1> USE DEF Inv
<1>1. TypeOK'
  BY DEF TypeOK, Timer, TickFits, Parts, States
<1>2. ReportIsTrue'
  BY DEF ReportIsTrue, Final, Reports, IsUp, Gtk
<1>3. DownBeforeStart' /\ UpServesListed' /\ LeavesInOrder' /\ SettledAgrees' /\ TickFits'
  BY DEF TickFits, Timer, Gtk, DownBeforeStart, UpServesListed, LeavesInOrder, SettledAgrees,
     Busy, IsUp, Reports
<1> QED
  BY <1>1, <1>2, <1>3

(* Whoever gives the worker something to do while the window is settled    *)
(* keeps it.                                                               *)
LEMMA BeginKeeps ==
  ASSUME Inv, exit = "live", Free, NEW transition \in {"Starting", "Stopping"},
         NEW steps \in WorkLists, steps # <<>>, Head(steps) = "stop" \/ ~IsUp,
         Begin(transition, steps), Timer, latched' \in BOOLEAN,
         UNCHANGED <<build, window, mail, scanning, scanner, server, override, served, exit, threw>>
  PROVE  Inv'
<1> USE DEF Inv
<1>1. state' = transition /\ work' = steps /\ work = <<>>
  BY DEF Begin
<1>2. TypeOK'
  <2>1. work' \in Seq({"start", "stop", "progress", "report"} \cup Override)
    BY <1>1, WorkIsSeq
  <2> QED
    BY <1>1, <2>1 DEF TypeOK, Timer, TickFits, Parts, States
<1>3. Reports = {} /\ Final = {}
  BY DEF SettledAgrees, Free, Final, Reports
<1>4. ReportIsTrue'
  BY <1>3 DEF ReportIsTrue, Final, Reports, Gtk
<1>5. DownBeforeStart' /\ UpServesListed' /\ LeavesInOrder' /\ SettledAgrees' /\ TickFits'
  BY <1>1 DEF TickFits, Timer, Gtk, DownBeforeStart, UpServesListed, LeavesInOrder,
     SettledAgrees, Busy, IsUp
<1> QED
  BY <1>1, <1>2, <1>4, <1>5

(* A report that the window reads keeps it. *)
LEMMA ApplyKeeps ==
  ASSUME Inv, exit = "live", NEW r \in States, Apply(r), Timer, scanning' \in BOOLEAN,
         r \in {"Running", "Stopped"} => (r = "Running" <=> IsUp) /\ Reports' = {},
         mail' \in Seq(States \cup {"scanned"}), work # <<>> => Final' = {},
         \A i \in Final' : (mail'[i] = "Running" <=> IsUp) /\ \A j \in Reports' : j <= i,
         Gtk => Reports' = DOMAIN mail', Busy,
         UNCHANGED <<build, scanner, server, override, served, threw>>
  PROVE  Inv'
<1> USE DEF Inv
<1>0. Reports' = {} => Final' = {}
  BY DEF Final, Reports
<1>1. CASE latched /\ r = "Stopped"
  <2>1. /\ state' = r /\ latched' = FALSE /\ exit' = "joins" /\ window' = "gone"
        /\ work' = work /\ work = <<>>
    BY <1>1 DEF Apply, StopsAgain
  <2>2. TypeOK'
    BY <2>1 DEF TypeOK, Timer, TickFits, Parts, States
  <2>3. ReportIsTrue'
    BY <2>1 DEF ReportIsTrue, IsUp, Gtk
  <2>4. DownBeforeStart' /\ UpServesListed' /\ LeavesInOrder' /\ SettledAgrees' /\ TickFits'
    BY <2>1 DEF TickFits, Timer, Gtk, DownBeforeStart, UpServesListed, LeavesInOrder,
       SettledAgrees, Busy, IsUp
  <2> QED
    BY <2>1, <2>2, <2>3, <2>4
<1>2. CASE ~(latched /\ r = "Stopped") /\ StopsAgain(r)
  <2>1. /\ state' = "Stopping" /\ work' = StopSteps /\ work = <<>> /\ r = "Running"
        /\ UNCHANGED <<latched, exit, window>>
    BY <1>2 DEF Apply, Begin, StopsAgain
  <2>2. StopSteps \in WorkLists /\ work' # <<>> /\ Head(work') = "stop"
    BY <2>1 DEF StopSteps, WorkLists
  <2>3. TypeOK'
    BY <2>1 DEF TypeOK, Timer, TickFits, Parts, States, StopSteps
  <2>4. ReportIsTrue'
    BY <1>0, <2>1 DEF ReportIsTrue, IsUp, Gtk
  <2>5. DownBeforeStart' /\ UpServesListed' /\ LeavesInOrder' /\ SettledAgrees' /\ TickFits'
    BY <2>1, <2>2 DEF TickFits, Timer, Gtk, DownBeforeStart, UpServesListed, LeavesInOrder,
       SettledAgrees, Busy, IsUp
  <2> QED
    BY <2>1, <2>2, <2>3, <2>4, <2>5
<1>3. CASE ~(latched /\ r = "Stopped") /\ ~StopsAgain(r)
  <2>1. state' = r /\ UNCHANGED <<latched, exit, window, work>> /\ (r \in {"Running", "Stopped"} => work = <<>>)
    BY <1>3 DEF Apply
  <2>2. TypeOK'
    BY <2>1 DEF TypeOK, Timer, TickFits, Parts, States
  <2>3. ReportIsTrue'
    BY <2>1 DEF ReportIsTrue, IsUp, Gtk
  <2>4. DownBeforeStart' /\ UpServesListed' /\ LeavesInOrder' /\ TickFits'
    BY <2>1 DEF DownBeforeStart, UpServesListed, LeavesInOrder, IsUp, TickFits, Timer
  <2>5. SettledAgrees'
    BY <2>1 DEF SettledAgrees, Busy, IsUp, States
  <2> QED
    BY <2>1, <2>2, <2>3, <2>4, <2>5
<1> QED
  BY <1>1, <1>2, <1>3

--------------------------------------------------------------------------------
(* The sequence of reports without its head, and with one more. *)
LEMMA MailShrinks ==
  ASSUME Inv, mail # <<>>, mail' = Tail(mail)
  PROVE  /\ mail' \in Seq(States \cup {"scanned"}) /\ Head(mail) \in States \cup {"scanned"}
         /\ Reports' = {i \in 1..(Len(mail) - 1) : i + 1 \in Reports}
         /\ Final' = {i \in 1..(Len(mail) - 1) : i + 1 \in Final}
         /\ Head(mail) \in States => 1 \in Reports /\ (Head(mail) \in {"Running", "Stopped"} <=> 1 \in Final)
<1>1. mail \in Seq(States \cup {"scanned"})
  BY DEF Inv, TypeOK
<1>2. mail' \in Seq(States \cup {"scanned"}) /\ Head(mail) \in States \cup {"scanned"}
  BY <1>1
<1>3. DOMAIN mail' = 1..(Len(mail) - 1) /\ \A i \in DOMAIN mail' : mail'[i] = mail[i + 1]
  BY <1>1
<1>4. DOMAIN mail = 1..Len(mail) /\ Len(mail) \in Nat \ {0} /\ Head(mail) = mail[1]
  BY <1>1
<1> QED
  BY <1>2, <1>3, <1>4 DEF Reports, Final, States

(* A report posted to the window is the last of its mail. *)
LEMMA MailGrows ==
  ASSUME Inv, NEW r \in States \cup {"scanned"}, mail' = Append(mail, r)
  PROVE  /\ mail' \in Seq(States \cup {"scanned"})
         /\ Reports' = Reports \cup (IF r = "scanned" THEN {} ELSE {Len(mail) + 1})
         /\ Final' = Final \cup (IF r \in {"Running", "Stopped"} THEN {Len(mail) + 1} ELSE {})
         /\ \A i \in DOMAIN mail : mail'[i] = mail[i] /\ i <= Len(mail)
         /\ mail'[Len(mail) + 1] = r /\ Len(mail) \in Nat /\ Len(mail) + 1 \notin DOMAIN mail
<1>1. mail \in Seq(States \cup {"scanned"})
  BY DEF Inv, TypeOK
<1>2. DOMAIN mail = 1..Len(mail) /\ Len(mail) \in Nat
  BY <1>1
<1>3. /\ DOMAIN mail' = 1..(Len(mail) + 1)
      /\ \A i \in DOMAIN mail : mail'[i] = mail[i]
      /\ mail'[Len(mail) + 1] = r
  BY <1>1
<1> QED
  BY <1>1, <1>2, <1>3 DEF Reports, Final, States

(* The worker's steps keep the invariant. *)
LEMMA WorkerKeeps == Inv /\ (Worker \/ WorkerThrows) => Inv'
<1> SUFFICES ASSUME Inv, Worker \/ WorkerThrows PROVE Inv'
  OBVIOUS
<1> USE DEF Inv, shown, timer, scans, sources
<1>0. work # <<>> /\ WorkGoesOn /\ exit \notin {"stops", "ended"} /\ Final = {}
  <2>1. work # <<>> /\ exit # "ended"
    BY DEF Worker, WorkerStarts, WorkerStops, WorkerSetsOverride, WorkerReports, WorkerThrows,
       StepIs
  <2> QED
    BY <2>1, WorkIsDone DEF LeavesInOrder, ReportIsTrue
<1>1. exit = "live" => Busy
  BY <1>0 DEF SettledAgrees
<1>2. CASE WorkerStarts
  <2>1. Head(work) = "start" /\ work' = <<"report">>
    BY <1>0, <1>2 DEF WorkerStarts, StepIs, WorkGoesOn
  <2>2. TypeOK' /\ work' \in WorkLists
    BY <1>2, <2>1 DEF WorkerStarts, TypeOK, WorkLists
  <2>3. ReportIsTrue'
    BY <1>0, <1>2 DEF WorkerStarts, ReportIsTrue, Final, Reports, Gtk
  <2>4. DownBeforeStart' /\ UpServesListed' /\ LeavesInOrder' /\ SettledAgrees' /\ TickFits'
    BY <1>0, <1>1, <1>2, <2>1
       DEF TickFits, Timer, Gtk, WorkerStarts, DownBeforeStart, UpServesListed, LeavesInOrder, SettledAgrees, Busy, IsUp
  <2> QED
    BY <2>2, <2>3, <2>4
<1>3. CASE WorkerStops
  <2>1. Head(work) = "stop" /\ work' = Tail(work) /\ server' = "down"
    BY <1>3 DEF WorkerStops, StepIs
  <2>2. TypeOK' /\ work' \in WorkLists
    BY <1>0, <1>3, <2>1, WorkIsSeq DEF WorkerStops, TypeOK, WorkGoesOn
  <2>3. ReportIsTrue'
    BY <1>0, <1>3 DEF WorkerStops, ReportIsTrue, Final, Reports, Gtk
  <2>4. DownBeforeStart' /\ UpServesListed' /\ LeavesInOrder' /\ SettledAgrees' /\ TickFits'
    BY <1>0, <1>1, <1>3, <2>1
       DEF TickFits, Timer, Gtk, WorkerStops, DownBeforeStart, UpServesListed, LeavesInOrder, SettledAgrees, Busy, IsUp
  <2> QED
    BY <2>2, <2>3, <2>4
<1>4. CASE WorkerSetsOverride
  <2>1. PICK sent \in Override : Head(work) = sent /\ work' = Tail(work) /\ override' = sent
    BY <1>4 DEF WorkerSetsOverride, StepIs
  <2>2. server = "down" /\ work' = <<"progress", "start", "report">>
    BY <1>0, <2>1, InterfaceAssumption DEF WorkGoesOn, DownBeforeStart, InterfaceAssumption
  <2>3. TypeOK' /\ work' \in WorkLists
    <3>1. work' \in WorkLists
      BY <2>2 DEF WorkLists
    <3> QED
      BY <1>4, <2>1, <3>1, WorkIsSeq, ZenonT(60) DEF WorkerSetsOverride, TypeOK
  <2>4. ReportIsTrue'
    BY <1>0, <1>4 DEF WorkerSetsOverride, ReportIsTrue, Final, Reports, Gtk, IsUp
  <2>5. DownBeforeStart' /\ UpServesListed' /\ LeavesInOrder' /\ SettledAgrees' /\ TickFits'
    BY <1>0, <1>1, <1>4, <2>2
       DEF TickFits, Timer, Gtk, WorkerSetsOverride, DownBeforeStart, UpServesListed, LeavesInOrder, SettledAgrees, Busy, IsUp
  <2> QED
    BY <2>3, <2>4, <2>5
<1>5. CASE WorkerReports
  <2>1. PICK r \in {"Starting", "Running", "Stopped"} :
          /\ mail' = IF Gtk THEN <<r>> ELSE Append(mail, r)
          /\ r = "Running" => IsUp
          /\ r = "Stopped" => ~IsUp
          /\ r = "Starting" => Head(work) = "progress"
          /\ r # "Starting" => Head(work) = "report"
    BY <1>5 DEF WorkerReports, StepIs, Report
  <2>2. work' = Tail(work) /\ UNCHANGED <<build, shown, timer, scans, server, sources, exit, threw>>
    BY <1>5 DEF WorkerReports, StepIs
  <2>3. /\ r = "Starting" => work' = <<"start", "report">> /\ server = "down"
        /\ r # "Starting" => work' = <<>>
    BY <1>0, <2>1, <2>2 DEF WorkGoesOn, DownBeforeStart
  <2>4. /\ mail' \in Seq(States \cup {"scanned"})
        /\ Final' \subseteq {i \in Reports' : \A j \in Reports' : j <= i}
        /\ \A i \in Final' : mail'[i] = r
        /\ Final' # {} => r # "Starting"
        /\ Gtk => Reports' = DOMAIN mail'
    <3>1. CASE Gtk
      BY <2>1, <3>1 DEF States, Final, Reports
    <3>2. CASE ~Gtk
      BY <1>0, <2>1, <2>2, <3>2, MailGrows DEF States, Reports, Gtk
    <3> QED
      BY <3>1, <3>2
  <2>5. TypeOK' /\ work' \in WorkLists
    <3>1. work' \in WorkLists
      BY <2>1, <2>3 DEF WorkLists
    <3>2. work' \in Seq({"start", "stop", "progress", "report"} \cup Override)
      BY <3>1, WorkIsSeq
    <3> QED
      BY <2>2, <2>4, <3>1, <3>2 DEF TypeOK
  <2>6. ReportIsTrue'
    BY <2>1, <2>2, <2>3, <2>4 DEF ReportIsTrue, IsUp, Gtk
  <2>7. DownBeforeStart' /\ UpServesListed' /\ LeavesInOrder' /\ SettledAgrees' /\ TickFits'
    BY <1>0, <1>1, <2>2, <2>3 DEF TickFits, Timer, Gtk, DownBeforeStart, UpServesListed,
       LeavesInOrder, SettledAgrees, Busy, IsUp
  <2> QED
    BY <2>5, <2>6, <2>7
<1>6. CASE WorkerThrows
  <2>1. TypeOK' /\ work' \in WorkLists
    <3>1. work' \in WorkLists
      BY <1>6 DEF WorkerThrows, WorkLists
    <3>2. server' \in {"down", "up", "ill"} /\ served' \in Override \cup {Config}
      BY <1>6 DEF WorkerThrows, TypeOK
    <3> QED
      BY <1>6, <3>1, <3>2, WorkIsSeq DEF WorkerThrows, TypeOK
  <2>2. ReportIsTrue'
    BY <1>0, <1>6 DEF WorkerThrows, ReportIsTrue, Final, Reports, Gtk
  <2>3. DownBeforeStart' /\ UpServesListed' /\ LeavesInOrder' /\ SettledAgrees' /\ TickFits'
    BY <1>0, <1>1, <1>6
       DEF TickFits, Timer, Gtk, WorkerThrows, DownBeforeStart, UpServesListed, LeavesInOrder, SettledAgrees, Busy, IsUp
  <2> QED
    BY <2>1, <2>2, <2>3
<1> QED
  BY <1>2, <1>3, <1>4, <1>5, <1>6 DEF Worker

--------------------------------------------------------------------------------
(* The event loop's thread lives, and is not in a tick. *)
LEMMA IdleIsLive == Idle => exit = "live" /\ window # "gone"
BY DEF Idle, Live

(* The lists of work a handler gives the worker. *)
LEMMA ListsAreWork ==
  /\ StartSteps \in WorkLists /\ StartSteps # <<>>
  /\ StopSteps \in WorkLists /\ StopSteps # <<>> /\ Head(StopSteps) = "stop"
  /\ RestartSteps \in WorkLists /\ RestartSteps # <<>> /\ Head(RestartSteps) = "stop"
  /\ \A sent \in Override :
       OverrideSteps(sent) \in WorkLists /\ OverrideSteps(sent) # <<>> /\ Head(OverrideSteps(sent)) = "stop"
<1>1. StartSteps \in WorkLists /\ StartSteps # <<>>
  BY DEF StartSteps, WorkLists
<1>2. StopSteps \in WorkLists /\ StopSteps # <<>> /\ Head(StopSteps) = "stop"
  BY DEF StopSteps, WorkLists
<1>3. RestartSteps \in WorkLists /\ RestartSteps # <<>> /\ Head(RestartSteps) = "stop"
  BY DEF RestartSteps, WorkLists
<1>4. ASSUME NEW sent \in Override
      PROVE  OverrideSteps(sent) \in WorkLists /\ OverrideSteps(sent) # <<>> /\ Head(OverrideSteps(sent)) = "stop"
  BY DEF OverrideSteps, WorkLists
<1> QED
  BY <1>1, <1>2, <1>3, <1>4

(* Buttons, settings, other processes and rescans keep the invariant. *)
LEMMA AskKeeps ==
  ASSUME Inv,
         \/ AskStartStop \/ AskRestart \/ (\E sent \in Override : AskOverride(sent))
         \/ AskRescan \/ ScanEnds \/ ScanThrows \/ HealthChanges
  PROVE  Inv'
<1> USE DEF Inv, shown, timer, scans, sources
<1>0. TickFits /\ polls \in 0..Patience /\ {latched, scanning, scanner, threw} \subseteq BOOLEAN
      /\ window \in {"open", "closing", "gone"}
  BY DEF TypeOK
<1>1. CASE AskStartStop
  <2>1. exit = "live" /\ Free /\ Timer /\ latched' \in BOOLEAN
        /\ UNCHANGED <<build, window, mail, scanning, scanner, server, override, served, exit, threw>>
    BY <1>0, <1>1, IdleIsLive, TimerRests DEF AskStartStop, StartServer, StopServer
  <2>2. CASE StartServer
    <3>1. ~IsUp /\ Begin("Starting", StartSteps)
      BY <2>1, <2>2 DEF StartServer, Free, SettledAgrees
    <3> QED
      BY <2>1, <3>1, BeginKeeps, ListsAreWork
  <2>3. CASE StopServer
    BY <2>1, <2>3, BeginKeeps, ListsAreWork DEF StopServer
  <2> QED
    BY <1>1, <2>2, <2>3 DEF AskStartStop
<1>2. CASE AskRestart
  <2>1. exit = "live" /\ Free /\ Timer /\ latched' \in BOOLEAN /\ Begin("Stopping", RestartSteps)
        /\ UNCHANGED <<build, window, mail, scanning, scanner, server, override, served, exit, threw>>
    BY <1>0, <1>2, IdleIsLive, TimerRests DEF AskRestart, RestartServer
  <2> QED
    BY <2>1, BeginKeeps, ListsAreWork
<1>3. ASSUME NEW sent \in Override, AskOverride(sent)
      PROVE  Inv'
  <2>1. exit = "live" /\ Free /\ Timer /\ latched' \in BOOLEAN
        /\ UNCHANGED <<build, latched, window, tick, polls, mail, scanning, scanner, server, served, exit, threw>>
    BY <1>0, <1>3, IdleIsLive, TimerRests DEF AskOverride
  <2>2. CASE IsUp
    BY <1>3, <2>1, <2>2, BeginKeeps, ListsAreWork DEF AskOverride
  <2>3. CASE ~IsUp
    <3>1. override' = sent /\ UNCHANGED <<state, work>>
      BY <1>3, <2>3 DEF AskOverride
    <3>2. TypeOK'
      BY <2>1, <3>1 DEF TypeOK, States
    <3>3. ReportIsTrue'
      BY <2>1, <3>1 DEF ReportIsTrue, Final, Reports, IsUp, Gtk
    <3>4. DownBeforeStart' /\ UpServesListed' /\ LeavesInOrder' /\ SettledAgrees' /\ TickFits'
      BY <2>1, <2>3, <3>1
         DEF TickFits, Timer, Gtk, DownBeforeStart, UpServesListed, LeavesInOrder, SettledAgrees, Busy, IsUp, Reports
    <3> QED
      BY <3>1, <3>2, <3>3, <3>4
  <2> QED
    BY <2>2, <2>3
<1>4. CASE AskRescan
  <2>1. /\ exit = "live" /\ Timer /\ scanning' = TRUE /\ scanner' = TRUE
        /\ UNCHANGED <<build, state, latched, window, work, mail, server, override, served, exit, threw>>
    BY <1>4, IdleIsLive, TimerRests DEF AskRescan
  <2> QED
    BY <1>0, <2>1, CalmKeeps
<1>5. CASE ScanThrows
  <2>1. exit # "live" => exit \in {"killed", "joins"}
    BY <1>5 DEF ScanThrows, LeavesInOrder, TypeOK
  <2>2. /\ Timer /\ latched' \in BOOLEAN /\ scanning' \in BOOLEAN /\ scanner' = FALSE /\ threw' = TRUE
        /\ UNCHANGED <<build, state, window, work, mail, server, override, served, exit>>
    BY <1>0, <1>5, TimerRests DEF ScanThrows
  <2> QED
    BY <1>0, <2>1, <2>2, CalmKeeps
<1>6. CASE ScanEnds
  <2>1. UNCHANGED <<build, state, latched, window, tick, polls, work, server, override, served, exit, threw>>
        /\ exit # "ended" /\ scanner = TRUE /\ scanner' = FALSE /\ scanning' \in BOOLEAN
        /\ mail' = IF Gtk THEN mail ELSE Append(mail, "scanned")
    BY <1>0, <1>6 DEF ScanEnds
  <2>2. /\ mail' \in Seq(States \cup {"scanned"}) /\ Reports' = Reports /\ Final' = Final
        /\ \A i \in DOMAIN mail : mail'[i] = mail[i]
        /\ Gtk => mail' = mail
    <3>1. CASE Gtk
      BY <2>1, <3>1 DEF TypeOK, Reports, Final
    <3>2. CASE ~Gtk
      BY <2>1, <3>2, MailGrows
    <3> QED
      BY <3>1, <3>2
  <2>3. TypeOK'
    BY <2>1, <2>2, ZenonT(60) DEF TypeOK
  <2>4. ReportIsTrue'
    BY <2>1, <2>2 DEF ReportIsTrue, Final, IsUp, Gtk
  <2>5. DownBeforeStart' /\ UpServesListed' /\ LeavesInOrder' /\ SettledAgrees' /\ TickFits'
    BY <2>1, <2>2 DEF TickFits, Timer, Gtk, DownBeforeStart, UpServesListed, LeavesInOrder,
       SettledAgrees, Busy, IsUp
  <2> QED
    BY <2>1, <2>3, <2>4, <2>5
<1>7. CASE HealthChanges
  <2>1. UNCHANGED <<build, state, latched, window, tick, polls, work, mail, scanning, scanner,
                    override, served, exit, threw>>
        /\ IsUp /\ IsUp' /\ server' \in {"up", "ill"} /\ server # "down"
    BY <1>7 DEF HealthChanges, IsUp
  <2>2. TypeOK'
    BY <2>1 DEF TypeOK
  <2>3. ReportIsTrue'
    BY <2>1 DEF ReportIsTrue, Final, Reports, Gtk
  <2>4. exit = "live"
    BY <1>7 DEF HealthChanges
  <2>5. DownBeforeStart' /\ UpServesListed' /\ LeavesInOrder' /\ SettledAgrees' /\ TickFits'
    BY <2>1, <2>4 DEF TickFits, Timer, Gtk, DownBeforeStart, UpServesListed, LeavesInOrder,
       SettledAgrees, Busy, Reports
  <2> QED
    BY <2>1, <2>2, <2>3, <2>5
<1> QED
  BY <1>1, <1>2, <1>3, <1>4, <1>5, <1>6, <1>7

--------------------------------------------------------------------------------
(* A request to close. *)
LEMMA RequestCloseKeeps ==
  ASSUME Inv, exit = "live", RequestClose, Timer,
         UNCHANGED <<build, mail, scanning, scanner, server, override, served, exit, threw>>
  PROVE  Inv'
<1>1. {latched, scanning, scanner, threw} \subseteq BOOLEAN /\ window \in {"open", "closing", "gone"}
  BY DEF Inv, TypeOK
<1>2. CASE UNCHANGED <<state, work>> /\ latched' \in BOOLEAN /\ window' \in {window, "closing"}
  BY <1>1, <1>2, CalmKeeps
<1>3. CASE ~Busy /\ latched' = TRUE /\ Begin("Stopping", StopSteps) /\ UNCHANGED window
  BY <1>3, BeginKeeps, ListsAreWork DEF Free
<1> QED
  BY <1>1, <1>2, <1>3 DEF RequestClose, shown

(* Closing, killing and leaving keep the invariant. *)
LEMMA LeaveKeeps ==
  ASSUME Inv, AskClose \/ IdleDestroys \/ TrayExit \/ KillStops \/ LeaveJoins \/ LeaveStops
  PROVE  Inv'
<1> USE DEF Inv, shown, timer, scans, sources
<1>0. TickFits /\ polls \in 0..Patience /\ {latched, scanning, scanner, threw} \subseteq BOOLEAN
      /\ window \in {"open", "closing", "gone"} /\ Config \in Override \cup {Config}
  BY DEF TypeOK
<1>1. CASE AskClose /\ Gtk
  <2>1. /\ exit = "live" /\ RequestClose /\ Timer
        /\ UNCHANGED <<build, mail, scanning, scanner, server, override, served, exit, threw>>
    BY <1>1, IdleIsLive, TimerRests DEF AskClose
  <2> QED
    BY <2>1, RequestCloseKeeps
<1>2. ASSUME exit' # "live", exit' \in {"live", "killed", "joins", "stops", "ended"}, latched' \in BOOLEAN,
             window' = "gone", work' = work, scanner' = scanner,
             exit' \in {"stops", "ended"} => work = <<>> /\ ~scanner,
             server' = "down" \/ (server' = server /\ override' = override),
             override' \in {override, Config},
             exit' = "ended" => server' = "down",
             UNCHANGED <<build, state, tick, polls, mail, scanning, served, threw>>
      PROVE  Inv'
  <2>0. Timer
    BY <1>2, TimerRests
  <2>1. TypeOK'
    BY <1>0, <1>2 DEF TypeOK
  <2>2. ReportIsTrue'
    BY <1>2 DEF ReportIsTrue, Final, Reports, Gtk
  <2>3. DownBeforeStart' /\ UpServesListed' /\ LeavesInOrder' /\ SettledAgrees' /\ TickFits'
    BY <1>2, <2>0 DEF Timer, DownBeforeStart, UpServesListed, LeavesInOrder, SettledAgrees, IsUp
  <2> QED
    BY <1>2, <2>1, <2>2, <2>3
<1>3. CASE AskClose /\ ~Gtk
  <2>1. CASE MayClose
    BY <1>0, <1>2, <1>3, <2>1, IdleIsLive DEF AskClose, CloseMessage, LeavesInOrder
  <2>2. CASE ~MayClose
    <3>1. /\ Timer /\ latched' = (latched \/ state = "Stopping")
          /\ UNCHANGED <<build, state, window, work, mail, scanning, scanner, server, override, served, exit, threw>>
      BY <1>3, <2>2, TimerRests DEF AskClose, CloseMessage
    <3>2. latched' \in BOOLEAN
      BY <3>1
    <3> QED
      BY <1>0, <3>1, <3>2, CalmKeeps
  <2> QED
    BY <2>1, <2>2
<1>4. CASE IdleDestroys
  BY <1>0, <1>2, <1>4, IdleIsLive DEF IdleDestroys, LeavesInOrder
<1>5. CASE TrayExit
  BY <1>0, <1>2, <1>5, IdleIsLive DEF TrayExit, LeavesInOrder
<1>6. CASE KillStops
  <2>1. /\ exit' = "joins" /\ server' = "down" /\ override' \in {override, Config} /\ work = <<>>
        /\ window = "gone" /\ (exit' = "ended" => ~scanner)
        /\ UNCHANGED <<build, state, latched, window, tick, polls, work, mail, scanning, scanner, served, threw>>
    BY <1>6 DEF KillStops, LeavesInOrder
  <2> QED
    BY <1>0, <1>2, <2>1
<1>7. CASE LeaveJoins
  BY <1>0, <1>2, <1>7 DEF LeaveJoins, WorkerJoined, LeavesInOrder
<1>8. CASE LeaveStops
  <2>1. /\ exit' = "ended" /\ server' = "down" /\ override' \in {override, Config} /\ work = <<>>
        /\ window = "gone" /\ (exit' = "ended" => ~scanner)
        /\ UNCHANGED <<build, state, latched, window, tick, polls, work, mail, scanning, scanner, served, threw>>
    BY <1>8 DEF LeaveStops, LeavesInOrder
  <2> QED
    BY <1>0, <1>2, <2>1
<1> QED
  BY <1>1, <1>3, <1>4, <1>5, <1>6, <1>7, <1>8

(* Messages and the timer keep it. *)
LEMMA TimerKeeps == Inv /\ (TakeMessage \/ Tick) => Inv'
<1> SUFFICES ASSUME Inv, TakeMessage \/ Tick PROVE Inv'
  OBVIOUS
<1> USE DEF Inv, shown, timer, scans, sources
<1>0. TickFits /\ polls \in 0..Patience /\ {latched, scanning, scanner, threw} \subseteq BOOLEAN
      /\ window \in {"open", "closing", "gone"}
  BY DEF TypeOK
<1>1. CASE TakeMessage
  <2>1. /\ exit = "live" /\ mail # <<>> /\ ~Gtk /\ mail' = Tail(mail) /\ Timer
        /\ UNCHANGED <<build, tick, polls, scanner, server, override, served, threw>>
    BY <1>1, IdleIsLive, TimerRests DEF TakeMessage
  <2>2. /\ mail' \in Seq(States \cup {"scanned"}) /\ Head(mail) \in States \cup {"scanned"}
        /\ Reports' = {i \in 1..(Len(mail) - 1) : i + 1 \in Reports}
        /\ Final' = {i \in 1..(Len(mail) - 1) : i + 1 \in Final}
        /\ Head(mail) \in States => 1 \in Reports /\ (Head(mail) \in {"Running", "Stopped"} <=> 1 \in Final)
    BY <2>1, MailShrinks
  <2>3. mail \in Seq(States \cup {"scanned"})
    BY DEF TypeOK
  <2>4. \A i \in Final' : (mail'[i] = "Running" <=> IsUp) /\ \A j \in Reports' : j <= i
    BY <2>1, <2>2, <2>3 DEF ReportIsTrue
  <2>5. work # <<>> => Final' = {}
    BY <2>2 DEF ReportIsTrue
  <2>6. CASE Head(mail) = "scanned"
    <3>1. scanning' = FALSE /\ UNCHANGED <<state, latched, window, work, exit>>
      BY <1>1, <2>6 DEF TakeMessage
    <3>2. TypeOK'
      BY <2>1, <2>2, <3>1 DEF TypeOK
    <3>3. ReportIsTrue'
      BY <2>1, <2>4, <2>5, <3>1 DEF ReportIsTrue, IsUp, Gtk
    <3>4. DownBeforeStart' /\ UpServesListed' /\ LeavesInOrder' /\ SettledAgrees' /\ TickFits'
      BY <2>1, <2>2, <3>1 DEF TickFits, Timer, Gtk, DownBeforeStart, UpServesListed,
         LeavesInOrder, SettledAgrees, Busy, IsUp
    <3> QED
      BY <3>1, <3>2, <3>3, <3>4
  <2>7. CASE Head(mail) # "scanned"
    <3>1. Head(mail) \in States /\ Apply(Head(mail)) /\ scanning' \in BOOLEAN /\ 1 \in Reports
      BY <1>0, <1>1, <2>2, <2>7 DEF TakeMessage
    <3>2. Busy
      BY <2>1, <3>1 DEF SettledAgrees
    <3>3. Head(mail) = mail[1]
      BY <2>1, <2>3
    <3>4. Head(mail) \in {"Running", "Stopped"} => (Head(mail) = "Running" <=> IsUp) /\ Reports' = {}
      BY <2>1, <2>2, <2>3, <3>1, <3>3 DEF ReportIsTrue, Reports
    <3> QED
      BY <2>1, <2>2, <2>4, <2>5, <3>1, <3>2, <3>4, ApplyKeeps
  <2> QED
    BY <2>6, <2>7
<1>2. CASE TickBegins
  <2>1. Timer
    <3>1. CASE Gtk
      BY <1>0, <1>2, <3>1 DEF TickBegins, Timer, TickFits, Gtk, Parts
    <3>2. CASE ~Gtk
      <4>1. tick' = <<"restored", "health">> /\ build' = build /\ polls' = polls
        BY <1>2, <3>2 DEF TickBegins
      <4>2. tick' \in Seq(Parts)
        BY <4>1 DEF Parts
      <4> QED
        BY <1>0, <4>1, <4>2 DEF Timer, TickFits
    <3> QED
      BY <3>1, <3>2
  <2> QED
    BY <1>0, <1>2, <2>1, CalmKeeps DEF TickBegins
<1>3. ASSUME NEW p, Part(p)
      PROVE  exit = "live" /\ TickFits'
  <2>1. exit = "live" /\ tick # <<>> /\ tick' = Tail(tick)
    BY <1>3 DEF Part, Live
  <2>2. UNCHANGED build
    BY DEF TakeMessage, Tick, TickBegins, TickSignal, TickHealth, TickResult, TickRestored
  <2>3. tick' \in Seq(Parts)
    BY <1>0, <2>1 DEF TickFits
  <2> QED
    <3>1. CASE Gtk
      BY <2>1, <2>2, <2>3, <3>1 DEF TickFits, Gtk
    <3>2. CASE tick = <<"health">>
      <4>1. tick' = <<>>
        BY <2>1, <3>2
      <4> QED
        BY <2>1, <2>3, <4>1 DEF TickFits
    <3>3. CASE tick = <<"restored", "health">>
      <4>1. tick' = <<"health">>
        BY <2>1, <3>3
      <4> QED
        BY <2>1, <2>3, <4>1 DEF TickFits
    <3> QED
      BY <1>0, <2>1, <3>1, <3>2, <3>3 DEF TickFits
<1>4. CASE TickSignal
  <2>1. exit = "live" /\ Timer
    BY <1>0, <1>3, <1>4 DEF TickSignal, Timer
  <2> QED
    BY <1>0, <1>4, <2>1, RequestCloseKeeps, CalmKeeps DEF TickSignal
<1>5. CASE TickHealth
  <2>1. exit = "live" /\ Timer
    <3>1. Count \in 0..Patience
      BY <1>0, InterfaceAssumption DEF Count, InterfaceAssumption
    <3> QED
      BY <1>3, <1>5, <3>1 DEF TickHealth, Timer
  <2>2. CASE StopServer
    BY <1>0, <1>5, <2>1, <2>2, BeginKeeps, ListsAreWork DEF TickHealth, StopServer
  <2>3. CASE UNCHANGED <<state, work>>
    BY <1>0, <1>5, <2>1, <2>3, CalmKeeps DEF TickHealth
  <2> QED
    BY <1>5, <2>2, <2>3 DEF TickHealth
<1>6. CASE TickRestored
  <2>1. exit = "live" /\ Timer
    BY <1>0, <1>3, <1>6 DEF TickRestored, Timer
  <2>2. CASE RestartServer
    BY <1>0, <1>6, <2>1, <2>2, BeginKeeps, ListsAreWork DEF TickRestored, RestartServer
  <2>3. CASE UNCHANGED <<state, work>>
    BY <1>0, <1>6, <2>1, <2>3, CalmKeeps DEF TickRestored
  <2> QED
    BY <1>6, <2>2, <2>3 DEF TickRestored
<1>7. CASE TickResult
  <2>1. /\ exit = "live" /\ Timer /\ mail' = <<>>
        /\ UNCHANGED <<build, polls, scanning, scanner, server, override, served, threw>>
    BY <1>0, <1>3, <1>7 DEF TickResult, Timer
  <2>2. Gtk
    BY <1>0, <1>7 DEF TickResult, Part, TickFits
  <2>3. mail' \in Seq(States \cup {"scanned"}) /\ Reports' = {} /\ Final' = {} /\ DOMAIN mail' = {}
    BY <2>1 DEF Reports, Final
  <2>4. CASE mail = <<>>
    <3>1. UNCHANGED <<state, latched, window, mail, work, exit>>
      BY <1>7, <2>1, <2>4 DEF TickResult
    <3> QED
      BY <1>0, <2>1, <3>1, CalmKeeps
  <2>5. CASE mail # <<>>
    <3>1. Apply(Head(mail)) /\ Head(mail) = mail[1] /\ 1 \in DOMAIN mail /\ mail[1] \in States \cup {"scanned"}
      BY <1>7, <2>5 DEF TickResult, TypeOK
    <3>2. 1 \in Reports /\ Head(mail) \in States
      BY <2>2, <3>1 DEF ReportIsTrue, Reports
    <3>3. Busy
      BY <2>1, <3>2 DEF SettledAgrees
    <3>4. Head(mail) \in {"Running", "Stopped"} => (Head(mail) = "Running" <=> IsUp)
      BY <2>1, <3>1 DEF ReportIsTrue, Final
    <3> QED
      BY <1>0, <2>1, <2>3, <3>1, <3>2, <3>3, <3>4, ApplyKeeps
  <2> QED
    BY <2>4, <2>5
<1> QED
  BY <1>1, <1>2, <1>4, <1>5, <1>6, <1>7 DEF Tick

(* Every step keeps the invariant. *)
LEMMA InvNext == Inv /\ [Next]_vars => Inv'
<1> SUFFICES ASSUME Inv, [Next]_vars PROVE Inv'
  OBVIOUS
<1>1. CASE UNCHANGED vars
  BY <1>1 DEF vars, Inv, TypeOK, TickFits, DownBeforeStart, UpServesListed, ReportIsTrue, Final,
     LeavesInOrder, SettledAgrees, Reports, Busy, IsUp, Gtk
<1>2. CASE Next
  <2>1. CASE Ended
    BY <1>1, <2>1 DEF Ended
  <2> QED
    BY <1>2, <2>1, WorkerKeeps, AskKeeps, LeaveKeeps, TimerKeeps DEF Next
<1> QED
  BY <1>1, <1>2

(* The invariant holds in every state. *)
THEOREM InvHolds == Spec => []Inv
BY InvInit, InvNext, PTL DEF Spec

(* What the window shows is what there is: a settled window has no worker  *)
(* and no report under way, its state is the server's, and the sources it  *)
(* lists are the ones served.                                              *)
THEOREM WindowShowsServer == Spec => []WindowAgrees
<1>1. Inv => WindowAgrees
  BY DEF Inv, WindowAgrees, SettledAgrees, ListedIsServed, UpServesListed, Busy
<1> QED
  BY <1>1, InvHolds, PTL

(* A process that ends leaves no thread and no server behind, whichever    *)
(* way it ends.                                                            *)
THEOREM NothingIsLeft == Spec => []LeavesNothing
<1>1. Inv => LeavesNothing
  BY DEF Inv, LeavesInOrder, LeavesNothing
<1> QED
  BY <1>1, InvHolds, PTL

================================================================================
