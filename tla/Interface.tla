------------------------------- MODULE Interface -------------------------------
(***************************************************************************)
(* The windows of the two builds (gtk4_gui_main.cpp and mainwindow.cpp) as *)
(* far as they drive the server: one user-interface thread, one worker     *)
(* thread that starts and stops the server and reports, one thread that    *)
(* rescans.  The worker's reports reach the window through one slot that   *)
(* the next report overwrites (GTK, read by a timer) or through the        *)
(* thread's message queue (Windows).                                       *)
(*                                                                         *)
(* Handlers of the user-interface thread are one step each; a tick of the  *)
(* timer is the sequence of its parts, and workers run between them.       *)
(* Message boxes are taken to be answered at once.                         *)
(***************************************************************************)
EXTENDS Naturals, Sequences

CONSTANTS Override,   \* lists of temporary sources other processes send
          Config,     \* the sources of config.ini
          Patience    \* kMinConsecutiveUnhealthyPolls

ASSUME InterfaceAssumption ==
  /\ Config \notin Override /\ Patience \in Nat \ {0}
  /\ Override \cap {"start", "stop", "progress", "report"} = {}

VARIABLES
  build,              \* "gtk" or "windows"
  state, latched,     \* the window's state of the server; ClosePendingState
  window,             \* "open", "closing": a destroy is on the idle list, "gone"
  tick,               \* the parts of the timer's tick that are left
  polls,              \* consecutive unhealthy polls
  work, mail,         \* the worker's steps that are left; its reports
  scanning, scanner,  \* the rescan flag; whether the rescan thread is in Rescan
  server,             \* "down", "up" or "ill": up, and IsHealthy answers no
  override, served,   \* the runtime source override; what the server serves
  exit,               \* how far the process has got with leaving
  threw               \* an exception ended a worker (RunGuarded logs it)

vars == <<build, state, latched, window, tick, polls, work, mail, scanning,
          scanner, server, override, served, exit, threw>>

shown   == <<state, latched, window>>
timer   == <<tick, polls>>
scans   == <<scanning, scanner>>
sources == <<override, served>>

States == {"Stopped", "Starting", "Running", "Stopping"}
Gtk    == build = "gtk"
Live   == exit = "live" /\ window # "gone"
Idle   == Live /\ tick = <<>>            \* the thread waits for its next event
Busy   == state \in {"Starting", "Stopping"}
IsUp   == server # "down"

Init ==
  /\ build \in {"gtk", "windows"}
  /\ state = "Stopped" /\ latched = FALSE /\ window = "open"
  /\ tick = <<>> /\ polls = 0
  /\ work = <<>> /\ mail = <<>>
  /\ scanning = FALSE /\ scanner = FALSE
  /\ server = "down" /\ served = Config
  /\ override \in Override \cup {Config}     \* --source on the command line
  /\ exit = "live" /\ threw = FALSE

--------------------------------------------------------------------------------
(* What a worker is given to do. *)
StartSteps == <<"start", "report">>
StopSteps  == <<"stop", "report">>

\* The GTK restart says nothing between its two halves.
RestartSteps == IF Gtk THEN <<"stop", "start", "report">>
                       ELSE <<"stop", "progress", "start", "report">>

\* The override is set after the stop, which clears it.
OverrideSteps(sent) == <<"stop", sent, "progress", "start", "report">>

\* fault: the buttons are not checked against a worker under way
FreeAlways == TRUE
Free == ~Busy

\* Joins the last worker and starts the next.
Begin(transition, steps) ==
  /\ work = <<>>
  /\ state' = transition
  /\ work' = steps

StartServer == Free /\ state # "Running" /\ Begin("Starting", StartSteps)
StopServer  == Free /\ state = "Running" /\ Begin("Stopping", StopSteps)
RestartServer ==
  Free /\ (Gtk => state = "Running") /\ Begin("Stopping", RestartSteps)

--------------------------------------------------------------------------------
(* The worker. *)
StepIs(s) == exit # "ended" /\ work # <<>> /\ Head(work) = s /\ work' = Tail(work)

\* SetPendingResult has one slot; PostMessageW has a queue.
Report(r) == mail' = IF Gtk THEN <<r>> ELSE Append(mail, r)

WorkerStarts ==
  /\ StepIs("start")
  /\ \/ server' = "up" /\ served' = override
     \/ UNCHANGED <<server, served>>                    \* Start answers false
  /\ UNCHANGED <<build, shown, timer, mail, scans, override, exit, threw>>

\* Server::Stop clears the override.
WorkerStops ==
  /\ StepIs("stop")
  /\ server' = "down" /\ override' = Config
  /\ UNCHANGED <<build, shown, timer, mail, scans, served, exit, threw>>

WorkerSetsOverride ==
  /\ \E sent \in Override : StepIs(sent) /\ override' = sent
  /\ UNCHANGED <<build, shown, timer, mail, scans, server, served, exit, threw>>

WorkerReports ==
  /\ \/ StepIs("progress") /\ Report("Starting")
     \/ StepIs("report") /\ Report(IF IsUp THEN "Running" ELSE "Stopped")
  /\ UNCHANGED <<build, shown, timer, scans, server, sources, exit, threw>>

\* An exception out of Start or Stop: RunGuarded logs it, nothing is reported.
WorkerThrows ==
  /\ exit # "ended" /\ work # <<>> /\ Head(work) \in {"start", "stop"}
  /\ work' = <<>> /\ threw' = TRUE
  /\ server' \in {server, IF Head(work) = "stop" THEN "down" ELSE "up"}
  /\ served' = IF server' = "up" THEN override ELSE served
  /\ UNCHANGED <<build, shown, timer, mail, scans, override, exit>>

Worker == WorkerStarts \/ WorkerStops \/ WorkerSetsOverride \/ WorkerReports

--------------------------------------------------------------------------------
(* Reports. *)

\* ClosePendingState::ShouldStopAgainAfterOperation
\* fault: the close is honoured by a stop only
NeverAgain(r) == FALSE
StopsAgain(r) == latched /\ r = "Running"

\* ApplyPendingResult, CompleteServerOperation and WM_SERVER_OPERATION_PROGRESS
Apply(r) ==
  /\ r \in {"Running", "Stopped"} => work = <<>>            \* the join
  /\ CASE latched /\ r = "Stopped" ->
            state' = r /\ latched' = FALSE /\ exit' = "joins" /\ window' = "gone"
            /\ UNCHANGED work
       [] StopsAgain(r) ->
            Begin("Stopping", StopSteps) /\ UNCHANGED <<latched, exit, window>>
       [] OTHER ->
            state' = r /\ UNCHANGED <<latched, exit, window, work>>

\* Windows: the thread takes its next message.
TakeMessage ==
  /\ Idle /\ mail # <<>> /\ ~Gtk
  /\ mail' = Tail(mail)
  /\ IF Head(mail) = "scanned"
       THEN scanning' = FALSE /\ UNCHANGED <<shown, work, exit>>
       ELSE Apply(Head(mail)) /\ UNCHANGED scanning
  /\ UNCHANGED <<build, timer, scanner, server, sources, threw>>

--------------------------------------------------------------------------------
(* Closing. *)

\* ShouldCloseNow
MayClose == ~IsUp /\ ~Busy

RequestClose ==                                          \* GTK
  \/ latched /\ UNCHANGED <<shown, work>>
  \/ ~latched /\ Busy /\ latched' = TRUE /\ UNCHANGED <<state, window, work>>
  \/ ~latched /\ MayClose /\ window' = "closing" /\ UNCHANGED <<state, latched, work>>
  \/ /\ ~latched /\ ~Busy /\ ~MayClose
     /\ latched' = TRUE
     /\ Begin("Stopping", StopSteps) /\ UNCHANGED window

\* WM_CLOSE and WM_REQUEST_SHUTDOWN: destroy, or hide and remember a close
\* that came while the server was stopping.
CloseMessage ==
  IF MayClose
    THEN window' = "gone" /\ exit' = "joins" /\ UNCHANGED <<state, latched, work>>
    ELSE latched' = (latched \/ state = "Stopping") /\ UNCHANGED <<state, window, work, exit>>

AskClose ==
  /\ Idle
  /\ IF Gtk THEN RequestClose /\ UNCHANGED exit ELSE CloseMessage
  /\ UNCHANGED <<build, timer, mail, scans, server, sources, threw>>

\* GTK: the idle callback of RequestClose
IdleDestroys ==
  /\ Idle /\ window = "closing"
  /\ window' = "gone" /\ exit' = "joins"
  /\ UNCHANGED <<build, state, latched, timer, work, mail, scans, server, sources, threw>>

\* Windows: Exit in the tray menu leaves the message loop, without a close;
\* WM_KILL_SERVER joins the worker, stops the server, then destroys the window.
TrayExit ==
  /\ Idle /\ ~Gtk
  /\ exit' \in {"joins", "killed"} /\ window' = "gone"
  /\ UNCHANGED <<build, state, latched, timer, work, mail, scans, server, sources, threw>>

\* WM_KILL_SERVER up to DestroyWindow
KillStops ==
  /\ exit = "killed" /\ work = <<>>
  /\ exit' = "joins"
  /\ server' = "down" /\ override' = IF IsUp THEN Config ELSE override
  /\ UNCHANGED <<build, shown, timer, work, mail, scans, served, threw>>

\* fault: the process does not wait for its worker
WorkerLeft == TRUE
WorkerJoined == work = <<>>

\* The end of main (GTK); WM_DESTROY and ~MainWindow (Windows).
LeaveJoins ==
  /\ exit = "joins" /\ WorkerJoined /\ ~scanner
  /\ exit' = "stops"
  /\ UNCHANGED <<build, shown, timer, work, mail, scans, server, sources, threw>>

LeaveStops ==
  /\ exit = "stops"
  /\ exit' = "ended"
  /\ server' = "down" /\ override' = IF IsUp THEN Config ELSE override
  /\ UNCHANGED <<build, shown, timer, work, mail, scans, served, threw>>

--------------------------------------------------------------------------------
(* Requests of the user and of other processes. *)
AskStartStop ==
  /\ Idle
  /\ StartServer \/ StopServer
  /\ UNCHANGED <<build, latched, window, timer, mail, scans, server, sources, exit, threw>>

\* The settings dialog was left with a restart.
AskRestart ==
  /\ Idle
  /\ IF Gtk THEN IsUp ELSE state = "Running"
  /\ RestartServer
  /\ UNCHANGED <<build, latched, window, timer, mail, scans, server, sources, exit, threw>>

\* --source of a second process: ApplySourceOverridePayload, WM_COPYDATA
AskOverride(sent) ==
  /\ Idle /\ Free
  /\ IF IsUp
       THEN Begin("Stopping", OverrideSteps(sent)) /\ UNCHANGED override
       ELSE override' = sent /\ UNCHANGED <<state, work>>
  /\ UNCHANGED <<build, latched, window, timer, mail, scans, server, served, exit, threw>>

\* BeginRescan joins the thread of the last rescan.
AskRescan ==
  /\ Idle /\ ~scanning /\ ~scanner
  /\ IF Gtk THEN ~latched ELSE Free
  /\ scanning' = TRUE /\ scanner' = TRUE
  /\ UNCHANGED <<build, shown, timer, work, mail, server, sources, exit, threw>>

\* The rescan ends and says so, or throws and says nothing.
ScanEnds ==
  /\ exit # "ended" /\ scanner /\ scanner' = FALSE
  /\ scanning' = (scanning /\ ~Gtk)
  /\ mail' = IF Gtk THEN mail ELSE Append(mail, "scanned")
  /\ UNCHANGED <<build, shown, timer, work, server, sources, exit, threw>>
ScanThrows ==
  /\ exit # "ended" /\ scanner /\ scanner' = FALSE
  /\ threw' = TRUE
  /\ UNCHANGED <<build, shown, timer, work, mail, scanning, server, sources, exit>>

--------------------------------------------------------------------------------
(* The timer: OnPollTick, WM_TIMER. *)
TickBegins ==
  /\ Idle
  /\ tick' = IF Gtk THEN <<"signal", "health", "result", "restored">>
                    ELSE <<"restored", "health">>
  /\ UNCHANGED <<build, shown, polls, work, mail, scans, server, sources, exit, threw>>

Part(p) == Live /\ tick # <<>> /\ Head(tick) = p /\ tick' = Tail(tick)

\* GTK: a termination signal closes like the user.
TickSignal ==
  /\ Part("signal")
  /\ RequestClose \/ UNCHANGED <<shown, work>>
  /\ UNCHANGED <<build, polls, mail, scans, server, sources, exit, threw>>

\* The Windows count is kept, not reset, while the server does not run.
\* fault: the count starts afresh at every poll
CountAfresh == IF server = "ill" THEN 1 ELSE 0
Count ==
  IF state = "Running"
    THEN IF server # "ill" THEN 0
         ELSE IF polls < Patience THEN polls + 1 ELSE Patience
    ELSE IF Gtk THEN 0 ELSE polls

\* ShouldTreatServerAsUnhealthy
TickHealth ==
  /\ Part("health")
  /\ polls' = Count
  /\ IF state = "Running" /\ server = "ill" /\ Count >= Patience
       THEN StopServer
       ELSE UNCHANGED <<state, work>>
  /\ UNCHANGED <<build, latched, window, mail, scans, server, sources, exit, threw>>

TickResult ==
  /\ Part("result")
  /\ mail' = <<>>
  /\ IF mail = <<>> THEN UNCHANGED <<shown, work, exit>> ELSE Apply(Head(mail))
  /\ UNCHANGED <<build, polls, scans, server, sources, threw>>

\* ConsumeNetworkRestored answered yes, and then the user.
TickRestored ==
  /\ Part("restored")
  /\ \/ state = "Running" /\ IsUp /\ (Gtk => ~latched) /\ RestartServer
     \/ UNCHANGED <<state, work>>
  /\ UNCHANGED <<build, latched, window, polls, mail, scans, server, sources, exit, threw>>

\* A thread of the server ends, or SSDP is away for a restart.
HealthChanges ==
  /\ exit = "live" /\ IsUp
  /\ server' = IF server = "up" THEN "ill" ELSE "up"
  /\ UNCHANGED <<build, shown, timer, work, mail, scans, sources, exit, threw>>

Ended == exit = "ended" /\ UNCHANGED vars

Tick == TickBegins \/ TickSignal \/ TickHealth \/ TickResult \/ TickRestored
Next ==
  \/ Worker \/ WorkerThrows \/ TakeMessage
  \/ AskClose \/ IdleDestroys \/ TrayExit \/ KillStops \/ LeaveJoins \/ LeaveStops
  \/ AskStartStop \/ AskRestart \/ (\E sent \in Override : AskOverride(sent))
  \/ AskRescan \/ ScanEnds \/ ScanThrows
  \/ Tick \/ HealthChanges \/ Ended

\* Threads run; the event loop runs the timer, and between its ticks the messages
\* and idle callbacks, which a tick does not drop (strong fairness); users and other processes need not do anything.
Fairness ==
  /\ WF_vars(Worker) /\ WF_vars(ScanEnds)
  /\ WF_vars(Tick) /\ SF_vars(TakeMessage) /\ SF_vars(IdleDestroys)
  /\ WF_vars(KillStops) /\ WF_vars(LeaveJoins) /\ WF_vars(LeaveStops)

Spec == Init /\ [][Next]_vars /\ Fairness

--------------------------------------------------------------------------------
TypeOK ==
  /\ build \in {"gtk", "windows"}
  /\ state \in States /\ latched \in BOOLEAN /\ window \in {"open", "closing", "gone"}
  /\ tick \in Seq({"signal", "health", "result", "restored"}) /\ polls \in 0..Patience
  /\ work \in Seq({"start", "stop", "progress", "report"} \cup Override)
  /\ mail \in Seq(States \cup {"scanned"})
  /\ scanning \in BOOLEAN /\ scanner \in BOOLEAN
  /\ server \in {"down", "up", "ill"}
  /\ override \in Override \cup {Config} /\ served \in Override \cup {Config}
  /\ exit \in {"live", "killed", "joins", "stops", "ended"} /\ threw \in BOOLEAN

Reports == {i \in DOMAIN mail : mail[i] # "scanned"}

\* While the window shows a settled state no worker is at the server, no report
\* is on its way, and the server is what the window says: every start, stop,
\* restart and override of button, tray, timer, signal or second process is let
\* in by the window's state alone.
SettledAgrees ==
  exit = "live" /\ ~Busy =>
    /\ work = <<>> /\ Reports = {}
    /\ IsUp <=> state = "Running"

\* While the window says that the server runs, the server serves the sources
\* the window lists: an override sent in the middle of a start or a stop cannot
\* come between the two, and a restart drops it on both sides.
ListedIsServed == exit = "live" /\ state = "Running" => served = override

\* What the window shows is what there is.
WindowAgrees == TypeOK /\ SettledAgrees /\ ListedIsServed

\* A process that ends leaves no thread behind at the server and no server:
\* whichever way it ends, and whatever a worker was about.
LeavesNothing == exit = "ended" => work = <<>> /\ ~scanner /\ server = "down"

\* A close that was put off is carried out: the worker's report ends the window,
\* or stops the server again first.  A worker that throws never reports.
CloseEnds == latched ~> (exit = "ended" \/ threw)

\* A server that stays ill is shut down by the polls, unless the user does
\* something else with it or the process ends.
IllIsStopped ==
  (state = "Running" /\ server = "ill") ~> (server # "ill" \/ Busy \/ exit # "live" \/ threw)
================================================================================
