----------------------------- MODULE Supervisor -----------------------------
(***************************************************************************)
(* How the service keeps one program running: CMonitorTask, its classes    *)
(* CMonitorTask_Event and CMonitorTask_Common (MonitorManage/              *)
(* MonitorTask.cpp) and CMonitorManager, called by the timer thread        *)
(* (unierm_ctrl_dll/MonitorSvc.cpp) and by the thread of the commands      *)
(* (ProbeDoCmd.cpp).  The build is the one for Linux.                      *)
(*                                                                         *)
(* A program of type "event" holds a process mutex while it runs, signals  *)
(* one named event and watches another one that asks it to stop            *)
(* (cpf/processrunhelper.cpp); one of type "common" is known by its pid    *)
(* alone.  Both threads work under m_Mutex, which they keep while they     *)
(* sleep and wait; the program starts, signals, crashes, hangs and is      *)
(* started by hand in between.  Events are bytes of shared memory and      *)
(* outlive every process (cpf/my_event.cpp).                               *)
(***************************************************************************)
EXTENDS Integers, Sequences

CONSTANTS Tasks,           \* entries of ProbeService.xml, see TaskType
          Pids,            \* pids instances of the program may get
          NoPid,           \* ACE_INVALID_PID
          ExistInterval,   \* nMonitorExistInterval, in ticks
          ActiveInterval,  \* nMonitorActiveInterval, in ticks
          StartTries,      \* STARTING_TIME_OUT (2 in the code)
          Jump,            \* ticks the clock is set back by at once
          MaxCmds,         \* bound: commands and scheduled stops
          MaxFaults        \* bound: what the environment does to the program and the service

(* kind is sztask_type; saved says that CMonitorTaskRW::SetMonitorTaskState finds
   the entry, timeback that it is listed in unierm_ctrl.xml. *)
TaskType == [kind : {"event", "common"}, saved : BOOLEAN, timeback : BOOLEAN]

ASSUME TasksOK == Tasks # {} /\ Tasks \subseteq TaskType
ASSUME PidsOK == NoPid \notin Pids /\ Pids # {}
ASSUME TimesOK == /\ ExistInterval \in Nat \ {0} /\ ActiveInterval \in Nat \ {0}
                  /\ StartTries \in Nat \ {0} /\ Jump \in Nat
                  /\ MaxCmds \in Nat /\ MaxFaults \in Nat

VARIABLES
  task,          \* the entry the program has
  run, perm,     \* nRunConfigState, nPermanentConfigState
  file,          \* ConfigState in ProbeService.xml
  stat,          \* m_nRunningState; STARTING and STOPPING are never assigned
  pid,           \* m_Pid
  exist, active, \* ticks since m_lastExistTime and m_lastActiveTime, as the clock shows them
  pc, tries,     \* where the thread in m_Mutex is ("idle": the mutex is free), starts waited for
  todo,          \* the changes it has still to make before it lets go
  cmd,           \* the changes the command thread has still to make, one lock each
  save,          \* the state the command thread has still to write to the file, or "none"
  os,            \* the processes: [Pids -> "none", "starting", "locked", "up", "hung"]
  mutex,         \* the holder of the process mutex
  monEvent, stopEvent,  \* szMonitorEventName and szStopEventName are signalled
  quiet,         \* ticks since the program signalled or took the mutex
  new,           \* an instance took the mutex since the last launch
  fresh,         \* the program or the clock changed since m_lastActiveTime was set
  jumped,        \* the clock was set back and the timer has not seen it
  rebooting,     \* "stopping": everything is being stopped for a restart of the machine,
                 \* "sleeping": it was, the machine restarts next; or "no"
  cmds, faults   \* how many there were

confVars == <<task, run, perm, file>>
monVars  == <<stat, pid, exist, active>>
lockVars == <<pc, tries, todo>>
cmdVars  == <<cmd, save, cmds>>
procVars == <<os, mutex, monEvent, stopEvent>>
envVars  == <<quiet, new, fresh, jumped, rebooting, faults>>
vars == <<task, run, perm, file, stat, pid, exist, active, pc, tries, todo, cmd, save, os,
          mutex, monEvent, stopEvent, quiet, new, fresh, jumped, rebooting, cmds, faults>>

Event == task.kind = "event"
Change(to, temp) == [to |-> to, temp |-> temp]
Changes == [to : {"START", "STOP"}, temp : BOOLEAN]
Alive == {p \in Pids : os[p] # "none"}
Running == {p \in Pids : os[p] \in {"locked", "up", "hung"}}
-----------------------------------------------------------------------------
(* The processes *)

(* A process that ends, of itself or by kill -9, lets the mutex go. *)
End(p) == /\ os' = IF p \in Pids THEN [os EXCEPT ![p] = "none"] ELSE os
          /\ mutex' = IF mutex = p THEN NoPid ELSE mutex

TerminateProcS_Ignored(p) == UNCHANGED procVars

(* TerminateProcS *)
TerminateProcS(p) == End(p) /\ UNCHANGED <<monEvent, stopEvent>>

(* FindProcessByName: the first of ps that carries the name. *)
Found(p) == p \in Alive \/ (p = NoPid /\ Alive = {})

(* process_active(m_Pid) *)
ProcessActive(p) == p \in Alive

(* IsTaskExist of both classes: what it answers, and the pid it may look up.  To see
   whether the mutex is free it takes and releases it; a program that starts at that
   very instant finds it taken and ends, as after a Launch that fails. *)
IsTaskExist(answer, p) ==
  IF Event
  THEN /\ answer = (mutex # NoPid)
       /\ IF answer /\ pid = NoPid THEN Found(p) ELSE p = pid
  ELSE /\ IF pid = NoPid THEN Found(p) ELSE p = pid
       /\ answer = ProcessActive(p)

(* IsTaskActive: of type "event" it consumes the event and may look the pid up.  That
   the event cannot be opened, which the code takes for active, is left out. *)
IsTaskActive(answer, p) ==
  IF Event
  THEN /\ answer = monEvent /\ monEvent' = FALSE
       /\ IF pid = NoPid THEN Found(p) ELSE p = pid
  ELSE IsTaskExist(answer, p) /\ UNCHANGED monEvent
-----------------------------------------------------------------------------
(* The end of ForceStartTask and ForceStopTask: the timer is done; a change of the
   configuration takes effect (ChangeConfigState ignores whether it succeeded) and
   the next one, if any, is up. *)
Return ==
  IF todo = <<>>
  THEN pc' = "idle" /\ UNCHANGED <<run, perm, todo, save, rebooting>>
  ELSE /\ run' = Head(todo).to
       /\ perm' = IF Head(todo).temp THEN perm ELSE Head(todo).to
       /\ save' = IF Head(todo).temp THEN save ELSE Head(todo).to
       /\ todo' = Tail(todo)
       /\ pc' = IF Tail(todo) = <<>> THEN "idle" ELSE "begin"
       /\ rebooting' = IF rebooting = "stopping" THEN "sleeping" ELSE rebooting

GoTo(place) == pc' = place /\ UNCHANGED <<run, perm, todo, save, rebooting>>

Seen_ExistOnly == exist' = 0 /\ fresh' = FALSE /\ UNCHANGED active
(* m_lastExistTime = m_lastActiveTime = now *)
Seen == exist' = 0 /\ active' = 0 /\ fresh' = FALSE
NotSeen == UNCHANGED <<exist, active, fresh>>

(* ForceStopTask, up to its first wait. *)
ForceStopTask ==
  /\ IF Event
     THEN \E answer \in BOOLEAN, p \in Pids \cup {NoPid} :
            /\ IsTaskExist(answer, p) /\ pid' = p
            /\ IF answer THEN stopEvent' = TRUE /\ GoTo("stopWait")
                         ELSE Return /\ UNCHANGED stopEvent
            /\ UNCHANGED stat
     ELSE /\ \/ stat = "STOP" /\ Return /\ UNCHANGED stat
             \/ stat # "STOP" /\ pid = NoPid /\ Return /\ stat' = "STOP"
             \/ stat # "STOP" /\ pid # NoPid /\ GoTo("stopWait") /\ UNCHANGED stat
          /\ UNCHANGED <<pid, stopEvent>>
  /\ NotSeen /\ UNCHANGED <<tries, os, mutex, monEvent, new, faults>>

(* RunProcess: a new instance, or none if it cannot be started. *)
Launch ==
  /\ new' = FALSE
  /\ \/ /\ Alive # Pids
        /\ \E p \in Pids \ Alive :
             os' = [os EXCEPT ![p] = IF Event THEN "starting" ELSE "up"]
        /\ UNCHANGED faults
     \/ faults < MaxFaults /\ faults' = faults + 1 /\ UNCHANGED os
  /\ UNCHANGED mutex

(* ForceStartTask, up to the two seconds it gives the new process. *)
ForceStartTask ==
  /\ \E answer \in BOOLEAN, p \in Pids \cup {NoPid}, alive \in BOOLEAN :
       /\ IsTaskExist(alive, p)
       /\ IF Event /\ alive THEN answer = monEvent /\ monEvent' = FALSE
          ELSE answer = alive /\ UNCHANGED monEvent
       /\ pid' = p
       /\ IF answer
          THEN stat' = "RUNNING" /\ Seen /\ Return /\ UNCHANGED <<os, mutex, new, faults>>
          ELSE Launch /\ NotSeen /\ GoTo("launched") /\ UNCHANGED stat
  /\ tries' = 0
  /\ UNCHANGED stopEvent
-----------------------------------------------------------------------------
(* The timer thread *)

CheckToExist_StaysRunning ==
  /\ IF exist < ExistInterval
     THEN GoTo("checkActive") /\ UNCHANGED <<pid, exist>>
     ELSE \E answer \in BOOLEAN, p \in Pids \cup {NoPid} :
            /\ IsTaskExist(answer, p) /\ exist' = 0
            /\ IF answer THEN pid' = p /\ GoTo("checkActive") ELSE pid' = NoPid /\ GoTo("idle")
  /\ UNCHANGED <<stat, os, mutex, active, new, fresh, tries, monEvent, stopEvent, faults>>

(* CheckToExist, at its own interval; CheckToActive comes next if the program is there. *)
CheckToExist ==
  /\ IF exist < ExistInterval
     THEN GoTo("checkActive") /\ UNCHANGED <<pid, exist, stat, os, mutex>>
     ELSE \E answer \in BOOLEAN, p \in Pids \cup {NoPid} :
            /\ IsTaskExist(answer, p)
            /\ IF answer
               THEN pid' = p /\ exist' = 0 /\ GoTo("checkActive") /\ UNCHANGED <<stat, os, mutex>>
               ELSE pid' = NoPid /\ stat' = "STOP" /\ End(p) /\ GoTo("idle") /\ UNCHANGED exist
  /\ UNCHANGED <<active, new, fresh, tries, monEvent, stopEvent, faults>>

ActiveDue == Event /\ active >= ActiveInterval

CheckToActive ==
  /\ pc = "checkActive" /\ GoTo("idle")
  /\ IF ActiveDue
     THEN \E answer \in BOOLEAN, p \in Pids \cup {NoPid} :
            /\ IsTaskActive(answer, p)
            /\ IF answer
               THEN pid' = p /\ Seen /\ UNCHANGED <<stat, os, mutex>>
               ELSE pid' = NoPid /\ stat' = "STOP" /\ End(p) /\ NotSeen
     ELSE UNCHANGED <<monVars, fresh, os, mutex, monEvent>>
  /\ UNCHANGED <<task, file, tries, cmd, cmds, stopEvent, quiet, new, jumped, faults>>

OnTimer_LeavesStopped ==
  /\ pc = "idle" /\ run = "START"
  /\ \/ stat = "STOP" /\ ForceStartTask
     \/ stat = "RUNNING" /\ (exist >= ExistInterval \/ ActiveDue) /\ CheckToExist
  /\ UNCHANGED <<task, file, cmd, cmds, quiet, jumped>>

(* CMonitorTask::OnTimer *)
OnTimer ==
  /\ pc = "idle"
  /\ \/ run = "STOP" /\ ForceStopTask
     \/ run = "START" /\ stat = "STOP" /\ ForceStartTask
     \/ /\ run = "START" /\ stat = "RUNNING"
        /\ exist >= ExistInterval \/ ActiveDue   \* otherwise nothing happens
        /\ CheckToExist
  /\ UNCHANGED <<task, file, cmd, cmds, quiet, jumped>>

(* MonitorSvc::handle_timeout, once the clock went back: CMonitorManager::Restart
   makes both changes in one lock. *)
TimeBack ==
  /\ pc = "idle" /\ jumped /\ jumped' = FALSE
  /\ IF task.timeback
     THEN pc' = "begin" /\ todo' = <<Change("STOP", TRUE), Change("START", TRUE)>>
     ELSE UNCHANGED <<pc, todo>>
  /\ UNCHANGED <<confVars, monVars, tries, cmdVars, procVars, quiet, new, fresh, rebooting, faults>>

(* CheckToReboot and CheckToPowerOff: StopAll, once. *)
CheckToReboot ==
  /\ pc = "idle" /\ rebooting = "no" /\ cmds < MaxCmds
  /\ cmds' = cmds + 1 /\ rebooting' = "stopping"
  /\ pc' = "begin" /\ todo' = <<Change("STOP", TRUE)>>
  /\ UNCHANGED <<confVars, monVars, tries, cmd, save, procVars, quiet, new, fresh, jumped, faults>>
-----------------------------------------------------------------------------
(* The command thread: OnCmd_StartProgram, OnCmd_StopProgram, OnCmd_RestartProgram *)

Command == /\ cmd = <<>> /\ save = "none" /\ cmds < MaxCmds
           /\ cmds' = cmds + 1
           /\ \E temp \in BOOLEAN :
                cmd' \in {<<Change("START", temp)>>, <<Change("STOP", temp)>>,
                          <<Change("STOP", temp), Change("START", temp)>>}
           /\ UNCHANGED <<confVars, monVars, lockVars, save, procVars, envVars>>

(* CMonitorManager::ChangeConfigState takes the lock. *)
TakeLock == /\ cmd # <<>> /\ save = "none" /\ pc = "idle"
            /\ todo' = <<Head(cmd)>> /\ cmd' = Tail(cmd) /\ pc' = "begin"
            /\ UNCHANGED <<confVars, monVars, tries, save, cmds, procVars, envVars>>

(* CMonitorManagerConfig::SetMonitorTaskState, after the lock was let go: the loop
   over the entries of the file only ever looks at the first. *)
SaveState == /\ save # "none"
             /\ file' = IF task.saved THEN save ELSE file
             /\ save' = "none"
             /\ UNCHANGED <<task, run, perm, monVars, lockVars, cmd, cmds, procVars, envVars>>
-----------------------------------------------------------------------------
(* In the lock *)

Refused_Never(c) == FALSE

(* A temporary start of a program that is stopped for good is refused, silently. *)
Refused(c) == c.to = "START" /\ c.temp /\ perm = "STOP"

ChangeConfigState ==
  /\ pc = "begin"
  /\ IF Refused(Head(todo))
     THEN /\ todo' = Tail(todo)
          /\ pc' = IF Tail(todo) = <<>> THEN "idle" ELSE "begin"
          /\ UNCHANGED <<run, perm, save, monVars, tries, procVars, new, fresh, rebooting, faults>>
     ELSE \/ Head(todo).to = "STOP" /\ ForceStopTask
          \/ Head(todo).to = "START" /\ ForceStartTask
  /\ UNCHANGED <<task, file, cmd, cmds, quiet, jumped>>

(* The wait for the program to stop ends: it did, or it is killed. *)
StopWaitEnds ==
  /\ pc = "stopWait"
  /\ IF ProcessActive(pid) THEN TerminateProcS(pid) ELSE UNCHANGED procVars
  /\ pid' = NoPid /\ GoTo("killLoop")
  /\ UNCHANGED <<task, file, stat, exist, active, tries, cmd, cmds, quiet, new, fresh, jumped, faults>>

(* TerminateProcesLoop: whatever exists is killed, one after another. *)
TerminateProcesLoop ==
  /\ pc = "killLoop"
  /\ \E answer \in BOOLEAN, p \in Pids \cup {NoPid} :
       /\ IsTaskExist(answer, p)
       /\ IF answer THEN pid' = p /\ GoTo("kill") /\ UNCHANGED stat
          ELSE pid' = p /\ stat' = "STOP" /\ Return
  /\ UNCHANGED <<task, file, exist, active, tries, cmd, cmds, procVars, quiet, new, fresh, jumped, faults>>

Kill == /\ pc = "kill"
        /\ TerminateProcS(pid)
        /\ pid' = NoPid /\ GoTo("killLoop")
        /\ UNCHANGED <<task, file, stat, exist, active, tries, cmd, cmds, quiet, new, fresh, jumped, faults>>

(* Two seconds after the launch; the new instance has tried the mutex by then. *)
LookUp ==
  /\ pc = "launched" /\ \A p \in Pids : os[p] # "starting"
  /\ \E p \in Pids \cup {NoPid} :
       /\ Found(p) /\ pid' = p
       /\ \/ p = NoPid /\ Return /\ NotSeen /\ UNCHANGED stat
          \/ p # NoPid /\ Event /\ GoTo("startWait") /\ NotSeen /\ UNCHANGED stat
          \/ p # NoPid /\ ~Event /\ Return /\ Seen /\ stat' = "RUNNING"
  /\ UNCHANGED <<task, file, tries, cmd, cmds, procVars, quiet, new, jumped, faults>>

(* A new instance signals before the last try, unless it is slow; one that has
   run for longer keeps to its own interval. *)
StartWait ==
  /\ pc = "startWait"
  /\ \E answer \in BOOLEAN, p \in Pids \cup {NoPid} :
       /\ IsTaskActive(answer, p)
       /\ \/ /\ answer
             /\ stat' = "RUNNING" /\ pid' = p /\ Seen /\ Return
             /\ UNCHANGED <<tries, os, mutex, faults>>
          \/ /\ ~answer /\ tries + 1 < StartTries
             /\ tries' = tries + 1 /\ pid' = p /\ GoTo("startWait")
             /\ NotSeen /\ UNCHANGED <<stat, os, mutex, faults>>
          \/ /\ ~answer /\ tries + 1 >= StartTries
             /\ \/ ~(new /\ \E q \in Running : os[q] # "hung") /\ UNCHANGED faults
                \/ faults < MaxFaults /\ faults' = faults + 1
             /\ End(p) /\ pid' = NoPid /\ Return
             /\ NotSeen /\ UNCHANGED <<tries, stat>>
  /\ UNCHANGED <<task, file, cmd, cmds, stopEvent, quiet, new, jumped>>

Locked == CheckToActive \/ ChangeConfigState \/ StopWaitEnds \/ TerminateProcesLoop
          \/ Kill \/ LookUp \/ StartWait
-----------------------------------------------------------------------------
(* The program: CProcessRunHelper and CCheckStopEventThread *)

ownUnchanged == <<confVars, monVars, lockVars, cmdVars, jumped, rebooting>>

(* TryAcquire: a second instance leaves. *)
TryAcquire(p) ==
  /\ os[p] = "starting"
  /\ \/ mutex = NoPid /\ mutex' = p /\ os' = [os EXCEPT ![p] = "locked"]
        /\ quiet' = 0 /\ new' = TRUE /\ fresh' = TRUE
     \/ mutex # NoPid /\ os' = [os EXCEPT ![p] = "none"] /\ UNCHANGED <<mutex, quiet, new, fresh>>
  /\ UNCHANGED <<ownUnchanged, monEvent, stopEvent, faults>>

(* Create_Event, or the ones of CMyPlatRunCtrl and CCheckStopEventThread: the
   events get their initial values, whatever was signalled. *)
CreateEvents(p) ==
  /\ os[p] = "locked" /\ os' = [os EXCEPT ![p] = "up"]
  /\ stopEvent' = FALSE /\ monEvent' \in BOOLEAN
  /\ UNCHANGED <<ownUnchanged, mutex, quiet, new, fresh, faults>>

SetMonitonEvent(p) ==
  /\ Event /\ os[p] = "up"
  /\ monEvent' = TRUE /\ quiet' = 0
  /\ UNCHANGED <<ownUnchanged, os, mutex, stopEvent, new, fresh, faults>>

CheckStopEvent(p) ==
  /\ Event /\ os[p] = "up" /\ stopEvent
  /\ End(p) /\ stopEvent' = FALSE
  /\ UNCHANGED <<ownUnchanged, monEvent, quiet, new, fresh, faults>>

Program == \E p \in Pids : TryAcquire(p) \/ CreateEvents(p) \/ SetMonitonEvent(p)
                           \/ CheckStopEvent(p)
-----------------------------------------------------------------------------
(* The environment *)

Fault == faults < MaxFaults /\ faults' = faults + 1

Crash == /\ Fault /\ \E p \in Alive : End(p)
         /\ UNCHANGED <<ownUnchanged, monEvent, stopEvent, quiet, new, fresh>>

Hang == /\ Fault /\ \E p \in Pids : os[p] = "up" /\ os' = [os EXCEPT ![p] = "hung"]
        /\ UNCHANGED <<ownUnchanged, mutex, monEvent, stopEvent, quiet, new, fresh>>

StartByHand ==
  /\ Fault
  /\ \E p \in Pids : os[p] = "none" /\ os' = [os EXCEPT ![p] = IF Event THEN "starting" ELSE "up"]
  /\ UNCHANGED <<ownUnchanged, mutex, monEvent, stopEvent, quiet, new, fresh>>

(* A healthy program signals three times an interval (nActiveInterval/3). *)
Tick ==
  /\ exist < ExistInterval \/ active < ActiveInterval
  /\ Event /\ (\E p \in Pids : os[p] \in {"locked", "up"}) => quiet + 1 < ActiveInterval
  /\ exist' = IF exist < ExistInterval THEN exist + 1 ELSE exist
  /\ active' = IF active < ActiveInterval THEN active + 1 ELSE active
  /\ quiet' = IF quiet + 1 < ActiveInterval THEN quiet + 1 ELSE quiet
  /\ UNCHANGED <<confVars, stat, pid, lockVars, cmdVars, procVars, new, fresh, jumped, rebooting, faults>>

ClockBack ==
  /\ Fault /\ jumped' = TRUE
  /\ exist' = exist - Jump /\ active' = active - Jump
  /\ UNCHANGED <<confVars, stat, pid, lockVars, cmdVars, procVars, quiet, new, fresh, rebooting>>

ClockForward ==
  /\ Fault /\ exist' = ExistInterval /\ active' = ActiveInterval /\ fresh' = TRUE
  /\ UNCHANGED <<confVars, stat, pid, lockVars, cmdVars, procVars, quiet, new, jumped, rebooting>>

(* CMonitorTask::init with what the file says; what the service had in memory is
   gone.  Both questions are asked (line 137), so the event is consumed. *)
StartService ==
  /\ run' = file /\ perm' = file
  /\ pc' = "idle" /\ tries' = 0 /\ todo' = <<>> /\ cmd' = <<>> /\ save' = "none"
  /\ jumped' = FALSE /\ rebooting' = "no"
  /\ exist' = 0 /\ active' = 0 /\ new' = FALSE /\ fresh' = FALSE

RestartService ==
  /\ Fault /\ StartService
  /\ \E p \in Pids \cup {NoPid} :
       /\ Found(p) /\ pid' = p
       /\ LET here == IF Event THEN monEvent /\ mutex # NoPid ELSE p # NoPid
          IN stat' = IF here THEN "RUNNING" ELSE "STOP"
  /\ monEvent' = IF Event THEN FALSE ELSE monEvent
  /\ UNCHANGED <<task, file, os, mutex, stopEvent, quiet, cmds>>

Reboot ==
  /\ rebooting = "sleeping" /\ StartService
  /\ os' = [p \in Pids |-> "none"] /\ mutex' = NoPid
  /\ pid' = NoPid /\ stat' = "STOP"
  /\ monEvent' = FALSE /\ stopEvent' = FALSE /\ quiet' = 0
  /\ UNCHANGED <<task, file, cmds, faults>>

Environment == Crash \/ Hang \/ StartByHand \/ ClockBack \/ ClockForward \/ RestartService
-----------------------------------------------------------------------------
Init == /\ task \in Tasks
        /\ file \in {"START", "STOP"} /\ run = file /\ perm = file
        /\ stat = "STOP" /\ pid = NoPid /\ exist = 0 /\ active = 0
        /\ pc = "idle" /\ tries = 0 /\ todo = <<>> /\ cmd = <<>> /\ save = "none"
        /\ os = [p \in Pids |-> "none"] /\ mutex = NoPid
        /\ monEvent = FALSE /\ stopEvent = FALSE
        /\ quiet = 0 /\ new = FALSE /\ fresh = FALSE /\ jumped = FALSE /\ rebooting = "no"
        /\ cmds = 0 /\ faults = 0

Next == OnTimer \/ TimeBack \/ CheckToReboot \/ Command \/ TakeLock \/ SaveState
        \/ Locked \/ Program \/ Tick \/ Environment \/ Reboot

(* The timer runs each second, the command thread and the program go on, time
   passes; commands and faults need not come.  Start attempts hold m_Mutex for about
   four seconds, but it is free again before the timer is called anew: a command that
   waits gets it at one of these times (strong fairness of TakeLock). *)
Fairness == /\ WF_vars(OnTimer) /\ WF_vars(TimeBack) /\ SF_vars(TakeLock) /\ WF_vars(SaveState)
            /\ WF_vars(Locked) /\ WF_vars(Tick) /\ WF_vars(Reboot)
            /\ \A p \in Pids : /\ WF_vars(TryAcquire(p)) /\ WF_vars(CreateEvents(p))
                               /\ WF_vars(SetMonitonEvent(p)) /\ WF_vars(CheckStopEvent(p))

Spec == Init /\ [][Next]_vars
FairSpec == Spec /\ Fairness
-----------------------------------------------------------------------------
TypeOK ==
  /\ task \in Tasks /\ {run, perm, file} \subseteq {"START", "STOP"}
  /\ stat \in {"STOP", "RUNNING"} /\ pid \in Pids \cup {NoPid}
  /\ exist \in Int /\ active \in Int
  /\ pc \in {"idle", "begin", "stopWait", "killLoop", "kill", "launched", "startWait",
            "checkActive"}
  /\ tries \in 0 .. StartTries
  /\ todo \in Seq(Changes) /\ cmd \in Seq(Changes)
  /\ pc = "begin" => todo # <<>>
  /\ save \in {"START", "STOP", "none"}
  /\ os \in [Pids -> {"none", "starting", "locked", "up", "hung"}]
  /\ mutex \in Pids \cup {NoPid}
  /\ monEvent \in BOOLEAN /\ stopEvent \in BOOLEAN
  /\ quiet \in Nat /\ new \in BOOLEAN /\ fresh \in BOOLEAN /\ jumped \in BOOLEAN
  /\ rebooting \in {"no", "stopping", "sleeping"}
  /\ cmds \in 0 .. MaxCmds /\ faults \in 0 .. MaxFaults

(* A program whose permanent state is "stop" is not started: not by the timer, not
   by a restart of the service or of the machine, nor by the temporary start that
   a change of the clock or a command makes.  Only the permanent start of a
   command may launch it (ProbeService.xml:44, CMonitorTask::ChangeConfigState). *)
DisabledStaysOff ==
  [][pc' = "launched" /\ pc # "launched"
       => perm = "START" \/ (pc = "begin" /\ Head(todo) = Change("START", FALSE))]_vars

(* The periodic checks never kill a program of type "event" that runs and signals
   within its interval, whatever commands, restarts of the service and jumps of
   the clock came before, unless it was started, or the clock was set forward,
   since it was last seen active. *)
SupervisionSpares ==
  [][\A p \in Pids :
       (/\ Event /\ os[p] = "up" /\ pid = p /\ pid' # p /\ ~fresh
        /\ pc \in {"idle", "checkActive"} /\ pc' = "idle" /\ rebooting' = rebooting)
         => os'[p] = "up"]_vars

(* A command that waits for m_Mutex is carried out and its state written: what holds
   the mutex lets it go, and a stop or start on its behalf comes to an end. *)
CommandsEnd == (cmd # <<>> \/ save # "none") ~> (cmd = <<>> /\ save = "none")

(* A program that is to run ends up running, after any crash, hang, jump of the
   clock, restart or failed start: an "event" program healthy, a "common" one at
   least there, as nothing notices that it hangs. *)
KeepsRunning ==
  <>[](run = "START" /\ rebooting = "no")
    => <>[](\E p \in Pids : os[p] = "up" \/ (~Event /\ os[p] = "hung"))

(* Of an "event" program that is to be stopped no instance stays, started by whom
   it may be: the timer asks it to stop and then kills what is left. *)
StopsForGood == (<>[](run = "STOP") /\ Event) => <>[](Running = {})
=============================================================================
