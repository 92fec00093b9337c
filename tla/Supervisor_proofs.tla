-------------------------- MODULE Supervisor_proofs --------------------------
(***************************************************************************)
(* Of the supervisor of a program (Supervisor), for every set of entries,  *)
(* pids, intervals and bounds: every variable keeps its type, and what is  *)
(* stopped for good is started by the permanent start of a command alone.  *)
(*                                                                         *)
(* That property is about one step, but not inductive by itself: the timer *)
(* looks at nRunConfigState only.  What makes it hold is that nothing ever *)
(* is "to run now" and "stopped for good" at once, and that needs the      *)
(* changes in work: the one that is being carried out was not refused, and *)
(* a thread that let the mutex go has none left.                           *)
(*                                                                         *)
(* Then, that the checks never kill a healthy program of type "event": two *)
(* differences of times, one shown by a clock that jumps and one real, are *)
(* compared through every command, restart and start.                      *)
(***************************************************************************)
EXTENDS Supervisor, TLAPS

RunIsAllowed == perm = "STOP" => run = "STOP"
IdleHasNone == pc \in {"idle", "checkActive"} => todo = <<>>
InWorkIsAllowed == (todo # <<>> /\ pc # "begin") => ~Refused(Head(todo))

Allowed == RunIsAllowed /\ IdleHasNone /\ InWorkIsAllowed
IInv == TypeOK /\ Allowed

(* The part of the state that commands and the configuration are about. *)
CtlOK == /\ {run, perm, file} \subseteq {"START", "STOP"}
         /\ pc \in {"idle", "begin", "stopWait", "killLoop", "kill", "launched", "startWait",
                    "checkActive"}
         /\ todo \in Seq(Changes)
         /\ pc = "begin" => todo # <<>>
         /\ save \in {"START", "STOP", "none"}
         /\ rebooting \in {"no", "stopping", "sleeping"}

(* The part that is about the processes and what the service knows of them. *)
DataOK == /\ task \in Tasks
          /\ stat \in {"STOP", "RUNNING"} /\ pid \in Pids \cup {NoPid}
          /\ exist \in Int /\ active \in Int
          /\ tries \in 0 .. StartTries
          /\ cmd \in Seq(Changes)
          /\ os \in [Pids -> {"none", "starting", "locked", "up", "hung"}]
          /\ mutex \in Pids \cup {NoPid}
          /\ monEvent \in BOOLEAN /\ stopEvent \in BOOLEAN
          /\ quiet \in Nat /\ new \in BOOLEAN /\ fresh \in BOOLEAN /\ jumped \in BOOLEAN
          /\ cmds \in 0 .. MaxCmds /\ faults \in 0 .. MaxFaults

(* The two parts are the type invariant. *)
LEMMA Parts == TypeOK <=> CtlOK /\ DataOK
BY DEF TypeOK, CtlOK, DataOK

Ctl == CtlOK /\ Allowed

(* The inductive invariant is made of the same two parts. *)
LEMMA IInvParts == IInv <=> Ctl /\ DataOK
BY Parts DEF IInv, Ctl

(* The same, of the next state. *)
LEMMA IInvPartsNext == Ctl' /\ DataOK' => IInv'
BY DEF IInv, Ctl, TypeOK, CtlOK, DataOK

(* The changes in work, their first and the rest, have their types. *)
LEMMA TodoType ==
  ASSUME todo \in Seq(Changes), todo # <<>>
  PROVE  /\ Head(todo) \in Changes /\ Tail(todo) \in Seq(Changes)
         /\ Head(todo).to \in {"START", "STOP"} /\ Head(todo).temp \in BOOLEAN
         /\ Head(todo).to = "START" /\ ~Head(todo).temp => Head(todo) = Change("START", FALSE)
<1>1. Head(todo) \in Changes /\ Tail(todo) \in Seq(Changes)
  OBVIOUS
<1>2. \A c \in Changes : /\ c.to \in {"START", "STOP"} /\ c.temp \in BOOLEAN
                         /\ c.to = "START" /\ ~c.temp => c = Change("START", FALSE)
  BY DEF Changes, Change
<1> QED BY <1>1, <1>2

(* The sequences of changes that commands and the timer make. *)
LEMMA ChangeSeqs ==
  ASSUME NEW a \in Changes, NEW b \in Changes
  PROVE  /\ <<a>> \in Seq(Changes) /\ <<a>> # <<>>
         /\ <<a, b>> \in Seq(Changes) /\ <<a, b>> # <<>>
OBVIOUS

-----------------------------------------------------------------------------
(* What is being carried out *)

(* A step that goes on within the lock, with the same change in work. *)
LEMMA GoToCtl ==
  ASSUME Ctl, NEW place \in {"idle", "stopWait", "killLoop", "kill", "launched", "startWait",
                             "checkActive"},
         GoTo(place), UNCHANGED file,
         place \in {"idle", "checkActive"} => todo = <<>>,
         todo # <<>> => ~Refused(Head(todo))
  PROVE  Ctl'
BY DEF Ctl, CtlOK, Allowed, RunIsAllowed, IdleHasNone, InWorkIsAllowed, Refused, GoTo

(* The end of a start or a stop: a change that was not refused takes effect. *)
LEMMA ReturnCtl ==
  ASSUME Ctl, Return, UNCHANGED file, todo # <<>> => ~Refused(Head(todo))
  PROVE  Ctl'
<1>1. CASE todo = <<>>
  BY <1>1 DEF Return, Ctl, CtlOK, Allowed, RunIsAllowed, IdleHasNone, InWorkIsAllowed, Refused
<1>2. CASE todo # <<>>
  <2>1. /\ Tail(todo) \in Seq(Changes)
        /\ Head(todo).to \in {"START", "STOP"} /\ Head(todo).temp \in BOOLEAN
    BY <1>2, TodoType DEF Ctl, CtlOK
  <2>2. CtlOK'
    BY <1>2, <2>1 DEF Return, Ctl, CtlOK
  <2>3. RunIsAllowed'
    BY <1>2, <2>1 DEF Return, Ctl, CtlOK, Refused, RunIsAllowed
  <2>4. IdleHasNone' /\ InWorkIsAllowed'
    BY <1>2 DEF Return, IdleHasNone, InWorkIsAllowed
  <2> QED BY <2>2, <2>3, <2>4 DEF Ctl, Allowed
<1> QED BY <1>1, <1>2

(* Carrying on in the lock allows both: to go on, and to be done. *)
LEMMA WorkAllowed ==
  ASSUME Ctl, pc \notin {"begin"}, todo # <<>>
  PROVE  ~Refused(Head(todo))
BY DEF Ctl, Allowed, InWorkIsAllowed

(* A step that leaves all of this alone. *)
LEMMA CtlUnchanged ==
  ASSUME Ctl, UNCHANGED <<run, perm, file, pc, todo, save, rebooting>>
  PROVE  Ctl'
BY DEF Ctl, CtlOK, Allowed, RunIsAllowed, IdleHasNone, InWorkIsAllowed, Refused

-----------------------------------------------------------------------------
(* The operations *)

(* Looking an instance up finds a pid or none, so does asking for the task. *)
LEMMA FoundType ==
  ASSUME NEW p, Found(p)
  PROVE  p \in Pids \cup {NoPid}
BY DEF Found, Alive

(* A process that ends leaves the processes and the mutex well formed. *)
LEMMA EndType ==
  ASSUME DataOK, NEW p, End(p)
  PROVE  /\ os' \in [Pids -> {"none", "starting", "locked", "up", "hung"}]
         /\ mutex' \in Pids \cup {NoPid}
BY DEF End, DataOK

(* Stopping the program, whoever asks: the invariant is kept, and nothing is
   launched. *)
LEMMA ForceStopTaskKeeps ==
  ASSUME IInv, ForceStopTask, UNCHANGED <<task, file, cmd, cmds, quiet, jumped>>,
         todo # <<>> => ~Refused(Head(todo))
  PROVE  IInv' /\ pc' # "launched"
<1>0. Ctl /\ DataOK
  BY IInvParts
<1> USE <1>0
<1>1. Return \/ GoTo("stopWait")
  BY DEF ForceStopTask
<1>2. Ctl' /\ pc' # "launched"
  <2>1. CASE Return
    BY <2>1, ReturnCtl DEF Return, Ctl, CtlOK, Allowed, IdleHasNone
  <2>2. CASE GoTo("stopWait")
    BY <2>2, GoToCtl DEF GoTo
  <2> QED BY <1>1, <2>1, <2>2
<1>3. DataOK'
  <2>1. pid' \in Pids \cup {NoPid} /\ stat' \in {"STOP", "RUNNING"} /\ stopEvent' \in BOOLEAN
    BY DEF ForceStopTask, DataOK
  <2>2. UNCHANGED <<exist, active, fresh, tries, os, mutex, monEvent, new, faults>>
    BY DEF ForceStopTask, NotSeen
  <2> QED BY <2>1, <2>2 DEF DataOK
<1> QED BY <1>2, <1>3, IInvPartsNext

(* Starting the program, whoever asks: the invariant is kept. *)
LEMMA ForceStartTaskKeeps ==
  ASSUME IInv, ForceStartTask, UNCHANGED <<task, file, cmd, cmds, quiet, jumped>>,
         todo # <<>> => ~Refused(Head(todo))
  PROVE  IInv'
<1>0. Ctl /\ DataOK
  BY IInvParts
<1> USE <1>0
<1>1. Return \/ GoTo("launched")
  BY DEF ForceStartTask
<1>2. Ctl'
  BY <1>1, ReturnCtl, GoToCtl
<1>3. DataOK'
  <2>1. pid' \in Pids \cup {NoPid} /\ stat' \in {"STOP", "RUNNING"} /\ monEvent' \in BOOLEAN
    BY DEF ForceStartTask, DataOK
  <2>2. \/ Seen /\ UNCHANGED <<os, mutex, new, faults>>
        \/ Launch /\ NotSeen
    BY DEF ForceStartTask
  <2>3. exist' \in Int /\ active' \in Int
    BY <2>2 DEF Seen, NotSeen, DataOK
  <2>4. fresh' \in BOOLEAN
    BY <2>2, Zenon DEF Seen, NotSeen, DataOK
  <2>6. new' \in BOOLEAN
    BY <2>2, Zenon DEF Launch, DataOK
  <2>7. faults' \in 0 .. MaxFaults /\ mutex' \in Pids \cup {NoPid}
    BY <2>2, TimesOK DEF Launch, DataOK
  <2>8. os' \in [Pids -> {"none", "starting", "locked", "up", "hung"}]
    BY <2>2 DEF Launch, DataOK
  <2>5. tries' \in 0 .. StartTries
    BY TimesOK DEF ForceStartTask
  <2> QED BY <2>1, <2>3, <2>4, <2>5, <2>6, <2>7, <2>8 DEF ForceStartTask, DataOK
<1> QED BY <1>2, <1>3, IInvPartsNext

(* The existence check keeps the invariant and launches nothing. *)
LEMMA CheckToExistKeeps ==
  ASSUME IInv, pc = "idle", CheckToExist, UNCHANGED <<task, file, cmd, cmds, quiet, jumped>>
  PROVE  IInv' /\ pc' # "launched"
<1>0. Ctl /\ DataOK
  BY IInvParts
<1> USE <1>0
<1>1. GoTo("checkActive") \/ GoTo("idle")
  BY DEF CheckToExist
<1>2. todo = <<>>
  BY DEF Ctl, Allowed, IdleHasNone
<1>3. Ctl' /\ pc' # "launched"
  BY <1>1, <1>2, GoToCtl DEF GoTo
<1>4. DataOK'
  <2>1. pid' \in Pids \cup {NoPid} /\ stat' \in {"STOP", "RUNNING"} /\ exist' \in Int
    BY DEF CheckToExist, DataOK
  <2>2. /\ os' \in [Pids -> {"none", "starting", "locked", "up", "hung"}]
        /\ mutex' \in Pids \cup {NoPid}
    <3>1. UNCHANGED <<os, mutex>> \/ \E p \in Pids \cup {NoPid} : End(p)
      BY DEF CheckToExist
    <3> QED BY <3>1, EndType DEF DataOK
  <2> QED BY <2>1, <2>2 DEF CheckToExist, DataOK
<1> QED BY <1>3, <1>4, IInvPartsNext

-----------------------------------------------------------------------------
(* The actions *)

(* What DisabledStaysOff asks of one step. *)
LaunchAllowed ==
  pc' = "launched" /\ pc # "launched"
    => perm = "START" \/ (pc = "begin" /\ Head(todo) = Change("START", FALSE))

Kept == IInv' /\ LaunchAllowed

(* The timer starts what is to run, which is never what is stopped for good. *)
LEMMA OnTimerKeeps ==
  ASSUME IInv, OnTimer
  PROVE  Kept
<1>1. pc = "idle" /\ UNCHANGED <<task, file, cmd, cmds, quiet, jumped>>
  BY DEF OnTimer
<1>2. todo = <<>> /\ RunIsAllowed /\ perm \in {"START", "STOP"}
  BY <1>1 DEF IInv, Allowed, IdleHasNone, TypeOK
<1>3. CASE ForceStopTask
  BY <1>1, <1>2, <1>3, ForceStopTaskKeeps DEF Kept, LaunchAllowed
<1>4. CASE run = "START" /\ ForceStartTask
  <2>1. IInv'
    BY <1>1, <1>2, <1>4, ForceStartTaskKeeps
  <2>2. perm = "START"
    BY <1>2, <1>4 DEF RunIsAllowed
  <2> QED BY <2>1, <2>2 DEF Kept, LaunchAllowed
<1>5. CASE CheckToExist
  BY <1>1, <1>5, CheckToExistKeeps DEF Kept, LaunchAllowed
<1> QED BY <1>3, <1>4, <1>5 DEF OnTimer

(* A change that is not refused starts the program for good, or one that may run. *)
LEMMA ChangeConfigStateKeeps ==
  ASSUME IInv, ChangeConfigState
  PROVE  Kept
<1>1. /\ pc = "begin" /\ UNCHANGED <<task, file, cmd, cmds, quiet, jumped>>
      /\ todo # <<>> /\ todo \in Seq(Changes) /\ perm \in {"START", "STOP"}
      /\ Ctl /\ DataOK
  BY IInvParts DEF ChangeConfigState, IInv, TypeOK
<1>2. CASE Refused(Head(todo))
  <2>1. /\ todo' = Tail(todo) /\ pc' = IF Tail(todo) = <<>> THEN "idle" ELSE "begin"
        /\ UNCHANGED <<run, perm, save, monVars, tries, procVars, new, fresh, rebooting, faults>>
    BY <1>2 DEF ChangeConfigState
  <2>2. Ctl'
    BY <1>1, <2>1, TodoType
       DEF Ctl, CtlOK, Allowed, RunIsAllowed, IdleHasNone, InWorkIsAllowed
  <2>3. DataOK'
    BY <1>1, <2>1 DEF DataOK, monVars, procVars
  <2> QED BY <2>1, <2>2, <2>3, IInvPartsNext DEF Kept, LaunchAllowed
<1>3. CASE ~Refused(Head(todo)) /\ ForceStopTask
  BY <1>1, <1>3, ForceStopTaskKeeps DEF Kept, LaunchAllowed
<1>4. CASE ~Refused(Head(todo)) /\ Head(todo).to = "START" /\ ForceStartTask
  <2>1. IInv'
    BY <1>1, <1>4, ForceStartTaskKeeps
  <2>2. perm = "START" \/ ~Head(todo).temp
    BY <1>1, <1>4 DEF Refused
  <2> QED BY <1>1, <1>4, <2>1, <2>2, TodoType DEF Kept, LaunchAllowed
<1> QED BY <1>2, <1>3, <1>4 DEF ChangeConfigState

(* A step of the thread in the lock that goes on or returns. *)
LEMMA WorkKeepsCtl ==
  ASSUME IInv, pc \notin {"idle", "begin", "checkActive"}, UNCHANGED file,
         NEW place \in {"stopWait", "killLoop", "kill", "startWait"},
         GoTo(place) \/ Return
  PROVE  Ctl' /\ LaunchAllowed
<1>1. Ctl
  BY IInvParts
<1>2. todo # <<>> => ~Refused(Head(todo))
  BY <1>1, WorkAllowed
<1>3. CASE GoTo(place)
  BY <1>1, <1>2, <1>3, GoToCtl DEF GoTo, LaunchAllowed
<1>4. CASE Return
  BY <1>1, <1>2, <1>4, ReturnCtl DEF Return, LaunchAllowed
<1> QED BY <1>3, <1>4

(* The activity check, after the existence check found the program. *)
LEMMA CheckToActiveKeeps ==
  ASSUME IInv, CheckToActive
  PROVE  Kept
<1>1. Ctl /\ DataOK /\ todo = <<>> /\ GoTo("idle")
  BY IInvParts DEF CheckToActive, IInv, Allowed, IdleHasNone
<1>2. Ctl'
  BY <1>1, GoToCtl DEF CheckToActive
<1>3. DataOK'
  <2>1. CASE ActiveDue
    <3>1. PICK answer \in BOOLEAN, p \in Pids \cup {NoPid} :
            /\ IsTaskActive(answer, p)
            /\ IF answer
               THEN pid' = p /\ Seen /\ UNCHANGED <<stat, os, mutex>>
               ELSE pid' = NoPid /\ stat' = "STOP" /\ End(p) /\ NotSeen
      BY <2>1 DEF CheckToActive
    <3>2. pid' \in Pids \cup {NoPid} /\ stat' \in {"STOP", "RUNNING"}
      BY <1>1, <3>1 DEF DataOK
    <3>3. exist' \in Int /\ active' \in Int
      BY <1>1, <3>1 DEF DataOK, Seen, NotSeen
    <3>4. fresh' \in BOOLEAN
      BY <1>1, <3>1, Zenon DEF DataOK, Seen, NotSeen
    <3>5. monEvent' \in BOOLEAN
      BY <1>1, <3>1, Zenon DEF DataOK, IsTaskActive
    <3>6. /\ os' \in [Pids -> {"none", "starting", "locked", "up", "hung"}]
          /\ mutex' \in Pids \cup {NoPid}
      BY <1>1, <3>1, EndType DEF DataOK
    <3> QED BY <1>1, <3>2, <3>3, <3>4, <3>5, <3>6 DEF CheckToActive, DataOK
  <2>2. CASE ~ActiveDue
    BY <1>1, <2>2 DEF CheckToActive, DataOK, monVars
  <2> QED BY <2>1, <2>2
<1> QED BY <1>1, <1>2, <1>3, IInvPartsNext DEF Kept, LaunchAllowed, GoTo

(* The end of the wait for the program to stop. *)
LEMMA StopWaitEndsKeeps ==
  ASSUME IInv, StopWaitEnds
  PROVE  Kept
<1>1. DataOK
  BY IInvParts
<1>2. Ctl' /\ LaunchAllowed
  BY WorkKeepsCtl DEF StopWaitEnds
<1>3. /\ os' \in [Pids -> {"none", "starting", "locked", "up", "hung"}]
      /\ mutex' \in Pids \cup {NoPid}
  BY <1>1, EndType DEF StopWaitEnds, TerminateProcS, procVars, DataOK
<1>4. UNCHANGED <<monEvent, stopEvent>>
  BY DEF StopWaitEnds, TerminateProcS, procVars
<1>5. DataOK'
  BY <1>1, <1>3, <1>4 DEF StopWaitEnds, DataOK
<1> QED BY <1>2, <1>5, IInvPartsNext DEF Kept

(* Another look at what is still there. *)
LEMMA TerminateProcesLoopKeeps ==
  ASSUME IInv, TerminateProcesLoop
  PROVE  Kept
<1>1. DataOK
  BY IInvParts
<1>2. GoTo("kill") \/ Return
  BY DEF TerminateProcesLoop
<1>3. Ctl' /\ LaunchAllowed
  BY <1>2, WorkKeepsCtl DEF TerminateProcesLoop
<1>4. DataOK'
  BY <1>1 DEF TerminateProcesLoop, DataOK, procVars
<1> QED BY <1>3, <1>4, IInvPartsNext DEF Kept

(* The kill of one instance. *)
LEMMA KillKeeps ==
  ASSUME IInv, Kill
  PROVE  Kept
<1>1. DataOK
  BY IInvParts
<1>2. Ctl' /\ LaunchAllowed
  BY WorkKeepsCtl DEF Kill
<1>3. DataOK'
  BY <1>1, EndType DEF Kill, TerminateProcS, DataOK
<1> QED BY <1>2, <1>3, IInvPartsNext DEF Kept

(* The look for the pid of the new instance. *)
LEMMA LookUpKeeps ==
  ASSUME IInv, LookUp
  PROVE  Kept
<1>1. DataOK
  BY IInvParts
<1>2. GoTo("startWait") \/ Return
  BY DEF LookUp
<1>3. Ctl' /\ LaunchAllowed
  BY <1>2, WorkKeepsCtl DEF LookUp
<1>4. Seen \/ NotSeen
  BY DEF LookUp
<1>5. exist' \in Int /\ active' \in Int
  BY <1>1, <1>4 DEF DataOK, Seen, NotSeen
<1>6. fresh' \in BOOLEAN
  BY <1>1, <1>4, Zenon DEF DataOK, Seen, NotSeen
<1>7. pid' \in Pids \cup {NoPid} /\ stat' \in {"STOP", "RUNNING"}
  BY <1>1 DEF LookUp, DataOK
<1>8. DataOK'
  BY <1>1, <1>5, <1>6, <1>7 DEF LookUp, DataOK, procVars
<1> QED BY <1>3, <1>8, IInvPartsNext DEF Kept

(* One wait for the first signal of the new instance. *)
LEMMA StartWaitKeeps ==
  ASSUME IInv, StartWait
  PROVE  Kept
<1>1. DataOK
  BY IInvParts
<1>2. GoTo("startWait") \/ Return
  BY DEF StartWait
<1>3. Ctl' /\ LaunchAllowed
  BY <1>2, WorkKeepsCtl DEF StartWait
<1>4. Seen \/ NotSeen
  BY DEF StartWait
<1>5. exist' \in Int /\ active' \in Int
  BY <1>1, <1>4 DEF DataOK, Seen, NotSeen
<1>6. fresh' \in BOOLEAN
  BY <1>1, <1>4, Zenon DEF DataOK, Seen, NotSeen
<1>7. pid' \in Pids \cup {NoPid} /\ stat' \in {"STOP", "RUNNING"}
  BY <1>1 DEF StartWait, DataOK
<1>8. monEvent' \in BOOLEAN
  <2>1. \E answer \in BOOLEAN, p \in Pids \cup {NoPid} : IsTaskActive(answer, p)
    BY DEF StartWait
  <2> QED BY <1>1, <2>1, Zenon DEF IsTaskActive, DataOK
<1>9. /\ os' \in [Pids -> {"none", "starting", "locked", "up", "hung"}]
      /\ mutex' \in Pids \cup {NoPid}
  <2>1. UNCHANGED <<os, mutex>> \/ \E p \in Pids \cup {NoPid} : End(p)
    BY DEF StartWait
  <2> QED BY <1>1, <2>1, EndType DEF DataOK
<1>10. tries' \in 0 .. StartTries
  <2>1. tries' = tries \/ (tries' = tries + 1 /\ tries + 1 < StartTries)
    BY DEF StartWait
  <2> QED BY <1>1, <2>1, TimesOK DEF DataOK
<1>11. faults' \in 0 .. MaxFaults
  <2>1. faults' = faults \/ (faults' = faults + 1 /\ faults < MaxFaults)
    BY DEF StartWait
  <2> QED BY <1>1, <2>1, TimesOK DEF DataOK
<1>12. DataOK'
  BY <1>1, <1>5, <1>6, <1>7, <1>8, <1>9, <1>10, <1>11 DEF StartWait, DataOK
<1> QED BY <1>3, <1>12, IInvPartsNext DEF Kept

(* The scheduled stops and the two threads take the lock: what is to be done is
   looked at then. *)
LEMMA LockKeeps ==
  ASSUME IInv, TimeBack \/ CheckToReboot \/ TakeLock
  PROVE  Kept
<1>1. Ctl /\ DataOK /\ pc = "idle"
  BY IInvParts DEF TimeBack, CheckToReboot, TakeLock
<1>2. LET one == <<Change("STOP", TRUE)>>
          two == <<Change("STOP", TRUE), Change("START", TRUE)>>
      IN  one \in Seq(Changes) /\ two \in Seq(Changes) /\ one # <<>> /\ two # <<>>
  <2>1. Change("STOP", TRUE) \in Changes /\ Change("START", TRUE) \in Changes
    BY DEF Change, Changes
  <2> QED BY <2>1, ChangeSeqs
<1>3. cmd # <<>> => Head(cmd) \in Changes /\ Tail(cmd) \in Seq(Changes)
  BY <1>1 DEF DataOK
<1>4. CASE TimeBack
  <2>1. Ctl'
    BY <1>1, <1>2, <1>4
       DEF TimeBack, Ctl, CtlOK, Allowed, RunIsAllowed, IdleHasNone, InWorkIsAllowed, confVars,
           cmdVars, Refused
  <2>2. DataOK'
    BY <1>1, <1>4 DEF TimeBack, DataOK, confVars, monVars, cmdVars, procVars
  <2> QED BY <1>1, <1>4, <2>1, <2>2, IInvPartsNext DEF Kept, LaunchAllowed, TimeBack
<1>5. CASE CheckToReboot
  <2>1. Ctl'
    BY <1>1, <1>2, <1>5
       DEF CheckToReboot, Ctl, CtlOK, Allowed, RunIsAllowed, IdleHasNone, InWorkIsAllowed,
           confVars
  <2>2. DataOK'
    BY <1>1, <1>5, TimesOK DEF CheckToReboot, DataOK, confVars, monVars, procVars
  <2> QED BY <1>5, <2>1, <2>2, IInvPartsNext DEF Kept, LaunchAllowed, CheckToReboot
<1>6. CASE TakeLock
  <2>1. Ctl'
    BY <1>1, <1>3, <1>6
       DEF TakeLock, Ctl, CtlOK, Allowed, RunIsAllowed, IdleHasNone, InWorkIsAllowed,
           confVars, envVars
  <2>2. DataOK'
    BY <1>1, <1>3, <1>6 DEF TakeLock, DataOK, confVars, monVars, procVars, envVars
  <2> QED BY <1>6, <2>1, <2>2, IInvPartsNext DEF Kept, LaunchAllowed, TakeLock
<1> QED BY <1>4, <1>5, <1>6

(* A step that leaves the lock, the configuration and the file alone. *)
LEMMA ElsewhereKeeps ==
  ASSUME IInv, UNCHANGED <<run, perm, file, pc, todo, save, rebooting>>, DataOK'
  PROVE  Kept
<1>1. Ctl' /\ LaunchAllowed
  BY IInvParts, CtlUnchanged DEF LaunchAllowed
<1> QED BY <1>1, IInvPartsNext DEF Kept

(* The command thread, outside the lock. *)
LEMMA CommandKeeps ==
  ASSUME IInv, Command \/ SaveState
  PROVE  Kept
<1>1. Ctl /\ DataOK
  BY IInvParts
<1>2. CASE Command
  <2>1. cmd' \in Seq(Changes)
    <3>1. PICK temp \in BOOLEAN :
            cmd' \in {<<Change("START", temp)>>, <<Change("STOP", temp)>>,
                     <<Change("STOP", temp), Change("START", temp)>>}
      BY <1>2 DEF Command
    <3>2. Change("STOP", temp) \in Changes /\ Change("START", temp) \in Changes
      BY DEF Change, Changes
    <3> QED BY <3>1, <3>2, ChangeSeqs
  <2>2. DataOK'
    BY <1>1, <1>2, <2>1, TimesOK
       DEF Command, DataOK, confVars, monVars, lockVars, procVars, envVars
  <2> QED BY <1>2, <2>2, ElsewhereKeeps DEF Command, confVars, lockVars, envVars
<1>3. CASE SaveState
  <2>1. Ctl' /\ LaunchAllowed
    BY <1>1, <1>3 DEF SaveState, Ctl, CtlOK, Allowed, RunIsAllowed, IdleHasNone,
                      InWorkIsAllowed, Refused, LaunchAllowed, lockVars, envVars
  <2>2. DataOK'
    BY <1>1, <1>3 DEF SaveState, DataOK, monVars, lockVars, procVars, envVars
  <2> QED BY <2>1, <2>2, IInvPartsNext DEF Kept
<1> QED BY <1>2, <1>3

(* The program itself, with whatever pid. *)
LEMMA ProgramKeeps ==
  ASSUME IInv, Program
  PROVE  Kept
<1>1. DataOK
  BY IInvParts
<1>2. PICK p \in Pids : TryAcquire(p) \/ CreateEvents(p) \/ SetMonitonEvent(p) \/ CheckStopEvent(p)
  BY DEF Program
<1>3. UNCHANGED ownUnchanged
  BY <1>2 DEF TryAcquire, CreateEvents, SetMonitonEvent, CheckStopEvent
<1>4. DataOK'
  <2>1. /\ os' \in [Pids -> {"none", "starting", "locked", "up", "hung"}]
        /\ mutex' \in Pids \cup {NoPid} /\ faults' = faults
    BY <1>1, <1>2, EndType DEF TryAcquire, CreateEvents, SetMonitonEvent, CheckStopEvent, DataOK
  <2>2. quiet' \in Nat
    BY <1>1, <1>2 DEF TryAcquire, CreateEvents, SetMonitonEvent, CheckStopEvent, DataOK
  <2>3. new' \in BOOLEAN /\ fresh' \in BOOLEAN /\ monEvent' \in BOOLEAN /\ stopEvent' \in BOOLEAN
    BY <1>1, <1>2, Zenon
       DEF TryAcquire, CreateEvents, SetMonitonEvent, CheckStopEvent, DataOK
  <2> QED BY <1>1, <1>3, <2>1, <2>2, <2>3
          DEF DataOK, ownUnchanged, confVars, monVars, lockVars, cmdVars
<1> QED BY <1>3, <1>4, ElsewhereKeeps DEF ownUnchanged, confVars, lockVars, cmdVars

(* What happens to the program and to the clock; time itself. *)
LEMMA WorldKeeps ==
  ASSUME IInv, Crash \/ Hang \/ StartByHand \/ ClockBack \/ ClockForward \/ Tick
  PROVE  Kept
<1>1. DataOK
  BY IInvParts
<1>2. CASE Crash \/ Hang \/ StartByHand
  <2>1. UNCHANGED ownUnchanged /\ UNCHANGED <<monEvent, stopEvent, quiet, new, fresh>>
    BY <1>2 DEF Crash, Hang, StartByHand
  <2>2. /\ os' \in [Pids -> {"none", "starting", "locked", "up", "hung"}]
        /\ mutex' \in Pids \cup {NoPid}
    <3>1. CASE Crash
      BY <1>1, <3>1, EndType DEF Crash
    <3>2. CASE Hang \/ StartByHand
      BY <1>1, <3>2 DEF Hang, StartByHand, DataOK
    <3> QED BY <1>2, <3>1, <3>2
  <2>3. faults' \in 0 .. MaxFaults
    BY <1>1, <1>2, TimesOK DEF Crash, Hang, StartByHand, Fault, DataOK
  <2>4. DataOK'
    BY <1>1, <2>1, <2>2, <2>3 DEF DataOK, ownUnchanged, confVars, monVars, lockVars, cmdVars
  <2> QED BY <2>1, <2>4, ElsewhereKeeps DEF ownUnchanged, confVars, lockVars, cmdVars
<1>3. CASE ClockBack
  <2>1. DataOK'
    BY <1>1, <1>3, TimesOK
       DEF ClockBack, Fault, DataOK, confVars, lockVars, cmdVars, procVars
  <2> QED BY <1>3, <2>1, ElsewhereKeeps DEF ClockBack, confVars, lockVars, cmdVars
<1>4. CASE ClockForward
  <2>1. DataOK'
    BY <1>1, <1>4, TimesOK
       DEF ClockForward, Fault, DataOK, confVars, lockVars, cmdVars, procVars
  <2> QED BY <1>4, <2>1, ElsewhereKeeps DEF ClockForward, confVars, lockVars, cmdVars
<1>5. CASE Tick
  <2>1. DataOK'
    BY <1>1, <1>5 DEF Tick, DataOK, confVars, lockVars, cmdVars, procVars
  <2> QED BY <1>5, <2>1, ElsewhereKeeps DEF Tick, confVars, lockVars, cmdVars
<1> QED BY <1>2, <1>3, <1>4, <1>5

(* The service, or the whole machine, starts again: with what the file says. *)
LEMMA RestartKeeps ==
  ASSUME IInv, RestartService \/ Reboot
  PROVE  Kept
<1>1. Ctl /\ DataOK /\ StartService /\ UNCHANGED <<task, file, cmds>>
  BY IInvParts DEF RestartService, Reboot
<1>2. Ctl' /\ LaunchAllowed
  BY <1>1 DEF StartService, Ctl, CtlOK, Allowed, RunIsAllowed, IdleHasNone, InWorkIsAllowed,
              LaunchAllowed
<1>3. /\ exist' \in Int /\ active' \in Int /\ tries' \in 0 .. StartTries
      /\ cmd' \in Seq(Changes)
  BY <1>1, TimesOK DEF StartService
<1>4. new' \in BOOLEAN /\ fresh' \in BOOLEAN /\ jumped' \in BOOLEAN
  BY <1>1, Zenon DEF StartService
<1>5. CASE RestartService
  <2>1. pid' \in Pids \cup {NoPid} /\ stat' \in {"STOP", "RUNNING"}
    BY <1>5 DEF RestartService
  <2>2. faults' \in 0 .. MaxFaults /\ UNCHANGED <<os, mutex, stopEvent, quiet>>
    BY <1>1, <1>5, TimesOK DEF RestartService, Fault, DataOK
  <2>3. monEvent' \in BOOLEAN
    BY <1>1, <1>5, Zenon DEF RestartService, DataOK
  <2>4. DataOK'
    BY <1>1, <1>3, <1>4, <2>1, <2>2, <2>3 DEF DataOK
  <2> QED BY <1>2, <2>4, IInvPartsNext DEF Kept
<1>6. CASE Reboot
  <2>1. /\ os' \in [Pids -> {"none", "starting", "locked", "up", "hung"}]
        /\ mutex' \in Pids \cup {NoPid} /\ pid' \in Pids \cup {NoPid}
        /\ stat' \in {"STOP", "RUNNING"} /\ quiet' \in Nat /\ faults' = faults
    BY <1>6 DEF Reboot
  <2>2. monEvent' \in BOOLEAN /\ stopEvent' \in BOOLEAN
    BY <1>6, Zenon DEF Reboot
  <2>3. DataOK'
    BY <1>1, <1>3, <1>4, <2>1, <2>2 DEF DataOK
  <2> QED BY <1>2, <2>3, IInvPartsNext DEF Kept
<1> QED BY <1>5, <1>6

-----------------------------------------------------------------------------
(* The program is stopped and nothing under way when the service starts first. *)
LEMMA InitKeeps == Init => IInv
<1> SUFFICES ASSUME Init PROVE IInv
  OBVIOUS
<1>1. Ctl
  BY DEF Init, Ctl, CtlOK, Allowed, RunIsAllowed, IdleHasNone, InWorkIsAllowed
<1>2. /\ task \in Tasks /\ stat \in {"STOP", "RUNNING"} /\ pid \in Pids \cup {NoPid}
      /\ exist \in Int /\ active \in Int /\ tries \in 0 .. StartTries /\ cmd \in Seq(Changes)
      /\ os \in [Pids -> {"none", "starting", "locked", "up", "hung"}]
      /\ mutex \in Pids \cup {NoPid} /\ quiet \in Nat
      /\ cmds \in 0 .. MaxCmds /\ faults \in 0 .. MaxFaults
  BY TimesOK DEF Init
<1>3. /\ monEvent \in BOOLEAN /\ stopEvent \in BOOLEAN
      /\ new \in BOOLEAN /\ fresh \in BOOLEAN /\ jumped \in BOOLEAN
  BY Zenon DEF Init
<1> QED BY <1>1, <1>2, <1>3, IInvParts DEF DataOK

(* Each step keeps the invariant and launches only what may be launched. *)
LEMMA NextKeeps == IInv /\ [Next]_vars => IInv' /\ LaunchAllowed
<1> SUFFICES ASSUME IInv, [Next]_vars PROVE Kept
  BY DEF Kept
<1>1. CASE UNCHANGED vars
  <2>1. DataOK'
    BY <1>1, IInvParts DEF DataOK, vars
  <2> QED BY <1>1, <2>1, ElsewhereKeeps DEF vars
<1>2. CASE OnTimer
  BY <1>2, OnTimerKeeps
<1>3. CASE TimeBack \/ CheckToReboot \/ TakeLock
  BY <1>3, LockKeeps
<1>4. CASE Command \/ SaveState
  BY <1>4, CommandKeeps
<1>5. CASE Locked
  BY <1>5, CheckToActiveKeeps, ChangeConfigStateKeeps, StopWaitEndsKeeps,
     TerminateProcesLoopKeeps, KillKeeps, LookUpKeeps, StartWaitKeeps DEF Locked
<1>6. CASE Program
  BY <1>6, ProgramKeeps
<1>7. CASE Crash \/ Hang \/ StartByHand \/ ClockBack \/ ClockForward \/ Tick
  BY <1>7, WorldKeeps
<1>8. CASE RestartService \/ Reboot
  BY <1>8, RestartKeeps
<1> QED BY <1>1, <1>2, <1>3, <1>4, <1>5, <1>6, <1>7, <1>8 DEF Next, Environment

(* Every variable keeps its type, whatever the timer, the commands, the program
   and the clock do; and whoever is in the lock has a change to work on. *)
THEOREM SupervisorTypes == Spec => []TypeOK
<1>1. IInv => TypeOK
  BY DEF IInv
<1> QED BY <1>1, InitKeeps, NextKeeps, PTL DEF Spec

(* What is to run is never what is stopped for good, so that the timer, which
   looks at the one only, cannot start the other. *)
THEOREM RunsWhatIsAllowed == Spec => []RunIsAllowed
<1>1. IInv => RunIsAllowed
  BY DEF IInv, Allowed
<1> QED BY <1>1, InitKeeps, NextKeeps, PTL DEF Spec

(* A program that is stopped for good is started by the permanent start of a
   command only (CMonitorTask::ChangeConfigState, OnTimer). *)
THEOREM StoppedForGoodStaysOff == Spec => DisabledStaysOff
<1>1. IInv /\ [Next]_vars =>
        [pc' = "launched" /\ pc # "launched"
           => perm = "START" \/ (pc = "begin" /\ Head(todo) = Change("START", FALSE))]_vars
  BY NextKeeps DEF LaunchAllowed
<1>2. IInv /\ [Next]_vars => IInv'
  BY NextKeeps
<1> QED BY <1>1, <1>2, InitKeeps, PTL DEF Spec, DisabledStaysOff
-----------------------------------------------------------------------------
(* Healthy programs are spared *)

(* Whoever runs of type "event" holds the process mutex: there is one at most. *)
RunnerHolds == Event => \A p \in Pids : os[p] \in {"locked", "up", "hung"} => mutex = p

(* p runs, and its event is not signalled. *)
Silent(p) == os[p] = "locked" \/ (os[p] = "up" /\ ~monEvent)

(* A program that is silent and was seen active since it took the mutex has been so
   no longer ago than it signalled. *)
SeenSince == Event /\ ~fresh => \A p \in Pids : Silent(p) => active <= quiet

SpareInv == RunnerHolds /\ quiet < ActiveInterval /\ SeenSince

(* The part of the invariant this is about. *)
LEMMA SpareTypes ==
  ASSUME IInv
  PROVE  /\ active \in Int /\ quiet \in Nat /\ ActiveInterval \in Nat \ {0} /\ Jump \in Nat
         /\ monEvent \in BOOLEAN /\ fresh \in BOOLEAN
         /\ NoPid \notin Pids /\ pid \in Pids \cup {NoPid} /\ mutex \in Pids \cup {NoPid}
         /\ os \in [Pids -> {"none", "starting", "locked", "up", "hung"}]
BY TimesOK, PidsOK DEF IInv, TypeOK

(* Instances end or hang, and those that start have not the mutex yet. *)
Fewer == /\ task' = task
         /\ Event => \A p \in Pids :
              os'[p] \in {"locked", "up", "hung"} =>
                /\ os[p] \in {"locked", "up", "hung"} /\ (mutex = p => mutex' = p)
                /\ os'[p] # "hung" => os'[p] = os[p]

(* The end of a process is such a step, *)
LEMMA EndFewer ==
  ASSUME IInv, NEW p \in Pids \cup {NoPid}, End(p), task' = task
  PROVE  Fewer
<1>1. ASSUME NEW q \in Pids, os'[q] \in {"locked", "up", "hung"}
      PROVE  os'[q] = os[q] /\ (mutex = q => mutex' = q)
  BY <1>1, SpareTypes DEF End
<1> QED BY <1>1 DEF Fewer

(* and so is one that leaves the processes alone. *)
LEMMA SameFewer ==
  ASSUME UNCHANGED <<os, mutex, task>>
  PROVE  Fewer
BY DEF Fewer

(* Whoever runs goes on holding the mutex. *)
LEMMA FewerHolds ==
  ASSUME RunnerHolds, Fewer
  PROVE  RunnerHolds'
BY DEF Fewer, RunnerHolds, Event

(* A step that sees the program active. *)
LEMMA SeenSpares ==
  ASSUME IInv, SpareInv, Fewer, active' = 0, quiet' = quiet
  PROVE  SpareInv'
<1>1. RunnerHolds' /\ quiet' < ActiveInterval
  BY FewerHolds DEF SpareInv
<1>2. SeenSince'
  BY SpareTypes DEF SeenSince
<1> QED BY <1>1, <1>2 DEF SpareInv

(* A step that neither sees it nor consumes its signal. *)
LEMMA NotSeenSpares ==
  ASSUME IInv, SpareInv, Fewer, fresh' = fresh, quiet' = quiet,
         active' \in Int, active' <= active, monEvent => monEvent'
  PROVE  SpareInv'
<1>1. RunnerHolds' /\ quiet' < ActiveInterval
  BY FewerHolds DEF SpareInv
<1>2. ASSUME Event', ~fresh', NEW p \in Pids, Silent(p)' PROVE active' <= quiet'
  <2>1. Event /\ ~fresh
    BY <1>2 DEF Fewer, Event
  <2>2. Silent(p)
    BY <1>2, <2>1 DEF Silent, Fewer
  <2>3. active <= quiet
    BY <2>1, <2>2 DEF SpareInv, SeenSince
  <2> QED BY <2>3, SpareTypes
<1>3. SeenSince'
  BY <1>2 DEF SeenSince
<1> QED BY <1>1, <1>3 DEF SpareInv

(* A step that leaves all of this alone. *)
LEMMA IdleSpares ==
  ASSUME IInv, SpareInv, UNCHANGED <<os, mutex, task, fresh, quiet, active, monEvent>>
  PROVE  SpareInv'
<1>1. active' \in Int /\ active' <= active /\ (monEvent => monEvent')
  BY SpareTypes
<1> QED BY <1>1, SameFewer, NotSeenSpares

(* What SupervisionSpares asks of one step, for one instance. *)
Spared(p) ==
  (/\ Event /\ os[p] = "up" /\ pid = p /\ pid' # p /\ ~fresh
   /\ pc \in {"idle", "checkActive"} /\ pc' = "idle" /\ rebooting' = rebooting)
   => os'[p] = "up"

(* Stopping the program, whoever asks. *)
LEMMA ForceStopTaskSpares ==
  ASSUME IInv, SpareInv, ForceStopTask, UNCHANGED <<task, quiet>>
  PROVE  SpareInv' /\ \A p \in Pids : Spared(p)
<1>1. UNCHANGED <<os, mutex, fresh, active, monEvent>>
  BY DEF ForceStopTask, NotSeen
<1>2. SpareInv'
  BY <1>1, IdleSpares
<1> QED BY <1>1, <1>2 DEF Spared

(* Starting it, whoever asks. *)
LEMMA ForceStartTaskSpares ==
  ASSUME IInv, SpareInv, ForceStartTask, UNCHANGED <<task, quiet>>
  PROVE  SpareInv' /\ \A p \in Pids : Spared(p)
<1>1. PICK answer \in BOOLEAN, p \in Pids \cup {NoPid}, alive \in BOOLEAN :
        /\ IsTaskExist(alive, p)
        /\ IF Event /\ alive THEN answer = monEvent /\ monEvent' = FALSE
           ELSE answer = alive /\ UNCHANGED monEvent
        /\ pid' = p
        /\ IF answer
           THEN stat' = "RUNNING" /\ Seen /\ Return /\ UNCHANGED <<os, mutex, new, faults>>
           ELSE Launch /\ NotSeen /\ GoTo("launched") /\ UNCHANGED stat
  BY DEF ForceStartTask
<1>2. CASE answer
  <2>1. active' = 0 /\ UNCHANGED <<os, mutex>>
    BY <1>1, <1>2 DEF Seen
  <2>2. SpareInv'
    BY <2>1, SameFewer, SeenSpares
  <2> QED BY <2>1, <2>2 DEF Spared
<1>3. CASE ~answer
  <2>1. Launch /\ UNCHANGED <<active, fresh>> /\ pc' = "launched"
    BY <1>1, <1>3 DEF NotSeen, GoTo
  <2>2. monEvent => monEvent'
    BY <1>1, <1>3, Zenon
  <2>3. Fewer
    BY <2>1, SpareTypes DEF Launch, Fewer, Alive
  <2>4. active' \in Int /\ active' <= active
    BY <2>1, SpareTypes
  <2>5. SpareInv'
    BY <2>1, <2>2, <2>3, <2>4, NotSeenSpares
  <2> QED BY <2>1, <2>5 DEF Spared
<1> QED BY <1>2, <1>3

(* The existence check: who runs holds the mutex, and is found. *)
LEMMA CheckToExistSpares ==
  ASSUME IInv, SpareInv, CheckToExist, UNCHANGED <<task, quiet>>
  PROVE  SpareInv' /\ \A p \in Pids : Spared(p)
<1>1. UNCHANGED <<active, fresh, monEvent>>
  BY DEF CheckToExist
<1>2. active' \in Int /\ active' <= active /\ (monEvent => monEvent')
  BY <1>1, SpareTypes
<1>3. Fewer
  <2>1. UNCHANGED <<os, mutex>> \/ \E p \in Pids \cup {NoPid} : End(p)
    BY DEF CheckToExist
  <2> QED BY <2>1, SameFewer, EndFewer
<1>4. SpareInv'
  BY <1>1, <1>2, <1>3, NotSeenSpares
<1>5. ASSUME NEW p \in Pids, Event, os[p] = "up", pid = p, pid' # p PROVE os'[p] = "up"
  <2>1. mutex = p /\ p # NoPid
    BY <1>5, SpareTypes DEF SpareInv, RunnerHolds
  <2>2. PICK answer \in BOOLEAN, q \in Pids \cup {NoPid} :
          /\ IsTaskExist(answer, q)
          /\ IF answer
             THEN pid' = q /\ exist' = 0 /\ GoTo("checkActive") /\ UNCHANGED <<stat, os, mutex>>
             ELSE pid' = NoPid /\ stat' = "STOP" /\ End(q) /\ GoTo("idle") /\ UNCHANGED exist
    BY <1>5 DEF CheckToExist
  <2>3. answer
    BY <1>5, <2>1, <2>2 DEF IsTaskExist
  <2> QED BY <1>5, <2>2, <2>3
<1> QED BY <1>4, <1>5 DEF Spared

(* The timer. *)
LEMMA OnTimerSpares ==
  ASSUME IInv, SpareInv, OnTimer
  PROVE  SpareInv' /\ \A p \in Pids : Spared(p)
<1>1. UNCHANGED <<task, quiet>> /\ (ForceStopTask \/ ForceStartTask \/ CheckToExist)
  BY DEF OnTimer
<1> QED BY <1>1, ForceStopTaskSpares, ForceStartTaskSpares, CheckToExistSpares

(* The activity check: who has been silent for an interval was not seen active
   within one. *)
LEMMA CheckToActiveSpares ==
  ASSUME IInv, SpareInv, CheckToActive
  PROVE  SpareInv' /\ \A p \in Pids : Spared(p)
<1>1. UNCHANGED <<task, quiet>>
  BY DEF CheckToActive
<1>2. CASE ~ActiveDue
  <2>1. UNCHANGED <<os, mutex, fresh, active, monEvent>>
    BY <1>2 DEF CheckToActive, monVars
  <2>2. SpareInv'
    BY <1>1, <2>1, IdleSpares
  <2> QED BY <2>1, <2>2 DEF Spared
<1>3. CASE ActiveDue
  <2>1. PICK answer \in BOOLEAN, q \in Pids \cup {NoPid} :
          /\ IsTaskActive(answer, q)
          /\ IF answer
             THEN pid' = q /\ Seen /\ UNCHANGED <<stat, os, mutex>>
             ELSE pid' = NoPid /\ stat' = "STOP" /\ End(q) /\ NotSeen
    BY <1>3 DEF CheckToActive
  <2>2. answer = monEvent /\ Event /\ active >= ActiveInterval
    BY <1>3, <2>1 DEF IsTaskActive, ActiveDue
  <2>3. CASE answer
    <3>1. active' = 0 /\ UNCHANGED <<os, mutex>>
      BY <2>1, <2>3 DEF Seen
    <3>2. SpareInv'
      BY <1>1, <3>1, SameFewer, SeenSpares
    <3> QED BY <3>1, <3>2 DEF Spared
  <2>4. CASE ~answer
    <3>1. Fewer /\ UNCHANGED <<active, fresh>> /\ ~monEvent
      BY <1>1, <2>1, <2>2, <2>4, EndFewer DEF NotSeen
    <3>2. active' \in Int /\ active' <= active /\ (monEvent => monEvent')
      BY <3>1, SpareTypes
    <3>3. SpareInv'
      BY <1>1, <3>1, <3>2, NotSeenSpares
    <3>4. ASSUME NEW p \in Pids, os[p] = "up", ~fresh PROVE FALSE
      <4>1. active <= quiet /\ quiet < ActiveInterval
        BY <2>2, <3>1, <3>4 DEF SpareInv, SeenSince, Silent
      <4> QED BY <2>2, <4>1, SpareTypes
    <3> QED BY <3>3, <3>4 DEF Spared
  <2> QED BY <2>3, <2>4
<1> QED BY <1>2, <1>3

(* The rest of what is done in the lock. *)
LEMMA WorkSpares ==
  ASSUME IInv, SpareInv,
         ChangeConfigState \/ StopWaitEnds \/ TerminateProcesLoop \/ Kill \/ LookUp \/ StartWait
  PROVE  SpareInv' /\ \A p \in Pids : Spared(p)
<1>1. pc \notin {"idle", "checkActive"} /\ UNCHANGED <<task, quiet>>
  BY DEF ChangeConfigState, StopWaitEnds, TerminateProcesLoop, Kill, LookUp, StartWait
<1>2. \A p \in Pids : Spared(p)
  BY <1>1 DEF Spared
<1>3. CASE ChangeConfigState
  <2>1. CASE Refused(Head(todo))
    <3>1. UNCHANGED <<os, mutex, fresh, active, monEvent>>
      BY <1>3, <2>1 DEF ChangeConfigState, procVars, monVars
    <3> QED BY <1>1, <1>2, <3>1, IdleSpares
  <2>2. CASE ~Refused(Head(todo))
    <3>1. ForceStopTask \/ ForceStartTask
      BY <1>3, <2>2 DEF ChangeConfigState
    <3> QED BY <1>1, <3>1, ForceStopTaskSpares, ForceStartTaskSpares
  <2> QED BY <2>1, <2>2
<1>4. CASE StopWaitEnds \/ Kill
  <2>1. /\ UNCHANGED <<active, fresh, monEvent>>
        /\ UNCHANGED <<os, mutex>> \/ End(pid)
    BY <1>4 DEF StopWaitEnds, Kill, TerminateProcS, procVars
  <2>2. Fewer
    BY <1>1, <2>1, SpareTypes, SameFewer, EndFewer
  <2>3. active' \in Int /\ active' <= active /\ (monEvent => monEvent')
    BY <2>1, SpareTypes
  <2>4. SpareInv'
    BY <1>1, <2>1, <2>2, <2>3, NotSeenSpares
  <2> QED BY <1>2, <2>4
<1>5. CASE TerminateProcesLoop
  <2>1. UNCHANGED <<os, mutex, fresh, active, monEvent>>
    BY <1>5 DEF TerminateProcesLoop, procVars
  <2> QED BY <1>1, <1>2, <2>1, IdleSpares
<1>6. CASE LookUp
  <2>1. UNCHANGED <<os, mutex, monEvent>> /\ (Seen \/ NotSeen)
    BY <1>6 DEF LookUp, procVars
  <2>2. CASE Seen
    BY <1>1, <1>2, <2>1, <2>2, SameFewer, SeenSpares DEF Seen
  <2>3. CASE NotSeen
    BY <1>1, <1>2, <2>1, <2>3, IdleSpares DEF NotSeen
  <2> QED BY <2>1, <2>2, <2>3
<1>7. CASE StartWait
  <2>1. PICK answer \in BOOLEAN, q \in Pids \cup {NoPid} :
          /\ IsTaskActive(answer, q)
          /\ \/ answer /\ Seen /\ UNCHANGED <<os, mutex>>
             \/ ~answer /\ NotSeen /\ (UNCHANGED <<os, mutex>> \/ End(q))
    BY <1>7 DEF StartWait
  <2>2. CASE answer
    <3>1. active' = 0 /\ UNCHANGED <<os, mutex>>
      BY <2>1, <2>2 DEF Seen
    <3> QED BY <1>1, <1>2, <3>1, SameFewer, SeenSpares
  <2>3. CASE ~answer
    <3>1. Fewer /\ UNCHANGED <<active, fresh>>
      BY <1>1, <2>1, <2>3, SameFewer, EndFewer DEF NotSeen
    <3>2. monEvent => monEvent'
      BY <2>1, <2>3, Zenon DEF IsTaskActive
    <3>3. active' \in Int /\ active' <= active
      BY <3>1, SpareTypes
    <3>4. SpareInv'
      BY <1>1, <3>1, <3>2, <3>3, NotSeenSpares
    <3> QED BY <1>2, <3>4
  <2> QED BY <2>2, <2>3
<1> QED BY <1>3, <1>4, <1>5, <1>6, <1>7

(* Taking the lock, commands and the file touch none of it. *)
LEMMA ControlSpares ==
  ASSUME IInv, SpareInv, TimeBack \/ CheckToReboot \/ Command \/ TakeLock \/ SaveState
  PROVE  SpareInv' /\ \A p \in Pids : Spared(p)
<1>1. UNCHANGED <<os, mutex, task, fresh, quiet, active, monEvent>>
  BY DEF TimeBack, CheckToReboot, Command, TakeLock, SaveState, confVars, monVars, procVars, envVars
<1>2. SpareInv'
  BY <1>1, IdleSpares
<1> QED BY <1>1, <1>2 DEF Spared

(* The program takes the mutex, sets its events up, signals, and ends when asked. *)
LEMMA ProgramSpares ==
  ASSUME IInv, SpareInv, Program
  PROVE  SpareInv' /\ \A p \in Pids : Spared(p)
<1>1. PICK p \in Pids : TryAcquire(p) \/ CreateEvents(p) \/ SetMonitonEvent(p) \/ CheckStopEvent(p)
  BY DEF Program
<1>2. UNCHANGED <<task, active, pid>>
  BY <1>1 DEF TryAcquire, CreateEvents, SetMonitonEvent, CheckStopEvent, ownUnchanged, confVars,
              monVars
<1>3. \A q \in Pids : Spared(q)
  BY <1>2 DEF Spared
<1>4. Event => \A q \in Pids : os[q] \in {"locked", "up", "hung"} => mutex = q
  BY DEF SpareInv, RunnerHolds
<1>5. SpareInv'
  <2>1. CASE TryAcquire(p) /\ mutex = NoPid
    <3>1. /\ mutex' = p /\ os' = [os EXCEPT ![p] = "locked"] /\ quiet' = 0 /\ fresh' = TRUE
      BY <2>1, SpareTypes DEF TryAcquire
    <3>2. RunnerHolds'
      BY <1>2, <1>4, <2>1, <3>1, SpareTypes DEF RunnerHolds, Event
    <3>3. SeenSince'
      BY <3>1, Zenon DEF SeenSince
    <3>4. quiet' < ActiveInterval
      BY <3>1, SpareTypes
    <3> QED BY <3>2, <3>3, <3>4 DEF SpareInv
  <2>2. CASE TryAcquire(p) /\ mutex # NoPid
    <3>1. os' = [os EXCEPT ![p] = "none"] /\ UNCHANGED <<mutex, quiet, fresh, monEvent>>
      BY <2>2 DEF TryAcquire
    <3>2. Fewer
      BY <1>2, <3>1, SpareTypes DEF Fewer
    <3>3. active' \in Int /\ active' <= active /\ (monEvent => monEvent')
      BY <1>2, <3>1, SpareTypes
    <3> QED BY <3>1, <3>2, <3>3, NotSeenSpares
  <2>3. CASE CreateEvents(p)
    <3>1. os[p] = "locked" /\ os' = [os EXCEPT ![p] = "up"] /\ UNCHANGED <<mutex, quiet, fresh>>
      BY <2>3 DEF CreateEvents
    <3>2. RunnerHolds'
      BY <1>2, <1>4, <3>1, SpareTypes DEF RunnerHolds, Event
    <3>3. ASSUME Event', ~fresh', NEW q \in Pids, Silent(q)' PROVE active' <= quiet'
      <4>1. Event /\ ~fresh
        BY <1>2, <3>1, <3>3 DEF Event
      <4>2. Silent(p)
        BY <3>1 DEF Silent
      <4> QED BY <1>2, <3>1, <4>1, <4>2 DEF SpareInv, SeenSince
    <3>4. SeenSince'
      BY <3>3 DEF SeenSince
    <3>5. quiet' < ActiveInterval
      BY <3>1 DEF SpareInv
    <3> QED BY <3>2, <3>4, <3>5 DEF SpareInv
  <2>4. CASE SetMonitonEvent(p)
    <3>1. Event /\ os[p] = "up" /\ monEvent' = TRUE /\ quiet' = 0 /\ UNCHANGED <<os, mutex, fresh>>
      BY <2>4 DEF SetMonitonEvent
    <3>2. RunnerHolds'
      BY <1>2, <1>4, <3>1 DEF RunnerHolds, Event
    <3>3. \A q \in Pids : ~Silent(q)'
      <4>1. \A q \in Pids : os[q] # "locked"
        BY <1>4, <3>1
      <4> QED BY <3>1, <4>1 DEF Silent
    <3>4. SeenSince'
      BY <3>3 DEF SeenSince
    <3>5. quiet' < ActiveInterval
      BY <3>1, SpareTypes
    <3> QED BY <3>2, <3>4, <3>5 DEF SpareInv
  <2>5. CASE CheckStopEvent(p)
    <3>1. End(p) /\ UNCHANGED <<quiet, fresh, monEvent>>
      BY <2>5 DEF CheckStopEvent
    <3>2. Fewer
      BY <1>2, <3>1, EndFewer
    <3>3. active' \in Int /\ active' <= active /\ (monEvent => monEvent')
      BY <1>2, <3>1, SpareTypes
    <3> QED BY <3>1, <3>2, <3>3, NotSeenSpares
  <2> QED BY <1>1, <2>1, <2>2, <2>3, <2>4, <2>5
<1> QED BY <1>3, <1>5

(* Crashes, starts by hand and the clock; while the program is healthy a tick is one
   more for both. *)
LEMMA WorldSpares ==
  ASSUME IInv, SpareInv, Crash \/ Hang \/ StartByHand \/ ClockBack \/ ClockForward \/ Tick
  PROVE  SpareInv' /\ \A p \in Pids : Spared(p)
<1>1. UNCHANGED <<task, pid, monEvent>>
  BY DEF Crash, Hang, StartByHand, ClockBack, ClockForward, Tick, ownUnchanged, confVars, monVars,
         procVars
<1>2. \A p \in Pids : Spared(p)
  BY <1>1 DEF Spared
<1>3. CASE Crash \/ Hang \/ StartByHand
  <2>1. UNCHANGED <<fresh, quiet, active>>
    BY <1>3 DEF Crash, Hang, StartByHand, ownUnchanged, monVars
  <2>2. Fewer
    <3>1. CASE Crash
      <4>1. PICK p \in Pids : End(p)
        BY <3>1 DEF Crash, Alive
      <4> QED BY <1>1, <4>1, EndFewer
    <3>2. CASE Hang
      BY <1>1, <3>2, SpareTypes DEF Hang, Fewer
    <3>3. CASE StartByHand
      BY <1>1, <3>3, SpareTypes DEF StartByHand, Fewer, Event
    <3> QED BY <1>3, <3>1, <3>2, <3>3
  <2>3. active' \in Int /\ active' <= active /\ (monEvent => monEvent')
    BY <1>1, <2>1, SpareTypes
  <2> QED BY <1>2, <2>1, <2>2, <2>3, NotSeenSpares
<1>4. CASE ClockBack
  <2>1. active' = active - Jump /\ UNCHANGED <<fresh, quiet, os, mutex>>
    BY <1>4 DEF ClockBack, procVars
  <2>2. active' \in Int /\ active' <= active /\ (monEvent => monEvent')
    BY <1>1, <2>1, SpareTypes
  <2>3. Fewer
    BY <1>1, <2>1, SameFewer
  <2> QED BY <1>2, <2>1, <2>2, <2>3, NotSeenSpares
<1>5. CASE ClockForward
  <2>1. fresh' = TRUE /\ UNCHANGED <<quiet, os, mutex>>
    BY <1>5 DEF ClockForward, procVars
  <2>2. RunnerHolds'
    BY <1>1, <2>1, SameFewer, FewerHolds DEF SpareInv
  <2>3. SeenSince'
    BY <2>1, Zenon DEF SeenSince
  <2> QED BY <1>2, <2>1, <2>2, <2>3 DEF SpareInv
<1>6. CASE Tick
  <2>1. /\ UNCHANGED <<os, mutex, fresh>>
        /\ Event /\ (\E p \in Pids : os[p] \in {"locked", "up"}) => quiet + 1 < ActiveInterval
        /\ active' = IF active < ActiveInterval THEN active + 1 ELSE active
        /\ quiet' = IF quiet + 1 < ActiveInterval THEN quiet + 1 ELSE quiet
    BY <1>6 DEF Tick, procVars
  <2>2. RunnerHolds'
    BY <1>1, <2>1, SameFewer, FewerHolds DEF SpareInv
  <2>3. quiet' < ActiveInterval
    BY <2>1, SpareTypes DEF SpareInv
  <2>4. ASSUME Event', ~fresh', NEW p \in Pids, Silent(p)' PROVE active' <= quiet'
    <3>1. Event /\ ~fresh /\ Silent(p)
      BY <1>1, <2>1, <2>4 DEF Event, Silent
    <3>2. quiet + 1 < ActiveInterval
      BY <2>1, <3>1 DEF Silent
    <3>3. active <= quiet
      BY <3>1 DEF SpareInv, SeenSince
    <3> QED BY <2>1, <3>2, <3>3, SpareTypes
  <2>5. SeenSince'
    BY <2>4 DEF SeenSince
  <2> QED BY <1>2, <2>2, <2>3, <2>5 DEF SpareInv
<1> QED BY <1>3, <1>4, <1>5, <1>6

(* A new service sees everything for the first time; a new machine has nothing. *)
LEMMA RestartSpares ==
  ASSUME IInv, SpareInv, RestartService \/ Reboot
  PROVE  SpareInv' /\ \A p \in Pids : Spared(p)
<1>1. CASE RestartService
  <2>1. active' = 0 /\ UNCHANGED <<os, mutex, quiet, task>>
    BY <1>1 DEF RestartService, StartService
  <2>2. SpareInv'
    BY <2>1, SameFewer, SeenSpares
  <2> QED BY <2>1, <2>2 DEF Spared
<1>2. CASE Reboot
  <2>1. /\ os' = [p \in Pids |-> "none"] /\ quiet' = 0
        /\ rebooting = "sleeping" /\ rebooting' = "no"
    BY <1>2 DEF Reboot, StartService
  <2>2. \A p \in Pids : os'[p] = "none"
    BY <2>1
  <2>3. RunnerHolds' /\ SeenSince'
    BY <2>2 DEF RunnerHolds, SeenSince, Silent
  <2>4. quiet' < ActiveInterval
    BY <2>1, SpareTypes
  <2> QED BY <2>1, <2>3, <2>4 DEF SpareInv, Spared
<1> QED BY <1>1, <1>2

(* At the start nothing runs. *)
LEMMA InitSpares == Init => SpareInv
<1> SUFFICES ASSUME Init PROVE SpareInv
  OBVIOUS
<1>1. (\A p \in Pids : os[p] = "none") /\ quiet < ActiveInterval
  BY TimesOK DEF Init
<1> QED BY <1>1 DEF SpareInv, RunnerHolds, SeenSince, Silent

(* Every step keeps the invariant and spares who is healthy. *)
LEMMA NextSpares == IInv /\ SpareInv /\ [Next]_vars => SpareInv' /\ \A p \in Pids : Spared(p)
<1> SUFFICES ASSUME IInv, SpareInv, [Next]_vars PROVE SpareInv' /\ \A p \in Pids : Spared(p)
  OBVIOUS
<1>1. CASE UNCHANGED vars
  <2>1. UNCHANGED <<os, mutex, task, fresh, quiet, active, monEvent>>
    BY <1>1 DEF vars
  <2> QED BY <2>1, IdleSpares DEF Spared
<1>2. CASE Next
  BY <1>2, OnTimerSpares, CheckToActiveSpares, WorkSpares, ControlSpares, ProgramSpares,
     WorldSpares, RestartSpares DEF Next, Locked, Environment
<1> QED BY <1>1, <1>2

(* CMonitorTask::OnTimer: a healthy program is never killed by the checks, whatever
   commands, restarts of the service and jumps of the clock came before. *)
THEOREM HealthyIsSpared == Spec => SupervisionSpares
<1>1. IInv /\ SpareInv /\ [Next]_vars =>
        [\A p \in Pids :
           (/\ Event /\ os[p] = "up" /\ pid = p /\ pid' # p /\ ~fresh
            /\ pc \in {"idle", "checkActive"} /\ pc' = "idle" /\ rebooting' = rebooting)
             => os'[p] = "up"]_vars
  BY NextSpares DEF Spared
<1>2. IInv /\ SpareInv /\ [Next]_vars => IInv' /\ SpareInv'
  BY NextSpares, NextKeeps
<1> QED BY <1>1, <1>2, InitKeeps, InitSpares, PTL DEF Spec, SupervisionSpares
=============================================================================
