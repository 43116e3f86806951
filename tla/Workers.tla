------------------------------ MODULE Workers ------------------------------
(***************************************************************************)
(* The workers of a program (Pool.tla), each with its log (Log.tla), in    *)
(* their loops: EventScheduler::Dispatch waits for an event or for its     *)
(* idle timeout and then calls CheckTimer, which rings the timers that the *)
(* program set and the one that flushes the log.                           *)
(***************************************************************************)
EXTENDS Log

CONSTANTS
    MaxTimers,      \* bound on the timers of a worker the program waits for
    MaxFlushTimers  \* bound on the timers that flush a log

ASSUME WorkersAssumption == MaxTimers \in Nat /\ MaxFlushTimers \in Nat

VARIABLE flushTimers    \* how many timers of a worker call SimpleLog::Flush

vars == <<kind, m_StartupCallbackList, m_IdleTimeout, idleTimeout, loop, built, timers,
          sin_port, port, main, workers, m_bStartup, phase, position,
          hour, files, m_File, buffered, flushTimers>>

TypeOK ==
    /\ PoolTypeOK
    /\ LogTypeOK
    /\ flushTimers \in [Workers -> Nat]

Init ==
    /\ PoolInit
    /\ LogInit
    /\ flushTimers = [w \in Workers |-> 0]

-----------------------------------------------------------------------------
(* Before the loops. *)

Register ==
    /\ \/ RegisterUdpServer
       \/ RegisterStartupCallback
       \/ SetTimeoutEarly
       \/ SetIdleTimeout
       \/ Run
    /\ UNCHANGED <<logVars, flushTimers>>

BringUp ==
    /\ Fork \/ ForkFails \/ AllForked
    /\ UNCHANGED <<logVars, flushTimers>>

Start(w) ==
    /\ \/ CreateScheduler(w)
       \/ StartFails(w)
       \/ CallTimerStartup(w)
       \/ CallUdpStartup(w)
       \/ Bind(w)
       \/ CallProgram(w)
    /\ UNCHANGED <<logVars, flushTimers>>

(* LogStartup::OnStartup; the flush timer is set once the file is open.    *)
CallLog(w) ==
    /\ Calls(w, "log")
    /\ Called(w)
    /\ InitializeLog(w)
    /\ UseTimer(w)
    /\ flushTimers' = [flushTimers EXCEPT ![w] = @ + 1]
    /\ UNCHANGED <<timers, portVars>>

-----------------------------------------------------------------------------
(* In the loops. *)

Looping(w) == phase[w] = "looping"

(* Handlers of events: a LOG, another timer, a Flush of the program's own, *)
(* another idle timeout.  Programs that raise it above the Timer's         *)
(* interval, or to none, are left out: their timers ring late or never.    *)
HandlerLogs(w) ==
    /\ Looping(w)
    /\ Write(w)
    /\ UNCHANGED <<poolVars, flushTimers>>

HandlerSetsTimer(w) ==
    /\ Looping(w)
    /\ timers[w] < MaxTimers
    /\ SetTimeout(w)
    /\ UNCHANGED <<kind, m_IdleTimeout, portVars, startVars, logVars, flushTimers>>

HandlerFlushes(w) ==
    /\ Looping(w)
    /\ flushTimers[w] < MaxFlushTimers
    /\ FlushFile(w)
    /\ UseTimer(w)
    /\ flushTimers' = [flushTimers EXCEPT ![w] = @ + 1]
    /\ UNCHANGED <<kind, m_IdleTimeout, timers, portVars, startVars>>

HandlerSetsIdleTimeout(w) ==
    /\ Looping(w)
    /\ \E timeout \in IdleTimeouts :
        /\ 0 <= timeout /\ timeout <= Interval
        /\ idleTimeout' = [idleTimeout EXCEPT ![w] = timeout]
    /\ UNCHANGED <<programVars, loop, built, timers, portVars, startVars, logVars, flushTimers>>

(* CheckTimer, after an event or (wakes) after the idle timeout.           *)
Wakes(w) == Looping(w) /\ loop[w] > 0 /\ idleTimeout[w] # -1

TimerRings(w) ==
    /\ Looping(w) /\ loop[w] > 0
    /\ timers[w] > 0
    /\ timers' = [timers EXCEPT ![w] = @ - 1]
    /\ UNCHANGED <<programVars, idleTimeout, loop, built, portVars, startVars, logVars,
                   flushTimers>>

(* A bug: Flush sets its timer only if it was not one that called it.      *)
LogIsFlushedOnce(w) ==
    /\ Looping(w) /\ loop[w] > 0
    /\ flushTimers[w] > 0
    /\ FlushFile(w)
    /\ flushTimers' = [flushTimers EXCEPT ![w] = @ - 1]
    /\ UNCHANGED poolVars

(* SimpleLog::Flush sets the next timer.                                   *)
LogIsFlushed(w) ==
    /\ Looping(w) /\ loop[w] > 0
    /\ flushTimers[w] > 0
    /\ FlushFile(w)
    /\ UNCHANGED <<poolVars, flushTimers>>

(* A worker crashes, and its memory is lost: a process alone, a thread     *)
(* with all the others.                                                    *)
Crash(w) ==
    LET ended == IF Threads THEN Workers ELSE {w}
    IN  /\ Looping(w)
        /\ phase' = [v \in Workers |-> IF v \in ended THEN "ended" ELSE phase[v]]
        /\ main' = IF Threads THEN "runs" ELSE main    \* no thread is made any more
        /\ timers' = [v \in Workers |-> IF v \in ended THEN 0 ELSE timers[v]]
        /\ flushTimers' = [v \in Workers |-> IF v \in ended THEN 0 ELSE flushTimers[v]]
        /\ LogsAreLost(ended)
        /\ UNCHANGED <<programVars, idleTimeout, loop, built, portVars, workers, m_bStartup,
                       position>>

World == (HourPasses \/ FileIsRemoved) /\ UNCHANGED <<poolVars, flushTimers>>

Next ==
    \/ Register
    \/ BringUp
    \/ \E w \in Workers :
        \/ Start(w)
        \/ CallLog(w)
        \/ HandlerLogs(w)
        \/ HandlerSetsTimer(w)
        \/ HandlerFlushes(w)
        \/ HandlerSetsIdleTimeout(w)
        \/ TimerRings(w)
        \/ LogIsFlushed(w)
        \/ Crash(w)
    \/ World

Spec == Init /\ [][Next]_vars

(* A loop that sleeps no longer than its idle timeout wakes again, and     *)
(* CheckTimer rings what is due (EveryTimerRings of Timer.tla); one that   *)
(* has no idle timeout may wait for ever.                                  *)
FairSpec ==
    /\ Spec
    /\ \A w \in Workers :
        /\ WF_vars(Wakes(w) /\ TimerRings(w))
        /\ WF_vars(Wakes(w) /\ LogIsFlushed(w))

-----------------------------------------------------------------------------
(* Properties. *)

(* In its loop a worker that has a Timer, however it came to have it,      *)
(* calls its CheckTimer once a turn, and it sleeps no longer than the      *)
(* Timer's interval, whatever idle timeout the program chose.              *)
TimersAreDriven ==
    \A w \in Workers : Looping(w) =>
        /\ loop[w] = IF built[w] THEN 1 ELSE 0
        /\ built[w] => idleTimeout[w] # -1 /\ idleTimeout[w] <= Interval

(* Workers do not meet: no two have the same port or the same log, and the *)
(* UdpServer of a process is at its configured port plus its ID.           *)
WorkersDoNotMeet ==
    \A v, w \in Live :
        /\ v # w /\ port[v] # 0 => port[v] # port[w]
        /\ v # w /\ m_File[v] # NoFile => m_File[v] # m_File[w]
        /\ ~Threads /\ port[w] # 0 => port[w] = BasePort + w

(* After a line the worker's log is that of the hour, also when its file   *)
(* was moved away, or closed for good.                                     *)
LogFollowsTheHour ==
    [][\A w \in Workers : HandlerLogs(w) => m_File'[w] \in {FileName(w), NoFile}]_vars

(* Every line gets to the disk, unless the worker ends.                    *)
LinesReachTheDisk ==
    \A w \in Workers : buffered[w] ~> (~buffered[w] \/ phase[w] = "ended")
=============================================================================
