-------------------------------- MODULE Pool --------------------------------
(***************************************************************************)
(* How a program of include/Application.hpp starts: what it registers      *)
(* before Run, and how src/Pool.cc brings up the workers (processes of a   *)
(* ProcessPool or threads of a ThreadPool) with the startup callbacks.     *)
(*                                                                         *)
(* Worker 0 is the process or thread that calls Run.  A worker has a Timer *)
(* of its own (PoolObject), and the loop that calls its CheckTimer: when   *)
(* its timers ring is told in Workers.tla.  The socket of a UdpServer is   *)
(* its port.  fork copies what the program did before it; threads share    *)
(* the UdpServerStartup object and its m_Data.                             *)
(***************************************************************************)
EXTENDS Integers, Sequences, FiniteSets

CONSTANTS
    num,            \* "concurrency" of the configuration
    Kinds,          \* what Pool is: "processes", "threads", or a choice
    Interval,       \* of Timer, in milliseconds
    IdleTimeouts,   \* what the program may call SetIdleTimeout with
    BasePort        \* "port" of the configuration of the UdpServer

ASSUME PoolAssumption ==
    /\ num \in Nat
    /\ Kinds \subseteq {"processes", "threads"}
    /\ Interval \in Nat \ {0}
    /\ IdleTimeouts \subseteq Int
    /\ BasePort \in Nat \ {0} /\ BasePort + num < 65536

VARIABLES
    kind,
    main,                   \* what worker 0 does: "registers", "forks", "runs"
    workers,                \* how many were brought up
    m_StartupCallbackList,
    m_IdleTimeout,
    m_bStartup,             \* what IsStartup() says to each worker
    phase,
    position,               \* of each worker in m_StartupCallbackList
    idleTimeout,            \* m_IdleTimeout of its EventScheduler
    loop,                   \* how often CheckTimer is in its m_LoopCallbackList
    built,                  \* whether it has a Timer
    timers,                 \* how many of its timers the program waits for
    sin_port,               \* m_Data.sin_port of UdpServerStartup
    port                    \* the port of its UdpServer, 0 for none

programVars == <<kind, m_StartupCallbackList, m_IdleTimeout>>
timerVars == <<idleTimeout, loop, built, timers>>
portVars == <<sin_port, port>>
startVars == <<main, workers, m_bStartup, phase, position>>
poolVars == <<kind, m_StartupCallbackList, m_IdleTimeout, idleTimeout, loop, built, timers,
              sin_port, port, main, workers, m_bStartup, phase, position>>

Workers == {0} \cup 1..(num - 1)
Callbacks == {"timer", "udp", "program", "log"}
Live == {w \in Workers : phase[w] \in {"born", "starting", "binding", "looping"}}
Threads == kind = "threads"

PoolTypeOK ==
    /\ kind \in Kinds
    /\ main \in {"registers", "forks", "runs"}
    /\ workers \in 1..(num + 1)
    /\ m_StartupCallbackList \in Seq(Callbacks)
    /\ m_IdleTimeout \in IdleTimeouts \cup {-1}
    /\ m_bStartup \in [Workers -> BOOLEAN]
    /\ phase \in [Workers -> {"unborn", "born", "starting", "binding", "looping", "ended"}]
    /\ position \in [Workers -> Nat]
    /\ idleTimeout \in [Workers -> Int]
    /\ loop \in [Workers -> Nat]
    /\ built \in [Workers -> BOOLEAN]
    /\ timers \in [Workers -> Nat]
    /\ sin_port \in [Workers -> 0..65535]
    /\ port \in [Workers -> 0..65535]

PoolInit ==
    /\ kind \in Kinds
    /\ main = "registers"
    /\ workers = 1
    /\ m_StartupCallbackList = <<>>
    /\ m_IdleTimeout = -1
    /\ m_bStartup = [w \in Workers |-> FALSE]
    /\ phase = [w \in Workers |-> "unborn"]
    /\ position = [w \in Workers |-> 1]
    /\ idleTimeout = [w \in Workers |-> -1]
    /\ loop = [w \in Workers |-> 0]
    /\ built = [w \in Workers |-> FALSE]
    /\ timers = [w \in Workers |-> 0]
    /\ sin_port = [w \in Workers |-> 0]
    /\ port = [w \in Workers |-> 0]

-----------------------------------------------------------------------------
(* Timers of a worker. *)

(* TimerStartup::Startup.                                                  *)
RegisterTimer(w) ==
    /\ idleTimeout' = [idleTimeout EXCEPT ![w] = IF @ = -1 \/ @ > Interval THEN Interval ELSE @]
    /\ loop' = [loop EXCEPT ![w] = @ + 1]

(* The first use of PoolObject<Timer>::Instance() in a worker builds the   *)
(* Timer; its TimerStartup is put off to the start of the pool, before all *)
(* other callbacks, or done at once.                                       *)
UseTimer(w) ==
    /\ built' = [built EXCEPT ![w] = TRUE]
    /\ IF ~built[w] /\ m_bStartup[w]
       THEN RegisterTimer(w)
       ELSE UNCHANGED <<idleTimeout, loop>>
    /\ m_StartupCallbackList' =
          IF built[w] \/ m_bStartup[w] THEN m_StartupCallbackList
          ELSE <<"timer">> \o m_StartupCallbackList

SetTimeout(w) ==
    /\ UseTimer(w)
    /\ timers' = [timers EXCEPT ![w] = @ + 1]

-----------------------------------------------------------------------------
(* Before Run: the Initialize of the program. *)

RegisterUdpServer ==
    /\ main = "registers"
    /\ sin_port[0] = 0                  \* one server of a class
    /\ sin_port' = [sin_port EXCEPT ![0] = BasePort]
    /\ m_StartupCallbackList' = Append(m_StartupCallbackList, "udp")
    /\ UNCHANGED <<kind, m_IdleTimeout, timerVars, port, startVars>>

RegisterStartupCallback ==
    /\ main = "registers"
    /\ \A i \in DOMAIN m_StartupCallbackList : m_StartupCallbackList[i] # "program"
    /\ m_StartupCallbackList' = Append(m_StartupCallbackList, "program")
    /\ UNCHANGED <<kind, m_IdleTimeout, timerVars, portVars, startVars>>

(* A timer of Initialize.  Under threads every worker would run CheckTimer *)
(* of this one Timer, a data race; such programs are left out.             *)
SetTimeoutEarly ==
    /\ main = "registers"
    /\ kind = "processes"
    /\ timers[0] = 0
    /\ SetTimeout(0)
    /\ UNCHANGED <<kind, m_IdleTimeout, portVars, startVars>>

SetIdleTimeout ==
    /\ main = "registers"
    /\ \E timeout \in IdleTimeouts : m_IdleTimeout' = timeout
    /\ UNCHANGED <<kind, m_StartupCallbackList, timerVars, portVars, startVars>>

(* Application::Run: LogStartup comes last.                                *)
Run ==
    /\ main = "registers"
    /\ main' = "forks"
    /\ m_StartupCallbackList' = Append(m_StartupCallbackList, "log")
    /\ m_bStartup' = [w \in Workers |-> Threads]
    /\ UNCHANGED <<kind, m_IdleTimeout, timerVars, portVars, workers, phase, position>>

-----------------------------------------------------------------------------
(* Startup. *)

(* A worker ends: a process for itself, a thread likewise; but when the    *)
(* main thread returns from Startup, the program exits.                    *)
Ended(w) ==
    phase' = [v \in Workers |-> IF v = w \/ (Threads /\ w = 0) THEN "ended" ELSE phase[v]]

(* A bug: the child keeps the ID of its parent.  (m_id is the worker.)     *)
GetIDOfParent(w) == IF Threads THEN w ELSE 0
GetID(w) == w

(* fork or pthread_create of the next worker.  A process has a copy of     *)
(* what its parent had; a thread has a Timer and a scheduler of its own.   *)
Fork ==
    /\ main = "forks"
    /\ workers < num
    /\ workers' = workers + 1
    /\ phase' = [phase EXCEPT ![workers] = "born"]
    /\ IF Threads
       THEN UNCHANGED <<built, timers, sin_port>>
       ELSE /\ built' = [built EXCEPT ![workers] = built[0]]
            /\ timers' = [timers EXCEPT ![workers] = timers[0]]
            /\ sin_port' = [sin_port EXCEPT ![workers] = sin_port[0]]
    /\ UNCHANGED <<programVars, main, m_bStartup, position, idleTimeout, loop, port>>

(* It fails: Startup returns -1, and the workers that were brought up stay *)
(* if they are processes.                                                  *)
ForkFails ==
    /\ main = "forks"
    /\ workers < num
    /\ main' = "runs"
    /\ Ended(0)
    /\ UNCHANGED <<programVars, timerVars, portVars, workers, m_bStartup, position>>

AllForked ==
    /\ main = "forks"
    /\ workers >= num
    /\ main' = "runs"
    /\ phase' = [phase EXCEPT ![0] = "born"]
    /\ UNCHANGED <<programVars, timerVars, portVars, workers, m_bStartup, position>>

(* A bug: a process says that it has started when its callbacks are done.  *)
CreateSchedulerStartsLate(w) ==
    /\ phase[w] = "born"
    /\ phase' = [phase EXCEPT ![w] = "starting"]
    /\ idleTimeout' = [idleTimeout EXCEPT ![w] = m_IdleTimeout]
    /\ UNCHANGED <<programVars, main, workers, m_bStartup, position, loop, built, timers, portVars>>

(* CreateScheduler, SetIdleTimeout, and m_bStartup of a process.           *)
CreateScheduler(w) ==
    /\ phase[w] = "born"
    /\ phase' = [phase EXCEPT ![w] = "starting"]
    /\ idleTimeout' = [idleTimeout EXCEPT ![w] = m_IdleTimeout]
    /\ m_bStartup' = [m_bStartup EXCEPT ![w] = TRUE]
    /\ UNCHANGED <<programVars, main, workers, position, loop, built, timers, portVars>>

(* epoll_create or bind fails, or a startup callback returns false.        *)
StartFails(w) ==
    /\ phase[w] \in {"born", "starting", "binding"}
    /\ Ended(w)
    /\ UNCHANGED <<programVars, timerVars, portVars, main, workers, m_bStartup, position>>

(* The callback a worker has to make, and what follows when it is made.    *)
Calls(w, callback) ==
    /\ phase[w] = "starting"
    /\ position[w] <= Len(m_StartupCallbackList)
    /\ m_StartupCallbackList[position[w]] = callback

Called(w) ==
    /\ position' = [position EXCEPT ![w] = @ + 1]
    /\ phase' = [phase EXCEPT ![w] = IF position[w] = Len(m_StartupCallbackList)
                                    THEN "looping" ELSE "starting"]
    /\ UNCHANGED <<kind, m_IdleTimeout, main, workers, m_bStartup>>

CallTimerStartup(w) ==
    /\ Calls(w, "timer")
    /\ Called(w)
    /\ RegisterTimer(w)
    /\ UNCHANGED <<m_StartupCallbackList, built, timers, portVars>>

(* UdpServerStartup::OnStartup: sin_port + ID goes to the network's byte   *)
(* order and stays in m_Data, which the threads share.                     *)
htons(x) == (x % 256) * 256 + x \div 256
Data(w) == IF Threads THEN 0 ELSE w

CallUdpStartup(w) ==
    /\ Calls(w, "udp")
    /\ sin_port' = [sin_port EXCEPT ![Data(w)] = htons((@ + GetID(w)) % 65536)]
    /\ phase' = [phase EXCEPT ![w] = "binding"]
    /\ UNCHANGED <<programVars, timerVars, port, main, workers, m_bStartup, position>>

Bind(w) ==
    LET bound == htons(sin_port[Data(w)])
    IN  /\ phase[w] = "binding"
        /\ \A v \in Live : port[v] # bound
        /\ port' = [port EXCEPT ![w] = bound]
        /\ Called(w)
        /\ UNCHANGED <<m_StartupCallbackList, timerVars, sin_port>>

(* OnPoolStartup of the program, which sets a timer.                       *)
CallProgram(w) ==
    /\ Calls(w, "program")
    /\ Called(w)
    /\ SetTimeout(w)
    /\ UNCHANGED portVars
=============================================================================
