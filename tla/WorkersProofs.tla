--------------------------- MODULE WorkersProofs ---------------------------
(***************************************************************************)
(* Proofs about the workers of a program for any number of processes or    *)
(* threads, idle timeouts and registrations: a worker drives its own       *)
(* timers, keeps to its own port and log, and its log follows the hour.    *)
(***************************************************************************)
EXTENDS Workers, SequenceTheorems, TLAPS

-----------------------------------------------------------------------------
(* The logs. *)

(* No file is of an hour to come; a worker writes to a file of its own,    *)
(* and to that of the hour if it has been made.                            *)
LogSound ==
    /\ LogTypeOK
    /\ \A f \in files : f[1] <= hour
    /\ \A w \in Workers : m_File[w] # NoFile =>
          /\ m_File[w] \in Files /\ m_File[w][2] = w
          /\ FileName(w) \in files => m_File[w] = FileName(w)

(* What a step can do to the logs. *)
LogStep ==
    \/ \E w \in Workers : InitializeLog(w) \/ Write(w) \/ FlushFile(w)
    \/ \E ended : LogsAreLost(ended)
    \/ HourPasses
    \/ FileIsRemoved
    \/ UNCHANGED logVars

LEMMA LogsSteps == [Next]_vars => LogStep
BY DEF Next, vars, LogStep, logVars, Register, BringUp, Start, CallLog, HandlerLogs,
       HandlerSetsTimer, HandlerFlushes, HandlerSetsIdleTimeout, TimerRings, LogIsFlushed,
       Crash, World

LEMMA OpenedSound ==
    ASSUME LogSound, NEW w \in Workers, Opened(w), UNCHANGED hour,
           buffered' \in [Workers -> BOOLEAN]
    PROVE  LogSound'
<1>1. FileName(w) = <<hour, w>> /\ FileName(w) \in Files /\ FileName(w)' = FileName(w)
      /\ FileName(w)[1] = hour /\ FileName(w)[2] = w /\ hour \in Int
    BY LogAssumption DEF LogSound, LogTypeOK, FileName, GetID, Files, Hours
<1>2. files' = files \cup {FileName(w)} /\ m_File' = [m_File EXCEPT ![w] = FileName(w)]
    BY DEF Opened
<1>3. LogTypeOK'
    BY <1>1, <1>2 DEF LogSound, LogTypeOK, Files, Hours
<1>4. \A f \in files' : f[1] <= hour'
    BY <1>1, <1>2 DEF LogSound
<1>5. ASSUME NEW v \in Workers, m_File'[v] # NoFile
      PROVE  /\ m_File'[v] \in Files /\ m_File'[v][2] = v
             /\ FileName(v)' \in files' => m_File'[v] = FileName(v)'
    <2>1. CASE v = w
        BY <1>1, <1>2, <2>1 DEF LogSound, LogTypeOK
    <2>2. CASE v # w
        <3>1. m_File'[v] = m_File[v]
            BY <1>2, <2>2 DEF LogSound, LogTypeOK
        <3>2. FileName(v)' = FileName(v) /\ FileName(v) # FileName(w)
            BY <1>1, <2>2 DEF FileName, GetID
        <3> QED
            BY <1>2, <1>5, <3>1, <3>2 DEF LogSound
    <2> QED
        BY <2>1, <2>2
<1> QED
    BY <1>3, <1>4, <1>5 DEF LogSound

LEMMA LogInitSound == Init => LogSound
BY LogAssumption DEF Init, LogInit, LogSound, LogTypeOK, Hours, Files

LEMMA LogStepSound == LogSound /\ LogStep => LogSound'
<1> SUFFICES ASSUME LogSound, LogStep PROVE LogSound'
    OBVIOUS
<1>1. ASSUME NEW w \in Workers, InitializeLog(w) PROVE LogSound'
    BY <1>1, OpenedSound DEF InitializeLog, LogSound, LogTypeOK
<1>2. ASSUME NEW w \in Workers, Write(w) PROVE LogSound'
    <2>1. UNCHANGED hour /\ buffered' \in [Workers -> BOOLEAN]
        BY <1>2 DEF Write, LogSound, LogTypeOK
    <2>2. CASE Opened(w)
        BY <2>1, <2>2, OpenedSound
    <2>3. CASE UNCHANGED <<files, m_File>>
        BY <2>1, <2>3 DEF LogSound, LogTypeOK, FileName, GetID
    <2>4. CASE m_File' = [m_File EXCEPT ![w] = NoFile] /\ UNCHANGED files
        <3>1. LogTypeOK'
            BY <2>1, <2>4 DEF LogSound, LogTypeOK
        <3>2. \A v \in Workers : m_File'[v] # NoFile => m_File'[v] = m_File[v]
            BY <2>4 DEF LogSound, LogTypeOK
        <3> QED
            BY <2>1, <2>4, <3>1, <3>2 DEF LogSound, FileName, GetID
    <2> QED
        BY <1>2, <2>2, <2>3, <2>4 DEF Write
<1>3. ASSUME NEW w \in Workers, FlushFile(w) PROVE LogSound'
    BY <1>3 DEF FlushFile, LogSound, LogTypeOK, FileName, GetID
<1>7. ASSUME NEW ended, LogsAreLost(ended) PROVE LogSound'
    <2>1. UNCHANGED <<hour, files>> /\ buffered' \in [Workers -> BOOLEAN]
          /\ m_File' = [w \in Workers |-> IF w \in ended THEN NoFile ELSE m_File[w]]
        BY <1>7 DEF LogsAreLost, LogSound, LogTypeOK
    <2>2. LogTypeOK'
        BY <2>1 DEF LogSound, LogTypeOK
    <2>3. \A v \in Workers : m_File'[v] # NoFile => m_File'[v] = m_File[v]
        BY <2>1
    <2> QED
        BY <2>1, <2>2, <2>3 DEF LogSound, FileName, GetID
<1>4. CASE HourPasses
    <2>1. hour' = hour + 1 /\ hour' \in Hours /\ hour \in Int
          /\ UNCHANGED <<files, m_File, buffered>>
        BY <1>4, LogAssumption DEF HourPasses, LogSound, LogTypeOK, Hours
    <2>2. \A f \in files : f \in Files /\ f[1] \in Int /\ f[1] <= hour
        BY DEF LogSound, LogTypeOK, Files, Hours
    <2>3. \A w \in Workers : FileName(w)' \notin files'
        <3> SUFFICES ASSUME NEW w \in Workers, FileName(w)' \in files PROVE FALSE
            BY <2>1
        <3>1. FileName(w)'[1] = hour + 1
            BY <2>1 DEF FileName
        <3> QED
            BY <2>1, <2>2, <3>1
    <2>4. LogTypeOK'
        BY <2>1 DEF LogSound, LogTypeOK
    <2>5. \A f \in files' : f[1] <= hour'
        BY <2>1, <2>2
    <2> QED
        BY <2>1, <2>3, <2>4, <2>5 DEF LogSound
<1>5. CASE FileIsRemoved
    <2>1. files' \subseteq files /\ UNCHANGED <<hour, m_File, buffered>>
        BY <1>5 DEF FileIsRemoved
    <2> QED
        BY <2>1 DEF LogSound, LogTypeOK, FileName, GetID
<1>6. CASE UNCHANGED logVars
    BY <1>6 DEF logVars, LogSound, LogTypeOK, FileName, GetID
<1> QED
    BY <1>1, <1>2, <1>3, <1>4, <1>5, <1>6, <1>7 DEF LogStep

LEMMA LogHolds == Spec => []LogSound
<1>1. LogSound /\ [Next]_vars => LogSound'
    BY LogsSteps, LogStepSound
<1> QED
    BY LogInitSound, <1>1, PTL DEF Spec

(* After a line the worker's log is that of the hour, also when its file   *)
(* was moved away, or closed for good.                                     *)
THEOREM WorkersLogsFollow == Spec => LogFollowsTheHour
<1>1. ASSUME LogSound, NEW w \in Workers, HandlerLogs(w)
      PROVE  m_File'[w] \in {FileName(w), NoFile}
    BY <1>1 DEF HandlerLogs, Write, Opened, LogSound, LogTypeOK
<1>2. LogSound /\ [Next]_vars =>
          [\A w \in Workers : HandlerLogs(w) => m_File'[w] \in {FileName(w), NoFile}]_vars
    BY <1>1
<1> QED
    BY LogHolds, <1>2, PTL DEF Spec, LogFollowsTheHour

-----------------------------------------------------------------------------
(* The start of the pool. *)

L == m_StartupCallbackList
Length == Len(L)
ListTyped == L \in Seq(Callbacks)
HasTimer == 1 \in DOMAIN L /\ L[1] = "timer"

(* A Timer of Initialize is the first of the callbacks, and there is none  *)
(* under threads; LogStartup is the last, and nothing follows it.          *)
ListSound ==
    /\ \A i \in DOMAIN L : L[i] = "timer" => i = 1
    /\ Threads => ~HasTimer
    /\ main # "registers" => Length \in DOMAIN L /\ L[Length] = "log"
    /\ \A i \in DOMAIN L : L[i] = "log" => i = Length /\ main # "registers"

(* Workers come up after the registrations, worker 0 after the others.     *)
StageSound ==
    /\ main = "registers" => \A w \in Workers : phase[w] = "unborn" /\ ~m_bStartup[w]
    /\ main = "forks" => /\ phase[0] = "unborn"
                         /\ \A w \in Workers : w >= workers => phase[w] = "unborn"

Driven(w) == loop[w] = 1 /\ idleTimeout[w] # -1 /\ idleTimeout[w] <= Interval

(* A worker drives its Timer from its startup callback on, or from the use *)
(* that built it.                                                          *)
WorkerSound(w) ==
    /\ phase[w] \in {"unborn", "born"} =>
          /\ position[w] = 1 /\ loop[w] = 0
          /\ built[w] <=> HasTimer /\ (phase[w] = "born" \/ w = 0)
    /\ phase[w] \in {"starting", "binding"} =>
          /\ m_bStartup[w] /\ position[w] \in DOMAIN L
          /\ HasTimer => built[w]
          /\ IF built[w] /\ (HasTimer => position[w] > 1) THEN Driven(w) ELSE loop[w] = 0
          /\ phase[w] = "binding" => L[position[w]] = "udp"
    /\ phase[w] = "looping" => m_bStartup[w] /\ built[w] /\ Driven(w)

Phases == {"unborn", "born", "starting", "binding", "looping", "ended"}

(* The types that the proof needs. *)
StartTypes ==
    /\ ListTyped
    /\ main \in {"registers", "forks", "runs"}
    /\ workers \in 1..(num + 1)
    /\ m_IdleTimeout \in Int
    /\ m_bStartup \in [Workers -> BOOLEAN]
    /\ phase \in [Workers -> Phases]
    /\ position \in [Workers -> Nat]
    /\ idleTimeout \in [Workers -> Int]
    /\ loop \in [Workers -> Nat]
    /\ built \in [Workers -> BOOLEAN]

(* The inductive invariant of TimersAreDriven. *)
StartInv == /\ StartTypes
            /\ ListSound
            /\ StageSound
            /\ \A w \in Workers : WorkerSound(w)

LEMMA WorkersFacts == 0 \in Workers /\ Workers \subseteq Nat
BY PoolAssumption DEF Workers

LEMMA ListFacts == StartTypes => /\ ListTyped
                                 /\ Length \in Nat /\ DOMAIN L = 1..Length
<1>1. ListTyped => Length \in Nat /\ DOMAIN L = 1..Length
    BY DEF ListTyped, Length
<1> QED
    BY <1>1 DEF StartTypes

LEMMA ListStays ==
    ASSUME UNCHANGED m_StartupCallbackList
    PROVE  /\ L' = L /\ Length' = Length
           /\ ListTyped' <=> ListTyped
           /\ HasTimer' <=> HasTimer
BY DEF L, Length, ListTyped, HasTimer

(* What Called does, in the terms of this proof. *)
LEMMA CalledIs ==
    ASSUME NEW w, Called(w)
    PROVE  /\ phase' = [phase EXCEPT ![w] = IF position[w] = Length THEN "looping"
                                           ELSE "starting"]
           /\ position' = [position EXCEPT ![w] = @ + 1]
BY DEF Called, Length, L

(* A worker that a step leaves alone. *)
LEMMA Untouched ==
    ASSUME NEW w \in Workers, WorkerSound(w), UNCHANGED m_StartupCallbackList,
           phase'[w] = phase[w], position'[w] = position[w], loop'[w] = loop[w],
           built'[w] = built[w], m_bStartup'[w] = m_bStartup[w],
           idleTimeout'[w] = idleTimeout[w]
    PROVE  WorkerSound(w)'
BY ListStays DEF WorkerSound, Driven

LEMMA StartInitInv == Init => StartInv
<1> SUFFICES ASSUME Init PROVE StartInv
    OBVIOUS
<1>1. PoolInit
    BY DEF Init
<1>2. L = <<>> /\ DOMAIN L = {} /\ ListTyped
    <2>1. L = <<>>
        BY <1>1 DEF PoolInit, L
    <2> QED
        BY <2>1 DEF ListTyped
<1>3. ~HasTimer
    BY <1>2 DEF HasTimer
<1>4. StartTypes
    BY <1>1, <1>2, PoolAssumption DEF PoolInit, StartTypes, Phases
<1>5. ListSound /\ StageSound
    BY <1>1, <1>2, <1>3 DEF PoolInit, ListSound, StageSound
<1>6. ASSUME NEW w \in Workers PROVE WorkerSound(w)
    BY <1>1, <1>3 DEF PoolInit, WorkerSound
<1> QED
    BY <1>4, <1>5, <1>6 DEF StartInv

(* Registrations: the list grows at its end or, for a Timer, its front.    *)
LEMMA Appended ==
    ASSUME StartInv, main = "registers", NEW e \in Callbacks, e # "timer",
           L' = Append(L, e)
    PROVE  /\ ListTyped' /\ Length' = Length + 1 /\ DOMAIN L' = 1..(Length + 1)
           /\ L'[Length + 1] = e /\ \A i \in 1..Length : L'[i] = L[i]
           /\ HasTimer' <=> HasTimer
<1>1. ListTyped /\ Length \in Nat
    BY ListFacts DEF StartInv
<1>2. /\ ListTyped' /\ Length' = Length + 1 /\ DOMAIN L' = 1..(Length + 1)
      /\ L'[Length + 1] = e /\ \A i \in 1..Length : L'[i] = L[i]
    BY <1>1, AppendProperties DEF ListTyped, Length
<1>3. HasTimer' <=> HasTimer
    <2>1. CASE Length = 0
        BY <1>2, <2>1 DEF HasTimer
    <2>2. CASE Length > 0
        BY <1>1, <1>2, <2>2 DEF HasTimer
    <2> QED
        BY <1>1, <2>1, <2>2
<1> QED
    BY <1>2, <1>3

LEMMA RegistersInv ==
    ASSUME StartInv, main = "registers", NEW e \in Callbacks, e \notin {"timer", "log"},
           m_StartupCallbackList' = Append(m_StartupCallbackList, e),
           UNCHANGED <<kind, main, m_IdleTimeout, idleTimeout, loop, built, port, workers, m_bStartup, phase, position>>
    PROVE  StartInv'
<1>1. L' = Append(L, e)
    BY DEF L
<1>2. /\ Length' = Length + 1 /\ DOMAIN L' = 1..(Length + 1)
      /\ L'[Length + 1] = e /\ \A i \in 1..Length : L'[i] = L[i]
      /\ HasTimer' <=> HasTimer
    BY <1>1, Appended
<1>3. Length \in Nat /\ DOMAIN L = 1..Length
    BY ListFacts DEF StartInv
<1>4. ListSound'
    BY <1>2, <1>3 DEF StartInv, ListSound, Threads
<1>5. StageSound' /\ StartTypes'
    BY <1>1, Appended DEF StartInv, StageSound, StartTypes
<1>6. ASSUME NEW w \in Workers PROVE WorkerSound(w)'
    BY <1>2 DEF StartInv, StageSound, WorkerSound
<1> QED
    BY <1>4, <1>5, <1>6 DEF StartInv

LEMMA RunInv == StartInv /\ Run => StartInv'
<1> SUFFICES ASSUME StartInv, Run PROVE StartInv'
    OBVIOUS
<1>1. L' = Append(L, "log") /\ "log" \in Callbacks /\ main = "registers" /\ main' = "forks"
      /\ m_bStartup' = [w \in Workers |-> Threads]
      /\ UNCHANGED <<kind, m_IdleTimeout, idleTimeout, loop, built, timers, sin_port, port,
                     workers, phase, position>>
    BY DEF Run, L, Callbacks, timerVars, portVars
<1>2. /\ ListTyped' /\ Length' = Length + 1 /\ DOMAIN L' = 1..(Length + 1)
      /\ L'[Length + 1] = "log" /\ \A i \in 1..Length : L'[i] = L[i]
      /\ HasTimer' <=> HasTimer
    BY <1>1, Appended
<1>3. Length \in Nat /\ DOMAIN L = 1..Length /\ 0 \in Workers
    BY WorkersFacts, ListFacts DEF StartInv
<1>4. StartTypes'
    <2>1. m_bStartup' \in [Workers -> BOOLEAN]
        BY <1>1 DEF Threads
    <2> QED
        BY <1>1, <1>2, <2>1 DEF StartInv, StartTypes
<1>5. ListSound'
    <2>1. main = "registers" /\ main' # "registers" /\ UNCHANGED kind
        BY <1>1
    <2> QED
        BY <1>2, <1>3, <2>1 DEF StartInv, ListSound, Threads
<1>6. StageSound'
    BY <1>1, <1>3 DEF StartInv, StageSound
<1>7. ASSUME NEW w \in Workers PROVE WorkerSound(w)'
    BY <1>1, <1>2 DEF StartInv, StageSound, WorkerSound
<1> QED
    BY <1>4, <1>5, <1>6, <1>7 DEF StartInv

LEMMA SetTimeoutEarlyInv == StartInv /\ SetTimeoutEarly => StartInv'
<1> SUFFICES ASSUME StartInv, SetTimeoutEarly PROVE StartInv'
    OBVIOUS
<1>0. main = "registers" /\ kind = "processes" /\ SetTimeout(0) /\ ~m_bStartup[0]
      /\ UNCHANGED <<kind, m_IdleTimeout, sin_port, port, main, workers,
                     m_bStartup, phase, position>>
    BY WorkersFacts DEF SetTimeoutEarly, portVars, startVars, StartInv, StageSound
<1>1. /\ main = "registers" /\ kind = "processes"
      /\ built' = [built EXCEPT ![0] = TRUE]
      /\ L' = IF built[0] THEN L ELSE <<"timer">> \o L
      /\ UNCHANGED <<kind, m_IdleTimeout, idleTimeout, loop, sin_port, port, main, workers,
                     m_bStartup, phase, position>>
    BY <1>0 DEF SetTimeout, UseTimer, L
<1>2. ListTyped /\ Length \in Nat /\ DOMAIN L = 1..Length /\ 0 \in Workers
      /\ built \in [Workers -> BOOLEAN]
    BY WorkersFacts, ListFacts DEF StartInv, StartTypes
<1>3. \A w \in Workers : phase[w] = "unborn" /\ (built[w] <=> HasTimer /\ w = 0)
    BY <1>1 DEF StartInv, StageSound, WorkerSound
<1>4. /\ ListTyped' /\ DOMAIN L' = 1..Length' /\ Length' \in Nat
      /\ Length' > 0 /\ L'[1] = "timer"
      /\ \A i \in DOMAIN L' : L'[i] # "log" /\ (i # 1 => L'[i] # "timer")
    <2>1. CASE built[0]
        <3>1. /\ ListTyped' <=> ListTyped
              /\ L' = L /\ Length' = Length
            <4>1. UNCHANGED m_StartupCallbackList
                BY <1>1, <2>1 DEF L
            <4> QED
                BY <4>1, ListStays
        <3>2. HasTimer
            BY <1>2, <1>3, <2>1
        <3> QED
            BY <1>1, <1>2, <3>1, <3>2 DEF HasTimer, StartInv, ListSound
    <2>2. CASE ~built[0]
        <3>1. /\ ListTyped' /\ Length' = Length + 1 /\ DOMAIN L' = 1..(Length + 1)
              /\ L'[1] = "timer" /\ \A i \in 1..Length : L'[i + 1] = L[i]
            <4>1. L' = <<"timer">> \o L /\ "timer" \in Callbacks /\ ListTyped
                BY <1>1, <1>2, <2>2 DEF Callbacks
            <4>2. <<"timer">> \in Seq(Callbacks) /\ Len(<<"timer">>) = 1
                  /\ <<"timer">>[1] = "timer"
                BY <4>1
            <4>3. /\ ListTyped' /\ Length' = 1 + Length
                  /\ \A i \in 1..(1 + Length) : L'[i] = IF i <= 1 THEN <<"timer">>[i] ELSE L[i - 1]
                BY <4>1, <4>2, ConcatProperties DEF ListTyped, Length
            <4>4. ASSUME NEW i \in 1..Length PROVE L'[i + 1] = L[i]
                <5>1. i + 1 \in 1..(1 + Length) /\ ~(i + 1 <= 1) /\ (i + 1) - 1 = i
                    BY <1>2
                <5> QED
                    BY <4>3, <5>1
            <4>5. L'[1] = "timer"
                BY <1>2, <4>2, <4>3
            <4>6. DOMAIN L' = 1..Length'
                BY <4>3 DEF ListTyped, Length
            <4> QED
                BY <1>2, <4>3, <4>4, <4>5, <4>6
        <3>2. \A i \in 1..Length : L[i] # "log" /\ L[i] # "timer"
            BY <1>1, <1>2, <1>3, <2>2 DEF StartInv, ListSound, HasTimer
        <3>3. ASSUME NEW i \in 2..(Length + 1) PROVE L'[i] # "timer" /\ L'[i] # "log"
            <4>1. i - 1 \in 1..Length /\ (i - 1) + 1 = i
                BY <1>2
            <4> QED
                BY <3>1, <3>2, <4>1
        <3> QED
            BY <1>2, <3>1, <3>3
    <2> QED
        BY <2>1, <2>2
<1>5. StartTypes'
    BY <1>1, <1>2, <1>4 DEF StartInv, StartTypes
<1>6. ListSound'
    BY <1>1, <1>4 DEF ListSound, HasTimer, Threads
<1>7. StageSound'
    BY <1>1 DEF StartInv, StageSound
<1>8. ASSUME NEW w \in Workers PROVE WorkerSound(w)'
    BY <1>1, <1>2, <1>3, <1>4 DEF StartInv, WorkerSound, HasTimer
<1> QED
    BY <1>5, <1>6, <1>7, <1>8 DEF StartInv

LEMMA RegisterInv == StartInv /\ Register => StartInv'
<1> SUFFICES ASSUME StartInv, Register PROVE StartInv'
    OBVIOUS
<1>1. CASE RegisterUdpServer
    BY <1>1, RegistersInv DEF RegisterUdpServer, Callbacks, timerVars, startVars
<1>2. CASE RegisterStartupCallback
    BY <1>2, RegistersInv DEF RegisterStartupCallback, Callbacks, timerVars, startVars, portVars
<1>3. CASE SetTimeoutEarly
    BY <1>3, SetTimeoutEarlyInv
<1>4. CASE SetIdleTimeout
    <2>1. m_IdleTimeout' \in IdleTimeouts
          /\ UNCHANGED <<kind, m_StartupCallbackList, idleTimeout, loop, built, timers,
                         sin_port, port, main, workers, m_bStartup, phase, position>>
        BY <1>4 DEF SetIdleTimeout, timerVars, portVars, startVars
    <2>2. StartTypes'
        BY <2>1, PoolAssumption, ListStays DEF StartInv, StartTypes
    <2>4. ListSound' /\ StageSound'
        BY <2>1, ListStays DEF StartInv, ListSound, StageSound, Threads
    <2>3. ASSUME NEW w \in Workers PROVE WorkerSound(w)'
        BY <2>1, Untouched DEF StartInv
    <2> QED
        BY <2>2, <2>3, <2>4 DEF StartInv
<1>5. CASE Run
    BY <1>5, RunInv
<1> QED
    BY <1>1, <1>2, <1>3, <1>4, <1>5 DEF Register

-----------------------------------------------------------------------------
(* The workers come up, and end. *)

(* A worker that has ended owes nothing. *)
LEMMA EndedSound ==
    ASSUME NEW w \in Workers, phase'[w] = "ended"
    PROVE  WorkerSound(w)'
BY DEF WorkerSound

(* Workers end, all the others go on, and Startup may be over. *)
LEMMA EndsInv ==
    ASSUME StartInv,
           phase' \in [Workers -> Phases],
           \A w \in Workers : phase'[w] = "ended" \/ phase'[w] = phase[w],
           main # "registers",
           \/ main' = "runs"
           \/ UNCHANGED main /\ \A w \in Workers : phase[w] = "unborn" => phase'[w] = phase[w],
           UNCHANGED <<kind, m_StartupCallbackList, m_IdleTimeout, idleTimeout, loop, built,
                       port, workers, m_bStartup, position>>
    PROVE  StartInv'
<1>1. StartTypes'
    BY ListStays DEF StartInv, StartTypes
<1>2. ListSound'
    BY ListStays DEF StartInv, ListSound, Threads
<1>3. StageSound'
    BY WorkersFacts DEF StartInv, StageSound
<1>4. ASSUME NEW w \in Workers PROVE WorkerSound(w)'
    BY EndedSound, Untouched DEF StartInv
<1> QED
    BY <1>1, <1>2, <1>3, <1>4 DEF StartInv

LEMMA ForkInv == StartInv /\ Fork => StartInv'
<1> SUFFICES ASSUME StartInv, Fork PROVE StartInv'
    OBVIOUS
<1>1. /\ main = "forks" /\ workers < num /\ workers' = workers + 1
      /\ phase' = [phase EXCEPT ![workers] = "born"]
      /\ UNCHANGED <<kind, m_StartupCallbackList, m_IdleTimeout, main, m_bStartup, position,
                     idleTimeout, loop, port>>
      /\ IF Threads THEN UNCHANGED built ELSE built' = [built EXCEPT ![workers] = built[0]]
    BY DEF Fork, programVars
<1>2. workers \in Workers /\ workers # 0 /\ workers \in Nat /\ 0 \in Workers
      /\ Workers \subseteq Nat
    BY <1>1, WorkersFacts, PoolAssumption DEF StartInv, StartTypes, Workers
<1>3. phase[workers] = "unborn" /\ phase[0] = "unborn"
    BY <1>1, <1>2 DEF StartInv, StageSound
<1>4. built' \in [Workers -> BOOLEAN]
      /\ (built'[workers] <=> HasTimer)
      /\ \A w \in Workers : w # workers => built'[w] = built[w]
    <2>1. built \in [Workers -> BOOLEAN] /\ (built[0] <=> HasTimer) /\ ~built[workers]
        BY <1>2, <1>3 DEF StartInv, StartTypes, WorkerSound
    <2>2. CASE Threads
        BY <1>1, <2>1, <2>2 DEF StartInv, ListSound
    <2>3. CASE ~Threads
        BY <1>1, <1>2, <2>1, <2>3
    <2> QED
        BY <2>2, <2>3
<1>5. phase' \in [Workers -> Phases] /\ phase'[workers] = "born"
      /\ \A w \in Workers : w # workers => phase'[w] = phase[w]
    BY <1>1, <1>2 DEF StartInv, StartTypes, Phases
<1>6. StartTypes'
    <2>1. workers' \in 1..(num + 1)
        BY <1>1, PoolAssumption DEF StartInv, StartTypes
    <2> QED
        BY <1>1, <1>4, <1>5, <2>1, ListStays DEF StartInv, StartTypes
<1>7. ListSound'
    BY <1>1, ListStays DEF StartInv, ListSound, Threads
<1>8. StageSound'
    BY <1>1, <1>2, <1>3, <1>5 DEF StartInv, StageSound
<1>9. ASSUME NEW w \in Workers PROVE WorkerSound(w)'
    <2>1. CASE w # workers
        BY <1>1, <1>4, <1>5, <2>1, Untouched DEF StartInv
    <2>2. CASE w = workers
        BY <1>1, <1>3, <1>4, <1>5, <2>2, ListStays DEF StartInv, WorkerSound
    <2> QED
        BY <2>1, <2>2
<1> QED
    BY <1>6, <1>7, <1>8, <1>9 DEF StartInv

LEMMA BringUpInv == StartInv /\ BringUp => StartInv'
<1> SUFFICES ASSUME StartInv, BringUp PROVE StartInv'
    OBVIOUS
<1>1. CASE Fork
    BY <1>1, ForkInv
<1>2. CASE ForkFails
    <2>1. phase' \in [Workers -> Phases]
          /\ \A w \in Workers : phase'[w] = "ended" \/ phase'[w] = phase[w]
        BY <1>2 DEF ForkFails, Ended, StartInv, StartTypes, Phases
    <2> QED
        BY <1>2, <2>1, EndsInv DEF ForkFails, programVars, timerVars, portVars
<1>3. CASE AllForked
    <2>1. /\ main = "forks" /\ main' = "runs" /\ phase' = [phase EXCEPT ![0] = "born"]
          /\ UNCHANGED <<kind, m_StartupCallbackList, m_IdleTimeout, idleTimeout, loop, built,
                         port, workers, m_bStartup, position>>
        BY <1>3 DEF AllForked, programVars, timerVars, portVars
    <2>2. 0 \in Workers /\ phase[0] = "unborn"
        BY <2>1, WorkersFacts DEF StartInv, StageSound
    <2>3. phase' \in [Workers -> Phases] /\ phase'[0] = "born"
          /\ \A w \in Workers : w # 0 => phase'[w] = phase[w]
        BY <2>1, <2>2 DEF StartInv, StartTypes, Phases
    <2>4. StartTypes'
        BY <2>1, <2>3, ListStays DEF StartInv, StartTypes
    <2>5. ListSound' /\ StageSound'
        BY <2>1, ListStays DEF StartInv, ListSound, StageSound, Threads
    <2>6. ASSUME NEW w \in Workers PROVE WorkerSound(w)'
        <3>1. CASE w # 0
            BY <2>1, <2>3, <3>1, Untouched DEF StartInv
        <3>2. CASE w = 0
            BY <2>1, <2>2, <2>3, <3>2, ListStays DEF StartInv, WorkerSound
        <3> QED
            BY <3>1, <3>2
    <2> QED
        BY <2>4, <2>5, <2>6 DEF StartInv
<1> QED
    BY <1>1, <1>2, <1>3 DEF BringUp

(* A step of one worker, which is up and stays up. *)
LEMMA OneWorkerInv ==
    ASSUME StartInv, NEW w \in Workers, phase[w] # "unborn", StartTypes',
           \A v \in Workers : v # w =>
              /\ phase'[v] = phase[v] /\ position'[v] = position[v] /\ loop'[v] = loop[v]
              /\ built'[v] = built[v] /\ m_bStartup'[v] = m_bStartup[v]
              /\ idleTimeout'[v] = idleTimeout[v],
           UNCHANGED <<kind, m_StartupCallbackList, main, workers>>,
           WorkerSound(w)'
    PROVE  StartInv'
<1>1. main # "registers"
    BY DEF StartInv, StageSound
<1>2. ListSound'
    BY ListStays DEF StartInv, ListSound, Threads
<1>3. StageSound'
    BY <1>1, WorkersFacts DEF StartInv, StageSound
<1>4. ASSUME NEW v \in Workers PROVE WorkerSound(v)'
    BY Untouched DEF StartInv
<1> QED
    BY <1>2, <1>3, <1>4 DEF StartInv

(* TimerStartup::Startup makes a loop drive its Timer. *)
LEMMA RegisterTimerDrives ==
    ASSUME StartTypes, NEW w \in Workers, loop[w] = 0, RegisterTimer(w)
    PROVE  /\ Driven(w)'
           /\ idleTimeout' \in [Workers -> Int] /\ loop' \in [Workers -> Nat]
           /\ \A v \in Workers : v # w => loop'[v] = loop[v] /\ idleTimeout'[v] = idleTimeout[v]
BY PoolAssumption DEF StartTypes, RegisterTimer, Driven

LEMMA CreateSchedulerInv ==
    ASSUME StartInv, NEW w \in Workers, CreateScheduler(w)
    PROVE  StartInv'
<1>1. /\ phase[w] = "born" /\ phase' = [phase EXCEPT ![w] = "starting"]
      /\ idleTimeout' = [idleTimeout EXCEPT ![w] = m_IdleTimeout]
      /\ m_bStartup' = [m_bStartup EXCEPT ![w] = TRUE]
      /\ UNCHANGED <<kind, m_StartupCallbackList, m_IdleTimeout, main, workers, position, loop,
                     built, port>>
    BY DEF CreateScheduler, programVars, portVars
<1>2. StartTypes'
    BY <1>1, ListStays DEF StartInv, StartTypes, Phases
<1>3. position[w] = 1 /\ loop[w] = 0 /\ (built[w] <=> HasTimer) /\ 1 \in DOMAIN L
    BY <1>1, ListFacts DEF StartInv, WorkerSound, StageSound, ListSound
<1>4. phase'[w] = "starting" /\ m_bStartup'[w]
    BY <1>1 DEF StartInv, StartTypes
<1>5. WorkerSound(w)'
    BY <1>1, <1>3, <1>4, ListStays DEF WorkerSound
<1> QED
    BY <1>1, <1>2, <1>5, OneWorkerInv DEF StartInv, StartTypes

(* A callback before the last is made: the next is due. *)
LEMMA CalledNext ==
    ASSUME StartInv, NEW w \in Workers, Called(w), phase[w] \in {"starting", "binding"},
           L[position[w]] # "log"
    PROVE  /\ phase' = [phase EXCEPT ![w] = "starting"]
           /\ position' = [position EXCEPT ![w] = @ + 1]
           /\ phase'[w] = "starting" /\ position'[w] = position[w] + 1
           /\ position[w] + 1 \in DOMAIN L /\ position[w] \in 1..Length /\ m_bStartup[w]
           /\ main # "registers"
<1>1. position[w] \in DOMAIN L /\ m_bStartup[w] /\ main # "registers"
    BY DEF StartInv, WorkerSound, StageSound
<1>2. L[Length] = "log" /\ DOMAIN L = 1..Length /\ Length \in Nat
    BY <1>1, ListFacts DEF StartInv, ListSound
<1>3. position[w] # Length /\ position[w] + 1 \in DOMAIN L
    BY <1>1, <1>2
<1> QED
    BY <1>1, <1>2, <1>3, CalledIs DEF StartInv, StartTypes

LEMMA CallTimerStartupInv ==
    ASSUME StartInv, NEW w \in Workers, CallTimerStartup(w)
    PROVE  StartInv'
<1>1. /\ phase[w] = "starting" /\ L[position[w]] = "timer" /\ Called(w) /\ RegisterTimer(w)
      /\ UNCHANGED <<kind, m_StartupCallbackList, m_IdleTimeout, main, workers, m_bStartup,
                     built, port>>
    BY DEF CallTimerStartup, Calls, Called, L, portVars
<1>2. /\ phase' = [phase EXCEPT ![w] = "starting"]
      /\ position' = [position EXCEPT ![w] = @ + 1]
      /\ phase'[w] = "starting" /\ position'[w] = position[w] + 1
      /\ position[w] + 1 \in DOMAIN L /\ position[w] \in DOMAIN L /\ m_bStartup[w]
    BY <1>1, CalledNext, ListFacts DEF StartInv
<1>3. position[w] = 1 /\ HasTimer /\ Length \in Nat /\ DOMAIN L = 1..Length
    BY <1>1, <1>2, ListFacts DEF StartInv, ListSound, HasTimer
<1>4. built[w] /\ loop[w] = 0
    BY <1>1, <1>3 DEF StartInv, WorkerSound
<1>5. /\ Driven(w)' /\ idleTimeout' \in [Workers -> Int] /\ loop' \in [Workers -> Nat]
      /\ \A v \in Workers : v # w => loop'[v] = loop[v] /\ idleTimeout'[v] = idleTimeout[v]
    BY <1>1, <1>4, RegisterTimerDrives DEF StartInv
<1>6. StartTypes'
    <2>1. phase' \in [Workers -> Phases] /\ position' \in [Workers -> Nat]
        BY <1>2 DEF StartInv, StartTypes, Phases
    <2> QED
        BY <1>1, <1>5, <2>1, ListStays DEF StartInv, StartTypes
<1>7. WorkerSound(w)'
    BY <1>1, <1>2, <1>3, <1>4, <1>5, ListStays DEF WorkerSound
<1> QED
    BY <1>1, <1>2, <1>5, <1>6, <1>7, OneWorkerInv DEF StartInv, StartTypes

LEMMA CallUdpStartupInv ==
    ASSUME StartInv, NEW w \in Workers, CallUdpStartup(w)
    PROVE  StartInv'
<1>1. /\ phase[w] = "starting" /\ L[position[w]] = "udp"
      /\ phase' = [phase EXCEPT ![w] = "binding"]
      /\ UNCHANGED <<kind, m_StartupCallbackList, m_IdleTimeout, main, workers, m_bStartup,
                     position, idleTimeout, loop, built, port>>
    BY DEF CallUdpStartup, Calls, L, programVars, timerVars
<1>2. StartTypes' /\ phase'[w] = "binding"
    BY <1>1, ListStays DEF StartInv, StartTypes, Phases
<1>3. WorkerSound(w)'
    BY <1>1, <1>2, ListStays DEF StartInv, WorkerSound, Driven
<1> QED
    BY <1>1, <1>2, <1>3, OneWorkerInv DEF StartInv, StartTypes

(* After the first callback, which is the Timer's if there is one.         *)
LEMMA PastTheFirst ==
    ASSUME StartInv, NEW w \in Workers, phase[w] \in {"starting", "binding"},
           L[position[w]] # "timer"
    PROVE  /\ HasTimer => built[w] /\ position[w] > 1
           /\ IF built[w] THEN Driven(w) ELSE loop[w] = 0
<1>1. /\ position[w] \in 1..Length /\ Length \in Nat
      /\ HasTimer => built[w]
      /\ IF built[w] /\ (HasTimer => position[w] > 1) THEN Driven(w) ELSE loop[w] = 0
    BY ListFacts DEF StartInv, WorkerSound
<1>2. HasTimer => position[w] > 1
    BY <1>1 DEF HasTimer
<1> QED
    BY <1>1, <1>2

LEMMA BindInv ==
    ASSUME StartInv, NEW w \in Workers, Bind(w)
    PROVE  StartInv'
<1>1. /\ phase[w] = "binding" /\ Called(w)
      /\ UNCHANGED <<kind, m_StartupCallbackList, m_IdleTimeout, main, workers, m_bStartup,
                     idleTimeout, loop, built>>
    BY DEF Bind, Called, timerVars
<1>2. L[position[w]] = "udp"
    BY <1>1 DEF StartInv, WorkerSound
<1>3. /\ phase' = [phase EXCEPT ![w] = "starting"]
      /\ position' = [position EXCEPT ![w] = @ + 1]
      /\ phase'[w] = "starting" /\ position'[w] = position[w] + 1
      /\ position[w] + 1 \in DOMAIN L /\ position[w] \in 1..Length /\ m_bStartup[w]
    BY <1>1, <1>2, CalledNext
<1>4. /\ HasTimer => built[w]
      /\ IF built[w] THEN Driven(w) ELSE loop[w] = 0
    BY <1>1, <1>2, PastTheFirst
<1>5. StartTypes'
    BY <1>1, <1>3, ListStays DEF StartInv, StartTypes, Phases
<1>6. WorkerSound(w)'
    <2>1. position'[w] > 1
        BY <1>3, ListFacts DEF StartInv
    <2> QED
        BY <1>1, <1>3, <1>4, <2>1, ListStays DEF WorkerSound, Driven
<1> QED
    BY <1>1, <1>3, <1>5, <1>6, OneWorkerInv DEF StartInv, StartTypes

(* The use of a Timer by a worker that has started: it builds and drives   *)
(* one, or has one already.                                                *)
LEMMA UseTimerDrives ==
    ASSUME StartInv, NEW w \in Workers, UseTimer(w), m_bStartup[w],
           IF built[w] THEN Driven(w) ELSE loop[w] = 0
    PROVE  /\ UNCHANGED m_StartupCallbackList
           /\ built' = [built EXCEPT ![w] = TRUE] /\ built'[w]
           /\ Driven(w)'
           /\ idleTimeout' \in [Workers -> Int] /\ loop' \in [Workers -> Nat]
           /\ \A v \in Workers : v # w => loop'[v] = loop[v] /\ idleTimeout'[v] = idleTimeout[v]
<1>1. /\ built' = [built EXCEPT ![w] = TRUE] /\ built'[w]
      /\ UNCHANGED m_StartupCallbackList
    BY DEF UseTimer, StartInv, StartTypes
<1>2. CASE built[w]
    BY <1>1, <1>2 DEF UseTimer, Driven, StartInv, StartTypes
<1>3. CASE ~built[w]
    BY <1>1, <1>3, RegisterTimerDrives DEF UseTimer, StartInv
<1> QED
    BY <1>2, <1>3

LEMMA CallProgramInv ==
    ASSUME StartInv, NEW w \in Workers, CallProgram(w)
    PROVE  StartInv'
<1>1. /\ phase[w] = "starting" /\ L[position[w]] = "program" /\ Called(w) /\ UseTimer(w)
      /\ UNCHANGED <<kind, m_IdleTimeout, main, workers, m_bStartup>>
    BY DEF CallProgram, Calls, Called, L, SetTimeout
<1>2. /\ phase' = [phase EXCEPT ![w] = "starting"]
      /\ position' = [position EXCEPT ![w] = @ + 1]
      /\ phase'[w] = "starting" /\ position'[w] = position[w] + 1
      /\ position[w] + 1 \in DOMAIN L /\ position[w] \in 1..Length /\ m_bStartup[w]
    BY <1>1, CalledNext
<1>3. IF built[w] THEN Driven(w) ELSE loop[w] = 0
    BY <1>1, PastTheFirst
<1>4. /\ UNCHANGED m_StartupCallbackList
      /\ built' = [built EXCEPT ![w] = TRUE] /\ built'[w]
      /\ Driven(w)'
      /\ idleTimeout' \in [Workers -> Int] /\ loop' \in [Workers -> Nat]
      /\ \A v \in Workers : v # w => loop'[v] = loop[v] /\ idleTimeout'[v] = idleTimeout[v]
    BY <1>1, <1>2, <1>3, UseTimerDrives
<1>5. StartTypes'
    BY <1>1, <1>2, <1>4, ListStays DEF StartInv, StartTypes, Phases
<1>6. WorkerSound(w)'
    <2>1. position'[w] > 1
        BY <1>2, ListFacts DEF StartInv
    <2> QED
        BY <1>1, <1>2, <1>4, <2>1, ListStays DEF WorkerSound
<1> QED
    BY <1>1, <1>2, <1>4, <1>5, <1>6, OneWorkerInv DEF StartInv, StartTypes

LEMMA CallLogInv ==
    ASSUME StartInv, NEW w \in Workers, CallLog(w)
    PROVE  StartInv'
<1>1. /\ phase[w] = "starting" /\ L[position[w]] = "log" /\ Called(w) /\ UseTimer(w)
      /\ position[w] \in DOMAIN L /\ m_bStartup[w]
      /\ UNCHANGED <<kind, m_IdleTimeout, main, workers, m_bStartup>>
    BY DEF CallLog, Calls, Called, L, StartInv, WorkerSound
<1>2. position[w] = Length
    BY <1>1 DEF StartInv, ListSound
<1>3. /\ phase' = [phase EXCEPT ![w] = "looping"] /\ phase'[w] = "looping"
      /\ position' = [position EXCEPT ![w] = @ + 1]
    BY <1>1, <1>2, CalledIs DEF StartInv, StartTypes
<1>4. IF built[w] THEN Driven(w) ELSE loop[w] = 0
    BY <1>1, PastTheFirst
<1>5. /\ UNCHANGED m_StartupCallbackList
      /\ built' = [built EXCEPT ![w] = TRUE] /\ built'[w]
      /\ Driven(w)'
      /\ idleTimeout' \in [Workers -> Int] /\ loop' \in [Workers -> Nat]
      /\ \A v \in Workers : v # w => loop'[v] = loop[v] /\ idleTimeout'[v] = idleTimeout[v]
    BY <1>1, <1>4, UseTimerDrives
<1>6. StartTypes'
    BY <1>1, <1>3, <1>5, ListStays DEF StartInv, StartTypes, Phases
<1>7. WorkerSound(w)'
    BY <1>1, <1>3, <1>5 DEF WorkerSound
<1> QED
    BY <1>1, <1>3, <1>5, <1>6, <1>7, OneWorkerInv DEF StartInv, StartTypes

LEMMA StartStepInv ==
    ASSUME StartInv, NEW w \in Workers, Start(w)
    PROVE  StartInv'
<1>1. CASE StartFails(w)
    <2>1. /\ phase' \in [Workers -> Phases] /\ phase[w] # "unborn"
          /\ \A v \in Workers : phase'[v] = "ended" \/ phase'[v] = phase[v]
          /\ main # "registers" /\ (main = "forks" => w # 0)
          /\ UNCHANGED <<kind, m_StartupCallbackList, m_IdleTimeout, idleTimeout, loop, built,
                         port, main, workers, m_bStartup, position>>
        BY <1>1, WorkersFacts
           DEF StartFails, Ended, StartInv, StartTypes, StageSound, Phases, programVars, timerVars,
               portVars
    <2>2. main \in {"forks", "runs"} => \/ UNCHANGED main /\ main = "runs"
                                        \/ main = "forks" /\ w # 0
        BY <2>1
    <2>3. \/ main' = "runs"
          \/ UNCHANGED main /\ \A v \in Workers : phase[v] = "unborn" => phase'[v] = phase[v]
        <3>1. CASE w # 0
            BY <1>1, <2>1, <3>1 DEF StartFails, Ended
        <3>2. CASE w = 0
            BY <2>1, <3>2 DEF StartInv, StartTypes
        <3> QED
            BY <3>1, <3>2
    <2> QED
        BY <2>1, <2>3, EndsInv
<1> QED
    BY <1>1, CreateSchedulerInv, CallTimerStartupInv, CallUdpStartupInv, BindInv,
       CallProgramInv DEF Start

-----------------------------------------------------------------------------
(* The loops. *)

LEMMA HandlersInv ==
    ASSUME StartInv, NEW w \in Workers,
           \/ HandlerLogs(w) \/ HandlerSetsTimer(w) \/ HandlerFlushes(w)
           \/ HandlerSetsIdleTimeout(w) \/ TimerRings(w) \/ LogIsFlushed(w)
    PROVE  StartInv'
<1>1. phase[w] = "looping" /\ m_bStartup[w] /\ built[w] /\ Driven(w)
    BY DEF HandlerLogs, HandlerSetsTimer, HandlerFlushes, HandlerSetsIdleTimeout, TimerRings,
           LogIsFlushed, Looping, StartInv, WorkerSound
<1>2. /\ UNCHANGED <<kind, m_StartupCallbackList, m_IdleTimeout, main, workers, m_bStartup,
                     phase, position, built, loop>>
      /\ \/ UNCHANGED idleTimeout
         \/ \E timeout \in IdleTimeouts :
               /\ 0 <= timeout /\ timeout <= Interval
               /\ idleTimeout' = [idleTimeout EXCEPT ![w] = timeout]
    BY <1>1 DEF HandlerLogs, HandlerSetsTimer, HandlerFlushes, HandlerSetsIdleTimeout,
       TimerRings, LogIsFlushed, SetTimeout, UseTimer, poolVars, programVars, startVars, portVars,
       StartInv, StartTypes
<1>3. /\ idleTimeout' \in [Workers -> Int]
      /\ idleTimeout'[w] # -1 /\ idleTimeout'[w] <= Interval
      /\ \A v \in Workers : v # w => idleTimeout'[v] = idleTimeout[v]
    BY <1>1, <1>2, PoolAssumption DEF StartInv, StartTypes, Driven
<1>4. StartTypes'
    BY <1>2, <1>3, ListStays DEF StartInv, StartTypes
<1>5. WorkerSound(w)'
    BY <1>1, <1>2, <1>3 DEF WorkerSound, Driven
<1> QED
    BY <1>1, <1>2, <1>3, <1>4, <1>5, OneWorkerInv

LEMMA CrashInv ==
    ASSUME StartInv, NEW w \in Workers, Crash(w)
    PROVE  StartInv'
<1>1. /\ phase[w] = "looping" /\ main' = (IF Threads THEN "runs" ELSE main)
      /\ phase' = [v \in Workers |-> IF Threads \/ v = w THEN "ended" ELSE phase[v]]
      /\ UNCHANGED <<kind, m_StartupCallbackList, m_IdleTimeout, idleTimeout, loop, built,
                     port, workers, m_bStartup, position>>
    BY DEF Crash, Looping, programVars, portVars
<1>2. main # "registers"
    BY <1>1 DEF StartInv, StageSound
<1>3. phase' \in [Workers -> Phases]
      /\ \A v \in Workers : phase'[v] = "ended" \/ phase'[v] = phase[v]
    BY <1>1 DEF StartInv, StartTypes, Phases
<1>4. \/ main' = "runs"
      \/ UNCHANGED main /\ \A v \in Workers : phase[v] = "unborn" => phase'[v] = phase[v]
    BY <1>1
<1> QED
    BY <1>1, <1>2, <1>3, <1>4, EndsInv

LEMMA StartNextInv == StartInv /\ [Next]_vars => StartInv'
<1> SUFFICES ASSUME StartInv, [Next]_vars PROVE StartInv'
    OBVIOUS
<1>1. ASSUME NEW w \in Workers, Start(w) PROVE StartInv'
    BY <1>1, StartStepInv
<1>2. ASSUME NEW w \in Workers, CallLog(w) PROVE StartInv'
    BY <1>2, CallLogInv
<1>3. ASSUME NEW w \in Workers,
             \/ HandlerLogs(w) \/ HandlerSetsTimer(w) \/ HandlerFlushes(w)
             \/ HandlerSetsIdleTimeout(w) \/ TimerRings(w) \/ LogIsFlushed(w)
      PROVE  StartInv'
    BY <1>3, HandlersInv
<1>4. ASSUME NEW w \in Workers, Crash(w) PROVE StartInv'
    BY <1>4, CrashInv
<1>5. CASE World \/ UNCHANGED vars
    <2>1. UNCHANGED <<kind, m_StartupCallbackList, m_IdleTimeout, idleTimeout, loop, built,
                      port, main, workers, m_bStartup, phase, position>>
        BY <1>5 DEF World, vars, poolVars
    <2>2. StartTypes' /\ ListSound' /\ StageSound'
        BY <2>1, ListStays DEF StartInv, StartTypes, ListSound, StageSound, Threads
    <2>3. ASSUME NEW w \in Workers PROVE WorkerSound(w)'
        BY <2>1, Untouched DEF StartInv
    <2> QED
        BY <2>2, <2>3 DEF StartInv
<1> QED
    BY <1>1, <1>2, <1>3, <1>4, <1>5, RegisterInv, BringUpInv DEF Next

LEMMA StartHolds == Spec => []StartInv
BY StartInitInv, StartNextInv, PTL DEF Spec

(* In its loop a worker that has a Timer, however it came to have it,      *)
(* calls its CheckTimer once a turn, and sleeps no longer than its         *)
(* interval.                                                               *)
THEOREM WorkersTimersDriven == Spec => []TimersAreDriven
<1>1. StartInv => TimersAreDriven
    BY DEF StartInv, WorkerSound, Driven, TimersAreDriven, Looping
<1> QED
    BY StartHolds, <1>1, PTL

-----------------------------------------------------------------------------
(* The ports. *)

Alike(v, w) == port[v] # 0 /\ port[v] = port[w]

(* There is one UdpServer, and no two workers have its port.               *)
UdpOnce == \A i, j \in DOMAIN L : L[i] = "udp" /\ L[j] = "udp" => i = j
UdpListed == \E i \in DOMAIN L : L[i] = "udp"
PortsDiffer == \A v, w \in Live : v # w => ~Alike(v, w)

(* A process that has still to make the callback of the UdpServer has the  *)
(* configured port in its m_Data, and once it has made it, its own.        *)
ToBind(w) == phase[w] \in {"born", "starting"} \/ (phase[w] = "unborn" /\ w = 0)

PortSound(w) ==
    /\ phase[w] \in {"unborn", "born"} => port[w] = 0
    /\ ~Threads =>
          /\ port[w] \in {0, BasePort + w}
          /\ ToBind(w) => \A i \in DOMAIN L :
                i >= position[w] /\ L[i] = "udp" => sin_port[w] = BasePort
          /\ phase[w] = "binding" => sin_port[w] = htons(BasePort + w)

PortNumbers == {n \in Nat : n < 65536}
PortTypes == sin_port \in [Workers -> PortNumbers] /\ port \in [Workers -> PortNumbers]

(* The inductive invariant of the ports, beside StartInv. *)
PortInv ==
    /\ PortTypes
    /\ PortsDiffer
    /\ ~Threads => UdpOnce
    /\ \A w \in Workers : PortSound(w)

LEMMA HtonsTwice ==
    ASSUME NEW x \in PortNumbers
    PROVE  htons(x) \in PortNumbers /\ htons(htons(x)) = x
<1> DEFINE a == x \div 256
           b == x % 256
<1>1. a \in 0..255 /\ b \in 0..255 /\ x = 256 * a + b
    BY DEF PortNumbers
<1> HIDE DEF a, b
<1>2. htons(x) = 256 * b + a
    BY <1>1 DEF htons, a, b
<1>3. (256 * b + a) % 256 = a /\ (256 * b + a) \div 256 = b
    BY <1>1
<1>4. 256 * b + a \in PortNumbers
    BY <1>1 DEF PortNumbers
<1>5. htons(256 * b + a) = 256 * a + b
    BY <1>1, <1>3 DEF htons
<1> QED
    BY <1>1, <1>2, <1>4, <1>5

LEMMA OwnPort == \A w \in Workers : /\ BasePort + w \in PortNumbers
                                    /\ (BasePort + w) % 65536 = BasePort + w
BY PoolAssumption DEF Workers, PortNumbers

LEMMA PortInitInv == Init => PortInv
<1> SUFFICES ASSUME Init PROVE PortInv
    OBVIOUS
<1>1. PoolInit /\ L = <<>> /\ DOMAIN L = {} /\ Live = {}
    BY DEF Init, PoolInit, L, Live
<1>2. \A w \in Workers : PortSound(w)
    BY <1>1 DEF PoolInit, PortSound, ToBind
<1> QED
    BY <1>1, <1>2 DEF PoolInit, PortInv, PortTypes, PortNumbers, PortsDiffer, UdpOnce

(* Registrations, before any worker is up. *)
LEMMA RegisteringPorts ==
    ASSUME StartInv, PortInv, main = "registers", UNCHANGED <<kind, port, phase, position>>,
           sin_port' \in [Workers -> PortNumbers],
           ~Threads => UdpOnce',
           ~Threads => (UdpListed' => sin_port'[0] = BasePort)
    PROVE  PortInv'
<1>1. \A w \in Workers : phase'[w] = "unborn"
    BY DEF StartInv, StageSound
<1>2. PortTypes'
    BY DEF PortInv, PortTypes
<1>3. PortsDiffer'
    BY <1>1 DEF PortsDiffer, Live
<1>4. ASSUME NEW w \in Workers PROVE PortSound(w)'
    BY <1>1 DEF PortInv, PortSound, ToBind, Threads, UdpListed
<1> QED
    BY <1>2, <1>3, <1>4 DEF PortInv, Threads

(* What worker 0 says of the list while it registers. *)
LEMMA UdpIsRegistered ==
    ASSUME StartInv, PortInv, main = "registers", ~Threads,
           UdpListed
    PROVE  sin_port[0] = BasePort
<1>1. phase[0] = "unborn" /\ position[0] = 1 /\ 0 \in Workers
    BY WorkersFacts DEF StartInv, StageSound, WorkerSound
<1>2. \A i \in DOMAIN L : i >= 1
    BY ListFacts DEF StartInv
<1> QED
    BY <1>1, <1>2 DEF UdpListed, PortInv, PortSound, ToBind

LEMMA UdpIsAppended ==
    ASSUME StartInv, PortInv, main = "registers", NEW e \in Callbacks \ {"timer"},
           L' = Append(L, e)
    PROVE  ~Threads => /\ (e = "udp" => sin_port[0] = 0) => UdpOnce'
                       /\ e # "udp" /\ UdpListed' => sin_port[0] = BasePort
<1> SUFFICES ASSUME ~Threads
             PROVE  /\ (e = "udp" => sin_port[0] = 0) => UdpOnce'
                    /\ e # "udp" /\ UdpListed' => sin_port[0] = BasePort
    OBVIOUS
<1>1. /\ DOMAIN L' = 1..(Length + 1)
      /\ L'[Length + 1] = e /\ \A i \in 1..Length : L'[i] = L[i]
    BY Appended
<1>2. Length \in Nat /\ DOMAIN L = 1..Length
    BY ListFacts DEF StartInv
<1>3. \A i \in DOMAIN L' : i = Length + 1 \/ (i \in DOMAIN L /\ L'[i] = L[i])
    BY <1>1, <1>2
<1>4. CASE e = "udp"
    <2>1. sin_port[0] = 0 => \A i \in DOMAIN L : L[i] # "udp"
        BY PoolAssumption, UdpIsRegistered DEF UdpListed
    <2> QED
        BY <1>3, <1>4, <2>1 DEF UdpOnce
<1>5. CASE e # "udp"
    <2>1. \A i \in DOMAIN L' : L'[i] = "udp" => i \in DOMAIN L /\ L[i] = "udp"
        BY <1>1, <1>3, <1>5
    <2>2. UdpOnce'
        BY <2>1 DEF UdpOnce, PortInv
    <2>3. UdpListed' => sin_port[0] = BasePort
        BY <2>1, UdpIsRegistered DEF UdpListed
    <2> QED
        BY <2>2, <2>3
<1> QED
    BY <1>4, <1>5

LEMMA UdpPortIsSet ==
    ASSUME PortInv, sin_port' = [sin_port EXCEPT ![0] = BasePort]
    PROVE  sin_port' \in [Workers -> PortNumbers] /\ sin_port'[0] = BasePort
<1>1. BasePort \in PortNumbers /\ 0 \in Workers
    BY PoolAssumption, WorkersFacts DEF PortNumbers
<1> QED
    BY <1>1 DEF PortInv, PortTypes

LEMMA SetTimeoutEarlyPorts ==
    ASSUME StartInv, PortInv, SetTimeoutEarly PROVE PortInv'
<1>1. /\ main = "registers"
      /\ L' = L \/ L' = <<"timer">> \o L
      /\ UNCHANGED <<kind, sin_port, port, phase, position>>
    BY DEF SetTimeoutEarly, SetTimeout, UseTimer, L, portVars, startVars
<1>2. sin_port' \in [Workers -> PortNumbers]
    BY <1>1 DEF PortInv, PortTypes
<1>3. CASE L' = L
    BY <1>1, <1>2, <1>3, RegisteringPorts, UdpIsRegistered DEF UdpOnce, UdpListed, PortInv
<1>4. CASE L' = <<"timer">> \o L
    <2>1. ListTyped /\ Length \in Nat /\ DOMAIN L = 1..Length
        BY ListFacts DEF StartInv
    <2>2. <<"timer">> \in Seq(Callbacks) /\ Len(<<"timer">>) = 1 /\ <<"timer">>[1] = "timer"
        BY DEF Callbacks
    <2>3. /\ L' \in Seq(Callbacks) /\ Len(L') = 1 + Length
          /\ \A i \in 1..(1 + Length) : L'[i] = IF i <= 1 THEN <<"timer">>[i] ELSE L[i - 1]
        BY <1>4, <2>1, <2>2, ConcatProperties DEF ListTyped, Length
    <2>4. DOMAIN L' = 1..(1 + Length)
        BY <2>3
    <2>5. \A i \in DOMAIN L' : L'[i] = "udp" => i - 1 \in DOMAIN L /\ L[i - 1] = "udp"
        BY <2>1, <2>2, <2>3, <2>4
    <2>6. ~Threads => UdpOnce'
        BY <2>4, <2>5 DEF UdpOnce, PortInv
    <2>7. ~Threads => (UdpListed' => sin_port'[0] = BasePort)
        BY <1>1, <2>5, UdpIsRegistered DEF UdpListed
    <2> QED
        BY <1>1, <1>2, <2>6, <2>7, RegisteringPorts
<1> QED
    BY <1>1, <1>3, <1>4

LEMMA RegisterPorts == ASSUME StartInv, PortInv, Register PROVE PortInv'
<1>1. CASE RegisterUdpServer
    <2>1. main = "registers" /\ sin_port[0] = 0 /\ L' = Append(L, "udp")
        BY <1>1 DEF RegisterUdpServer, L
    <2>2. ~Threads => UdpOnce'
        BY <2>1, UdpIsAppended DEF Callbacks
    <2>3. /\ main = "registers"
          /\ sin_port' = [sin_port EXCEPT ![0] = BasePort]
          /\ UNCHANGED <<kind, port, phase, position>>
        BY <1>1 DEF RegisterUdpServer, startVars
    <2> QED
        BY <2>2, <2>3, UdpPortIsSet, RegisteringPorts
<1>2. ASSUME NEW e \in {"program", "log"}, main = "registers", L' = Append(L, e),
             UNCHANGED <<kind, sin_port, port, phase, position>>
      PROVE  PortInv'
    <2>1. ~Threads => UdpOnce' /\ (UdpListed' => sin_port[0] = BasePort)
        BY <1>2, UdpIsAppended DEF Callbacks
    <2>2. sin_port' \in [Workers -> PortNumbers]
        BY <1>2 DEF PortInv, PortTypes
    <2> QED
        BY <1>2, <2>1, <2>2, RegisteringPorts
<1>3. CASE SetTimeoutEarly
    BY <1>3, SetTimeoutEarlyPorts
<1>4. CASE SetIdleTimeout
    <2>1. /\ main = "registers" /\ L' = L
          /\ UNCHANGED <<kind, sin_port, port, phase, position>>
        BY <1>4 DEF SetIdleTimeout, L, portVars, startVars
    <2> QED
        BY <2>1, RegisteringPorts, UdpIsRegistered DEF UdpOnce, UdpListed, PortInv, PortTypes
<1>5. CASE RegisterStartupCallback
    BY <1>2, <1>5 DEF RegisterStartupCallback, L, startVars, portVars
<1>6. CASE Run
    BY <1>2, <1>6 DEF Run, L, portVars
<1> QED
    BY <1>1, <1>3, <1>4, <1>5, <1>6 DEF Register

(* Steps that leave the ports and the list alone: workers end, come up, or *)
(* come to later callbacks.                                                *)
LEMMA ProgressPorts ==
    ASSUME StartInv, PortInv, UNCHANGED <<kind, m_StartupCallbackList, port>>,
           PortTypes',
           \A w \in Workers :
              \/ phase'[w] = "ended"
              \/ /\ UNCHANGED <<phase[w], position[w]>>
                 /\ sin_port'[w] = sin_port[w]
              \/ /\ ToBind(w) /\ phase'[w] \in {"starting", "looping"}
                 /\ position'[w] >= position[w] /\ position'[w] \in Nat
                 /\ sin_port'[w] = sin_port[w]
              \/ /\ phase[w] = "unborn" /\ phase'[w] = "born" /\ ToBind(0)
                 /\ position'[w] = position[0]
                 /\ ~Threads => sin_port'[w] = sin_port[0]
    PROVE  PortInv'
<1>1. L' = L /\ ListTyped /\ DOMAIN L \subseteq Nat
    BY ListFacts, ListStays DEF StartInv
<1>2. ASSUME NEW w \in Workers, w \in Live'
      PROVE  w \in Live \/ port'[w] = 0
    <2>1. phase'[w] \in {"born", "starting", "binding", "looping"} /\ port'[w] = port[w]
        BY <1>2 DEF Live
    <2>2. phase[w] \in {"unborn", "born"} => port[w] = 0
        BY DEF PortInv, PortSound
    <2>3. CASE phase[w] = "unborn"
        BY <2>1, <2>2, <2>3
    <2>4. CASE phase[w] # "unborn"
        BY <2>1, <2>4 DEF Live, ToBind
    <2> QED
        BY <2>3, <2>4
<1>3. PortsDiffer'
    <2>1. Live' \subseteq Workers /\ UNCHANGED port
        BY DEF Live
    <2> QED
        BY <1>2, <2>1 DEF PortInv, PortsDiffer, Alike
<1>4. position \in [Workers -> Nat] /\ 0 \in Workers
    BY WorkersFacts DEF StartInv, StartTypes
<1>5. ASSUME NEW w \in Workers PROVE PortSound(w)'
    <2>1. CASE phase'[w] = "ended"
        BY <2>1 DEF PortInv, PortSound, ToBind, Threads
    <2>2. CASE /\ UNCHANGED <<phase[w], position[w]>>
               /\ sin_port'[w] = sin_port[w]
        BY <1>1, <2>2 DEF PortInv, PortSound, ToBind, Threads
    <2>3. CASE /\ ToBind(w) /\ phase'[w] \in {"starting", "looping"}
               /\ position'[w] >= position[w] /\ position'[w] \in Nat
               /\ sin_port'[w] = sin_port[w]
        <3>1. \A i \in DOMAIN L : i >= position'[w] => i >= position[w]
            BY <1>1, <1>4, <2>3
        <3>2. ~Threads => /\ port[w] \in {0, BasePort + w}
                          /\ \A i \in DOMAIN L :
                                i >= position[w] /\ L[i] = "udp" => sin_port[w] = BasePort
            BY <2>3 DEF PortInv, PortSound
        <3>3. phase'[w] \notin {"unborn", "born", "binding"} /\ UNCHANGED port[w]
              /\ (Threads' <=> Threads)
            BY <2>3 DEF Threads
        <3> QED
            BY <1>1, <2>3, <3>1, <3>2, <3>3 DEF PortSound
    <2>4. CASE /\ phase[w] = "unborn" /\ phase'[w] = "born" /\ ToBind(0)
               /\ position'[w] = position[0]
               /\ ~Threads => sin_port'[w] = sin_port[0]
        BY <1>1, <1>4, <2>4 DEF PortInv, PortSound, ToBind, Threads
    <2> QED
        BY <2>1, <2>2, <2>3, <2>4
<1>6. ~Threads' => UdpOnce'
    BY <1>1 DEF PortInv, UdpOnce, Threads
<1> QED
    BY <1>3, <1>5, <1>6 DEF PortInv

LEMMA BringUpPorts == ASSUME StartInv, PortInv, BringUp PROVE PortInv'
<1>1. 0 \in Workers /\ phase \in [Workers -> Phases]
    BY WorkersFacts DEF StartInv, StartTypes
<1>2. CASE Fork
    <2>1. /\ main = "forks" /\ workers < num
          /\ phase' = [phase EXCEPT ![workers] = "born"]
          /\ UNCHANGED <<kind, m_StartupCallbackList, port, position>>
          /\ IF Threads THEN UNCHANGED sin_port
             ELSE sin_port' = [sin_port EXCEPT ![workers] = sin_port[0]]
        BY <1>2 DEF Fork, programVars
    <2>2. workers \in Workers /\ phase[workers] = "unborn" /\ phase[0] = "unborn"
        BY <2>1, WorkersFacts, PoolAssumption DEF StartInv, StartTypes, StageSound, Workers
    <2>3. PortTypes' /\ ToBind(0) /\ position[workers] = 1 /\ position[0] = 1
        BY <1>1, <2>1, <2>2 DEF PortInv, PortTypes, ToBind, StartInv, WorkerSound
    <2>4. \A w \in Workers : IF w = workers THEN /\ phase'[w] = "born"
                                                 /\ ~Threads => sin_port'[w] = sin_port[0]
                             ELSE phase'[w] = phase[w] /\ sin_port'[w] = sin_port[w]
        BY <1>1, <2>1 DEF PortInv, PortTypes
    <2> QED
        BY <2>1, <2>2, <2>3, <2>4, ProgressPorts
<1>3. CASE ForkFails
    <2>1. /\ UNCHANGED <<kind, m_StartupCallbackList, port, sin_port, position>>
          /\ \A w \in Workers : phase'[w] = "ended" \/ phase'[w] = phase[w]
        BY <1>3 DEF ForkFails, Ended, programVars, portVars
    <2> QED
        BY <2>1, ProgressPorts DEF PortInv, PortTypes
<1>4. CASE AllForked
    <2>1. /\ main = "forks" /\ phase' = [phase EXCEPT ![0] = "born"]
          /\ UNCHANGED <<kind, m_StartupCallbackList, port, sin_port, position>>
        BY <1>4 DEF AllForked, programVars, portVars
    <2>2. ToBind(0) /\ phase[0] = "unborn"
        BY <2>1 DEF StartInv, StageSound, ToBind
    <2>3. \A w \in Workers : IF w = 0 THEN phase'[w] = "born" ELSE phase'[w] = phase[w]
        BY <1>1, <2>1
    <2>4. PortTypes'
        BY <2>1 DEF PortInv, PortTypes
    <2> QED
        BY <2>1, <2>2, <2>3, <2>4, ProgressPorts
<1> QED
    BY <1>2, <1>3, <1>4 DEF BringUp

(* A worker makes a callback that is not the UdpServer's, or creates its   *)
(* scheduler.                                                              *)
LEMMA CallbackPorts ==
    ASSUME StartInv, PortInv, NEW w \in Workers, ToBind(w),
           UNCHANGED <<kind, m_StartupCallbackList, port, sin_port>>,
           \E p \in {"starting", "looping"} : phase' = [phase EXCEPT ![w] = p],
           \/ UNCHANGED position
           \/ position' = [position EXCEPT ![w] = @ + 1]
    PROVE  PortInv'
<1>1. phase \in [Workers -> Phases] /\ position \in [Workers -> Nat]
    BY DEF StartInv, StartTypes
<1>2. \A v \in Workers : v # w => phase'[v] = phase[v] /\ position'[v] = position[v]
    BY <1>1
<1>3. phase'[w] \in {"starting", "looping"} /\ position'[w] >= position[w]
      /\ position'[w] \in Nat
    BY <1>1
<1> QED
    BY <1>2, <1>3, ProgressPorts DEF PortInv, PortTypes

LEMMA CallUdpStartupPorts ==
    ASSUME StartInv, PortInv, NEW w \in Workers, CallUdpStartup(w)
    PROVE  PortInv'
<1> DEFINE data == htons((sin_port[Data(w)] + w) % 65536)
<1>1. /\ phase[w] = "starting" /\ L[position[w]] = "udp"
      /\ phase' = [phase EXCEPT ![w] = "binding"]
      /\ sin_port' = [sin_port EXCEPT ![Data(w)] = data]
      /\ UNCHANGED <<kind, m_StartupCallbackList, position, port>>
    BY DEF CallUdpStartup, Calls, GetID, L, programVars
<1>2. phase \in [Workers -> Phases] /\ L' = L /\ position[w] \in DOMAIN L /\ Data(w) \in Workers
      /\ Workers \subseteq Nat /\ position \in [Workers -> Nat]
    BY <1>1, WorkersFacts, ListStays DEF StartInv, StartTypes, WorkerSound, Data
<1>3. phase'[w] = "binding" /\ \A v \in Workers : v # w => phase'[v] = phase[v]
    BY <1>1, <1>2
<1>4. PortTypes'
    <2>1. sin_port[Data(w)] \in PortNumbers /\ w \in Nat
        BY <1>2 DEF PortInv, PortTypes
    <2>2. (sin_port[Data(w)] + w) % 65536 \in PortNumbers
        BY <2>1 DEF PortNumbers
    <2>3. data \in PortNumbers
        BY <2>2, HtonsTwice
    <2> HIDE DEF data
    <2> QED
        BY <1>1, <2>3 DEF PortInv, PortTypes
<1>5. PortsDiffer'
    BY <1>1, <1>3 DEF PortInv, PortsDiffer, Alike, Live
<1>6. ASSUME NEW v \in Workers PROVE PortSound(v)'
    <2>1. CASE Threads
        BY <1>1, <1>3, <2>1 DEF PortInv, PortSound, Threads
    <2>2. CASE ~Threads /\ v # w
        <3>1. sin_port'[v] = sin_port[v]
            BY <1>1, <2>2 DEF PortInv, PortTypes, Data
        <3> QED
            BY <1>1, <1>2, <1>3, <2>2, <3>1 DEF PortInv, PortSound, ToBind, Threads
    <2>3. CASE ~Threads /\ v = w
        <3>1. sin_port[w] = BasePort
            <4>1. position[w] >= position[w]
                BY <1>2
            <4> QED
                BY <1>1, <1>2, <2>3, <4>1 DEF PortInv, PortSound, ToBind
        <3>2. sin_port'[w] = htons((BasePort + w) % 65536)
            BY <1>1, <2>3, <3>1 DEF PortInv, PortTypes, Data
        <3>3. sin_port'[w] = htons(BasePort + w)
            BY <3>2, OwnPort
        <3>4. port[w] \in {0, BasePort + w}
            BY <2>3 DEF PortInv, PortSound
        <3> QED
            BY <1>1, <1>3, <2>3, <3>3, <3>4 DEF PortSound, ToBind
    <2> QED
        BY <2>1, <2>2, <2>3
<1>7. ~Threads' => UdpOnce'
    BY <1>1, <1>2 DEF PortInv, UdpOnce, Threads
<1> QED
    BY <1>4, <1>5, <1>6, <1>7 DEF PortInv

LEMMA BindPorts ==
    ASSUME StartInv, PortInv, NEW w \in Workers, Bind(w)
    PROVE  PortInv'
<1> DEFINE bound == htons(sin_port[Data(w)])
<1>1. /\ phase[w] = "binding" /\ Called(w)
      /\ \A v \in Live : port[v] # bound
      /\ port' = [port EXCEPT ![w] = bound]
      /\ UNCHANGED <<kind, m_StartupCallbackList, sin_port>>
    BY DEF Bind, Called
<1>2. L[position[w]] = "udp" /\ L' = L
    BY <1>1, ListStays DEF StartInv, WorkerSound
<1>3. /\ phase'[w] = "starting" /\ position'[w] = position[w] + 1
      /\ phase' = [phase EXCEPT ![w] = "starting"]
      /\ position' = [position EXCEPT ![w] = @ + 1]
      /\ position[w] \in DOMAIN L
    BY <1>1, <1>2, CalledNext DEF StartInv, WorkerSound
<1>4. \A v \in Workers : v # w => phase'[v] = phase[v] /\ position'[v] = position[v]
    BY <1>3 DEF StartInv, StartTypes
<1>5. bound \in PortNumbers /\ Data(w) \in Workers
    <2>1. Data(w) \in Workers
        BY WorkersFacts DEF Data
    <2>2. sin_port[Data(w)] \in PortNumbers
        BY <2>1 DEF PortInv, PortTypes
    <2> QED
        BY <2>1, <2>2, HtonsTwice
<1> HIDE DEF bound
<1>6. PortTypes'
    BY <1>1, <1>5 DEF PortInv, PortTypes
<1>7. port'[w] = bound /\ \A v \in Workers : v # w => port'[v] = port[v]
    BY <1>1 DEF PortInv, PortTypes
<1>8. PortsDiffer'
    <2>1. \A v \in Workers : v \in Live' <=> v \in Live
        BY <1>1, <1>3, <1>4 DEF Live
    <2>2. Live \subseteq Workers /\ Live' \subseteq Workers
        BY DEF Live
    <2> QED
        BY <1>1, <1>7, <2>1, <2>2 DEF PortInv, PortsDiffer, Alike
<1>9. ASSUME NEW v \in Workers PROVE PortSound(v)'
    <2>1. CASE v # w
        BY <1>1, <1>2, <1>4, <1>7, <2>1 DEF PortInv, PortSound, ToBind, Threads
    <2>2. CASE v = w /\ Threads
        BY <1>1, <1>3, <2>2 DEF PortSound, Threads
    <2>3. CASE v = w /\ ~Threads
        <3>1. bound = htons(htons(BasePort + w))
            BY <1>1, <2>3 DEF PortInv, PortSound, Data, bound
        <3>2. bound = BasePort + w
            BY <3>1, OwnPort, HtonsTwice
        <3>3. \A i \in DOMAIN L : L[i] = "udp" => i = position[w]
            BY <1>2, <1>3, <2>3 DEF PortInv, UdpOnce
        <3>4. \A i \in DOMAIN L : i >= position'[w] => L[i] # "udp"
            BY <1>3, <3>3, ListFacts DEF StartInv
        <3> QED
            BY <1>1, <1>2, <1>3, <1>7, <2>3, <3>2, <3>4 DEF PortSound, ToBind, Threads
    <2> QED
        BY <2>1, <2>2, <2>3
<1>10. ~Threads' => UdpOnce'
    BY <1>1, <1>2 DEF PortInv, UdpOnce, Threads
<1> QED
    BY <1>6, <1>8, <1>9, <1>10 DEF PortInv

LEMMA StartPorts ==
    ASSUME StartInv, PortInv, NEW w \in Workers, Start(w) \/ CallLog(w)
    PROVE  PortInv'
<1>1. CASE CreateScheduler(w)
    BY <1>1, CallbackPorts DEF CreateScheduler, ToBind, programVars, portVars
<1>2. CASE StartFails(w)
    <2>1. /\ UNCHANGED <<kind, m_StartupCallbackList, port, sin_port, position>>
          /\ \A v \in Workers : phase'[v] = "ended" \/ phase'[v] = phase[v]
        BY <1>2 DEF StartFails, Ended, programVars, portVars
    <2> QED
        BY <2>1, ProgressPorts DEF PortInv, PortTypes
<1>3. CASE CallTimerStartup(w)
    BY <1>3, CallbackPorts, CalledIs DEF CallTimerStartup, Calls, Called, ToBind, portVars
<1>4. CASE CallProgram(w) \/ CallLog(w)
    <2>1. /\ phase[w] = "starting" /\ Called(w) /\ UseTimer(w)
          /\ UNCHANGED <<kind, port, sin_port>>
        BY <1>4 DEF CallProgram, CallLog, Calls, Called, SetTimeout, portVars
    <2>2. UNCHANGED m_StartupCallbackList
        BY <2>1 DEF UseTimer, StartInv, WorkerSound
    <2> QED
        BY <2>1, <2>2, CallbackPorts, CalledIs DEF ToBind
<1> QED
    BY <1>1, <1>2, <1>3, <1>4, CallUdpStartupPorts, BindPorts DEF Start

LEMMA LoopPorts ==
    ASSUME StartInv, PortInv, NEW w \in Workers,
           \/ HandlerLogs(w) \/ HandlerSetsTimer(w) \/ HandlerFlushes(w)
           \/ HandlerSetsIdleTimeout(w) \/ TimerRings(w) \/ LogIsFlushed(w) \/ Crash(w)
    PROVE  PortInv'
<1>1. phase[w] = "looping" /\ m_bStartup[w]
    BY DEF HandlerLogs, HandlerSetsTimer, HandlerFlushes, HandlerSetsIdleTimeout, TimerRings,
           LogIsFlushed, Crash, Looping, StartInv, WorkerSound
<1>2. /\ UNCHANGED <<kind, m_StartupCallbackList, port, sin_port, position>>
      /\ \A v \in Workers : phase'[v] = "ended" \/ phase'[v] = phase[v]
    BY <1>1 DEF HandlerLogs, HandlerSetsTimer, HandlerFlushes, HandlerSetsIdleTimeout,
       TimerRings, LogIsFlushed, Crash, SetTimeout, UseTimer, poolVars, programVars, startVars,
       portVars
<1> QED
    BY <1>2, ProgressPorts DEF PortInv, PortTypes

LEMMA PortNextInv == StartInv /\ PortInv /\ [Next]_vars => PortInv'
<1> SUFFICES ASSUME StartInv, PortInv, [Next]_vars PROVE PortInv'
    OBVIOUS
<1>1. ASSUME NEW w \in Workers, Start(w) \/ CallLog(w) PROVE PortInv'
    BY <1>1, StartPorts
<1>2. ASSUME NEW w \in Workers,
             \/ HandlerLogs(w) \/ HandlerSetsTimer(w) \/ HandlerFlushes(w)
             \/ HandlerSetsIdleTimeout(w) \/ TimerRings(w) \/ LogIsFlushed(w) \/ Crash(w)
      PROVE  PortInv'
    BY <1>2, LoopPorts
<1>3. CASE World \/ UNCHANGED vars
    <2>1. UNCHANGED <<kind, m_StartupCallbackList, port, sin_port, phase, position>>
        BY <1>3 DEF World, vars, poolVars
    <2> QED
        BY <2>1, ProgressPorts DEF PortInv, PortTypes
<1> QED
    BY <1>1, <1>2, <1>3, RegisterPorts, BringUpPorts DEF Next

LEMMA PortsHold == Spec => []PortInv
BY StartHolds, PortInitInv, PortNextInv, PTL DEF Spec

(* Workers do not meet: no two have the same port or the same log, and the *)
(* UdpServer of a process is at its configured port plus its ID.           *)
THEOREM WorkersKeepApart == Spec => []WorkersDoNotMeet
<1>1. LogSound /\ PortInv => WorkersDoNotMeet
    BY DEF LogSound, PortInv, PortsDiffer, PortSound, Alike, Live, WorkersDoNotMeet
<1> QED
    BY LogHolds, PortsHold, <1>1, PTL
=============================================================================
