-------------------------------- MODULE Log --------------------------------
(***************************************************************************)
(* SimpleLog of src/Log.cc, one in every worker: the file of the hour it   *)
(* writes to, what stdio holds back, and the directory the files are in.   *)
(* A file is named by the hour and the worker.  The timer that flushes it  *)
(* is in Workers.tla.                                                      *)
(***************************************************************************)
EXTENDS Pool

CONSTANT MaxHour        \* bound on the hours that pass

ASSUME LogAssumption == MaxHour \in Nat

VARIABLES
    hour,               \* time(NULL) / 3600
    files,              \* the files of the directory
    m_File,
    buffered            \* whether lines are held back in it

logVars == <<hour, files, m_File, buffered>>

NoFile == <<>>
Hours == 0..MaxHour
Files == Hours \X Workers
FileName(w) == <<hour, GetID(w)>>

LogTypeOK ==
    /\ hour \in Hours
    /\ files \subseteq Files
    /\ m_File \in [Workers -> Files \cup {NoFile}]
    /\ buffered \in [Workers -> BOOLEAN]

LogInit ==
    /\ hour = 0
    /\ files = {}
    /\ m_File = [w \in Workers |-> NoFile]
    /\ buffered = [w \in Workers |-> FALSE]

(* fopen of the file of the hour, which makes it if it is not there. *)
Opened(w) ==
    /\ files' = files \cup {FileName(w)}
    /\ m_File' = [m_File EXCEPT ![w] = FileName(w)]

(* SimpleLog::Initialize, but for its timer.                               *)
InitializeLog(w) ==
    /\ Opened(w)
    /\ UNCHANGED <<hour, buffered>>

(* A bug: ShiftLog looks for the file that is open. *)
WriteLooksForItsFile(w) ==
    /\ m_File[w] # NoFile
    /\ IF m_File[w] \in files
       THEN /\ buffered' = [buffered EXCEPT ![w] = TRUE]
            /\ UNCHANGED <<files, m_File>>
       ELSE /\ buffered' = [buffered EXCEPT ![w] = FALSE]
            /\ \/ Opened(w)
               \/ m_File' = [m_File EXCEPT ![w] = NoFile] /\ UNCHANGED files
    /\ UNCHANGED hour

(* Write returns at once without a file.  Else the line goes to the file   *)
(* that is open, and then ShiftLog looks whether the file of the hour is   *)
(* there; if not, it closes the old file and opens that one, which may     *)
(* fail and leaves the worker without a log.                               *)
Write(w) ==
    /\ m_File[w] # NoFile
    /\ IF FileName(w) \in files
       THEN /\ buffered' = [buffered EXCEPT ![w] = TRUE]
            /\ UNCHANGED <<files, m_File>>
       ELSE /\ buffered' = [buffered EXCEPT ![w] = FALSE]
            /\ \/ Opened(w)
               \/ m_File' = [m_File EXCEPT ![w] = NoFile] /\ UNCHANGED files
    /\ UNCHANGED hour

(* fflush, but for the timer that Flush sets.                              *)
FlushFile(w) ==
    /\ buffered' = [buffered EXCEPT ![w] = FALSE]
    /\ UNCHANGED <<hour, files, m_File>>

(* Workers end: what they hold back is lost. *)
LogsAreLost(ended) ==
    /\ m_File' = [w \in Workers |-> IF w \in ended THEN NoFile ELSE m_File[w]]
    /\ buffered' = [w \in Workers |-> w \notin ended /\ buffered[w]]
    /\ UNCHANGED <<hour, files>>

HourPasses ==
    /\ hour < MaxHour
    /\ files # {}               \* bound: the hours before a log is open are one
    /\ hour' = hour + 1
    /\ UNCHANGED <<files, m_File, buffered>>

(* Somebody moves the file away that a worker writes to. *)
FileIsRemoved ==
    /\ \E w \in Workers :
        /\ m_File[w] = FileName(w) /\ m_File[w] \in files
        /\ files' = files \ {m_File[w]}
    /\ UNCHANGED <<hour, m_File, buffered>>
=============================================================================
