----------------------------- MODULE LoadBalance -----------------------------
(***************************************************************************)
(* The load balancer of include/LoadBalance.hpp with its RoutePolicy: a    *)
(* quota per service point, spent by Route, given back at a reset, and cut *)
(* by Failure or by lost answers.  The clock is left out: that more than   *)
(* ResetTime has passed is a choice of every Route (AddServicePoint does   *)
(* not even initialise m_LastTimestamp).  Counters are uint32, in          *)
(* UINT_SPAN values.                                                       *)
(***************************************************************************)
EXTENDS Integers, FiniteSets, FiniteSetsExt

CONSTANTS
    Points,         \* service points, numbered in the order of the map
    Quotas,         \* quotas they are added with
    UINT_SPAN,      \* number of values of a uint32
    MaxCount,       \* bound on the calls between two resets
    Duplicates      \* whether the program adds an address that is known, or
                    \* its file lists one twice

ASSUME BalanceAssumption ==
    /\ Points \subseteq Nat /\ IsFiniteSet(Points)
    /\ UINT_SPAN \in Nat \ {0, 1}
    /\ Quotas \subseteq 0..(UINT_SPAN - 1)
    /\ MaxCount \in 0..(UINT_SPAN - 1)
    /\ Duplicates \in BOOLEAN

VARIABLES
    m_stServicesMap,        \* the service points, with quotas and counts
    m_dwTotalQuotas

vars == <<m_stServicesMap, m_dwTotalQuotas>>

Uint == 0..(UINT_SPAN - 1)
Wrapped(n) == n % UINT_SPAN
Known == DOMAIN m_stServicesMap

TypeOK ==
    /\ Known \subseteq Points
    /\ m_stServicesMap \in
          [Known -> [dwSendCount : Uint, dwRecvCount : Uint, dwMaxQuotas : Uint,
                     dwCurrentQuotas : Uint, dwRealQuotas : Uint]]
    /\ m_dwTotalQuotas \in Uint

Init ==
    /\ m_stServicesMap = [p \in {} |-> 0]
    /\ m_dwTotalQuotas = 0

-----------------------------------------------------------------------------
(* RoutePolicy::Reset.  The counts are subtracted as uint32, the rates are *)
(* compared as fractions.                                                  *)
Lost(point) == Wrapped(point.dwSendCount - point.dwRecvCount)
(* A bug: the quota is not raised. *)
RaisedNot(point, share) == point.dwCurrentQuotas

(* The sum is a double, and converted before it is capped: of one that is  *)
(* too large for a uint32, gcc's code for x86-64 keeps the low 32 bits     *)
(* (the language leaves it open).                                          *)
RaisedSum(point, share) == point.dwCurrentQuotas + point.dwMaxQuotas \div share
Raised(point, share) == Min({point.dwMaxQuotas, Wrapped(RaisedSum(point, share))})

ResetQuotas(point) ==
    IF point.dwSendCount = 0 THEN point.dwCurrentQuotas
    ELSE IF Lost(point) * 100 > point.dwSendCount * 3 THEN 1
    ELSE IF Lost(point) * 2000 < point.dwSendCount THEN Raised(point, 5)
    ELSE Raised(point, 20)

Reset(point) ==
    [point EXCEPT !.dwCurrentQuotas = ResetQuotas(point),
                  !.dwSendCount = 0, !.dwRecvCount = 0]

(* A bug: a point gets its configured quota, whatever it has lost. *)
RefilledFully(point) == [point EXCEPT !.dwRealQuotas = point.dwMaxQuotas]
Refilled(point) == [point EXCEPT !.dwRealQuotas = point.dwCurrentQuotas]

RealSum(points, among) == MapThenSumSet(LAMBDA p : points[p].dwRealQuotas, among)

(* The services map when Route has reset and refilled it, if it has to.    *)
Prepared(reset) ==
    IF reset
    THEN [p \in Known |-> Refilled(Reset(m_stServicesMap[p]))]
    ELSE IF m_dwTotalQuotas = 0
         THEN [p \in Known |-> Refilled(m_stServicesMap[p])]
         ELSE m_stServicesMap

PreparedTotal(reset) ==
    IF reset \/ m_dwTotalQuotas = 0
    THEN Wrapped(RealSum(Prepared(reset), Known))
    ELSE m_dwTotalQuotas

(* The walk along the map: the first point whose quotas reach the seed     *)
(* that is left when those before it are taken off.                        *)
Reaches(points, seed) ==
    {p \in DOMAIN points : seed <= RealSum(points, {q \in DOMAIN points : q <= p})}

(* floor((total + 1) * rand() / RAND_MAX) takes every value up to total + 1. *)
Seeds(total) == 0..Wrapped(total + 1)

Route(reset) ==
    LET points == Prepared(reset)
        total == PreparedTotal(reset)
    IN  \E seed \in Seeds(total) :
        IF Reaches(points, seed) = {}
        THEN /\ m_stServicesMap' = points
             /\ m_dwTotalQuotas' = total
        ELSE LET p == Min(Reaches(points, seed))
             IN  /\ points[p].dwSendCount < MaxCount
                 /\ m_stServicesMap' =
                       [points EXCEPT ![p].dwSendCount = @ + 1,
                                      ![p].dwRealQuotas = Wrapped(@ - 1)]
                 /\ m_dwTotalQuotas' = Wrapped(total - 1)

-----------------------------------------------------------------------------
(* insert() leaves a point of the same address as it is, but its quotas    *)
(* are added to the total.                                                 *)
AddServicePoint(p, quotas) ==
    /\ Duplicates \/ p \notin Known
    /\ m_dwTotalQuotas' = Wrapped(m_dwTotalQuotas + quotas)
    /\ m_stServicesMap' =
          [q \in Known \cup {p} |->
              IF q \in Known THEN m_stServicesMap[q]
              ELSE [dwSendCount |-> 0, dwRecvCount |-> 0, dwMaxQuotas |-> quotas,
                    dwCurrentQuotas |-> quotas, dwRealQuotas |-> quotas]]

(* LoadConfigure: the map is emptied and filled again from the file.  One  *)
(* line (a bound) may repeat an address: its quotas are added to the total.*)
Repeated(listed) == IF Duplicates /\ listed # {} THEN Quotas \cup {0} ELSE {0}
LoadConfigure ==
    \E listed \in SUBSET Points :
    \E quota \in [listed -> Quotas], again \in Repeated(listed) :
        /\ m_stServicesMap' =
              [p \in listed |->
                  [dwSendCount |-> 0, dwRecvCount |-> 0, dwMaxQuotas |-> quota[p],
                   dwCurrentQuotas |-> quota[p], dwRealQuotas |-> quota[p]]]
        /\ m_dwTotalQuotas' = Wrapped(RealSum(m_stServicesMap', listed) + again)

Clear ==
    /\ m_stServicesMap' = [p \in {} |-> 0]
    /\ m_dwTotalQuotas' = 0

EraseServicePoint(p) ==
    /\ m_dwTotalQuotas' = Wrapped(m_dwTotalQuotas - m_stServicesMap[p].dwRealQuotas)
    /\ m_stServicesMap' = [q \in Known \ {p} |-> m_stServicesMap[q]]

(* A bug: what a failed point had left stays in the total. *)
FailureKeepsTotal(p) ==
    /\ m_stServicesMap' = [m_stServicesMap EXCEPT ![p].dwRealQuotas = 0,
                                                  ![p].dwCurrentQuotas = 1]
    /\ UNCHANGED m_dwTotalQuotas

Failure(p) ==
    /\ m_dwTotalQuotas' = Wrapped(m_dwTotalQuotas - m_stServicesMap[p].dwRealQuotas)
    /\ m_stServicesMap' = [m_stServicesMap EXCEPT ![p].dwRealQuotas = 0,
                                                  ![p].dwCurrentQuotas = 1]

(* An answer may come after the counts were reset.                         *)
Success(p) ==
    /\ m_stServicesMap[p].dwRecvCount < MaxCount
    /\ m_stServicesMap' = [m_stServicesMap EXCEPT ![p].dwRecvCount = @ + 1]
    /\ UNCHANGED m_dwTotalQuotas

Next ==
    \/ \E reset \in BOOLEAN : Route(reset)
    \/ \E p \in Points, quotas \in Quotas : AddServicePoint(p, quotas)
    \/ \E p \in Known : EraseServicePoint(p) \/ Failure(p) \/ Success(p)
    \/ LoadConfigure
    \/ Clear

Spec == Init /\ [][Next]_vars

-----------------------------------------------------------------------------
(* Properties. *)

(* The total Route draws its seed from is the sum of what the points have  *)
(* left, in uint32 arithmetic, so every seed but the last finds a point.   *)
TotalIsSum == m_dwTotalQuotas = Wrapped(RealSum(m_stServicesMap, Known))

(* At a reset, a point that was sent to and answered everything gains      *)
(* quota until it has its configured quota again.  (Resets raise by a      *)
(* fifth, rounded down: a quota below 5 is never raised; and one so large  *)
(* that a fifth more is no uint32 wraps, and may lose it all.)             *)
AnsweredAll(point) == point.dwSendCount > 0 /\ point.dwRecvCount = point.dwSendCount
AnsweringPointsRecover ==
    [][Route(TRUE) =>
          \A p \in {q \in Known : /\ AnsweredAll(m_stServicesMap[q])
                                /\ m_stServicesMap[q].dwMaxQuotas >= 5
                                /\ RaisedSum(m_stServicesMap[q], 5) \in Uint} :
              LET before == m_stServicesMap[p].dwCurrentQuotas
                  after == m_stServicesMap'[p].dwCurrentQuotas
              IN  after > before \/ after = m_stServicesMap[p].dwMaxQuotas]_vars

(* The weights hold but for one point: between two refills a point is not  *)
(* picked more often than its quota, unless it is the first of the map,    *)
(* which seed 0 picks with nothing left (what it has left then wraps).     *)
Overspent(p) == m_stServicesMap[p].dwRealQuotas > m_stServicesMap[p].dwCurrentQuotas
OnlyTheFirstOverspends ==
    [][\A p \in Known : (p \in Known' /\ Overspent(p)' /\ ~Overspent(p)) => p = Min(Known)]_vars
=============================================================================
