--------------------------- MODULE TcpServerProofs ---------------------------
(***************************************************************************)
(* Proofs about the TCP server for any processes, clients, cache size and  *)
(* stream: types, the cache and the events.                                *)
(***************************************************************************)
EXTENDS TcpServer, TLAPS

(* recvmsg returns no more than was sent. *)
ReceivedWasSent == \A c \in Clients : received[c] <= sent[c]

(* The inductive invariant. *)
ServerInv == TypeOK /\ ReceivedWasSent /\ CacheIsTheStream /\ EventsAreLive

dataVars == <<sent, received, consumed, dwCacheAvailableSize, cPackageCache>>

-----------------------------------------------------------------------------
(* Steps that leave the streams and the caches alone. *)
LEMMA DataKept ==
    ASSUME ServerInv, UNCHANGED dataVars
    PROVE  ReceivedWasSent' /\ CacheIsTheStream'
BY DEF ServerInv, dataVars, ReceivedWasSent, CacheIsTheStream

(* A handler that ends is at the loop callbacks or at epoll_wait. *)
LEMMA HandlerIsDone ==
    ASSUME TypeOK, NEW w \in Workers, HandlerReturns(w) \/ HandlerThrows(w)
    PROVE  /\ pc' \in [Workers -> {"wait", "accept", "readable", "error", "callbacks"}]
           /\ event' \in [Workers -> Clients \cup {Listener, Nobody}]
           /\ pc'[w] \in {"wait", "callbacks"}
           /\ \A v \in Workers \ {w} : pc'[v] = pc[v] /\ event'[v] = event[v]
BY DEF TypeOK, HandlerReturns, HandlerThrows

(* Closing a connection keeps the types and the events of other workers.   *)
LEMMA ClosingOwn ==
    ASSUME ServerInv, NEW w \in Workers, NEW c \in Mine(w), DisconnectClient(c),
           owner' = owner,
           pc'[w] \in {"wait", "callbacks"},
           \A v \in Workers \ {w} : pc'[v] = pc[v] /\ event'[v] = event[v]
    PROVE  /\ stage' \in [Clients -> {"away", "queued", "open", "closed"}]
           /\ EventsAreLive'
<1>1. stage' \in [Clients -> {"away", "queued", "open", "closed"}]
      /\ \A d \in Clients \ {c} : stage'[d] = stage[d]
    BY DEF ServerInv, TypeOK, DisconnectClient, Mine
<1>2. ASSUME NEW v \in Workers, pc'[v] \in {"readable", "error"}
      PROVE  event'[v] \in Mine(v)'
    <2>1. v # w
        BY <1>2
    <2>2. event[v] \in Mine(v)
        BY <1>2, <2>1 DEF ServerInv, EventsAreLive
    <2>3. event[v] # c
        BY <2>1, <2>2 DEF Mine
    <2> QED
        BY <1>1, <2>1, <2>2, <2>3 DEF Mine
<1> QED
    BY <1>1, <1>2 DEF EventsAreLive

(* A handler that ends without closing anything. *)
LEMMA HandlerKeeps ==
    ASSUME ServerInv, NEW w \in Workers,
           stage' = stage, owner' = owner,
           pc'[w] \in {"wait", "callbacks"},
           \A v \in Workers \ {w} : pc'[v] = pc[v] /\ event'[v] = event[v]
    PROVE  EventsAreLive'
BY DEF ServerInv, EventsAreLive, Mine

(* DisconnectClient of the connection whose event is handled: done, or     *)
(* OnDisconnected throws.                                                  *)
LEMMA HandlerCloses ==
    ASSUME ServerInv, NEW w \in Workers, pc[w] \in {"readable", "error"},
           \/ DisconnectClient(event[w]) /\ (HandlerReturns(w) \/ HandlerThrows(w))
           \/ DisconnectThrows(w),
           UNCHANGED <<owner, received, consumed, dwCacheAvailableSize, cPackageCache,
                       peerVars>>
    PROVE  ServerInv'
<1>1. event[w] \in Mine(w)
    BY DEF ServerInv, EventsAreLive
<1>2. HandlerReturns(w) \/ HandlerThrows(w)
    BY DEF DisconnectThrows
<1>3. ReceivedWasSent' /\ CacheIsTheStream'
    BY DataKept DEF dataVars, peerVars
<1>4. EventsAreLive' /\ stage' \in [Clients -> {"away", "queued", "open", "closed"}]
    <2>1. CASE DisconnectClient(event[w])
        BY <2>1, <1>1, <1>2, HandlerIsDone, ClosingOwn DEF ServerInv
    <2>2. CASE DisconnectThrows(w)
        BY <2>2, <1>2, HandlerIsDone, HandlerKeeps DEF ServerInv, DisconnectThrows, TypeOK
    <2> QED
        BY <2>1, <2>2
<1>5. TypeOK'
    BY <1>2, <1>4, HandlerIsDone DEF ServerInv, TypeOK, peerVars
<1> QED
    BY <1>3, <1>4, <1>5 DEF ServerInv

-----------------------------------------------------------------------------
LEMMA InitInv == Init => ServerInv
<1> SUFFICES ASSUME Init PROVE ServerInv
    OBVIOUS
<1>1. TypeOK
    BY ServerAssumption DEF Init, TypeOK
<1>2. ReceivedWasSent /\ CacheIsTheStream /\ EventsAreLive
    BY DEF Init, ReceivedWasSent, CacheIsTheStream, EventsAreLive
<1> QED
    BY <1>1, <1>2 DEF ServerInv

LEMMA PeersInv ==
    ASSUME ServerInv, NEW c \in Clients,
           Connect(c) \/ Send(c) \/ \E how \in Ends : End(c, how)
    PROVE  ServerInv'
<1> USE DEF ServerInv
<1>1. CASE Connect(c)
    <2>1. TypeOK'
        BY <1>1 DEF Connect, TypeOK, peerVars
    <2>2. ReceivedWasSent' /\ CacheIsTheStream'
        BY <1>1, DataKept DEF Connect, dataVars, peerVars
    <2>3. EventsAreLive'
        BY <1>1 DEF Connect, EventsAreLive, Mine, TypeOK
    <2> QED
        BY <2>1, <2>2, <2>3
<1>2. CASE Send(c)
    <2>1. sent[c] \in 0..MaxBytes /\ MaxBytes \in Nat
        BY ServerAssumption DEF TypeOK
    <2>2. TypeOK'
        BY <1>2, <2>1 DEF Send, TypeOK, connVars
    <2>3. ReceivedWasSent'
        BY <1>2, <2>1 DEF Send, ReceivedWasSent, TypeOK, connVars
    <2>4. CacheIsTheStream' /\ EventsAreLive'
        BY <1>2 DEF Send, CacheIsTheStream, EventsAreLive, Mine, connVars
    <2> QED
        BY <2>2, <2>3, <2>4
<1>3. CASE \E how \in Ends : End(c, how)
    <2>1. Ends \subseteq {"fin", "reset"}
        BY DEF Ends
    <2>2. TypeOK'
        BY <1>3, <2>1 DEF End, TypeOK, connVars
    <2>3. ReceivedWasSent' /\ CacheIsTheStream'
        BY <1>3, DataKept DEF End, dataVars, connVars
    <2>4. EventsAreLive'
        BY <1>3 DEF End, EventsAreLive, Mine, connVars
    <2> QED
        BY <2>2, <2>3, <2>4
<1> QED
    BY <1>1, <1>2, <1>3

LEMMA WaitInv ==
    ASSUME ServerInv, NEW w \in Workers,
           \/ \E e \in Clients \cup {Listener} : WaitEvent(w, e)
           \/ WaitTimesOut(w)
           \/ LoopCallbacks(w)
    PROVE  ServerInv'
<1> USE DEF ServerInv
<1>1. CASE \E e \in Clients \cup {Listener} : WaitEvent(w, e)
    <2>1. PICK e \in Clients \cup {Listener} : WaitEvent(w, e)
        BY <1>1
    <2>2. TypeOK'
        BY <2>1 DEF WaitEvent, TypeOK, connVars, peerVars
    <2>3. ReceivedWasSent' /\ CacheIsTheStream'
        BY <2>1, DataKept DEF WaitEvent, dataVars, connVars, peerVars
    <2>4. pc'[w] \in {"readable", "error"} => e \in Mine(w) /\ event'[w] = e
        BY <2>1 DEF WaitEvent, TypeOK, Erring, Readable
    <2>5. EventsAreLive'
        BY <2>1, <2>4 DEF WaitEvent, EventsAreLive, Mine, TypeOK, connVars
    <2> QED
        BY <2>2, <2>3, <2>5
<1>2. CASE WaitTimesOut(w) \/ LoopCallbacks(w)
    <2>1. TypeOK'
        BY <1>2 DEF WaitTimesOut, LoopCallbacks, TypeOK, connVars, peerVars
    <2>2. ReceivedWasSent' /\ CacheIsTheStream'
        BY <1>2, DataKept DEF WaitTimesOut, LoopCallbacks, dataVars, connVars, peerVars
    <2>3. EventsAreLive'
        BY <1>2 DEF WaitTimesOut, LoopCallbacks, EventsAreLive, Mine, TypeOK, connVars
    <2> QED
        BY <2>1, <2>2, <2>3
<1> QED
    BY <1>1, <1>2

LEMMA AcceptInv ==
    ASSUME ServerInv, NEW w \in Workers, Accept(w)
    PROVE  ServerInv'
<1> USE DEF ServerInv
<1>1. PICK c \in Backlog :
          /\ owner' = [owner EXCEPT ![c] = w]
          /\ \/ stage' = [stage EXCEPT ![c] = "open"] /\ HandlerEnds(w)
             \/ stage' = [stage EXCEPT ![c] = "closed"] /\ HandlerThrows(w)
    BY DEF Accept
<1>2. c \in Clients /\ stage[c] = "queued"
    BY <1>1 DEF Backlog
<1>3. HandlerReturns(w) \/ HandlerThrows(w)
    BY <1>1 DEF HandlerEnds
<1>4. TypeOK'
    <2>1. /\ stage' \in [Clients -> {"away", "queued", "open", "closed"}]
          /\ owner' \in [Clients -> Workers \cup {Nobody}]
        BY <1>1, <1>2 DEF TypeOK
    <2> QED
        BY <2>1, <1>3, HandlerIsDone DEF Accept, TypeOK, peerVars
<1>5. ReceivedWasSent' /\ CacheIsTheStream'
    BY DataKept DEF Accept, dataVars, peerVars
<1>6. EventsAreLive'
    <2> SUFFICES ASSUME NEW v \in Workers, pc'[v] \in {"readable", "error"}
                 PROVE  event'[v] \in Mine(v)'
        BY DEF EventsAreLive
    <2>1. v # w /\ pc[v] = pc'[v] /\ event'[v] = event[v]
        BY <1>3, HandlerIsDone
    <2>2. event[v] \in Mine(v) /\ event[v] # c
        BY <2>1, <1>2 DEF EventsAreLive, Mine
    <2>3. stage'[event[v]] = stage[event[v]] /\ owner'[event[v]] = owner[event[v]]
        BY <2>2, <1>1 DEF TypeOK, Mine
    <2> QED
        BY <2>1, <2>2, <2>3 DEF Mine
<1> QED
    BY <1>4, <1>5, <1>6

LEMMA FailuresInv ==
    ASSUME ServerInv, NEW w \in Workers, AcceptFails(w) \/ RecvFails(w)
    PROVE  ServerInv'
<1> USE DEF ServerInv
<1>1. HandlerThrows(w) /\ UNCHANGED <<connVars, sent>>
    BY DEF AcceptFails, RecvFails, peerVars
<1>2. ended' \in [Clients -> {"no", "fin", "reset", "read"}]
    BY DEF AcceptFails, RecvFails, peerVars, TypeOK
<1>3. TypeOK'
    BY <1>1, <1>2, HandlerIsDone DEF TypeOK, connVars
<1>4. ReceivedWasSent' /\ CacheIsTheStream'
    BY <1>1, DataKept DEF dataVars, connVars
<1>5. EventsAreLive'
    BY <1>1, HandlerIsDone, HandlerKeeps DEF connVars
<1> QED
    BY <1>3, <1>4, <1>5

LEMMA ProgramDisconnectsInv ==
    ASSUME ServerInv, NEW w \in Workers, ProgramDisconnects(w)
    PROVE  ServerInv'
<1> USE DEF ServerInv
<1>1. PICK c \in Mine(w) : DisconnectClient(c)
    BY DEF ProgramDisconnects
<1>2. EventsAreLive' /\ stage' \in [Clients -> {"away", "queued", "open", "closed"}]
    BY <1>1, ClosingOwn DEF ProgramDisconnects
<1>3. TypeOK'
    BY <1>2 DEF ProgramDisconnects, TypeOK, peerVars
<1>4. ReceivedWasSent' /\ CacheIsTheStream'
    BY DataKept DEF ProgramDisconnects, dataVars, peerVars
<1> QED
    BY <1>2, <1>3, <1>4

-----------------------------------------------------------------------------
(* What recvmsg appends continues the stream. *)
LEMMA FilledIsTheStream ==
    ASSUME ServerInv, NEW c \in Clients,
           NEW n \in 1..Smaller(RemainSize(c), sent[c] - received[c]),
           NEW filled,
           filled = [i \in Positions |->
                        IF i \in (dwCacheAvailableSize[c] + 1)..(dwCacheAvailableSize[c] + n)
                        THEN received[c] + i - dwCacheAvailableSize[c]
                        ELSE cPackageCache[c][i]]
    PROVE  /\ n \in Nat \ {0}
           /\ dwCacheAvailableSize[c] + n \in 1..CacheSize
           /\ received[c] + n \in 0..MaxBytes /\ received[c] + n <= sent[c]
           /\ filled \in [Positions -> 0..MaxBytes]
           /\ \A i \in 1..(dwCacheAvailableSize[c] + n) : filled[i] = consumed[c] + i
<1> DEFINE size == dwCacheAvailableSize[c]
<1>1. /\ size \in 0..CacheSize /\ CacheSize \in Nat /\ MaxBytes \in Nat
      /\ received[c] \in 0..MaxBytes /\ sent[c] \in 0..MaxBytes /\ consumed[c] \in 0..MaxBytes
      /\ received[c] <= sent[c]
      /\ consumed[c] + size = received[c]
    BY ServerAssumption DEF ServerInv, TypeOK, ReceivedWasSent, CacheIsTheStream
<1>2. /\ n \in Nat \ {0}
      /\ n <= CacheSize - size /\ n <= sent[c] - received[c]
    BY <1>1 DEF Smaller, RemainSize
<1>3. size + n \in 1..CacheSize
      /\ received[c] + n \in 0..MaxBytes /\ received[c] + n <= sent[c]
    BY <1>1, <1>2
<1>4. ASSUME NEW i \in Positions
      PROVE  /\ filled[i] \in 0..MaxBytes
             /\ i <= size + n => filled[i] = consumed[c] + i
    <2>1. cPackageCache[c][i] \in 0..MaxBytes
        BY <1>4 DEF ServerInv, TypeOK
    <2>2. i \in Nat \ {0} /\ i <= CacheSize
        BY <1>1, <1>4 DEF Positions
    <2>3. CASE i \in (size + 1)..(size + n)
        <3>1. filled[i] = received[c] + i - size
            BY <2>3, <1>4
        <3> QED
            BY <3>1, <2>3, <2>2, <1>1, <1>2
    <2>4. CASE i \notin (size + 1)..(size + n)
        <3>1. filled[i] = cPackageCache[c][i]
            BY <2>4, <1>4
        <3>2. i <= size + n => i \in 1..size
            BY <2>2, <2>4, <1>1, <1>2
        <3> QED
            BY <3>1, <3>2, <2>1 DEF ServerInv, CacheIsTheStream
    <2> QED
        BY <2>3, <2>4
<1>5. filled \in [Positions -> 0..MaxBytes]
    BY <1>4
<1>6. 1..(size + n) \subseteq Positions
    BY <1>1, <1>2 DEF Positions
<1> QED
    BY <1>2, <1>3, <1>4, <1>5, <1>6

(* Moving what is left to the front keeps it what follows.                 *)
LEMMA MovedIsTheStream ==
    ASSUME NEW cache \in [Positions -> 0..MaxBytes],
           NEW total \in 1..CacheSize, NEW read \in 0..total, NEW first \in Nat,
           \A i \in 1..total : cache[i] = first + i
    PROVE  /\ Moved(cache, read, total) \in [Positions -> 0..MaxBytes]
           /\ \A i \in 1..(total - read) : Moved(cache, read, total)[i] = first + read + i
<1>1. total \in Nat /\ read \in Nat /\ read <= total /\ CacheSize \in Nat /\ total <= CacheSize
    BY ServerAssumption
<1>2. \A i \in Positions : i <= total - read => i + read \in Positions /\ i + read \in 1..total
    BY <1>1 DEF Positions
<1>3. 1..(total - read) \subseteq Positions
    BY <1>1 DEF Positions
<1>4. \A i \in 1..(total - read) : cache[i + read] = first + (i + read) /\ i \in Nat
    BY <1>1, <1>2, <1>3
<1> QED
    BY <1>1, <1>2, <1>3, <1>4 DEF Moved

LEMMA RecvInv ==
    ASSUME ServerInv, NEW w \in Workers, Recv(w)
    PROVE  ServerInv'
<1> DEFINE c == event[w]
           size == dwCacheAvailableSize[c]
<1> USE DEF ServerInv
<1>1. c \in Mine(w) /\ c \in Clients
    BY DEF Recv, EventsAreLive, Mine
<1>2. PICK n \in 1..Smaller(RemainSize(c), sent[c] - received[c]) :
          \E filled :
              /\ filled = [i \in Positions |->
                              IF i \in (size + 1)..(size + n) THEN received[c] + i - size
                              ELSE cPackageCache[c][i]]
              /\ received' = [received EXCEPT ![c] = @ + n]
              /\ \/ \E read \in 0..(size + n) :
                      /\ consumed' = [consumed EXCEPT ![c] = @ + read]
                      /\ dwCacheAvailableSize' =
                            [dwCacheAvailableSize EXCEPT ![c] = size + n - read]
                      /\ cPackageCache' =
                            [cPackageCache EXCEPT ![c] = Moved(filled, read, size + n)]
                      /\ HandlerReturns(w)
                 \/ /\ dwCacheAvailableSize' = [dwCacheAvailableSize EXCEPT ![c] = size + n]
                    /\ cPackageCache' = [cPackageCache EXCEPT ![c] = filled]
                    /\ HandlerThrows(w)
                    /\ UNCHANGED consumed
    BY DEF Recv
<1>2a. PICK filled :
          /\ filled = [i \in Positions |->
                          IF i \in (size + 1)..(size + n) THEN received[c] + i - size
                          ELSE cPackageCache[c][i]]
          /\ received' = [received EXCEPT ![c] = @ + n]
          /\ \/ \E read \in 0..(size + n) :
                  /\ consumed' = [consumed EXCEPT ![c] = @ + read]
                  /\ dwCacheAvailableSize' =
                        [dwCacheAvailableSize EXCEPT ![c] = size + n - read]
                  /\ cPackageCache' =
                        [cPackageCache EXCEPT ![c] = Moved(filled, read, size + n)]
                  /\ HandlerReturns(w)
             \/ /\ dwCacheAvailableSize' = [dwCacheAvailableSize EXCEPT ![c] = size + n]
                /\ cPackageCache' = [cPackageCache EXCEPT ![c] = filled]
                /\ HandlerThrows(w)
                /\ UNCHANGED consumed
    BY <1>2
<1>3. /\ n \in Nat \ {0}
      /\ size + n \in 1..CacheSize
      /\ received[c] + n \in 0..MaxBytes /\ received[c] + n <= sent[c]
      /\ filled \in [Positions -> 0..MaxBytes]
      /\ \A i \in 1..(size + n) : filled[i] = consumed[c] + i
    BY <1>1, <1>2a, FilledIsTheStream
<1>4. /\ consumed[c] \in Nat /\ received[c] \in Nat /\ size \in Nat /\ MaxBytes \in Nat
      /\ consumed[c] + size = received[c] /\ CacheSize \in Nat
    BY <1>1, ServerAssumption DEF TypeOK, CacheIsTheStream
<1>5. HandlerReturns(w) \/ HandlerThrows(w)
    BY <1>2a
<1>6. PICK read \in 0..(size + n), cache \in [Positions -> 0..MaxBytes] :
          /\ consumed' = [consumed EXCEPT ![c] = @ + read]
          /\ dwCacheAvailableSize' = [dwCacheAvailableSize EXCEPT ![c] = size + n - read]
          /\ cPackageCache' = [cPackageCache EXCEPT ![c] = cache]
          /\ \A i \in 1..(size + n - read) : cache[i] = consumed[c] + read + i
    <2>1. CASE \E read \in 0..(size + n) :
                  /\ consumed' = [consumed EXCEPT ![c] = @ + read]
                  /\ dwCacheAvailableSize' =
                        [dwCacheAvailableSize EXCEPT ![c] = size + n - read]
                  /\ cPackageCache' =
                        [cPackageCache EXCEPT ![c] = Moved(filled, read, size + n)]
        <3>1. PICK read \in 0..(size + n) :
                  /\ consumed' = [consumed EXCEPT ![c] = @ + read]
                  /\ dwCacheAvailableSize' =
                        [dwCacheAvailableSize EXCEPT ![c] = size + n - read]
                  /\ cPackageCache' =
                        [cPackageCache EXCEPT ![c] = Moved(filled, read, size + n)]
            BY <2>1
        <3>2. /\ Moved(filled, read, size + n) \in [Positions -> 0..MaxBytes]
              /\ \A i \in 1..(size + n - read) :
                    Moved(filled, read, size + n)[i] = consumed[c] + read + i
            BY <1>3, <1>4, MovedIsTheStream
        <3> QED
            BY <3>1, <3>2
    <2>2. CASE /\ dwCacheAvailableSize' = [dwCacheAvailableSize EXCEPT ![c] = size + n]
               /\ cPackageCache' = [cPackageCache EXCEPT ![c] = filled]
               /\ UNCHANGED consumed
        <3>1. consumed' = [consumed EXCEPT ![c] = @ + 0]
            BY <2>2, <1>1, <1>4 DEF TypeOK
        <3>2. 0 \in 0..(size + n) /\ size + n - 0 = size + n
            BY <1>3, <1>4
        <3>3. \A i \in 1..(size + n - 0) : filled[i] = consumed[c] + 0 + i
            BY <1>3, <1>4
        <3> QED
            BY <2>2, <3>1, <3>2, <3>3, <1>3
    <2> QED
        BY <1>2a, <2>1, <2>2
<1>7. read \in Nat /\ read <= size + n
    BY <1>3, <1>4
<1>8. /\ received'[c] = received[c] + n
      /\ consumed'[c] = consumed[c] + read
      /\ dwCacheAvailableSize'[c] = size + n - read
      /\ cPackageCache'[c] = cache
      /\ \A d \in Clients \ {c} :
            /\ received'[d] = received[d] /\ consumed'[d] = consumed[d]
            /\ dwCacheAvailableSize'[d] = dwCacheAvailableSize[d]
            /\ cPackageCache'[d] = cPackageCache[d]
    BY <1>1, <1>2a, <1>6 DEF TypeOK
<1>9. TypeOK'
    <2>1. received' \in [Clients -> 0..MaxBytes]
        BY <1>1, <1>2a, <1>3 DEF TypeOK
    <2>2. consumed[c] + read \in 0..MaxBytes
        BY <1>3, <1>4, <1>7
    <2>3. consumed' \in [Clients -> 0..MaxBytes]
        BY <1>1, <1>6, <2>2 DEF TypeOK
    <2>4. size + n - read \in 0..CacheSize
        BY <1>3, <1>4, <1>7
    <2>5. dwCacheAvailableSize' \in [Clients -> 0..CacheSize]
        BY <1>1, <1>6, <2>4 DEF TypeOK
    <2>6. cPackageCache' \in [Clients -> [Positions -> 0..MaxBytes]]
        BY <1>1, <1>6 DEF TypeOK
    <2> QED
        BY <2>1, <2>3, <2>5, <2>6, <1>5, HandlerIsDone DEF Recv, TypeOK, peerVars
<1>10. ReceivedWasSent'
    BY <1>1, <1>3, <1>8 DEF ReceivedWasSent, Recv, peerVars
<1>11. CacheIsTheStream'
    <2> SUFFICES ASSUME NEW d \in Clients
                 PROVE  /\ consumed'[d] + dwCacheAvailableSize'[d] = received'[d]
                        /\ \A i \in 1..dwCacheAvailableSize'[d] :
                              cPackageCache'[d][i] = consumed'[d] + i
        BY DEF CacheIsTheStream
    <2>1. CASE d = c
        BY <2>1, <1>3, <1>4, <1>6, <1>7, <1>8
    <2>2. CASE d # c
        BY <2>2, <1>8 DEF CacheIsTheStream
    <2> QED
        BY <2>1, <2>2
<1>12. EventsAreLive'
    BY <1>5, HandlerIsDone, HandlerKeeps DEF Recv
<1> QED
    BY <1>9, <1>10, <1>11, <1>12

-----------------------------------------------------------------------------
LEMMA NextInv == ServerInv /\ [Next]_vars => ServerInv'
<1> SUFFICES ASSUME ServerInv, [Next]_vars PROVE ServerInv'
    OBVIOUS
<1>1. ASSUME NEW w \in Workers, Turn(w)
      PROVE  ServerInv'
    <2>1. CASE OnErrorable(w)
        BY <2>1, HandlerCloses DEF OnErrorable
    <2>2. CASE CacheIsFull(w)
        BY <2>2, HandlerCloses DEF CacheIsFull
    <2>3. CASE RecvEnd(w)
        BY <2>3, HandlerCloses DEF RecvEnd
    <2> QED
        BY <1>1, <2>1, <2>2, <2>3, WaitInv, AcceptInv, FailuresInv, RecvInv DEF Turn
<1>2. ASSUME NEW w \in Workers, ProgramDisconnects(w)
      PROVE  ServerInv'
    BY <1>2, ProgramDisconnectsInv
<1>3. CASE \E c \in Clients : Connect(c) \/ Send(c) \/ \E how \in Ends : End(c, how)
    BY <1>3, PeersInv
<1>4. CASE UNCHANGED vars
    BY <1>4 DEF vars, ServerInv, TypeOK, ReceivedWasSent, CacheIsTheStream, EventsAreLive, Mine
<1> QED
    BY <1>1, <1>2, <1>3, <1>4 DEF Next

LEMMA InvHolds == Spec => []ServerInv
BY InitInv, NextInv, PTL DEF Spec

(* The server keeps its types: no cache index or size leaves the cache.    *)
THEOREM ServerTypeCorrect == Spec => []TypeOK
BY InvHolds, PTL DEF ServerInv

(* What OnMessage is given is the stream, wherever recvmsg cuts it and     *)
(* whenever a handler throws.                                              *)
THEOREM ServerCacheIsTheStream == Spec => []CacheIsTheStream
BY InvHolds, PTL DEF ServerInv

(* Handlers run for open connections of their own process.                 *)
THEOREM ServerEventsAreLive == Spec => []EventsAreLive
BY InvHolds, PTL DEF ServerInv
=============================================================================
