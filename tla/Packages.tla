------------------------------ MODULE Packages ------------------------------
(***************************************************************************)
(* Packages from one program to another through a TCP connection: packed   *)
(* into an IOBuffer, sent by Channel << (include/Channel.hpp), cut by TCP  *)
(* anywhere, put together in the cache of TcpServer::OnReadable and        *)
(* unpacked by OnMessage.                                                  *)
(*                                                                         *)
(* A package is an integer and a string.  OnMessage unpacks what it can:   *)
(* the OverflowIOException that ends this is caught, and what was read of  *)
(* the incomplete package is given back with ReadSeek; or it is the first  *)
(* package and the exception leaves OnReadable, which keeps all it has.    *)
(***************************************************************************)
EXTENDS IOBuffer

CONSTANTS
    Payloads,       \* the packages the sender sends
    NUMBER_BYTES,   \* the width of their integers
    OutSize,        \* bytes of the buffer they are packed in
    CacheSize,      \* bytes of cPackageCache
    ShortSends,     \* whether sendmsg may take a part, as on a socket that does not wait
    HandlerLoops,   \* whether OnMessage unpacks more than one package
    MaxPosts        \* bound on the packages

ByteStrings == Seq(0..(BYTE - 1))
Package == [number : 0..(Power[NUMBER_BYTES] - 1), text : ByteStrings]

(* A package fits the buffer it is packed in, and the cache.               *)
WireSize(p) == NUMBER_BYTES + LENGTH_BYTES + Len(p.text)
ASSUME PayloadAssumption ==
    /\ NUMBER_BYTES \in Nat \ {0}
    /\ Payloads \subseteq Package
    /\ \A p \in Payloads :
        /\ WireSize(p) <= OutSize
        /\ Len(p.text) < LENGTH_SPAN => WireSize(p) <= CacheSize
ASSUME BufferAssumption ==
    /\ OutSize \in Nat \ {0} /\ CacheSize \in Nat \ {0}
    /\ OutSize + CacheSize < SIZE_SPAN
    /\ ShortSends \in BOOLEAN /\ HandlerLoops \in BOOLEAN
    /\ MaxPosts \in Nat

VARIABLES
    out,            \* the sender's IOBuffer
    posted,         \* the packages the sender has packed
    stream,         \* bytes on their way
    cPackageCache,  \* what of the cache is in use
    in,             \* the IOBuffer that OnMessage is given
    pc,             \* "wait", or "message" in OnMessage
    open,           \* the server has not disconnected the client
    taken,          \* the packages OnMessage has unpacked
    spoiled         \* a send was short, or a string longer than its length can say

senderVars == <<out, posted, spoiled>>
serverVars == <<cPackageCache, in, pc, open, taken>>
packageVars == <<out, posted, stream, cPackageCache, in, pc, open, taken, spoiled>>

NoBuffer == Over(<<>>, 0)

PackagesTypeOK ==
    /\ IsIOBuffer(out) /\ Len(out.m_Buffer) = OutSize
    /\ posted \in Seq(Payloads)
    /\ stream \in ByteStrings
    /\ cPackageCache \in ByteStrings /\ Len(cPackageCache) <= CacheSize
    /\ IsIOBuffer(in)
    /\ pc \in {"wait", "message"}
    /\ open \in BOOLEAN
    /\ taken \in Seq(Package)
    /\ spoiled \in BOOLEAN

PackagesInit ==
    /\ out = Over([i \in 1..OutSize |-> 0], 0)
    /\ posted = <<>>
    /\ stream = <<>>
    /\ cPackageCache = <<>>
    /\ in = NoBuffer
    /\ pc = "wait"
    /\ open = TRUE
    /\ taken = <<>>
    /\ spoiled = FALSE

-----------------------------------------------------------------------------
(* The sender. *)

(* out << number << text.  If the second throws, the sender takes back the *)
(* first with WriteSeek, to send what it has and try again.                *)
Post(p) ==
    LET numbered == PutInt(out, p.number, NUMBER_BYTES)
    IN  /\ Len(posted) < MaxPosts
        /\ ~spoiled                 \* a bound: nothing is said of what comes later
        /\ CanPut(out, NUMBER_BYTES)
        /\ \/ /\ CanPutString(numbered, p.text)
              /\ out' = PutString(numbered, p.text)
              /\ posted' = Append(posted, p)
              /\ spoiled' = (spoiled \/ Len(p.text) >= LENGTH_SPAN)
           \/ /\ ~CanPutString(numbered, p.text)
              /\ out' = WriteSeek(numbered, out.m_WritePosition - numbered.m_WritePosition)
              /\ UNCHANGED <<posted, spoiled>>
    /\ UNCHANGED <<stream, serverVars>>

(* channel << out: the buffer is empty afterwards, however much sendmsg    *)
(* took.                                                                   *)
Send ==
    /\ out.m_WritePosition > 0
    /\ open
    /\ \E n \in 1..out.m_WritePosition :
        /\ ShortSends \/ n = out.m_WritePosition
        /\ stream' = stream \o SubSeq(out.m_Buffer, 1, n)
        /\ spoiled' = (spoiled \/ n < out.m_WritePosition)
    /\ out' = [out EXCEPT !.m_WritePosition = 0]
    /\ UNCHANGED <<posted, serverVars>>

-----------------------------------------------------------------------------
(* The server: OnReadable, cut where OnMessage runs. *)

RemainSize == CacheSize - Len(cPackageCache)

CacheIsFull ==
    /\ pc = "wait" /\ open
    /\ stream # <<>>
    /\ RemainSize <= 0
    /\ open' = FALSE
    /\ UNCHANGED <<senderVars, stream, cPackageCache, in, pc, taken>>

Receive ==
    /\ pc = "wait" /\ open
    /\ \E n \in 1..Len(stream) :
        /\ n <= RemainSize
        /\ stream' = SubSeq(stream, n + 1, Len(stream))
        /\ cPackageCache' = cPackageCache \o SubSeq(stream, 1, n)
    /\ in' = Over(cPackageCache', Len(cPackageCache'))
    /\ pc' = "message"
    /\ UNCHANGED <<senderVars, open, taken>>

IsWhole(io) == CanGet(io, NUMBER_BYTES) /\ CanGetString(Skip(io, NUMBER_BYTES))
MoreToTake == IsWhole(in) /\ (HandlerLoops \/ in.m_ReadPosition = 0)

(* in >> number >> text *)
Take ==
    LET numbered == Skip(in, NUMBER_BYTES)
    IN  /\ pc = "message" /\ MoreToTake
        /\ taken' = Append(taken, [number |-> GetInt(in, NUMBER_BYTES),
                                   text |-> GetString(numbered)])
        /\ in' = SkipString(numbered)
    /\ UNCHANGED <<senderVars, stream, cPackageCache, pc, open>>

(* What is left when OnMessage has given back what it read of a package    *)
(* that is not whole.                                                      *)
GivenBack ==
    IF CanGet(in, NUMBER_BYTES) /\ ~IsWhole(in)
    THEN ReadSeek(Skip(in, NUMBER_BYTES), -NUMBER_BYTES)
    ELSE in

(* OnMessage returns, and memmove takes what is left to the start.         *)
MessageReturns ==
    /\ pc = "message" /\ ~MoreToTake
    /\ cPackageCache' =
          Ahead(GivenBack, in.m_AvailableReadSize - GivenBack.m_ReadPosition)
    /\ in' = NoBuffer
    /\ pc' = "wait"
    /\ UNCHANGED <<senderVars, stream, open, taken>>

OnReadable == CacheIsFull \/ Receive \/ Take \/ MessageReturns

PackagesNext ==
    \/ \E p \in Payloads : Post(p)
    \/ Send
    \/ CacheIsFull
    \/ Receive
    \/ Take
    \/ MessageReturns

PackagesSpec == PackagesInit /\ [][PackagesNext]_packageVars

(* The sender sends what it has packed, and readable events are handled.   *)
FairPackagesSpec == PackagesSpec /\ WF_packageVars(Send) /\ WF_packageVars(OnReadable)

-----------------------------------------------------------------------------
(* Properties. *)

(* OnMessage unpacks the packages that were packed, whole, in order and    *)
(* each once, wherever the buffer overflowed and the stream was cut,       *)
(* unless a send was short or a length wrapped.                            *)
PackagesArriveWhole == spoiled \/ IsPrefix(taken, posted)

(* Every package arrives: none waits in the cache for bytes of the next,   *)
(* and a package that just fits the cache does not fill it.                *)
EveryPackageArrives ==
    \A k \in 1..MaxPosts : (Len(posted) >= k) ~> (Len(taken) >= k \/ spoiled)
=============================================================================
