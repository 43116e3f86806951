------------------------------ MODULE IOBuffer ------------------------------
(***************************************************************************)
(* The buffer of include/IOBuffer.hpp and src/IOBuffer.cc, from which      *)
(* programs read what a channel received and into which they write what it *)
(* sends: operators on a record of its fields.  An operator that throws    *)
(* OverflowIOException in the code has a Can... operator for its guard.    *)
(*                                                                         *)
(* The overloads for signed and unsigned integers do the same on bytes, so *)
(* there is one operator for each width.                                   *)
(***************************************************************************)
EXTENDS Integers, SequencesExt

CONSTANTS
    BYTE,           \* how many values a byte has (256)
    SIZE_SPAN       \* how many values a size_t has (2^64)

ASSUME ByteAssumption == BYTE \in Nat /\ BYTE >= 2
ASSUME SizeSpanAssumption == SIZE_SPAN \in Nat \ {0}

(* What a byte with n bytes behind it counts: BYTE ^ n, written so that it *)
(* can be proved about.                                                    *)
Power[n \in Nat] == IF n = 0 THEN 1 ELSE BYTE * Power[n - 1]

LENGTH_BYTES == 2                       \* sizeof(uint16_t) before a string
LENGTH_SPAN == Power[LENGTH_BYTES]

(* IOBuffer(buffer, size, available): bytes that are there already.        *)
Over(bytes, available) ==
    [m_Buffer |-> bytes, m_ReadPosition |-> 0, m_AvailableReadSize |-> available,
     m_WritePosition |-> 0]

(* The positions of a buffer stay inside it. *)
IsIOBuffer(io) ==
    /\ io \in [m_Buffer : Seq(0..(BYTE - 1)), m_ReadPosition : Nat,
               m_AvailableReadSize : Nat, m_WritePosition : Nat]
    /\ io.m_AvailableReadSize <= Len(io.m_Buffer)
    /\ io.m_ReadPosition <= io.m_AvailableReadSize
    /\ io.m_WritePosition <= Len(io.m_Buffer)

(* hton and ntoh: the most significant byte first. *)
Bytes(val, width) == [i \in 1..width |-> (val \div Power[width - i]) % BYTE]
Value(bytes) == FoldLeft(LAMBDA val, byte : val * BYTE + byte, 0, bytes)

-----------------------------------------------------------------------------
(* Writing. *)

CanPut(io, n) == io.m_WritePosition + n <= Len(io.m_Buffer)

Put(io, bytes) ==
    LET start == io.m_WritePosition
        end == start + Len(bytes)
    IN  [io EXCEPT
            !.m_Buffer = [i \in DOMAIN @ |->
                             IF i \in (start + 1)..end THEN bytes[i - start] ELSE @[i]],
            !.m_WritePosition = end]

PutInt(io, val, width) == Put(io, Bytes(val, width))

(* A string is written after its length, of which 16 bits are kept.        *)
CanPutString(io, val) == CanPut(io, LENGTH_BYTES + Len(val))
PutString(io, val) == Put(Put(io, Bytes(Len(val) % LENGTH_SPAN, LENGTH_BYTES)), val)

-----------------------------------------------------------------------------
(* Reading. *)

(* A bug: the last byte there is cannot be read. *)
CanGetButLast(io, n) == io.m_ReadPosition + n < io.m_AvailableReadSize
CanGet(io, n) == io.m_ReadPosition + n <= io.m_AvailableReadSize

Ahead(io, n) == SubSeq(io.m_Buffer, io.m_ReadPosition + 1, io.m_ReadPosition + n)
Skip(io, n) == [io EXCEPT !.m_ReadPosition = @ + n]

GetInt(io, width) == Value(Ahead(io, width))

StringLength(io) == GetInt(io, LENGTH_BYTES)
CanGetString(io) ==
    CanGet(io, LENGTH_BYTES) /\ CanGet(io, LENGTH_BYTES + StringLength(io))
GetString(io) == Ahead(Skip(io, LENGTH_BYTES), StringLength(io))
SkipString(io) == Skip(io, LENGTH_BYTES + StringLength(io))

-----------------------------------------------------------------------------
(* A bug: a negative offset is taken for a large one before it is added. *)
SoughtForward(position, offset, limit) ==
    IF offset < 0 \/ position + offset > limit THEN limit ELSE position + offset

(* Seeking: the positions are size_t, so an offset before the start wraps  *)
(* and is taken for one behind the end.                                    *)
Sought(position, offset, limit) ==
    LET sum == (position + offset) % SIZE_SPAN IN IF sum > limit THEN limit ELSE sum

ReadSeek(io, offset) ==
    [io EXCEPT !.m_ReadPosition = Sought(@, offset, io.m_AvailableReadSize)]
WriteSeek(io, offset) ==
    [io EXCEPT !.m_WritePosition = Sought(@, offset, Len(io.m_Buffer))]
=============================================================================
