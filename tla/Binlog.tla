------------------------------- MODULE Binlog -------------------------------
(***************************************************************************)
(* The block-structured log file of src/Binlog.cc: one process that writes *)
(* it and one that reads it while it grows.  Next is cut at its system     *)
(* calls, so that a Write can come between any two of them; Write changes  *)
(* the file in one system call (writev) and is one step.                   *)
(*                                                                         *)
(* The file is what the reader can tell apart: its size, the offsets at    *)
(* which a block head starts, and the records with their offsets.  What    *)
(* lies inside a head or a record may look like anything to the one-byte   *)
(* tests of Next, like a head, a record or the end of one; holes are       *)
(* zeros, and look like none of them.                                      *)
(***************************************************************************)
EXTENDS Integers, Sequences

CONSTANTS
    BlockSize,          \* m_stHead.dwBlockSize
    DataOffset,         \* m_stHead.wDataOffset, the end of the file head
    BLOCKHEAD_SIZE,     \* bytes of a block head (8)
    LOG_OVERHEAD,       \* bytes of a record besides its payload (6)
    OFFSET_SPAN,        \* values of the uint32 the reader computes offsets in
    Sizes,              \* payload sizes the program writes
    Openings,           \* how the log may be opened: "CreateLog", "OpenLog"
    Faults,             \* subset of {"fail", "short"}: what writev may do
    MaxWrites,          \* bound on the calls of Write
    MaxTornWrites,      \* the same for a log that is not sound
    MaxBlocks           \* bound on how far Next is called past the end

ASSUME LayoutAssumption ==
    /\ BLOCKHEAD_SIZE \in Nat \ {0}
    /\ LOG_OVERHEAD \in Nat \ {0}
    /\ BlockSize \in Nat /\ BlockSize > BLOCKHEAD_SIZE
    /\ DataOffset \in Nat
    /\ OFFSET_SPAN \in Nat \ {0}

ASSUME WriteAssumption ==
    /\ Sizes \subseteq Nat
    /\ Openings \subseteq {"CreateLog", "OpenLog"}
    /\ Faults \subseteq {"fail", "short"}
    /\ MaxWrites \in Nat /\ MaxTornWrites \in Nat
    /\ MaxBlocks \in Nat

VARIABLES
    \* the file and its writer
    size,               \* st_size
    heads,              \* offsets at which a block head starts
    log,                \* the records writev was given, in order of the calls
    position,           \* the file position of the writer's descriptor
    returned,           \* what Write returned for each of them
    appending,          \* the log was opened by OpenLog, with O_APPEND
    sound,              \* it was not, every writev wrote what it was given, and
                        \* there was room for it in a block
    \* the iterator and the call of Next on it
    dwBlockIndex, dwOffset, dwRealSize,
    pc,                 \* where Next stands
    result,             \* what it returned last
    \* what the reader has seen
    from,               \* the record its iterator was opened at
    delivered,          \* the records Next returned since, or NoRecord
    overran             \* Next met the end of the file at the end of a block

writerVars == <<size, heads, log, position, returned, appending, sound>>
readerVars == <<dwBlockIndex, dwOffset, dwRealSize, pc, result, from, delivered, overran>>
vars == <<size, heads, log, position, returned, appending, sound,
          dwBlockIndex, dwOffset, dwRealSize, pc, result, from, delivered, overran>>

(* "error": Next returned -1 or threw. *)
Results == {"none", "record", "end of file", "error"}
(* Bytes that Next took for a record and that are none. *)
NoRecord == 0

-----------------------------------------------------------------------------
GetLogSize(payload) == LOG_OVERHEAD + payload
Whole(r) == r.bytes = r.len
BlockStarts == {o \in DataOffset..size : (o - DataOffset) % BlockSize = 0}
Smaller(a, b) == IF a < b THEN a ELSE b

TypeOK ==
    /\ size \in Nat
    /\ heads \subseteq 0..size
    /\ log \in Seq([at : Nat, len : Nat, bytes : Nat])
    /\ position \in Nat
    /\ returned \in Seq(Nat) /\ Len(returned) = Len(log)
    /\ appending \in BOOLEAN /\ sound \in BOOLEAN
    /\ dwBlockIndex \in Nat
    /\ dwOffset \in 0..BlockSize
    /\ dwRealSize \in 0..BlockSize
    /\ pc \in {"idle", "scan", "reload"}
    /\ result \in Results
    /\ from \in Nat
    /\ delivered \in Seq(0..Len(log))
    /\ overran \in BOOLEAN

(* CreateLog or OpenLog of a fresh log, and GetIterator on it.             *)
Init ==
    /\ size = DataOffset
    /\ heads = {}
    /\ log = <<>>
    /\ \E opening \in Openings : appending = (opening = "OpenLog")
    /\ sound = ~appending
    /\ position = IF appending THEN 0 ELSE DataOffset
    /\ returned = <<>>
    /\ dwBlockIndex = 0 /\ dwOffset = 0 /\ dwRealSize = 0
    /\ pc = "idle"
    /\ result = "none"
    /\ from = 1
    /\ delivered = <<>>
    /\ overran = FALSE

-----------------------------------------------------------------------------
(* Write: what it computes before writev. *)

RemainSize == BlockSize - ((size - DataOffset) % BlockSize)
(* A bug: a block that is too full is not given up. *)
NewBlockWhenFull(real) == RemainSize = BlockSize
NewBlock(real) == RemainSize = BlockSize \/ RemainSize < real
Padding(real) == IF RemainSize # BlockSize /\ RemainSize < real THEN RemainSize ELSE 0
HeadSize(real) == IF NewBlock(real) THEN BLOCKHEAD_SIZE ELSE 0

(* The file position after lseek(Padding, SEEK_CUR), and where writev puts *)
(* the bytes: at the end of the file if it was opened with O_APPEND.       *)
Seeked(real) == position + Padding(real)
WrittenAt(real) == IF appending THEN size ELSE Seeked(real)

(* writev wrote n of the bytes it was given, and Write returns the offset  *)
(* it computed from the size of the file.                                  *)
Written(real, n) ==
    LET start == WrittenAt(real)
        head == HeadSize(real)
    IN  /\ size' = start + n
        /\ position' = start + n
        /\ heads' = IF NewBlock(real) THEN heads \cup {start} ELSE heads
        /\ log' = Append(log, [at |-> start + head, len |-> real,
                               bytes |-> IF n > head THEN n - head ELSE 0])
        /\ returned' = Append(returned, size + Padding(real) + head)

Write(payload) ==
    LET real == GetLogSize(payload)
        total == HeadSize(real) + real
    IN  /\ Len(log) < IF sound THEN MaxWrites ELSE MaxTornWrites
        /\ real <= BlockSize
        /\ \/ /\ Written(real, total)
              /\ sound' = (sound /\ total <= BlockSize)
           \/ /\ "short" \in Faults         \* the disk is full
              /\ Len(log) < MaxTornWrites
              /\ \E n \in 1..(total - 1) : Written(real, n)
              /\ sound' = FALSE
           \/ /\ "fail" \in Faults          \* Write returns -1
              /\ Len(log) < MaxTornWrites
              /\ position' = Seeked(real)
              /\ position' <= size + BlockSize      \* bound on repeated failures
              /\ sound' = FALSE
              /\ UNCHANGED <<size, heads, log, returned>>
        /\ UNCHANGED <<appending, readerVars>>

-----------------------------------------------------------------------------
(* The reader's arithmetic on offsets is uint32.  Here is the offset of    *)
(* the byte the iterator stands at, as pread filled the cache.             *)
BlockOffset(index) == (DataOffset + BlockSize * index) % OFFSET_SPAN
Here == BlockOffset(dwBlockIndex) + dwOffset
ReadOffset == Here % OFFSET_SPAN

(* The records that start at an offset, and the bytes that Next may take   *)
(* for anything: those of the file head, or inside a block head or a       *)
(* record.                                                                 *)
RecordAt(offset) == {i \in 1..Len(log) : log[i].at = offset /\ log[i].bytes > 0}
Foreign(offset) ==
    /\ offset \notin heads /\ RecordAt(offset) = {}
    /\ \/ offset < DataOffset
       \/ \E h \in heads : h < offset /\ offset < h + BLOCKHEAD_SIZE
       \/ \E i \in 1..Len(log) : log[i].at < offset /\ offset < log[i].at + log[i].bytes

(* pread of a block: how many bytes there are. *)
Available(index) ==
    IF size <= BlockOffset(index) THEN 0
    ELSE Smaller(BlockSize, size - BlockOffset(index))

Returns(r) == pc' = "idle" /\ result' = r

(* GetIterator: at the start, or at an offset that Write returned. *)
GetIterator ==
    /\ pc = "idle"
    /\ \E i \in 0..Len(log) :
        LET offset == IF i = 0 THEN 0 ELSE returned[i] - DataOffset
        IN  /\ dwBlockIndex' = offset \div BlockSize
            /\ dwOffset' = offset % BlockSize
            /\ from' = IF i = 0 THEN 1 ELSE i
    /\ dwRealSize' = 0
    /\ result' = "none"
    /\ delivered' = <<>>
    /\ overran' = FALSE
    /\ UNCHANGED <<writerVars, pc>>

CallNext ==
    /\ pc = "idle"
    /\ dwBlockIndex <= MaxBlocks
    /\ pc' = "scan"
    /\ UNCHANGED <<writerVars, dwBlockIndex, dwOffset, dwRealSize, result, from,
                   delivered, overran>>

(* What Next does with a block that pread filled: found is the offset at   *)
(* which it goes on if the block has a head, or a byte that looks like one.*)
TakeBlock(index, found) ==
    /\ dwRealSize' = Available(index)
    /\ \/ /\ dwRealSize' = 0
          /\ Returns("end of file") /\ UNCHANGED dwOffset
       \/ /\ dwRealSize' \in 1..(BLOCKHEAD_SIZE - 1)
          /\ Returns("error") /\ UNCHANGED dwOffset
       \/ /\ dwRealSize' >= BLOCKHEAD_SIZE
          /\ \/ dwOffset' = found /\ (BlockOffset(index) \in heads \/ Foreign(BlockOffset(index)))
             \/ dwOffset' = BlockSize /\ BlockOffset(index) \notin heads
          /\ UNCHANGED <<pc, result>>

ReadNextBlock ==
    /\ pc = "scan" /\ dwOffset >= dwRealSize
    /\ dwOffset >= BlockSize
    /\ dwBlockIndex' = dwBlockIndex + 1
    /\ TakeBlock(dwBlockIndex + 1, BLOCKHEAD_SIZE)
    /\ overran' = (overran \/ dwRealSize' = 0)
    /\ UNCHANGED <<writerVars, from, delivered>>

(* A bug: a block whose cache is not full is taken for the last one. *)
CheckGrowthNever ==
    /\ pc = "scan" /\ dwOffset >= dwRealSize
    /\ dwOffset < BlockSize
    /\ dwRealSize > 0 /\ dwRealSize < BlockSize
    /\ Returns("end of file")
    /\ UNCHANGED <<writerVars, dwBlockIndex, dwOffset, dwRealSize, from, delivered,
                   overran>>

(* The cached block is not full: fstat tells whether the file has grown. *)
CheckGrowth ==
    /\ pc = "scan" /\ dwOffset >= dwRealSize
    /\ dwOffset < BlockSize
    /\ dwRealSize > 0 /\ dwRealSize < BlockSize
    /\ IF ReadOffset >= size
       THEN Returns("end of file")
       ELSE pc' = "reload" /\ UNCHANGED result
    /\ UNCHANGED <<writerVars, dwBlockIndex, dwOffset, dwRealSize, from, delivered,
                   overran>>

(* A bug: the cache is read again and its size is not. *)
ReloadKeepsSize ==
    /\ pc = "reload"
    /\ pc' = "scan"
    /\ UNCHANGED <<writerVars, dwBlockIndex, dwOffset, dwRealSize, result, from,
                   delivered, overran>>

ReloadBlock ==
    /\ pc = "reload"
    /\ dwRealSize' = Available(dwBlockIndex)
    /\ IF dwRealSize' >= BLOCKHEAD_SIZE
       THEN pc' = "scan" /\ UNCHANGED result
       ELSE Returns(IF dwRealSize' = 0 THEN "end of file" ELSE "error")
    /\ UNCHANGED <<writerVars, dwBlockIndex, dwOffset, from, delivered, overran>>

(* A bug: the iterator goes back to the start of the block it loads. *)
LoadBlockFromStart ==
    /\ pc = "scan" /\ dwOffset >= dwRealSize
    /\ dwOffset < BlockSize
    /\ ~(dwRealSize > 0 /\ dwRealSize < BlockSize)
    /\ TakeBlock(dwBlockIndex, BLOCKHEAD_SIZE)
    /\ UNCHANGED <<writerVars, dwBlockIndex, from, delivered, overran>>

LoadBlock ==
    /\ pc = "scan" /\ dwOffset >= dwRealSize
    /\ dwOffset < BlockSize
    /\ ~(dwRealSize > 0 /\ dwRealSize < BlockSize)
    /\ TakeBlock(dwBlockIndex,
                 IF dwOffset < BLOCKHEAD_SIZE THEN BLOCKHEAD_SIZE ELSE dwOffset)
    /\ UNCHANGED <<writerVars, dwBlockIndex, from, delivered, overran>>

(* SMAGIC: what Next may see at the iterator.                              *)
Seen == RecordAt(Here) \cup (IF Foreign(Here) THEN {NoRecord} ELSE {})

(* The lengths it may find there: a record says its own unless it was cut  *)
(* inside its length.                                                      *)
LengthWritten(i) == i # NoRecord /\ log[i].bytes >= LOG_OVERHEAD - 1
Lengths(i) == IF LengthWritten(i) THEN {log[i].len} ELSE LOG_OVERHEAD..BlockSize

Buffered(length) ==
    LET dwLogBuffSize == dwRealSize - dwOffset
    IN  dwLogBuffSize >= LOG_OVERHEAD /\ dwLogBuffSize >= length

(* EMAGIC: the last byte of a whole record is that, and one inside another *)
(* record may be.                                                          *)
Complete(i) == i # NoRecord /\ Whole(log[i])
EndsThere(i, length) == Complete(i) \/ Foreign(Here + length - 1)

(* A bug: the iterator goes on by the payload and not by the record. *)
DeliverPayload ==
    /\ pc = "scan" /\ dwOffset < dwRealSize
    /\ \E i \in Seen : \E length \in Lengths(i) :
        /\ Buffered(length) /\ EndsThere(i, length)
        /\ delivered' = Append(delivered, i)
        /\ dwOffset' = dwOffset + length - LOG_OVERHEAD
    /\ Returns("record")
    /\ UNCHANGED <<writerVars, dwBlockIndex, dwRealSize, from, overran>>

Deliver ==
    /\ pc = "scan" /\ dwOffset < dwRealSize
    /\ \E i \in Seen : \E length \in Lengths(i) :
        /\ Buffered(length) /\ EndsThere(i, length)
        /\ delivered' = Append(delivered, i)
        /\ dwOffset' = dwOffset + length
    /\ Returns("record")
    /\ UNCHANGED <<writerVars, dwBlockIndex, dwRealSize, from, overran>>

(* One of the tests fails; those on a whole record that is cached do not.  *)
SkipBlock ==
    /\ pc = "scan" /\ dwOffset < dwRealSize
    /\ \A i \in Seen : ~(Complete(i) /\ Buffered(log[i].len))
    /\ dwOffset' = BlockSize
    /\ UNCHANGED <<writerVars, dwBlockIndex, dwRealSize, pc, result, from, delivered,
                   overran>>

(* Bytes that are no record claim nearly 4 GiB: with LOG_OVERHEAD added    *)
(* the length wraps and passes its test, and reading EMAGIC behind it      *)
(* throws OverflowIOException.                                             *)
NextThrows ==
    /\ pc = "scan" /\ dwOffset < dwRealSize
    /\ Foreign(Here)
    /\ Buffered(LOG_OVERHEAD)
    /\ Returns("error")
    /\ UNCHANGED <<writerVars, dwBlockIndex, dwOffset, dwRealSize, from, delivered,
                   overran>>

Next ==
    \/ \E payload \in Sizes : Write(payload)
    \/ GetIterator
    \/ CallNext
    \/ ReadNextBlock
    \/ CheckGrowth
    \/ ReloadBlock
    \/ LoadBlock
    \/ Deliver
    \/ SkipBlock
    \/ NextThrows

Spec == Init /\ [][Next]_vars

(* A reader that polls: it calls Next again, whatever Next returned, and   *)
(* the system calls of Next return.                                        *)
PollingSpec ==
    /\ Spec
    /\ WF_readerVars(CallNext \/ ReadNextBlock \/ CheckGrowth \/ ReloadBlock
                        \/ LoadBlock \/ Deliver \/ SkipBlock \/ NextThrows)

-----------------------------------------------------------------------------
(* Properties. *)

(* Write pads a block it cannot put a record in: every block that has      *)
(* begun starts with a head, no head is anywhere else, no record crosses   *)
(* the end of a block, and the offset Write returns is that of the record. *)
HeadsStartBlocks == sound =>
    /\ heads = BlockStarts \ {size}
    /\ \A i \in 1..Len(log) :
        /\ ((log[i].at - DataOffset) % BlockSize) + log[i].len <= BlockSize
        /\ returned[i] = log[i].at

(* Records come out in the order they went in, each once and from the one  *)
(* the iterator was opened at, while the file grows under the reader: also *)
(* with torn writes, records no block holds and heads that are not where a *)
(* block starts.  From a sound file nothing else comes out, whatever the   *)
(* bytes of the records look like; from any file, a record of which only   *)
(* the first bytes were written comes out only when those of later Writes  *)
(* stand where its other bytes should (in front of what they put there, or *)
(* if the bytes that say its length are missing, at a length they make up).*)
ReadInOrder ==
    \A k \in 1..Len(delivered) :
        LET i == delivered[k]
        IN  /\ i = NoRecord => ~sound
            /\ i # NoRecord =>
                  /\ i >= from
                  /\ \A j \in 1..(k - 1) : delivered[j] < i
                  /\ LengthWritten(i) => log[i].at + log[i].len <= size

(* An iterator opened at the offset Write returned begins with the record  *)
(* of that Write, and until Next meets the end of the file at the end of a *)
(* block, it skips nothing.                                                *)
NothingSkipped ==
    sound => overran \/ \A k \in 1..Len(delivered) : delivered[k] = from + k - 1

(* When Next says "end of file", everything written was returned, unless   *)
(* it met the end of the file at the end of a block before.                *)
AllRead == from + Len(delivered) > Len(log)
NextReturnsEof == pc # "idle" /\ pc' = "idle" /\ result' = "end of file"
EndOfFileMeansAllReadBeforeOverrun ==
    [][NextReturnsEof /\ sound /\ ~overran => AllRead]_vars

(* A reader that keeps its iterator and polls gets every record in the     *)
(* end, unless it met the end of the file at the end of a block.           *)
EverythingIsRead ==
    <>[][~GetIterator]_vars => <>[](AllRead \/ overran \/ ~sound)
=============================================================================
