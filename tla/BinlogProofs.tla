---------------------------- MODULE BinlogProofs ----------------------------
(***************************************************************************)
(* Proofs about the binlog for any layout, record sizes and faults: the    *)
(* layout of the file, and what a reader gets while it grows.  In the      *)
(* order of the module: arithmetic and types; InOrder, the order of what   *)
(* is read from any file; SoundFile, the layout of a sound one; Follow,    *)
(* where a reader of a sound file stands.                                  *)
(***************************************************************************)
EXTENDS Binlog, SequenceTheorems, TLAPS

-----------------------------------------------------------------------------
(* Sizes and offsets. *)

LEMMA Division ==
    ASSUME NEW a \in Nat
    PROVE  /\ a \div BlockSize \in Nat
           /\ a % BlockSize \in 0..(BlockSize - 1)
           /\ a = BlockSize * (a \div BlockSize) + (a % BlockSize)
BY LayoutAssumption

LEMMA OffsetsAreNatural ==
    ASSUME NEW o \in Nat
    PROVE  o % OFFSET_SPAN \in Nat /\ (o < OFFSET_SPAN => o % OFFSET_SPAN = o)
BY LayoutAssumption

LEMMA BlockOffsets ==
    ASSUME NEW index \in Nat
    PROVE  /\ BlockSize * index \in Nat
           /\ BlockSize * (index + 1) = BlockSize * index + BlockSize
           /\ BlockOffset(index) \in Nat
<1>1. BlockSize \in Nat
    BY LayoutAssumption
<1>2. BlockSize * index \in Nat
    BY <1>1
<1>3. BlockSize * (index + 1) = BlockSize * index + BlockSize
    BY <1>1
<1>4. DataOffset + BlockSize * index \in Nat
    BY <1>2, LayoutAssumption
<1> QED
    BY <1>2, <1>3, <1>4, OffsetsAreNatural DEF BlockOffset

-----------------------------------------------------------------------------
(* Type correctness. *)

Record == [at : Nat, len : Nat, bytes : Nat]

(* The writer does not go back, and Write returns offsets behind the file  *)
(* head.                                                                   *)
FileSound ==
    /\ DataOffset <= size
    /\ ~appending => size <= position
    /\ \A i \in 1..Len(log) : DataOffset <= returned[i]

WellTyped == TypeOK /\ FileSound

LEMMA RemainSizes ==
    ASSUME WellTyped
    PROVE  RemainSize \in 1..BlockSize
<1>1. size - DataOffset \in Nat
    BY LayoutAssumption DEF WellTyped, FileSound, TypeOK
<1>2. (size - DataOffset) % BlockSize \in 0..(BlockSize - 1)
    BY <1>1, Division
<1> QED
    BY <1>2, LayoutAssumption DEF RemainSize

(* What a step of the writer adds to the file and to the log. *)
Appended(r, offset) ==
    /\ r \in Record
    /\ size <= r.at /\ (0 < r.bytes => r.at + r.bytes = size')
    /\ log' = Append(log, r)
    /\ offset \in Nat /\ size <= offset
    /\ returned' = Append(returned, offset)
    /\ size' \in Nat /\ size <= size' /\ position' = size'
    /\ heads' \subseteq 0..size'

LEMMA WrittenAppends ==
    ASSUME WellTyped, NEW real \in Nat \ {0}, NEW n \in Nat \ {0}, Written(real, n)
    PROVE  \E r, offset :
              /\ Appended(r, offset)
              /\ r.len = real
              /\ r.at = WrittenAt(real) + HeadSize(real)
              /\ offset = size + Padding(real) + HeadSize(real)
              /\ n = HeadSize(real) + real => r.bytes = r.len
              /\ n <= HeadSize(real) + real => r.bytes <= r.len
<1> DEFINE start == WrittenAt(real)
           head == HeadSize(real)
           bytes == IF n > head THEN n - head ELSE 0
           r == [at |-> start + head, len |-> real, bytes |-> bytes]
           offset == size + Padding(real) + head
<1>1. size \in Nat /\ position \in Nat /\ heads \subseteq 0..size
    BY DEF WellTyped, TypeOK
<1>2. head \in Nat
    BY LayoutAssumption DEF HeadSize
<1>3. Padding(real) \in Nat
    BY RemainSizes, LayoutAssumption DEF Padding
<1>4. start \in Nat /\ size <= start
    BY <1>1, <1>3 DEF WrittenAt, Seeked, WellTyped, FileSound
<1>5. bytes \in Nat /\ (bytes > 0 => head + bytes = n)
    BY <1>2
<1>6. r \in Record
    BY <1>2, <1>4, <1>5 DEF Record
<1>7. /\ size' = start + n /\ position' = start + n
      /\ heads' = heads \/ heads' = heads \cup {start}
      /\ log' = Append(log, r)
      /\ returned' = Append(returned, offset)
    BY DEF Written
<1>8. offset \in Nat /\ size <= offset
    BY <1>1, <1>2, <1>3
<1>9. size <= r.at /\ (0 < r.bytes => r.at + r.bytes = size')
    BY <1>1, <1>2, <1>4, <1>5, <1>7
<1>10. /\ size' \in Nat /\ size <= size' /\ position' = size'
       /\ heads' \subseteq 0..size'
    <2>1. size' \in Nat /\ size <= size' /\ start <= size' /\ position' = size'
        BY <1>1, <1>4, <1>7
    <2>2. heads' \subseteq heads \cup {start}
        BY <1>7
    <2>3. 0..size \subseteq 0..size' /\ start \in 0..size'
        BY <1>1, <1>4, <2>1
    <2> QED
        BY <1>1, <2>1, <2>2, <2>3
<1>11. Appended(r, offset)
    BY <1>6, <1>7, <1>8, <1>9, <1>10 DEF Appended
<1>12. /\ r.len = real /\ r.at = WrittenAt(real) + HeadSize(real)
       /\ offset = size + Padding(real) + HeadSize(real)
    OBVIOUS
<1>13. /\ n = head + real => r.bytes = r.len
       /\ n <= head + real => r.bytes <= r.len
    BY <1>2
<1> HIDE DEF r, offset
<1> QED
    BY <1>11, <1>12, <1>13

WriterStep ==
    /\ UNCHANGED <<appending, readerVars>>
    /\ sound' \in BOOLEAN
    /\ \/ \E r \in Record, offset \in Nat :
             Appended(r, offset) /\ 0 < r.len /\ r.bytes <= r.len
       \/ /\ position' \in Nat /\ position <= position'
          /\ UNCHANGED <<size, heads, log, returned>>

LEMMA WriteIsWriterStep ==
    ASSUME WellTyped, NEW payload \in Sizes, Write(payload)
    PROVE  WriterStep
<1> DEFINE real == GetLogSize(payload)
           total == HeadSize(real) + real
<1>1. real \in Nat \ {0}
    BY LayoutAssumption, WriteAssumption DEF GetLogSize
<1>2. total \in Nat \ {0}
    BY <1>1, LayoutAssumption DEF HeadSize
<1>3. UNCHANGED <<appending, readerVars>>
    BY DEF Write
<1>4. sound \in BOOLEAN
    BY DEF WellTyped, TypeOK
<1>5. ASSUME NEW n \in Nat \ {0}, Written(real, n), n <= total, sound' \in BOOLEAN
      PROVE  WriterStep
    <2>1. PICK r, offset : Appended(r, offset) /\ r.len = real /\ r.bytes <= r.len
        BY <1>1, <1>5, WrittenAppends
    <2>2. r \in Record /\ offset \in Nat
        BY <2>1 DEF Appended
    <2>3. 0 < r.len
        BY <1>1, <2>1
    <2> QED
        BY <1>3, <1>5, <2>1, <2>2, <2>3 DEF WriterStep
<1>6. CASE Written(real, total) /\ sound' = (sound /\ total <= BlockSize)
    BY <1>2, <1>4, <1>5, <1>6
<1>7. CASE (\E n \in 1..(total - 1) : Written(real, n)) /\ sound' = FALSE
    <2>1. PICK n \in 1..(total - 1) : Written(real, n)
        BY <1>7
    <2>2. n \in Nat \ {0} /\ n <= total
        BY <1>2
    <2> QED
        BY <1>5, <1>7, <2>1, <2>2
<1>8. CASE /\ position' = Seeked(real) /\ sound' = FALSE
           /\ UNCHANGED <<size, heads, log, returned>>
    <2>1. Padding(real) \in Nat
        BY RemainSizes, LayoutAssumption DEF Padding
    <2>2. position' \in Nat /\ position <= position'
        BY <1>8, <2>1 DEF Seeked, WellTyped, TypeOK
    <2> QED
        BY <1>3, <1>8, <2>2 DEF WriterStep
<1>9. \/ Written(real, total) /\ sound' = (sound /\ total <= BlockSize)
      \/ (\E n \in 1..(total - 1) : Written(real, n)) /\ sound' = FALSE
      \/ /\ position' = Seeked(real) /\ sound' = FALSE
         /\ UNCHANGED <<size, heads, log, returned>>
    BY DEF Write
<1> QED
    BY <1>6, <1>7, <1>8, <1>9

LEMMA AppendedLog ==
    ASSUME WellTyped, NEW r \in Record, NEW offset \in Nat, Appended(r, offset)
    PROVE  /\ Len(log) \in Nat /\ Len(log') = Len(log) + 1
           /\ log' \in Seq(Record)
           /\ \A i \in 1..Len(log) : log'[i] = log[i]
           /\ log'[Len(log) + 1] = r
           /\ Len(returned') = Len(log')
           /\ returned' \in Seq(Nat)
           /\ \A i \in 1..Len(log) : returned'[i] = returned[i]
           /\ returned'[Len(log) + 1] = offset
<1>1. log \in Seq(Record) /\ returned \in Seq(Nat) /\ Len(returned) = Len(log)
    BY DEF WellTyped, TypeOK, Record
<1>2. Len(log) \in Nat
    BY <1>1, LenProperties
<1>3. log' = Append(log, r) /\ returned' = Append(returned, offset)
    BY DEF Appended
<1>4. /\ log' \in Seq(Record) /\ Len(log') = Len(log) + 1
      /\ \A i \in 1..Len(log) : log'[i] = log[i]
      /\ log'[Len(log) + 1] = r
    BY <1>1, <1>3, AppendProperties
<1>5. /\ returned' \in Seq(Nat) /\ Len(returned') = Len(returned) + 1
      /\ \A i \in 1..Len(returned) : returned'[i] = returned[i]
      /\ returned'[Len(returned) + 1] = offset
    BY <1>1, <1>3, AppendProperties
<1> QED
    BY <1>1, <1>2, <1>4, <1>5

LEMMA WriterStepTyped ==
    ASSUME WellTyped, WriterStep
    PROVE  WellTyped'
<1>1. CASE \E r \in Record, offset \in Nat :
               Appended(r, offset) /\ 0 < r.len /\ r.bytes <= r.len
    <2>1. PICK r \in Record, offset \in Nat : Appended(r, offset)
        BY <1>1
    <2>2. /\ Len(log) \in Nat /\ Len(log') = Len(log) + 1
          /\ log' \in Seq(Record)
          /\ Len(returned') = Len(log')
          /\ returned' \in Seq(Nat)
          /\ \A i \in 1..Len(log) : returned'[i] = returned[i]
          /\ returned'[Len(log) + 1] = offset
        BY <2>1, AppendedLog
    <2>3. /\ size' \in Nat /\ position' \in Nat /\ heads' \subseteq 0..size'
          /\ size <= size' /\ position' = size' /\ size <= offset
        BY <2>1 DEF Appended
    <2>4. delivered' \in Seq(0..Len(log'))
        <3>1. delivered' = delivered /\ delivered \in Seq(0..Len(log))
            BY DEF WriterStep, readerVars, WellTyped, TypeOK
        <3>2. 0..Len(log) \subseteq 0..Len(log')
            BY <2>2
        <3> QED
            BY <3>1, <3>2, SeqMonotonic
    <2>5. TypeOK'
        BY <2>2, <2>3, <2>4 DEF WellTyped, TypeOK, WriterStep, readerVars, Record
    <2>6. FileSound'
        <3>1. DataOffset <= size' /\ (~appending' => size' <= position')
            BY <2>3, LayoutAssumption DEF WellTyped, FileSound, TypeOK
        <3>2. DataOffset <= offset
            BY <2>3, LayoutAssumption DEF WellTyped, FileSound, TypeOK
        <3>3. ASSUME NEW i \in 1..Len(log') PROVE DataOffset <= returned'[i]
            <4>1. i \in 1..Len(log) \/ i = Len(log) + 1
                BY <2>2
            <4> QED
                BY <2>2, <3>2, <4>1 DEF WellTyped, FileSound
        <3> QED
            BY <3>1, <3>3 DEF FileSound
    <2> QED
        BY <2>5, <2>6 DEF WellTyped
<1>2. CASE /\ position' \in Nat /\ position <= position'
           /\ UNCHANGED <<size, heads, log, returned>>
    <2>1. TypeOK'
        BY <1>2 DEF WellTyped, TypeOK, WriterStep, readerVars
    <2>2. FileSound'
        BY <1>2 DEF WellTyped, FileSound, TypeOK, WriterStep
    <2> QED
        BY <2>1, <2>2 DEF WellTyped
<1> QED
    BY <1>1, <1>2 DEF WriterStep

-----------------------------------------------------------------------------
(* The reader. *)

ReaderTyped ==
    /\ dwBlockIndex \in Nat
    /\ dwOffset \in 0..BlockSize
    /\ dwRealSize \in 0..BlockSize
    /\ pc \in {"idle", "scan", "reload"}
    /\ result \in Results
    /\ from \in Nat
    /\ delivered \in Seq(0..Len(log))
    /\ overran \in BOOLEAN

LEMMA ReaderStepTyped ==
    ASSUME WellTyped, UNCHANGED writerVars, ReaderTyped'
    PROVE  WellTyped'
BY DEF WellTyped, TypeOK, FileSound, ReaderTyped, writerVars

LEMMA AvailableFits ==
    ASSUME WellTyped, NEW index \in Nat
    PROVE  Available(index) \in 0..BlockSize
<1>1. BlockOffset(index) \in Nat
    BY BlockOffsets
<1> QED
    BY <1>1, LayoutAssumption DEF WellTyped, TypeOK, Available, Smaller

LEMMA TakeBlockTyped ==
    ASSUME WellTyped, NEW index \in Nat, NEW found \in 0..BlockSize, TakeBlock(index, found)
    PROVE  /\ dwRealSize' \in 0..BlockSize
           /\ dwOffset' \in 0..BlockSize
           /\ dwOffset' \in {dwOffset, found, BlockSize}
           /\ pc' \in {"idle", pc}
           /\ result' \in {"end of file", "error", result}
<1>1. dwRealSize' \in 0..BlockSize
    BY AvailableFits DEF TakeBlock
<1>2. /\ dwOffset' \in {dwOffset, found, BlockSize}
      /\ pc' \in {"idle", pc}
      /\ result' \in {"end of file", "error", result}
    BY DEF TakeBlock, Returns
<1>3. dwOffset \in 0..BlockSize /\ BlockSize \in 0..BlockSize
    BY LayoutAssumption DEF WellTyped, TypeOK
<1> QED
    BY <1>1, <1>2, <1>3

(* The offset in the file at which the reader stands. *)
Place == DataOffset + BlockSize * dwBlockIndex + dwOffset

LEMMA PlaceIsNatural ==
    ASSUME WellTyped
    PROVE  Place \in Nat
<1> DEFINE block == BlockSize * dwBlockIndex
<1>1. dwBlockIndex \in Nat /\ dwOffset \in Nat
    BY LayoutAssumption DEF WellTyped, TypeOK
<1>2. block \in Nat
    BY <1>1, BlockOffsets
<1>3. Place = DataOffset + block + dwOffset
    BY DEF Place
<1> HIDE DEF block
<1> QED
    BY <1>1, <1>2, <1>3, LayoutAssumption

(* GetIterator puts the reader at the start or at an offset that Write     *)
(* returned.                                                               *)
LEMMA IteratorOpens ==
    ASSUME WellTyped, GetIterator
    PROVE  /\ dwBlockIndex' \in Nat
           /\ dwOffset' \in 0..BlockSize
           /\ \/ from' = 1 /\ dwOffset' = 0 /\ Place' = DataOffset
              \/ from' \in 1..Len(log) /\ Place' = returned[from']
<1>1. PICK i \in 0..Len(log) :
        LET offset == IF i = 0 THEN 0 ELSE returned[i] - DataOffset
        IN  /\ dwBlockIndex' = offset \div BlockSize
            /\ dwOffset' = offset % BlockSize
            /\ from' = IF i = 0 THEN 1 ELSE i
    BY DEF GetIterator
<1> DEFINE offset == IF i = 0 THEN 0 ELSE returned[i] - DataOffset
<1>2. Len(log) \in Nat /\ Len(returned) = Len(log) /\ returned \in Seq(Nat)
    BY LenProperties DEF WellTyped, TypeOK
<1>3. i # 0 => i \in 1..Len(log) /\ returned[i] \in Nat /\ DataOffset <= returned[i]
    BY <1>2, ElementOfSeq DEF WellTyped, FileSound
<1>4. offset \in Nat
    BY <1>3, LayoutAssumption
<1>5. /\ dwBlockIndex' = offset \div BlockSize
      /\ dwOffset' = offset % BlockSize
      /\ from' = IF i = 0 THEN 1 ELSE i
    BY <1>1
<1>6. /\ dwBlockIndex' \in Nat
      /\ dwOffset' \in 0..(BlockSize - 1)
      /\ offset = BlockSize * dwBlockIndex' + dwOffset'
    BY <1>4, <1>5, Division
<1>7. dwOffset' \in 0..BlockSize
    BY <1>6, LayoutAssumption
<1>8. CASE i = 0
    <2> DEFINE block == BlockSize * dwBlockIndex'
    <2>1. block \in Nat
        BY <1>6, BlockOffsets
    <2>2. PICK rest \in Nat : rest = dwOffset'
        BY <1>6, LayoutAssumption
    <2>3. block + rest = 0
        BY <1>6, <1>8, <2>2
    <2>4. Place' = DataOffset + block + rest
        BY <2>2 DEF Place
    <2> HIDE DEF block
    <2>5. rest = 0 /\ block = 0
        BY <2>1, <2>3
    <2>6. Place' = DataOffset
        BY <2>4, <2>5, LayoutAssumption
    <2> QED
        BY <1>5, <1>6, <1>7, <1>8, <2>2, <2>5, <2>6
<1>9. CASE i # 0
    <2>1. offset = returned[i] - DataOffset
        BY <1>9
    <2> DEFINE block == BlockSize * dwBlockIndex'
    <2>2. block \in Nat
        BY <1>6, BlockOffsets
    <2>3. Place' = DataOffset + block + dwOffset'
        BY DEF Place
    <2>4. offset = block + dwOffset' /\ dwOffset' \in Nat
        BY <1>6, LayoutAssumption
    <2> HIDE DEF offset, block
    <2>5. Place' = returned[i]
        BY <1>3, <1>9, <2>1, <2>2, <2>3, <2>4, LayoutAssumption
    <2> QED
        BY <1>3, <1>5, <1>6, <1>7, <1>9, <2>5
<1> QED
    BY <1>8, <1>9

(* Next gives the program a record that starts where it stands, with the   *)
(* length the record has if it was written, or bytes that are no record.   *)
LEMMA Delivery ==
    ASSUME WellTyped, Deliver
    PROVE  \E i \in 0..Len(log), length \in Nat :
              /\ delivered' = Append(delivered, i)
              /\ dwOffset' = dwOffset + length /\ dwOffset' \in 0..BlockSize
              /\ length <= dwRealSize - dwOffset
              /\ i = NoRecord => Foreign(Here)
              /\ i # NoRecord => /\ i \in 1..Len(log) /\ log[i] \in Record
                                 /\ log[i].at = Here /\ log[i].bytes > 0
                                 /\ LengthWritten(i) => length = log[i].len
                                 /\ ~LengthWritten(i) => log[i].bytes < length
<1>0. PICK i \in Seen : \E length \in Lengths(i) :
          /\ Buffered(length)
          /\ delivered' = Append(delivered, i)
          /\ dwOffset' = dwOffset + length
    BY DEF Deliver
<1>1. PICK length \in Lengths(i) :
          /\ Buffered(length)
          /\ delivered' = Append(delivered, i)
          /\ dwOffset' = dwOffset + length
    BY <1>0
<1>2. Len(log) \in Nat /\ log \in Seq(Record)
    BY LenProperties DEF WellTyped, TypeOK, Record
<1>3. i = NoRecord => i \in 0..Len(log) /\ Foreign(Here)
    BY <1>2 DEF Seen, RecordAt, NoRecord
<1>4. i # NoRecord => /\ i \in 1..Len(log) /\ log[i] \in Record
                      /\ log[i].at = Here /\ log[i].bytes > 0
    <2>1. i # NoRecord => i \in 1..Len(log) /\ log[i].at = Here /\ log[i].bytes > 0
        BY DEF Seen, RecordAt
    <2> QED
        BY <1>2, <2>1, ElementOfSeq
<1>5. /\ length \in Nat
      /\ LengthWritten(i) => length = log[i].len
      /\ ~LengthWritten(i) => LOG_OVERHEAD <= length
    BY <1>4, LayoutAssumption DEF Lengths, LengthWritten, Record
<1>6. i # NoRecord /\ ~LengthWritten(i) => log[i].bytes < length
    BY <1>4, <1>5, LayoutAssumption DEF LengthWritten, Record
<1>7. length <= dwRealSize - dwOffset
    <2>1. dwRealSize - dwOffset >= length
        BY <1>1 DEF Buffered
    <2> QED
        BY <1>5, <2>1 DEF WellTyped, TypeOK
<1>8. dwOffset \in 0..BlockSize /\ dwRealSize \in 0..BlockSize
    BY DEF WellTyped, TypeOK
<1>9. dwOffset' = dwOffset + length /\ dwOffset' \in 0..BlockSize
    BY <1>1, <1>5, <1>7, <1>8, LayoutAssumption
<1>10. i \in 0..Len(log)
    BY <1>2, <1>3, <1>4
<1> QED
    BY <1>1, <1>3, <1>4, <1>5, <1>6, <1>7, <1>9, <1>10

LEMMA StepTyped == WellTyped /\ [Next]_vars => WellTyped'
<1> SUFFICES ASSUME WellTyped, [Next]_vars PROVE WellTyped'
    OBVIOUS
<1>1. ReaderTyped
    BY DEF WellTyped, TypeOK, ReaderTyped
<1>2. ASSUME NEW payload \in Sizes, Write(payload) PROVE WellTyped'
    BY <1>2, WriteIsWriterStep, WriterStepTyped
<1>3. CASE GetIterator
    <2>1. /\ dwRealSize' = 0 /\ result' = "none" /\ delivered' = <<>> /\ overran' = FALSE
          /\ UNCHANGED <<writerVars, pc>>
        BY <1>3 DEF GetIterator
    <2>2. dwBlockIndex' \in Nat /\ dwOffset' \in 0..BlockSize
        BY <1>3, IteratorOpens
    <2>3. from' \in Nat
        BY <1>3, IteratorOpens, LenProperties DEF WellTyped, TypeOK
    <2>4. delivered' \in Seq(0..Len(log'))
        BY <2>1, EmptySeq
    <2>5. dwRealSize' \in 0..BlockSize /\ result' \in Results
        BY <2>1, LayoutAssumption DEF Results
    <2>6. ReaderTyped'
        BY <1>1, <2>1, <2>2, <2>3, <2>4, <2>5 DEF ReaderTyped
    <2> QED
        BY <2>1, <2>6, ReaderStepTyped
<1>4. CASE CallNext
    <2>1. ReaderTyped' /\ UNCHANGED writerVars
        BY <1>1, <1>4 DEF CallNext, ReaderTyped, writerVars
    <2> QED
        BY <2>1, ReaderStepTyped
<1>5. CASE ReadNextBlock
    <2>1. /\ dwBlockIndex' = dwBlockIndex + 1
          /\ TakeBlock(dwBlockIndex + 1, BLOCKHEAD_SIZE)
          /\ overran' \in BOOLEAN
          /\ UNCHANGED <<writerVars, from, delivered>>
        BY <1>1, <1>5 DEF ReadNextBlock, ReaderTyped
    <2>2. BLOCKHEAD_SIZE \in 0..BlockSize /\ dwBlockIndex + 1 \in Nat
        BY <1>1, LayoutAssumption DEF ReaderTyped
    <2>3. /\ dwRealSize' \in 0..BlockSize /\ dwOffset' \in 0..BlockSize
          /\ pc' \in {"idle", pc} /\ result' \in {"end of file", "error", result}
        BY <2>1, <2>2, TakeBlockTyped
    <2>4. ReaderTyped' /\ UNCHANGED writerVars
        BY <1>1, <2>1, <2>2, <2>3 DEF ReaderTyped, Results, writerVars
    <2> QED
        BY <2>4, ReaderStepTyped
<1>6. CASE CheckGrowth
    <2>1. ReaderTyped' /\ UNCHANGED writerVars
        BY <1>1, <1>6 DEF CheckGrowth, Returns, ReaderTyped, Results, writerVars
    <2> QED
        BY <2>1, ReaderStepTyped
<1>7. CASE ReloadBlock
    <2>1. dwRealSize' \in 0..BlockSize
        BY <1>1, <1>7, AvailableFits DEF ReloadBlock, ReaderTyped
    <2>2. /\ pc' \in {"idle", "scan"} /\ result' \in {"end of file", "error", result}
          /\ UNCHANGED <<writerVars, dwBlockIndex, dwOffset, from, delivered, overran>>
        BY <1>7 DEF ReloadBlock, Returns
    <2>3. ReaderTyped' /\ UNCHANGED writerVars
        BY <1>1, <2>1, <2>2 DEF ReaderTyped, Results, writerVars
    <2> QED
        BY <2>3, ReaderStepTyped
<1>8. CASE LoadBlock
    <2> DEFINE found == IF dwOffset < BLOCKHEAD_SIZE THEN BLOCKHEAD_SIZE ELSE dwOffset
    <2>1. /\ TakeBlock(dwBlockIndex, found)
          /\ UNCHANGED <<writerVars, dwBlockIndex, from, delivered, overran>>
        BY <1>8 DEF LoadBlock
    <2>2. found \in 0..BlockSize /\ dwBlockIndex \in Nat
        BY <1>1, LayoutAssumption DEF ReaderTyped
    <2> HIDE DEF found
    <2>3. /\ dwRealSize' \in 0..BlockSize /\ dwOffset' \in 0..BlockSize
          /\ pc' \in {"idle", pc} /\ result' \in {"end of file", "error", result}
        BY <2>1, <2>2, TakeBlockTyped
    <2>4. ReaderTyped' /\ UNCHANGED writerVars
        BY <1>1, <2>1, <2>3 DEF ReaderTyped, Results, writerVars
    <2> QED
        BY <2>4, ReaderStepTyped
<1>9. CASE Deliver
    <2>1. PICK i \in 0..Len(log) :
            dwOffset' \in 0..BlockSize /\ delivered' = Append(delivered, i)
        BY <1>9, Delivery
    <2>2. /\ pc' = "idle" /\ result' = "record"
          /\ UNCHANGED <<writerVars, dwBlockIndex, dwRealSize, from, overran>>
        BY <1>9 DEF Deliver, Returns
    <2>3. delivered' \in Seq(0..Len(log))
        BY <1>1, <2>1, AppendProperties DEF ReaderTyped
    <2>4. log' = log
        BY <2>2 DEF writerVars
    <2>5. ReaderTyped'
        BY <1>1, <2>1, <2>2, <2>3, <2>4 DEF ReaderTyped, Results
    <2> QED
        BY <2>2, <2>5, ReaderStepTyped
<1>10. CASE SkipBlock
    <2>1. dwOffset' = BlockSize
          /\ UNCHANGED <<writerVars, dwBlockIndex, dwRealSize, pc, result, from, delivered,
                         overran>>
        BY <1>10 DEF SkipBlock
    <2>2. BlockSize \in 0..BlockSize
        BY LayoutAssumption
    <2>3. ReaderTyped' /\ UNCHANGED writerVars
        BY <1>1, <2>1, <2>2 DEF ReaderTyped, writerVars
    <2> QED
        BY <2>3, ReaderStepTyped
<1>11. CASE UNCHANGED vars
    <2>1. ReaderTyped' /\ UNCHANGED writerVars
        BY <1>1, <1>11 DEF vars, ReaderTyped, writerVars
    <2> QED
        BY <2>1, ReaderStepTyped
<1>12. CASE NextThrows
    <2>1. ReaderTyped' /\ UNCHANGED writerVars
        BY <1>1, <1>12 DEF NextThrows, Returns, ReaderTyped, Results, writerVars
    <2> QED
        BY <2>1, ReaderStepTyped
<1> QED
    BY <1>2, <1>3, <1>4, <1>5, <1>6, <1>7, <1>8, <1>9, <1>10, <1>11, <1>12 DEF Next

LEMMA InitTyped == Init => WellTyped
<1> SUFFICES ASSUME Init PROVE WellTyped
    OBVIOUS
<1>1. log = <<>> /\ returned = <<>> /\ delivered = <<>>
    BY DEF Init
<1>2. /\ log \in Seq([at : Nat, len : Nat, bytes : Nat]) /\ returned \in Seq(Nat)
      /\ Len(log) = 0 /\ Len(returned) = 0
      /\ delivered \in Seq(0..Len(log))
    BY <1>1, EmptySeq
<1>3. appending \in BOOLEAN /\ sound = ~appending
    BY DEF Init
<1>4. size = DataOffset /\ size \in Nat /\ position \in Nat /\ (~appending => position = size)
    BY LayoutAssumption DEF Init
<1>5. TypeOK
    <2>1. 0 \in 0..BlockSize
        BY LayoutAssumption
    <2>2. /\ heads = {} /\ dwBlockIndex = 0 /\ dwOffset = 0 /\ dwRealSize = 0
          /\ pc = "idle" /\ result = "none" /\ from = 1 /\ overran = FALSE
        BY DEF Init
    <2>3. appending \in BOOLEAN /\ sound \in BOOLEAN
        BY <1>3
    <2> QED
        BY <1>2, <1>4, <2>1, <2>2, <2>3 DEF TypeOK, Results
<1>6. FileSound
    BY <1>2, <1>4, LayoutAssumption DEF FileSound
<1> QED
    BY <1>5, <1>6 DEF WellTyped

(* Offsets, sizes and what the reader keeps are always of their kind: the  *)
(* iterator never leaves its block, and the log and the offsets that Write *)
(* returned grow together.                                                 *)
THEOREM BinlogTypeCorrect == Spec => []TypeOK
<1>1. WellTyped => TypeOK
    BY DEF WellTyped
<1> QED
    BY <1>1, InitTyped, StepTyped, PTL DEF Spec

-----------------------------------------------------------------------------
(* The order of what is read. *)

(* The offsets the reader computes fit the uint32 it computes them in. *)
Fits == Place < OFFSET_SPAN

End(i) == log[i].at + log[i].bytes
There(i) == 0 < log[i].bytes

(* The records follow one another in the file, and the offset that Write   *)
(* returns for one is behind those before it.                              *)
LogOrdered ==
    /\ \A i \in 1..Len(log) : 0 < log[i].len /\ log[i].bytes <= log[i].len
    /\ \A i \in 1..Len(log) : There(i) => End(i) <= size
    /\ \A i, j \in 1..Len(log) : i < j /\ There(i) =>
          End(i) <= returned[j] /\ End(i) <= log[j].at

(* The reader is past the records before the one it was opened at and past *)
(* those it has delivered.                                                 *)
ReaderPast ==
    /\ 1 <= from /\ (from = 1 \/ from <= Len(log))
    /\ \A i \in 1..Len(log) : i < from /\ There(i) => End(i) <= Place
    /\ \A k \in 1..Len(delivered) :
          delivered[k] # NoRecord => End(delivered[k]) <= Place

(* What is cached of a block was in the file. *)
CacheInFile == 0 < dwRealSize => BlockOffset(dwBlockIndex) + dwRealSize <= size

(* ReadInOrder, without what it says of a sound file. *)
RecordInOrder(k) == delivered[k] # NoRecord =>
    /\ delivered[k] >= from
    /\ \A j \in 1..(k - 1) : delivered[j] < delivered[k]
    /\ LengthWritten(delivered[k]) => log[delivered[k]].at + log[delivered[k]].len <= size

RecordsInOrder == \A k \in 1..Len(delivered) : RecordInOrder(k)

InOrder == WellTyped /\ LogOrdered /\ ReaderPast /\ CacheInFile /\ RecordsInOrder

LEMMA Numbers ==
    ASSUME WellTyped
    PROVE  /\ Len(log) \in Nat /\ Len(delivered) \in Nat
           /\ \A i \in 1..Len(log) :
                 /\ log[i].at \in Nat /\ log[i].len \in Nat /\ log[i].bytes \in Nat
                 /\ End(i) \in Nat /\ returned[i] \in Nat
           /\ \A k \in 1..Len(delivered) :
                 delivered[k] = NoRecord \/ delivered[k] \in 1..Len(log)
           /\ from \in Nat /\ size \in Nat
<1>1. /\ log \in Seq(Record) /\ returned \in Seq(Nat) /\ Len(returned) = Len(log)
      /\ delivered \in Seq(0..Len(log)) /\ from \in Nat /\ size \in Nat
    BY DEF WellTyped, TypeOK, Record
<1>2. Len(log) \in Nat /\ Len(delivered) \in Nat
    BY <1>1, LenProperties
<1>3. ASSUME NEW i \in 1..Len(log)
      PROVE  /\ log[i].at \in Nat /\ log[i].len \in Nat /\ log[i].bytes \in Nat
             /\ End(i) \in Nat /\ returned[i] \in Nat
    <2>1. log[i] \in Record /\ returned[i] \in Nat
        BY <1>1, ElementOfSeq
    <2>2. log[i].at \in Nat /\ log[i].len \in Nat /\ log[i].bytes \in Nat
        BY <2>1 DEF Record
    <2> QED
        BY <2>1, <2>2 DEF End
<1>4. ASSUME NEW k \in 1..Len(delivered)
      PROVE  delivered[k] = NoRecord \/ delivered[k] \in 1..Len(log)
    <2>1. delivered[k] \in 0..Len(log)
        BY <1>1, ElementOfSeq
    <2> QED
        BY <1>2, <2>1 DEF NoRecord
<1> QED
    BY <1>1, <1>2, <1>3, <1>4

LEMMA WriterStepOrdered ==
    ASSUME InOrder, WriterStep
    PROVE  LogOrdered' /\ ReaderPast' /\ CacheInFile' /\ RecordsInOrder'
<1>1. WellTyped /\ LogOrdered /\ ReaderPast /\ CacheInFile /\ RecordsInOrder
    BY DEF InOrder
<1>2. UNCHANGED <<dwBlockIndex, dwOffset, dwRealSize, from, delivered>> /\ Place' = Place
    BY DEF WriterStep, readerVars, Place
<1>3. CASE \E r \in Record, offset \in Nat :
               Appended(r, offset) /\ 0 < r.len /\ r.bytes <= r.len
    <2>1. PICK r \in Record, offset \in Nat :
              Appended(r, offset) /\ 0 < r.len /\ r.bytes <= r.len
        BY <1>3
    <2>0. PICK n \in Nat : n = Len(log)
        BY <1>1, Numbers
    <2>2. /\ n \in Nat /\ Len(log') = n + 1
          /\ \A i \in 1..n : log'[i] = log[i]
          /\ log'[n + 1] = r
          /\ \A i \in 1..n : returned'[i] = returned[i]
          /\ returned'[n + 1] = offset
        BY <1>1, <2>0, <2>1, AppendedLog
    <2>3. /\ size' \in Nat /\ size <= size' /\ size <= offset /\ size <= r.at
          /\ 0 < r.bytes => r.at + r.bytes = size'
        BY <2>1 DEF Appended
    <2>4. r.at \in Nat /\ r.bytes \in Nat
        BY <2>1 DEF Record
    <2>5. \A i \in 1..n : There(i)' = There(i) /\ End(i)' = End(i)
        BY <2>2 DEF There, End
    <2>6. There(n + 1)' => End(n + 1)' = size'
        BY <2>2, <2>3 DEF There, End
    <2>7. \A i \in 1..n : There(i) => End(i) <= size
        BY <1>1, <2>0 DEF LogOrdered
    <2>8. \A i \in 1..n : End(i) \in Nat
        BY <1>1, <2>0, Numbers
    <2>9. size \in Nat
        BY <1>1, Numbers
    <2>10. \A i \in 1..Len(log') : i \in 1..n \/ i = n + 1
        BY <2>2
    <2>11. LogOrdered'
        <3>1. ASSUME NEW i \in 1..Len(log') PROVE 0 < log'[i].len /\ log'[i].bytes <= log'[i].len
            BY <1>1, <2>0, <2>1, <2>2, <2>10 DEF LogOrdered
        <3>2. ASSUME NEW i \in 1..Len(log'), There(i)' PROVE End(i)' <= size'
            <4>1. CASE i \in 1..n
                BY <2>3, <2>5, <2>7, <2>8, <2>9, <3>2, <4>1
            <4>2. CASE i = n + 1
                BY <2>3, <2>6, <3>2, <4>2
            <4> QED
                BY <2>10, <4>1, <4>2
        <3>3. ASSUME NEW i \in 1..Len(log'), NEW j \in 1..Len(log'), i < j, There(i)'
              PROVE  End(i)' <= returned'[j] /\ End(i)' <= log'[j].at
            <4>1. i \in 1..n /\ There(i) /\ End(i)' = End(i)
                BY <2>2, <2>5, <3>3
            <4>2. CASE j \in 1..n
                BY <1>1, <2>0, <2>2, <3>3, <4>1, <4>2 DEF LogOrdered
            <4>3. CASE j = n + 1
                BY <2>1, <2>2, <2>3, <2>4, <2>7, <2>8, <2>9, <4>1, <4>3
            <4> QED
                BY <2>10, <4>2, <4>3
        <3> QED
            BY <3>1, <3>2, <3>3 DEF LogOrdered
    <2>12. \A k \in 1..Len(delivered) : delivered[k] = NoRecord \/ delivered[k] \in 1..n
        BY <1>1, <2>0, Numbers
    <2>13. ReaderPast'
        <3>1. 1 <= from' /\ (from' = 1 \/ from' <= Len(log'))
            BY <1>1, <1>2, <2>0, <2>2, Numbers DEF ReaderPast
        <3>2. ASSUME NEW i \in 1..Len(log'), i < from', There(i)' PROVE End(i)' <= Place'
            <4>1. i \in 1..n
                BY <1>1, <1>2, <2>0, <2>2, <3>2, Numbers DEF ReaderPast
            <4> QED
                BY <1>1, <1>2, <2>0, <2>5, <3>2, <4>1 DEF ReaderPast
        <3>3. ASSUME NEW k \in 1..Len(delivered'), delivered'[k] # NoRecord
              PROVE  End(delivered[k])' <= Place'
            BY <1>1, <1>2, <2>5, <2>12, <3>3 DEF ReaderPast, End
        <3> QED
            BY <1>2, <3>1, <3>2, <3>3 DEF ReaderPast, End
    <2>14. CacheInFile'
        <3>1. BlockOffset(dwBlockIndex)' = BlockOffset(dwBlockIndex)
            BY <1>2 DEF BlockOffset
        <3>2. BlockOffset(dwBlockIndex) \in Nat /\ dwRealSize \in Nat
            BY <1>1, BlockOffsets, LayoutAssumption DEF WellTyped, TypeOK
        <3> QED
            BY <1>1, <1>2, <2>3, <2>9, <3>1, <3>2 DEF CacheInFile
    <2>15. RecordsInOrder'
        <3> SUFFICES ASSUME NEW k \in 1..Len(delivered), delivered[k] # NoRecord
                     PROVE  RecordInOrder(k)'
            BY <1>2 DEF RecordsInOrder, RecordInOrder
        <3>1. PICK i \in 1..n : i = delivered[k]
            BY <2>12
        <3>2. /\ log'[i] = log[i]
              /\ log[i].at \in Nat /\ log[i].len \in Nat
            BY <1>1, <2>0, <2>2, Numbers
        <3>3. LengthWritten(i)' = LengthWritten(i)
            BY <3>2 DEF LengthWritten
        <3>4. RecordInOrder(k)
            BY <1>1 DEF RecordsInOrder
        <3>5. LengthWritten(i) => log[i].at + log[i].len <= size'
            BY <2>3, <2>9, <3>1, <3>2, <3>4 DEF RecordInOrder
        <3> QED
            BY <1>2, <3>1, <3>2, <3>3, <3>4, <3>5 DEF RecordInOrder, LengthWritten
    <2> QED
        BY <2>11, <2>13, <2>14, <2>15
<1>4. CASE UNCHANGED <<size, heads, log, returned>>
    BY <1>1, <1>2, <1>4 DEF LogOrdered, ReaderPast, CacheInFile, BlockOffset, RecordsInOrder,
                            RecordInOrder, LengthWritten, There, End
<1> QED
    BY <1>3, <1>4 DEF WriterStep

(* A step of Next that gives nothing to the program does not take the      *)
(* reader back.                                                            *)
LEMMA ReaderAdvances ==
    ASSUME WellTyped,
           \/ CallNext \/ ReadNextBlock \/ CheckGrowth \/ ReloadBlock \/ LoadBlock
           \/ SkipBlock \/ NextThrows \/ UNCHANGED vars
    PROVE  Place' \in Nat /\ Place <= Place' /\ UNCHANGED <<writerVars, from, delivered>>
<1> DEFINE block == BlockSize * dwBlockIndex
<1>1. dwBlockIndex \in Nat /\ dwOffset \in 0..BlockSize /\ block \in Nat
    BY BlockOffsets DEF WellTyped, TypeOK
<1>0. BlockSize * (dwBlockIndex + 1) = block + BlockSize
    BY <1>1, BlockOffsets
<1>2. Place = DataOffset + block + dwOffset
    BY DEF Place
<1> HIDE DEF block
<1>3. ASSUME dwBlockIndex' = dwBlockIndex, dwOffset' \in dwOffset..BlockSize
      PROVE  Place' \in Nat /\ Place <= Place'
    <2>1. PICK offset \in Nat : offset = dwOffset' /\ dwOffset <= offset
        BY <1>1, <1>3, LayoutAssumption
    <2>2. Place' = DataOffset + block + offset
        BY <1>3, <2>1 DEF Place, block
    <2>3. /\ DataOffset \in Nat /\ block \in Nat /\ dwOffset \in Nat
          /\ dwOffset <= offset
        BY <1>1, <2>1, LayoutAssumption
    <2> QED
        BY <1>2, <2>2, <2>3
<1>4. dwOffset \in dwOffset..BlockSize /\ BlockSize \in dwOffset..BlockSize
    BY <1>1, LayoutAssumption
<1>5. CASE CallNext \/ CheckGrowth \/ ReloadBlock \/ NextThrows \/ UNCHANGED vars
    <2>1. UNCHANGED <<writerVars, dwBlockIndex, dwOffset, from, delivered>>
        BY <1>5 DEF CallNext, CheckGrowth, ReloadBlock, NextThrows, vars, writerVars
    <2> QED
        BY <1>3, <1>4, <2>1
<1>6. CASE SkipBlock
    <2>1. dwOffset' = BlockSize /\ UNCHANGED <<writerVars, dwBlockIndex, from, delivered>>
        BY <1>6 DEF SkipBlock
    <2> QED
        BY <1>3, <1>4, <2>1
<1>7. CASE LoadBlock
    <2> DEFINE found == IF dwOffset < BLOCKHEAD_SIZE THEN BLOCKHEAD_SIZE ELSE dwOffset
    <2>1. /\ TakeBlock(dwBlockIndex, found)
          /\ UNCHANGED <<writerVars, dwBlockIndex, from, delivered>>
        BY <1>7 DEF LoadBlock
    <2>2. found \in 0..BlockSize /\ found \in dwOffset..BlockSize
        BY <1>1, LayoutAssumption
    <2> HIDE DEF found
    <2>3. dwOffset' \in {dwOffset, found, BlockSize}
        BY <1>1, <2>1, <2>2, TakeBlockTyped
    <2>4. dwOffset' \in dwOffset..BlockSize
        BY <1>4, <2>2, <2>3
    <2> QED
        BY <1>3, <2>1, <2>4
<1>8. CASE ReadNextBlock
    <2>1. /\ dwBlockIndex' = dwBlockIndex + 1 /\ dwOffset >= BlockSize
          /\ TakeBlock(dwBlockIndex + 1, BLOCKHEAD_SIZE)
          /\ UNCHANGED <<writerVars, from, delivered>>
        BY <1>8 DEF ReadNextBlock
    <2>2. BLOCKHEAD_SIZE \in 0..BlockSize /\ dwBlockIndex + 1 \in Nat
        BY <1>1, LayoutAssumption
    <2>3. dwOffset' \in 0..BlockSize
        BY <2>1, <2>2, TakeBlockTyped
    <2>4. PICK offset \in Nat : offset = dwOffset'
        BY <2>3, LayoutAssumption
    <2>5. Place' \in Nat /\ Place <= Place'
        <3>1. Place' = DataOffset + BlockSize * (dwBlockIndex + 1) + offset
            BY <2>1, <2>4 DEF Place
        <3>2. /\ DataOffset \in Nat /\ BlockSize \in Nat /\ dwOffset \in Nat
              /\ dwOffset <= BlockSize
            BY <1>1, LayoutAssumption
        <3>3. Place' = DataOffset + (block + BlockSize) + offset
            BY <1>0, <3>1
        <3> QED
            BY <1>1, <1>2, <3>2, <3>3
    <2> QED
        BY <2>1, <2>5
<1> QED
    BY <1>5, <1>6, <1>7, <1>8

LEMMA AvailableInFile ==
    ASSUME WellTyped, NEW index \in Nat, 0 < Available(index)
    PROVE  BlockOffset(index) + Available(index) <= size
<1>1. BlockOffset(index) \in Nat
    BY BlockOffsets
<1> QED
    BY <1>1, LayoutAssumption DEF WellTyped, TypeOK, Available, Smaller

LEMMA CacheStep ==
    ASSUME WellTyped, CacheInFile,
           \/ GetIterator \/ CallNext \/ ReadNextBlock \/ CheckGrowth \/ ReloadBlock
           \/ LoadBlock \/ Deliver \/ SkipBlock \/ NextThrows \/ UNCHANGED vars
    PROVE  CacheInFile'
<1>1. dwBlockIndex \in Nat /\ size \in Nat
    BY DEF WellTyped, TypeOK
<1>2. ASSUME NEW index \in Nat, dwBlockIndex' = index, dwRealSize' = Available(index),
             size' = size
      PROVE  CacheInFile'
    <2>1. BlockOffset(dwBlockIndex)' = BlockOffset(index)
        BY <1>2 DEF BlockOffset
    <2> QED
        BY <1>2, <2>1, AvailableInFile DEF CacheInFile
<1>3. CASE ReadNextBlock
    <2>1. PICK index \in Nat : index = dwBlockIndex + 1
        BY <1>1
    <2>2. TakeBlock(index, BLOCKHEAD_SIZE) /\ dwBlockIndex' = index /\ size' = size
        BY <1>3, <2>1 DEF ReadNextBlock, writerVars
    <2>3. dwRealSize' = Available(index)
        BY <2>2, Zenon DEF TakeBlock
    <2> QED
        BY <1>2, <2>2, <2>3
<1>4. CASE LoadBlock \/ ReloadBlock
    <2>1. /\ dwBlockIndex' = dwBlockIndex
          /\ dwRealSize' = Available(dwBlockIndex) /\ size' = size
        BY <1>4 DEF LoadBlock, ReloadBlock, TakeBlock, writerVars
    <2> QED
        BY <1>1, <1>2, <2>1
<1>5. CASE GetIterator
    BY <1>5 DEF GetIterator, CacheInFile
<1>6. CASE CallNext \/ CheckGrowth \/ Deliver \/ SkipBlock \/ NextThrows \/ UNCHANGED vars
    <2>1. UNCHANGED <<size, dwBlockIndex, dwRealSize>>
        BY <1>6 DEF CallNext, CheckGrowth, Deliver, SkipBlock, NextThrows, vars, writerVars
    <2> QED
        BY <2>1 DEF CacheInFile, BlockOffset
<1> QED
    BY <1>3, <1>4, <1>5, <1>6

LEMMA AdvanceOrdered ==
    ASSUME InOrder, Place' \in Nat, Place <= Place', UNCHANGED <<writerVars, from, delivered>>
    PROVE  LogOrdered' /\ ReaderPast' /\ RecordsInOrder'
<1>1. WellTyped /\ LogOrdered /\ ReaderPast /\ RecordsInOrder
    BY DEF InOrder
<1>2. UNCHANGED <<size, log, returned, from, delivered>>
    BY DEF writerVars
<1>3. Place \in Nat
    BY <1>1, PlaceIsNatural
<1>4. LogOrdered' /\ RecordsInOrder'
    BY <1>1, <1>2 DEF LogOrdered, RecordsInOrder, RecordInOrder, LengthWritten, There, End
<1>5. \A i \in 1..Len(log) : End(i) \in Nat /\ End(i)' = End(i) /\ There(i)' = There(i)
    BY <1>1, <1>2, Numbers DEF End, There
<1>6. \A k \in 1..Len(delivered) : delivered[k] = NoRecord \/ delivered[k] \in 1..Len(log)
    BY <1>1, Numbers
<1>7. ReaderPast'
    BY <1>1, <1>2, <1>3, <1>5, <1>6 DEF ReaderPast, End
<1> QED
    BY <1>4, <1>7

LEMMA OpenOrdered ==
    ASSUME InOrder, GetIterator
    PROVE  LogOrdered' /\ ReaderPast' /\ RecordsInOrder'
<1>1. WellTyped /\ LogOrdered /\ ReaderPast
    BY DEF InOrder
<1>2. UNCHANGED <<size, log, returned>> /\ delivered' = <<>>
    BY DEF GetIterator, writerVars
<1>3. from' = 1 \/ (from' \in 1..Len(log) /\ Place' = returned[from'])
    BY <1>1, IteratorOpens
<1>4. Len(delivered') = 0
    BY <1>2, EmptySeq
<1>5. LogOrdered' /\ RecordsInOrder'
    BY <1>1, <1>2, <1>4 DEF LogOrdered, RecordsInOrder, There, End
<1>6. ASSUME NEW i \in 1..Len(log), i < from', There(i) PROVE End(i) <= Place'
    <2>1. from' \in 1..Len(log) /\ Place' = returned[from']
        BY <1>3, <1>6, <1>1, Numbers
    <2> QED
        BY <1>1, <1>6, <2>1 DEF LogOrdered
<1>7. ReaderPast'
    BY <1>1, <1>2, <1>3, <1>4, <1>6, Numbers DEF ReaderPast, There, End
<1> QED
    BY <1>5, <1>7

(* Where a reader below 4 GiB stands is where the file has what it sees. *)
LEMMA HereIsPlace ==
    ASSUME WellTyped, Fits
    PROVE  Here = Place /\ BlockOffset(dwBlockIndex) + dwOffset = Place
<1> DEFINE block == BlockSize * dwBlockIndex
<1>1. dwBlockIndex \in Nat /\ dwOffset \in Nat /\ block \in Nat /\ Place \in Nat
    BY BlockOffsets, PlaceIsNatural, LayoutAssumption DEF WellTyped, TypeOK
<1>2. Place = DataOffset + block + dwOffset
    BY DEF Place
<1> HIDE DEF block
<1>3. DataOffset + block \in Nat /\ DataOffset + block < OFFSET_SPAN
    BY <1>1, <1>2, LayoutAssumption DEF Fits
<1>4. BlockOffset(dwBlockIndex) = DataOffset + block
    BY <1>3, OffsetsAreNatural DEF BlockOffset, block
<1> QED
    BY <1>1, <1>2, <1>4 DEF Here

LEMMA DeliverOrdered ==
    ASSUME InOrder, Fits, Deliver
    PROVE  LogOrdered' /\ ReaderPast' /\ RecordsInOrder'
<1>1. WellTyped /\ LogOrdered /\ ReaderPast /\ CacheInFile /\ RecordsInOrder
    BY DEF InOrder
<1>2. UNCHANGED <<size, log, returned, dwBlockIndex, from>> /\ dwOffset < dwRealSize
    BY DEF Deliver, writerVars
<1>3. PICK i \in 0..Len(log), length \in Nat :
          /\ delivered' = Append(delivered, i)
          /\ dwOffset' = dwOffset + length /\ dwOffset' \in 0..BlockSize
          /\ length <= dwRealSize - dwOffset
          /\ i # NoRecord => /\ i \in 1..Len(log) /\ log[i] \in Record
                             /\ log[i].at = Here /\ log[i].bytes > 0
                             /\ LengthWritten(i) => length = log[i].len
                             /\ ~LengthWritten(i) => log[i].bytes < length
    BY <1>1, Delivery
<1>4. Place \in Nat /\ dwOffset \in Nat /\ dwRealSize \in Nat
    BY <1>1, PlaceIsNatural, LayoutAssumption DEF WellTyped, TypeOK
<1>5. Place' = Place + length
    <2> DEFINE block == BlockSize * dwBlockIndex
    <2>1. block \in Nat
        BY <1>1, BlockOffsets DEF WellTyped, TypeOK
    <2>2. Place = DataOffset + block + dwOffset /\ Place' = DataOffset + block + dwOffset'
        BY <1>2 DEF Place
    <2> HIDE DEF block
    <2> QED
        BY <1>3, <1>4, <2>1, <2>2, LayoutAssumption
<1>6. Place + length <= size
    <2>1. BlockOffset(dwBlockIndex) + dwRealSize <= size
        BY <1>1, <1>2, <1>4 DEF CacheInFile
    <2>2. BlockOffset(dwBlockIndex) + dwOffset = Place /\ size \in Nat
        BY <1>1, HereIsPlace, Numbers
    <2>3. BlockOffset(dwBlockIndex) \in Nat
        BY <1>1, BlockOffsets DEF WellTyped, TypeOK
    <2> QED
        BY <1>3, <1>4, <2>1, <2>2, <2>3
<1>7. i # NoRecord => /\ i \in 1..Len(log) /\ log[i].at = Place /\ There(i)
                      /\ Place < End(i) /\ End(i) <= Place'
                      /\ LengthWritten(i) => log[i].at + log[i].len <= size
    <2> SUFFICES ASSUME i # NoRecord
                 PROVE  /\ i \in 1..Len(log) /\ log[i].at = Place /\ There(i)
                        /\ Place < End(i) /\ End(i) <= Place'
                        /\ LengthWritten(i) => log[i].at + log[i].len <= size
        OBVIOUS
    <2>1. i \in 1..Len(log) /\ log[i].at = Place
        BY <1>1, <1>3, HereIsPlace
    <2>2. /\ log[i].bytes \in Nat \ {0} /\ log[i].len \in Nat /\ log[i].bytes <= log[i].len
        BY <1>1, <1>3, <2>1 DEF LogOrdered, Record
    <2>3. log[i].bytes <= length
        BY <1>3, <2>2
    <2> QED
        BY <1>3, <1>4, <1>5, <1>6, <2>1, <2>2, <2>3 DEF There, End
<1> DEFINE n == Len(delivered)
<1>8. /\ Len(delivered') = n + 1 /\ n \in Nat
      /\ \A k \in 1..n : /\ delivered'[k] = delivered[k]
                         /\ delivered[k] = NoRecord \/ delivered[k] \in 1..Len(log)
      /\ delivered'[n + 1] = i
    <2>1. delivered \in Seq(0..Len(log))
        BY <1>1 DEF WellTyped, TypeOK
    <2> QED
        BY <1>1, <1>3, <2>1, AppendProperties, Numbers
<1>9. \A j \in 1..Len(log) : End(j) \in Nat /\ End(j)' = End(j) /\ There(j)' = There(j)
    BY <1>1, <1>2, Numbers DEF End, There
<1>10. i # NoRecord => from <= i
    <2>1. from \in Nat /\ (i \in 1..Len(log) /\ i < from /\ There(i) => End(i) <= Place)
        BY <1>1, Numbers DEF ReaderPast
    <2> QED
        BY <1>1, <1>4, <1>7, <1>9, <2>1, Numbers
<1>11. ASSUME NEW k \in 1..n, i # NoRecord PROVE delivered[k] < i
    <2>0. CASE delivered[k] = NoRecord
        BY <1>1, <1>7, <1>11, <2>0, Numbers DEF NoRecord
    <2>1. CASE delivered[k] # NoRecord
        <3>1. PICK d \in 1..Len(log) : d = delivered[k]
            BY <1>8, <2>1
        <3>2. End(d) <= Place
            BY <1>1, <2>1, <3>1 DEF ReaderPast
        <3>3. log[d].at \in Nat /\ log[d].at <= End(d) /\ End(d) \in Nat /\ Len(log) \in Nat
            BY <1>1, Numbers DEF End
        <3>4. d # i
            BY <1>4, <1>7, <1>9, <1>11, <3>2
        <3>5. i < d => End(i) <= log[d].at
            BY <1>1, <1>7, <1>11 DEF LogOrdered
        <3>6. ~(i < d)
            BY <1>4, <1>7, <1>9, <1>11, <3>2, <3>3, <3>5
        <3> QED
            BY <1>7, <1>11, <3>1, <3>3, <3>4, <3>6
    <2> QED
        BY <2>0, <2>1
<1>12. LogOrdered'
    BY <1>1, <1>2 DEF LogOrdered, There, End
<1> HIDE DEF n
<1>13. \A k \in 1..Len(delivered') : k \in 1..n \/ k = n + 1
    BY <1>8
<1>14. ReaderPast'
    <2>1. 1 <= from' /\ (from' = 1 \/ from' <= Len(log'))
        BY <1>1, <1>2 DEF ReaderPast
    <2>2. ASSUME NEW j \in 1..Len(log'), j < from', There(j)' PROVE End(j)' <= Place'
        <3>1. j \in 1..Len(log) /\ End(j)' = End(j) /\ End(j) \in Nat /\ End(j) <= Place
            BY <1>1, <1>2, <1>9, <2>2 DEF ReaderPast
        <3> QED
            BY <1>3, <1>4, <1>5, <3>1
    <2>3. ASSUME NEW k \in 1..Len(delivered'), delivered'[k] # NoRecord
          PROVE  End(delivered[k])' <= Place'
        <3>1. CASE k \in 1..n
            <4>1. PICK d \in 1..Len(log) : d = delivered[k] /\ d = delivered'[k]
                BY <1>8, <2>3, <3>1
            <4>2. End(d) <= Place /\ End(d) \in Nat /\ End(d)' = End(d)
                BY <1>1, <1>9, <2>3, <3>1, <4>1 DEF ReaderPast, n
            <4>3. End(d)' <= Place'
                BY <1>3, <1>4, <1>5, <4>2
            <4> QED
                BY <4>1, <4>3 DEF End
        <3>2. CASE k = n + 1
            <4>1. i # NoRecord /\ delivered'[k] = i
                BY <1>8, <2>3, <3>2
            <4>2. End(i)' <= Place'
                BY <1>7, <1>9, <4>1
            <4> QED
                BY <4>1, <4>2 DEF End
        <3> QED
            BY <1>13, <3>1, <3>2
    <2> QED
        BY <2>1, <2>2, <2>3 DEF ReaderPast
<1>15. RecordsInOrder'
    <2> SUFFICES ASSUME NEW k \in 1..Len(delivered'), delivered'[k] # NoRecord
                 PROVE  /\ delivered'[k] >= from
                        /\ \A j \in 1..(k - 1) : delivered'[j] < delivered'[k]
                        /\ LengthWritten(delivered'[k]) =>
                              log[delivered'[k]].at + log[delivered'[k]].len <= size
        BY <1>2 DEF RecordsInOrder, RecordInOrder, LengthWritten
    <2>1. CASE k \in 1..n
        <3>1. delivered'[k] = delivered[k]
            BY <1>8, <2>1
        <3>2. \A j \in 1..(k - 1) : j \in 1..n /\ delivered'[j] = delivered[j]
            BY <1>8, <2>1
        <3>3. RecordInOrder(k)
            BY <1>1, <2>1 DEF RecordsInOrder, n
        <3> QED
            BY <3>1, <3>2, <3>3 DEF RecordInOrder
    <2>2. CASE k = n + 1
        <3>1. delivered'[k] = i /\ i # NoRecord
            BY <1>8, <2>2
        <3>2. \A j \in 1..(k - 1) : j \in 1..n /\ delivered'[j] = delivered[j]
            BY <1>8, <2>2
        <3>3. from \in Nat /\ Len(log) \in Nat
            BY <1>1, Numbers
        <3>4. i >= from
            BY <1>7, <1>10, <3>1, <3>3
        <3> QED
            BY <1>7, <1>11, <3>1, <3>2, <3>4
    <2> QED
        BY <1>13, <2>1, <2>2
<1> QED
    BY <1>12, <1>14, <1>15

LEMMA InOrderInit == Init => InOrder
<1> SUFFICES ASSUME Init PROVE InOrder
    OBVIOUS
<1>1. WellTyped
    BY InitTyped
<1>2. Len(log) = 0 /\ Len(delivered) = 0 /\ from = 1
    BY EmptySeq DEF Init
<1>3. dwRealSize = 0
    BY DEF Init
<1> QED
    BY <1>1, <1>2, <1>3 DEF InOrder, LogOrdered, ReaderPast, CacheInFile, RecordsInOrder

LEMMA InOrderStep == InOrder /\ Fits /\ [Next]_vars => InOrder'
<1> SUFFICES ASSUME InOrder, Fits, [Next]_vars PROVE InOrder'
    OBVIOUS
<1>1. WellTyped /\ CacheInFile
    BY DEF InOrder
<1>2. WellTyped'
    BY <1>1, StepTyped
<1>3. ASSUME NEW payload \in Sizes, Write(payload) PROVE InOrder'
    BY <1>1, <1>2, <1>3, WriteIsWriterStep, WriterStepOrdered DEF InOrder
<1>4. CASE GetIterator
    BY <1>1, <1>2, <1>4, CacheStep, OpenOrdered DEF InOrder
<1>5. CASE Deliver
    BY <1>1, <1>2, <1>5, CacheStep, DeliverOrdered DEF InOrder
<1>6. CASE \/ CallNext \/ ReadNextBlock \/ CheckGrowth \/ ReloadBlock \/ LoadBlock
           \/ SkipBlock \/ NextThrows \/ UNCHANGED vars
    <2>1. Place' \in Nat /\ Place <= Place' /\ UNCHANGED <<writerVars, from, delivered>>
        BY <1>1, <1>6, ReaderAdvances
    <2>2. CacheInFile'
        BY <1>1, <1>6, CacheStep
    <2> QED
        BY <1>2, <2>1, <2>2, AdvanceOrdered DEF InOrder
<1> QED
    BY <1>3, <1>4, <1>5, <1>6 DEF Next

-----------------------------------------------------------------------------
(* The layout of a sound file. *)

LEMMA Multiples ==
    ASSUME NEW x \in Nat, NEW y \in Nat, x < y
    PROVE  BlockSize * x + BlockSize <= BlockSize * y
<1>1. BlockSize \in Nat
    BY LayoutAssumption
<1>2. PICK z \in Nat : y = x + 1 + z
    <2>1. y - x - 1 \in Nat /\ y = x + 1 + (y - x - 1)
        OBVIOUS
    <2> QED
        BY <2>1
<1>3. BlockSize * y = BlockSize * x + BlockSize + BlockSize * z
    BY <1>1, <1>2
<1>4. BlockSize * x \in Nat /\ BlockSize * z \in Nat
    BY <1>1
<1> QED
    BY <1>1, <1>3, <1>4

LEMMA Remainders ==
    ASSUME NEW q \in Nat, NEW m \in 0..(BlockSize - 1)
    PROVE  (BlockSize * q + m) % BlockSize = m
<1>1. BlockSize \in Nat /\ BlockSize * q \in Nat /\ m \in Nat /\ m < BlockSize
    BY BlockOffsets, LayoutAssumption
<1> DEFINE a == BlockSize * q + m
<1>2. a \in Nat
    BY <1>1
<1>3. PICK d \in Nat, r \in Nat :
        d = a \div BlockSize /\ r = a % BlockSize /\ r < BlockSize /\ a = BlockSize * d + r
    <2> HIDE DEF a
    <2>1. /\ a \div BlockSize \in Nat /\ a % BlockSize \in Nat /\ a % BlockSize < BlockSize
          /\ a = BlockSize * (a \div BlockSize) + (a % BlockSize)
        BY <1>1, <1>2, Division
    <2> QED
        BY <2>1
<1>4. BlockSize * d \in Nat /\ BlockSize * d + r = BlockSize * q + m
    BY <1>3, BlockOffsets
<1>5. d < q => BlockSize * d + BlockSize <= BlockSize * q
    BY Multiples
<1>6. q < d => BlockSize * q + BlockSize <= BlockSize * d
    BY Multiples
<1>7. d = q
    BY <1>1, <1>3, <1>4, <1>5, <1>6
<1>8. r = m
    BY <1>1, <1>4, <1>7
<1> QED
    BY <1>3, <1>8

LEMMA NoRemainder ==
    ASSUME NEW q \in Nat
    PROVE  (BlockSize * q) % BlockSize = 0
<1>1. PICK block \in Nat : block = BlockSize * q
    BY BlockOffsets
<1>2. 0 \in 0..(BlockSize - 1)
    BY LayoutAssumption
<1>3. (BlockSize * q + 0) % BlockSize = 0
    BY <1>2, Remainders
<1>4. block + 0 = block
    BY <1>1
<1> QED
    BY <1>1, <1>3, <1>4

IsStart(o) == (o - DataOffset) % BlockSize = 0

(* Between the starts of two blocks there is no other. *)
LEMMA Starts ==
    ASSUME NEW q \in Nat, NEW o \in Nat, NEW base \in Nat,
           base = DataOffset + BlockSize * q,
           base <= o, o <= base + BlockSize
    PROVE  IsStart(o) <=> (o = base \/ o = base + BlockSize)
<1>1. /\ BlockSize \in Nat /\ DataOffset \in Nat /\ BlockSize * q \in Nat /\ 0 < BlockSize
      /\ BlockSize * (q + 1) = BlockSize * q + BlockSize
    BY BlockOffsets, LayoutAssumption
<1>2. PICK m \in 0..BlockSize : o = base + m
    <2>1. o - base \in 0..BlockSize /\ o = base + (o - base)
        BY <1>1
    <2> QED
        BY <2>1
<1>3. o - DataOffset = BlockSize * q + m
    BY <1>1, <1>2
<1>4. CASE m = BlockSize
    <2>1. o - DataOffset = BlockSize * (q + 1) + 0
        BY <1>1, <1>3, <1>4
    <2>2. (BlockSize * (q + 1) + 0) % BlockSize = 0
        BY <1>1, Remainders
    <2> QED
        BY <1>2, <1>4, <2>1, <2>2 DEF IsStart
<1>5. CASE m \in 0..(BlockSize - 1)
    <2>1. (BlockSize * q + m) % BlockSize = m
        BY <1>5, Remainders
    <2>2. IsStart(o) <=> m = 0
        BY <1>3, <2>1 DEF IsStart
    <2> QED
        BY <1>1, <1>2, <1>5, <2>2
<1> QED
    BY <1>1, <1>4, <1>5

StartsBefore(s) == {o \in DataOffset..s : IsStart(o)} \ {s}

LEMMA StartsGrow ==
    ASSUME NEW s \in Nat, NEW t \in Nat, DataOffset <= s, s <= t, NEW new,
           \A o \in new : o \in Nat /\ s <= o /\ o < t /\ IsStart(o),
           \A o \in Nat : s <= o /\ o < t /\ IsStart(o) => o \in new
    PROVE  StartsBefore(s) \cup new = StartsBefore(t)
<1>1. DataOffset \in Nat
    BY LayoutAssumption
<1>2. ASSUME NEW o
      PROVE  o \in StartsBefore(s) \cup new <=> o \in StartsBefore(t)
    <2>1. o \in StartsBefore(t) <=> o \in Nat /\ DataOffset <= o /\ o < t /\ IsStart(o)
        BY <1>1 DEF StartsBefore
    <2>2. o \in StartsBefore(s) <=> o \in Nat /\ DataOffset <= o /\ o < s /\ IsStart(o)
        BY <1>1 DEF StartsBefore
    <2>3. CASE o \in new
        BY <1>1, <2>1, <2>3
    <2>4. CASE o \notin new
        BY <1>1, <2>1, <2>2, <2>4
    <2> QED
        BY <2>3, <2>4
<1> QED
    BY <1>2

InBlock(r) == ((r.at - DataOffset) % BlockSize) + r.len <= BlockSize
AfterHead(r) ==
    /\ DataOffset <= r.at
    /\ BLOCKHEAD_SIZE <= (r.at - DataOffset) % BlockSize

SoundRecord(r) == InBlock(r) /\ AfterHead(r) /\ Whole(r) /\ LOG_OVERHEAD <= r.len

(* A record starts where the file ended, or behind the head of a block     *)
(* that starts there or later.                                             *)
Follows(end, at) ==
    \/ at = end
    \/ IsStart(at - BLOCKHEAD_SIZE) /\ end <= at - BLOCKHEAD_SIZE

(* The writer of a sound file stands at its end; its records are whole,    *)
(* lie behind the heads of their blocks and leave no gap but padding, and  *)
(* every head is followed by a record.                                     *)
SoundFile == sound =>
    /\ ~appending /\ position = size
    /\ HeadsStartBlocks
    /\ \A i \in 1..Len(log) : SoundRecord(log[i])
    /\ \A i, j \in 1..Len(log) : j = i + 1 => Follows(End(i), log[j].at)
    /\ Len(log) = 0 => size = DataOffset
    /\ \A i \in 1..Len(log) : i = Len(log) => size = log[i].at + log[i].len
    /\ \A o \in heads : \E i \in 1..Len(log) : log[i].at = o + BLOCKHEAD_SIZE

LEMMA Layout ==
    HeadsStartBlocks <=>
        (sound => /\ heads = StartsBefore(size)
                  /\ \A i \in 1..Len(log) : InBlock(log[i]) /\ returned[i] = log[i].at)
BY DEF HeadsStartBlocks, BlockStarts, StartsBefore, IsStart, InBlock

(* A record that lies behind the head of its block does not end in a head. *)
LEMMA EndBehindHead ==
    ASSUME NEW r \in Record, InBlock(r), AfterHead(r), 0 < r.len,
           NEW end \in Nat, end = r.at + r.len
    PROVE  (end - DataOffset) % BlockSize # 0 => BLOCKHEAD_SIZE < (end - DataOffset) % BlockSize
<1>1. /\ DataOffset \in Nat /\ BlockSize \in Nat /\ BLOCKHEAD_SIZE \in Nat
      /\ BLOCKHEAD_SIZE < BlockSize
    BY LayoutAssumption
<1>2. PICK at \in Nat, len \in Nat : at = r.at - DataOffset /\ len = r.len /\ 0 < len
    BY <1>1 DEF AfterHead, Record
<1>3. end - DataOffset = at + len
    BY <1>1, <1>2 DEF Record
<1>4. PICK q \in Nat, k \in 0..(BlockSize - 1) :
        at = BlockSize * q + k /\ at % BlockSize = k
    BY <1>2, Division
<1>5. k \in Nat /\ BLOCKHEAD_SIZE <= k /\ k + len <= BlockSize
    BY <1>1, <1>2, <1>4 DEF InBlock, AfterHead
<1>6. PICK block \in Nat : block = BlockSize * q
    BY BlockOffsets
<1>7. CASE k + len = BlockSize
    <2>1. BlockSize * (q + 1) = block + BlockSize /\ q + 1 \in Nat
        BY <1>6, BlockOffsets
    <2>2. at + len = block + (k + len)
        BY <1>4, <1>5, <1>6
    <2>3. at + len = BlockSize * (q + 1)
        BY <1>7, <2>1, <2>2
    <2>4. (at + len) % BlockSize = 0
        BY <2>1, <2>3, NoRemainder
    <2> QED
        BY <1>3, <2>4
<1>8. CASE k + len < BlockSize
    <2>1. k + len \in 0..(BlockSize - 1)
        BY <1>1, <1>5, <1>8
    <2>2. at + len = BlockSize * q + (k + len)
        BY <1>4, <1>5, <1>6
    <2>3. (at + len) % BlockSize = k + len
        BY <2>1, <2>2, Remainders
    <2> QED
        BY <1>1, <1>2, <1>3, <1>5, <2>3
<1> QED
    BY <1>1, <1>5, <1>7, <1>8

LEMMA RecordInBlock ==
    ASSUME NEW q \in Nat, NEW m \in 0..(BlockSize - 1), NEW real \in Nat, m + real <= BlockSize,
           BLOCKHEAD_SIZE <= m,
           NEW r \in Record, r.at = DataOffset + BlockSize * q + m, r.len = real
    PROVE  InBlock(r) /\ AfterHead(r)
<1>1. BlockSize * q \in Nat /\ DataOffset \in Nat /\ BlockSize \in Nat
    BY BlockOffsets, LayoutAssumption
<1>2. r.at - DataOffset = BlockSize * q + m
    <2>1. PICK block \in Nat : block = BlockSize * q
        BY <1>1
    <2>2. r.at - DataOffset = block + m
        BY <1>1, <2>1
    <2> QED
        BY <2>1, <2>2
<1>3. (r.at - DataOffset) % BlockSize = m
    BY <1>2, Remainders
<1>4. DataOffset <= r.at
    <2>1. PICK block \in Nat : block = BlockSize * q
        BY <1>1
    <2>2. r.at = DataOffset + block + m /\ m \in Nat
        BY <1>1, <2>1
    <2> QED
        BY <1>1, <2>2
<1> QED
    BY <1>3, <1>4 DEF InBlock, AfterHead

(* Where a Write to a sound file puts a record: at the start of a block,   *)
(* behind padding at the start of the next one, or in the block the file   *)
(* ends in.                                                                *)
LEMMA SoundWrite ==
    ASSUME WellTyped, sound, ~appending, position = size,
           heads = StartsBefore(size),
           (size - DataOffset) % BlockSize # 0 =>
               BLOCKHEAD_SIZE < (size - DataOffset) % BlockSize,
           NEW real \in Nat \ {0}, Written(real, HeadSize(real) + real),
           LOG_OVERHEAD <= real, HeadSize(real) + real <= BlockSize
    PROVE  /\ heads' = StartsBefore(size')
           /\ \E r \in Record : /\ SoundRecord(r)
                                /\ Follows(size, r.at)
                                /\ size' = r.at + r.len
                                /\ \A o \in heads' \ heads : r.at = o + BLOCKHEAD_SIZE
                                /\ log' = Append(log, r)
                                /\ returned' = Append(returned, r.at)
<1>1. /\ size \in Nat /\ DataOffset \in Nat /\ DataOffset <= size
      /\ BlockSize \in Nat /\ BLOCKHEAD_SIZE \in Nat \ {0} /\ BLOCKHEAD_SIZE < BlockSize
    BY LayoutAssumption DEF WellTyped, TypeOK, FileSound
<1>2. PICK q \in Nat, m \in 0..(BlockSize - 1) :
        size - DataOffset = BlockSize * q + m /\ (size - DataOffset) % BlockSize = m
    <2>1. size - DataOffset \in Nat
        BY <1>1
    <2> QED
        BY <2>1, Division
<1>3. PICK base \in Nat : base = DataOffset + BlockSize * q
    BY <1>1, BlockOffsets
<1>4. size = base + m
    <2>1. PICK block \in Nat : block = BlockSize * q
        BY BlockOffsets
    <2> QED
        BY <1>1, <1>2, <1>3, <2>1
<1>5. RemainSize = BlockSize - m
    BY <1>2 DEF RemainSize
<1>6. m \in Nat /\ m < BlockSize /\ (m # 0 => BLOCKHEAD_SIZE < m)
    BY <1>1, <1>2
<1> DEFINE Put(new, start, head) ==
        /\ heads' = heads \cup new
        /\ size' = start + head + real
        /\ \E r \in Record : /\ r.at = start + head /\ r.len = real /\ Whole(r)
                             /\ log' = Append(log, r)
                             /\ returned' = Append(returned, r.at)
<1>7. ASSUME NEW pad \in Nat, NEW head \in Nat, NEW start \in Nat,
             pad = Padding(real), head = HeadSize(real), start = size + pad
      PROVE  Put(IF NewBlock(real) THEN {start} ELSE {}, start, head)
    <2>1. WrittenAt(real) = start
        BY <1>7 DEF WrittenAt, Seeked
    <2>2. PICK n \in Nat \ {0} : n = head + real /\ Written(real, n)
        <3>1. head + real \in Nat \ {0} /\ Written(real, head + real)
            BY <1>7
        <3> QED
            BY <3>1
    <2>3. size' = start + n /\ heads' = IF NewBlock(real) THEN heads \cup {start} ELSE heads
        BY <2>1, <2>2 DEF Written
    <2>4. PICK r, offset :
              /\ Appended(r, offset)
              /\ r.len = real
              /\ r.at = WrittenAt(real) + HeadSize(real)
              /\ offset = size + Padding(real) + HeadSize(real)
              /\ n = HeadSize(real) + real => r.bytes = r.len
        BY <2>2, WrittenAppends
    <2>5. r \in Record /\ log' = Append(log, r) /\ returned' = Append(returned, offset)
        BY <2>4 DEF Appended
    <2>6. r.at = start + head /\ offset = start + head
        BY <1>7, <2>1, <2>4
    <2>7. size' = start + head + real
        BY <2>2, <2>3
    <2>8. heads' = heads \cup (IF NewBlock(real) THEN {start} ELSE {})
        BY <2>3
    <2>9. Whole(r)
        BY <1>7, <2>2, <2>4 DEF Whole
    <2> QED
        BY <2>4, <2>5, <2>6, <2>7, <2>8, <2>9
<1> DEFINE Begins(new, start, head) ==
        LET end == start + head + real
        IN  /\ size <= end
            /\ \A o \in new : o \in Nat /\ size <= o /\ o < end /\ IsStart(o)
            /\ \A o \in Nat : size <= o /\ o < end /\ IsStart(o) => o \in new
            /\ \A o \in new : start + head = o + BLOCKHEAD_SIZE
            /\ Follows(size, start + head)
           Lies(start, head, p, k) ==
        /\ start + head = DataOffset + BlockSize * p + k
        /\ BLOCKHEAD_SIZE <= k /\ k + real <= BlockSize
           Done ==
        /\ heads' = StartsBefore(size')
        /\ \E r \in Record : /\ SoundRecord(r)
                             /\ Follows(size, r.at)
                             /\ size' = r.at + r.len
                             /\ \A o \in heads' \ heads : r.at = o + BLOCKHEAD_SIZE
                             /\ log' = Append(log, r)
                             /\ returned' = Append(returned, r.at)
<1>8. ASSUME NEW new, NEW start \in Nat, NEW head \in Nat, NEW p \in Nat,
             NEW k \in 0..(BlockSize - 1),
             Put(new, start, head), Lies(start, head, p, k), Begins(new, start, head)
      PROVE  Done
    <2>1. PICK r \in Record : /\ r.at = start + head /\ r.len = real /\ Whole(r)
                              /\ log' = Append(log, r)
                              /\ returned' = Append(returned, r.at)
        BY <1>8
    <2>2. SoundRecord(r)
        BY <1>8, <2>1, RecordInBlock DEF SoundRecord
    <2>3. PICK t \in Nat : t = start + head + real
        OBVIOUS
    <2>4. StartsBefore(size) \cup new = StartsBefore(t)
        BY <1>1, <1>8, <2>3, StartsGrow
    <2>5. heads' = StartsBefore(size')
        BY <1>8, <2>3, <2>4
    <2>6. Follows(size, r.at) /\ size' = r.at + r.len
        BY <1>8, <2>1
    <2>7. \A o \in heads' \ heads : r.at = o + BLOCKHEAD_SIZE
        BY <1>8, <2>1
    <2> QED
        BY <2>1, <2>2, <2>5, <2>6, <2>7
<1> SUFFICES Done
    OBVIOUS
<1> HIDE DEF Put, Begins, Lies, Done
<1>9. \A o \in Nat : base <= o /\ o <= base + BlockSize =>
          (IsStart(o) <=> (o = base \/ o = base + BlockSize))
    BY <1>3, Starts
<1>10. CASE m = 0
    <2>1. RemainSize = BlockSize /\ NewBlock(real) /\ HeadSize(real) = BLOCKHEAD_SIZE
          /\ Padding(real) = 0
        BY <1>5, <1>10, <1>1 DEF NewBlock, HeadSize, Padding
    <2>2. Put({size}, size, BLOCKHEAD_SIZE)
        BY <1>1, <1>7, <2>1
    <2>3. size = base /\ BLOCKHEAD_SIZE + real <= BlockSize
        BY <1>4, <1>10, <2>1
    <2>4. Lies(size, BLOCKHEAD_SIZE, q, BLOCKHEAD_SIZE)
        BY <1>1, <1>3, <2>3 DEF Lies
    <2>7. IsStart(size)
        BY <1>1, <1>9, <2>3
    <2>8. Follows(size, size + BLOCKHEAD_SIZE)
        <3>1. size + BLOCKHEAD_SIZE - BLOCKHEAD_SIZE = size
            BY <1>1
        <3> QED
            BY <1>1, <2>7, <3>1 DEF Follows
    <2>5. BLOCKHEAD_SIZE \in 0..(BlockSize - 1)
        BY <1>1
    <2>6. Begins({size}, size, BLOCKHEAD_SIZE)
        BY <1>1, <1>9, <2>3, <2>7, <2>8 DEF Begins
    <2> QED
        BY <1>1, <1>8, <2>2, <2>4, <2>5, <2>6
<1>11. CASE m # 0 /\ BlockSize - m < real
    <2>1. NewBlock(real) /\ HeadSize(real) = BLOCKHEAD_SIZE /\ Padding(real) = BlockSize - m
        BY <1>5, <1>6, <1>11, <1>1 DEF NewBlock, HeadSize, Padding
    <2>2. PICK start \in Nat : start = base + BlockSize
        BY <1>1
    <2>3. start = size + (BlockSize - m) /\ size < start /\ base < size
          /\ BLOCKHEAD_SIZE + real <= BlockSize
        BY <1>1, <1>4, <1>6, <1>11, <2>1, <2>2
    <2>4. BlockSize - m \in Nat
        BY <1>1, <1>6
    <2>5. Put({start}, start, BLOCKHEAD_SIZE)
        BY <1>1, <1>7, <2>1, <2>3, <2>4
    <2>6. start = DataOffset + BlockSize * (q + 1)
        <3>1. PICK block \in Nat : block = BlockSize * q
            BY BlockOffsets
        <3>2. BlockSize * (q + 1) = block + BlockSize
            BY <3>1, BlockOffsets
        <3>3. start = DataOffset + (block + BlockSize)
            BY <1>1, <1>3, <2>2, <3>1
        <3> QED
            BY <3>2, <3>3
    <2>7. Lies(start, BLOCKHEAD_SIZE, q + 1, BLOCKHEAD_SIZE)
        BY <1>1, <2>3, <2>6 DEF Lies
    <2>8. \A o \in Nat : start <= o /\ o <= start + BlockSize =>
              (IsStart(o) <=> (o = start \/ o = start + BlockSize))
        BY <2>6, Starts
    <2>11. IsStart(start)
        BY <1>1, <2>8
    <2>12. Follows(size, start + BLOCKHEAD_SIZE)
        <3>1. start + BLOCKHEAD_SIZE - BLOCKHEAD_SIZE = start
            BY <1>1
        <3> QED
            BY <1>1, <2>3, <2>11, <3>1 DEF Follows
    <2>9. Begins({start}, start, BLOCKHEAD_SIZE)
        BY <1>1, <1>9, <2>2, <2>3, <2>8, <2>11, <2>12 DEF Begins
    <2>10. BLOCKHEAD_SIZE \in 0..(BlockSize - 1) /\ BLOCKHEAD_SIZE \in Nat /\ q + 1 \in Nat
        BY <1>1
    <2> QED
        BY <1>8, <2>5, <2>7, <2>9, <2>10
<1>12. CASE m # 0 /\ real <= BlockSize - m
    <2>1. ~NewBlock(real) /\ HeadSize(real) = 0 /\ Padding(real) = 0
        BY <1>5, <1>6, <1>12, <1>1 DEF NewBlock, HeadSize, Padding
    <2>2. Put({}, size, 0)
        BY <1>1, <1>7, <2>1
    <2>3. base < size /\ size + 0 + real <= base + BlockSize /\ m + real <= BlockSize
        BY <1>1, <1>4, <1>6, <1>12
    <2>4. Lies(size, 0, q, m)
        <3>1. size + 0 = DataOffset + BlockSize * q + m
            BY <1>1, <1>3, <1>4
        <3>2. BLOCKHEAD_SIZE <= m
            BY <1>1, <1>6, <1>12
        <3> QED
            BY <2>3, <3>1, <3>2 DEF Lies
    <2>7. Follows(size, size + 0)
        BY <1>1 DEF Follows
    <2>5. Begins({}, size, 0)
        BY <1>1, <1>9, <2>3, <2>7 DEF Begins
    <2>6. 0 \in Nat
        OBVIOUS
    <2> QED
        BY <1>1, <1>8, <2>2, <2>4, <2>5, <2>6
<1>13. m = 0 \/ (m # 0 /\ BlockSize - m < real) \/ (m # 0 /\ real <= BlockSize - m)
    BY <1>1, <1>6
<1> QED
    BY <1>10, <1>11, <1>12, <1>13

LEMMA SizeBehindHead ==
    ASSUME WellTyped, SoundFile, sound
    PROVE  (size - DataOffset) % BlockSize # 0 =>
               BLOCKHEAD_SIZE < (size - DataOffset) % BlockSize
<1>1. Len(log) \in Nat
    BY Numbers
<1>2. CASE Len(log) = 0
    <2>1. size - DataOffset = 0
        BY <1>2, LayoutAssumption DEF SoundFile
    <2>2. BlockSize * 0 = 0
        BY LayoutAssumption
    <2>3. (BlockSize * 0) % BlockSize = 0
        BY NoRemainder
    <2> QED
        BY <2>1, <2>2, <2>3
<1>3. CASE Len(log) # 0
    <2>1. PICK i \in 1..Len(log) : i = Len(log)
        BY <1>1, <1>3
    <2>2. PICK r \in Record : r = log[i]
        BY ElementOfSeq DEF WellTyped, TypeOK, Record
    <2>3. size = r.at + r.len /\ InBlock(r) /\ AfterHead(r) /\ 0 < r.len
        BY <2>1, <2>2, LayoutAssumption DEF SoundFile, SoundRecord, Record
    <2>4. PICK end \in Nat : end = size
        BY DEF WellTyped, TypeOK
    <2>5. (end - DataOffset) % BlockSize # 0 => BLOCKHEAD_SIZE < (end - DataOffset) % BlockSize
        BY <2>3, <2>4, EndBehindHead
    <2> QED
        BY <2>4, <2>5
<1> QED
    BY <1>2, <1>3

LEMMA SoundWriteStep ==
    ASSUME WellTyped, SoundFile, NEW payload \in Sizes, Write(payload), sound'
    PROVE  /\ sound /\ ~appending' /\ position' = size'
           /\ heads' = StartsBefore(size')
           /\ \E r \in Record : /\ SoundRecord(r)
                                /\ Follows(size, r.at)
                                /\ size' = r.at + r.len
                                /\ \A o \in heads' \ heads : r.at = o + BLOCKHEAD_SIZE
                                /\ log' = Append(log, r)
                                /\ returned' = Append(returned, r.at)
<1> DEFINE real == GetLogSize(payload)
           total == HeadSize(real) + real
<1>1. /\ Written(real, total) /\ sound' = (sound /\ total <= BlockSize)
      /\ UNCHANGED appending
    BY DEF Write
<1>2. sound /\ total <= BlockSize
    BY <1>1
<1>3. ~appending /\ position = size /\ heads = StartsBefore(size)
    BY <1>2, Layout DEF SoundFile
<1>4. real \in Nat \ {0} /\ LOG_OVERHEAD <= real
    BY LayoutAssumption, WriteAssumption DEF GetLogSize
<1>5. ~appending' /\ position' = size'
    BY <1>1, <1>3 DEF Written
<1> HIDE DEF real
<1> QED
    BY <1>1, <1>2, <1>3, <1>4, <1>5, SizeBehindHead, SoundWrite

LEMMA SoundStep == WellTyped /\ SoundFile /\ [Next]_vars => SoundFile'
<1> SUFFICES ASSUME WellTyped, SoundFile, [Next]_vars, sound' PROVE SoundFile'
    BY DEF SoundFile
<1>1. ASSUME NEW payload \in Sizes, Write(payload) PROVE SoundFile'
    <2>2. sound
        BY <1>1, SoundWriteStep
    <2>3. \A i \in 1..Len(log) : InBlock(log[i]) /\ returned[i] = log[i].at
        BY <2>2, Layout DEF SoundFile
    <2>5. heads' = StartsBefore(size')
        BY <1>1, SoundWriteStep
    <2>6. PICK r \in Record : /\ SoundRecord(r)
                              /\ Follows(size, r.at)
                              /\ size' = r.at + r.len
                              /\ \A o \in heads' \ heads : r.at = o + BLOCKHEAD_SIZE
                              /\ log' = Append(log, r)
                              /\ returned' = Append(returned, r.at)
        BY <1>1, SoundWriteStep
    <2>7. PICK n \in Nat : n = Len(log)
        BY Numbers
    <2>8. log \in Seq(Record) /\ returned \in Seq(Nat) /\ Len(returned) = n /\ r.at \in Nat
        BY <2>7 DEF WellTyped, TypeOK, Record
    <2>9. /\ Len(log') = n + 1 /\ log'[n + 1] = r
          /\ \A i \in 1..n : log'[i] = log[i]
        BY <2>6, <2>7, <2>8, AppendProperties
    <2>10. /\ returned'[n + 1] = r.at
           /\ \A i \in 1..n : returned'[i] = returned[i]
        BY <2>6, <2>8, AppendProperties
    <2>11. \A i \in 1..Len(log') : i \in 1..n \/ i = n + 1
        BY <2>9
    <2>12. ASSUME NEW i \in 1..Len(log')
           PROVE  SoundRecord(log'[i]) /\ returned'[i] = log'[i].at
        <3>1. CASE i \in 1..n
            BY <2>2, <2>3, <2>7, <2>9, <2>10, <3>1 DEF SoundFile
        <3>2. CASE i = n + 1
            BY <2>6, <2>9, <2>10, <3>2
        <3> QED
            BY <2>11, <3>1, <3>2
    <2>13. HeadsStartBlocks'
        BY <2>5, <2>12 DEF HeadsStartBlocks, BlockStarts, StartsBefore, IsStart, InBlock,
                           SoundRecord
    <2>14. ~appending' /\ position' = size'
        BY <1>1, SoundWriteStep
    <2>15. ASSUME NEW i \in 1..Len(log'), NEW j \in 1..Len(log'), j = i + 1
           PROVE  Follows(End(i)', log'[j].at)
        <3>1. i \in 1..n /\ End(i)' = End(i)
            <4>1. i \in 1..n
                BY <2>7, <2>9, <2>15
            <4>2. log'[i] = log[i]
                BY <2>9, <4>1
            <4> QED
                BY <4>1, <4>2 DEF End
        <3>2. CASE j \in 1..n
            BY <2>2, <2>7, <2>9, <2>15, <3>1, <3>2 DEF SoundFile
        <3>3. CASE j = n + 1
            <4>1. i = Len(log) /\ Whole(log[i]) /\ size = log[i].at + log[i].len
                BY <2>2, <2>7, <2>15, <3>1, <3>3 DEF SoundFile, SoundRecord
            <4>2. End(i) = size
                BY <4>1 DEF End, Whole
            <4> QED
                BY <2>6, <2>9, <3>1, <3>3, <4>2
        <3> QED
            BY <2>11, <3>2, <3>3
    <2>16. Len(log') # 0
           /\ \A i \in 1..Len(log') : i = Len(log') => size' = log'[i].at + log'[i].len
        BY <2>6, <2>7, <2>9
    <2>17. ASSUME NEW o \in heads'
           PROVE  \E i \in 1..Len(log') : log'[i].at = o + BLOCKHEAD_SIZE
        <3>1. CASE o \in heads
            <4>1. PICK i \in 1..n : log[i].at = o + BLOCKHEAD_SIZE
                BY <2>2, <2>7, <3>1 DEF SoundFile
            <4> QED
                BY <2>7, <2>9, <4>1
        <3>2. CASE o \notin heads
            <4>1. r.at = o + BLOCKHEAD_SIZE /\ n + 1 \in 1..Len(log')
                BY <2>6, <2>7, <2>9, <2>17, <3>2
            <4> QED
                BY <2>9, <4>1
        <3> QED
            BY <3>1, <3>2
    <2>18. \A i, j \in 1..Len(log') : j = i + 1 => Follows(End(i), log[j].at)'
        BY <2>15 DEF Follows, IsStart
    <2> QED
        BY <2>12, <2>13, <2>14, <2>16, <2>17, <2>18 DEF SoundFile
<1>2. CASE UNCHANGED writerVars
    <2>1. /\ sound /\ UNCHANGED <<size, heads, log, position, returned, appending, sound>>
        BY <1>2 DEF writerVars
    <2>2. HeadsStartBlocks'
        BY <2>1 DEF SoundFile, HeadsStartBlocks, BlockStarts
    <2>3. \A i, j \in 1..Len(log') : j = i + 1 => Follows(End(i), log[j].at)'
        BY <2>1 DEF SoundFile, Follows, IsStart, End
    <2> QED
        BY <2>1, <2>2, <2>3 DEF SoundFile, SoundRecord
<1>3. (\E payload \in Sizes : Write(payload)) \/ UNCHANGED writerVars
    BY DEF Next, GetIterator, CallNext, ReadNextBlock, CheckGrowth, ReloadBlock, LoadBlock,
           Deliver, SkipBlock, NextThrows, vars, writerVars
<1> QED
    BY <1>1, <1>2, <1>3

LEMMA SoundInit == Init => SoundFile
<1> SUFFICES ASSUME Init PROVE SoundFile
    OBVIOUS
<1>1. /\ sound = ~appending /\ size = DataOffset /\ heads = {} /\ log = <<>>
      /\ position = IF appending THEN 0 ELSE DataOffset
    BY DEF Init
<1>2. Len(log) = 0
    BY <1>1, EmptySeq
<1>3. BlockStarts \ {size} = {}
    BY <1>1, LayoutAssumption DEF BlockStarts
<1>4. sound => ~appending /\ position = size
    BY <1>1, Zenon
<1>5. HeadsStartBlocks
    BY <1>1, <1>2, <1>3 DEF HeadsStartBlocks
<1> QED
    BY <1>1, <1>2, <1>4, <1>5 DEF SoundFile

(* In a sound file a head stands at the start of every block that has      *)
(* begun and nowhere else, no record crosses the end of its block, and     *)
(* Write returned the offset of each record.                               *)
THEOREM BinlogHeadsStartBlocks == Spec => []HeadsStartBlocks
<1>1. SoundFile => HeadsStartBlocks
    BY DEF SoundFile, HeadsStartBlocks
<1>2. Init => WellTyped /\ SoundFile
    BY InitTyped, SoundInit
<1>3. WellTyped /\ SoundFile /\ [Next]_vars => WellTyped' /\ SoundFile'
    BY StepTyped, SoundStep
<1> QED
    BY <1>1, <1>2, <1>3, PTL DEF Spec

-----------------------------------------------------------------------------
(* What a reader that follows a sound file is due. *)

Base == DataOffset + BlockSize * dwBlockIndex

(* The record the reader has to deliver next. *)
NextDue == from + Len(delivered)

Ahead(place, next) == \A i \in 1..Len(log) : next <= i => place <= log[i].at

(* Behind the head of its block the reader stands at the next record, or   *)
(* there is none left in the block; at the end of the file if there is no  *)
(* next record.                                                            *)
Due(base, place, offset, next) == BLOCKHEAD_SIZE <= offset =>
    /\ next \in 1..Len(log) => log[next].at = place \/ base + BlockSize <= log[next].at
    /\ Len(log) < next => place = size

(* The cached part of a block ends where a record ends. *)
Cached(base, offset, cached) == 0 < cached =>
    /\ BLOCKHEAD_SIZE <= offset
    /\ base + cached <= size
    /\ \A i \in 1..Len(log) : End(i) <= base + cached \/ base + cached <= log[i].at

Following ==
    /\ \A k \in 1..Len(delivered) : delivered[k] = from + k - 1
    /\ Place <= size
    /\ Ahead(Place, NextDue)
    /\ Due(Base, Place, dwOffset, NextDue)
    /\ Cached(Base, dwOffset, dwRealSize)
    /\ pc = "reload" => 0 < dwRealSize

Follow == sound /\ ~overran => Following

Reading == InOrder /\ SoundFile /\ sound

LEMMA Bases ==
    ASSUME WellTyped
    PROVE  /\ Base \in Nat /\ dwOffset \in Nat /\ Place \in Nat /\ Place = Base + dwOffset
           /\ size \in Nat /\ BlockSize \in Nat /\ BLOCKHEAD_SIZE \in Nat \ {0}
           /\ BLOCKHEAD_SIZE < BlockSize /\ DataOffset \in Nat /\ dwRealSize \in Nat
           /\ dwOffset <= BlockSize /\ dwRealSize <= BlockSize
           /\ dwBlockIndex \in Nat
<1>1. /\ size \in Nat /\ BlockSize \in Nat /\ BLOCKHEAD_SIZE \in Nat \ {0}
      /\ BLOCKHEAD_SIZE < BlockSize /\ DataOffset \in Nat /\ dwRealSize \in Nat
      /\ dwOffset <= BlockSize /\ dwRealSize <= BlockSize
      /\ dwBlockIndex \in Nat /\ dwOffset \in Nat
    BY LayoutAssumption DEF WellTyped, TypeOK
<1>2. PICK block \in Nat : block = BlockSize * dwBlockIndex
    BY <1>1, BlockOffsets
<1>3. Base = DataOffset + block /\ Place = DataOffset + block + dwOffset
    BY <1>2 DEF Base, Place
<1> QED
    BY <1>1, <1>3

(* The records of a sound file. *)
LEMMA SoundRecords ==
    ASSUME Reading
    PROVE  /\ Len(log) \in Nat
           /\ \A i \in 1..Len(log) :
                 /\ log[i] \in Record /\ SoundRecord(log[i]) /\ There(i)
                 /\ log[i].at \in Nat /\ log[i].len \in Nat \ {0} /\ End(i) \in Nat
                 /\ End(i) = log[i].at + log[i].len /\ log[i].at < End(i) /\ End(i) <= size
           /\ \A i, j \in 1..Len(log) : i < j => End(i) <= log[j].at
<1>1. WellTyped /\ LogOrdered /\ SoundFile /\ sound
    BY DEF Reading, InOrder
<1>2. Len(log) \in Nat
    BY <1>1, Numbers
<1>3. ASSUME NEW i \in 1..Len(log)
      PROVE  /\ log[i] \in Record /\ SoundRecord(log[i]) /\ There(i)
             /\ log[i].at \in Nat /\ log[i].len \in Nat \ {0} /\ End(i) \in Nat
             /\ End(i) = log[i].at + log[i].len /\ log[i].at < End(i) /\ End(i) <= size
    <2>1. log[i] \in Record
        BY <1>1, ElementOfSeq DEF WellTyped, TypeOK, Record
    <2>2. SoundRecord(log[i])
        BY <1>1 DEF SoundFile
    <2>3. log[i].at \in Nat /\ log[i].len \in Nat \ {0} /\ log[i].bytes = log[i].len
        BY <1>1, <2>1, <2>2 DEF LogOrdered, Record, SoundRecord, Whole
    <2>4. There(i) /\ End(i) = log[i].at + log[i].len
        BY <2>3 DEF There, End
    <2>5. End(i) <= size
        BY <1>1, <2>4 DEF LogOrdered
    <2> QED
        BY <2>1, <2>2, <2>3, <2>4, <2>5
<1>4. \A i, j \in 1..Len(log) : i < j => End(i) <= log[j].at
    BY <1>1, <1>3 DEF LogOrdered
<1> QED
    BY <1>2, <1>3, <1>4

(* No record starts in the head of a block, or crosses its end. *)
LEMMA RecordsOfBlock ==
    ASSUME NEW q \in Nat, NEW base \in Nat, base = DataOffset + BlockSize * q,
           NEW r \in Record, SoundRecord(r), base <= r.at
    PROVE  /\ base + BLOCKHEAD_SIZE <= r.at
           /\ r.at < base + BlockSize => r.at + r.len <= base + BlockSize
<1>1. /\ BlockSize \in Nat /\ DataOffset \in Nat /\ BLOCKHEAD_SIZE \in Nat
      /\ BLOCKHEAD_SIZE < BlockSize
    BY LayoutAssumption
<1>2. PICK block \in Nat : block = BlockSize * q
    BY BlockOffsets
<1>3. PICK k \in Nat, len \in Nat : r.at = base + k /\ len = r.len
    <2>1. r.at \in Nat /\ r.len \in Nat
        BY DEF Record
    <2>2. r.at - base \in Nat /\ r.at = base + (r.at - base)
        BY <2>1
    <2> QED
        BY <2>1, <2>2
<1>4. r.at - DataOffset = BlockSize * q + k
    <2>1. r.at - DataOffset = block + k
        BY <1>1, <1>2, <1>3
    <2> QED
        BY <1>2, <2>1
<1>5. k < BlockSize => (r.at - DataOffset) % BlockSize = k
    <2>1. k < BlockSize => k \in 0..(BlockSize - 1)
        BY <1>1
    <2> QED
        BY <1>4, <2>1, Remainders
<1>6. k < BlockSize => BLOCKHEAD_SIZE <= k /\ k + len <= BlockSize
    BY <1>3, <1>5 DEF SoundRecord, InBlock, AfterHead
<1> QED
    BY <1>1, <1>3, <1>6

LEMMA NextStart ==
    ASSUME NEW q \in Nat, NEW base \in Nat, base = DataOffset + BlockSize * q,
           NEW o \in Nat, IsStart(o), base < o
    PROVE  base + BlockSize <= o
<1>1. BlockSize \in Nat
    BY LayoutAssumption
<1>2. o <= base + BlockSize => o = base + BlockSize
    BY Starts
<1> QED
    BY <1>1, <1>2

(* Where the next record is, and what is behind the reader. *)
LEMMA DueFacts ==
    ASSUME Reading, Following
    PROVE  /\ NextDue \in Nat /\ 1 <= NextDue /\ NextDue <= Len(log) + 1
           /\ \A i \in 1..Len(log) : i < NextDue => End(i) <= Place
<1>1. WellTyped /\ ReaderPast
    BY DEF Reading, InOrder
<1>2. PICK n \in Nat : n = Len(delivered)
    BY <1>1, Numbers
<1>3. /\ from \in Nat /\ Len(log) \in Nat
      /\ \A k \in 1..n : delivered[k] # NoRecord => delivered[k] \in 1..Len(log)
    BY <1>1, <1>2, Numbers
<1>4. NextDue = from + n
    BY <1>2 DEF NextDue
<1>5. 1 <= from /\ (from = 1 \/ from <= Len(log))
    BY <1>1 DEF ReaderPast
<1>6. \A k \in 1..n : delivered[k] = from + k - 1 /\ delivered[k] # NoRecord
    BY <1>2, <1>3, <1>5 DEF Following, NoRecord
<1>7. NextDue <= Len(log) + 1
    <2>1. CASE n = 0
        BY <1>3, <1>4, <1>5, <2>1
    <2>2. CASE n # 0
        <3>1. n \in 1..n
            BY <2>2
        <3>2. delivered[n] = from + n - 1 /\ delivered[n] \in 1..Len(log)
            BY <1>3, <1>6, <3>1
        <3> QED
            BY <1>3, <1>4, <3>2
    <2> QED
        BY <2>1, <2>2
<1>8. ASSUME NEW i \in 1..Len(log), i < NextDue PROVE End(i) <= Place
    <2>1. CASE i < from
        BY <1>1, <2>1, SoundRecords DEF ReaderPast
    <2>2. CASE from <= i
        <3>1. PICK k \in 1..n : i = from + k - 1
            <4>1. i - from + 1 \in 1..n /\ i = from + (i - from + 1) - 1
                BY <1>3, <1>4, <1>8, <2>2
            <4> QED
                BY <4>1
        <3>2. delivered[k] = i /\ delivered[k] # NoRecord
            BY <1>6, <3>1
        <3> QED
            BY <1>1, <1>2, <3>1, <3>2 DEF ReaderPast
    <2> QED
        BY <1>3, <2>1, <2>2
<1> QED
    BY <1>3, <1>4, <1>5, <1>7, <1>8

(* Behind a record, the next one starts there or behind the head of a      *)
(* later block.                                                            *)
LEMMA FollowsDue ==
    ASSUME WellTyped, NEW place \in Nat, Base < place, NEW at \in Nat, Follows(place, at)
    PROVE  (at = place \/ Base + BlockSize <= at) /\ place <= at
<1>1. /\ Base \in Nat /\ dwBlockIndex \in Nat /\ BlockSize \in Nat
      /\ BLOCKHEAD_SIZE \in Nat
    BY Bases
<1>2. CASE at = place
    BY <1>2
<1>3. CASE IsStart(at - BLOCKHEAD_SIZE) /\ place <= at - BLOCKHEAD_SIZE
    <2>1. PICK o \in Nat : o = at - BLOCKHEAD_SIZE
        BY <1>1, <1>3
    <2>2. IsStart(o) /\ Base < o /\ o <= at /\ place <= o
        BY <1>1, <1>3, <2>1
    <2>3. PICK base \in Nat : base = Base
        BY <1>1
    <2>4. base = DataOffset + BlockSize * dwBlockIndex /\ base < o
        BY <2>2, <2>3 DEF Base
    <2>5. base + BlockSize <= o
        BY <1>1, <2>2, <2>4, NextStart
    <2> QED
        BY <1>1, <2>2, <2>3, <2>5
<1> QED
    BY <1>2, <1>3 DEF Follows

LEMMA WriteFollow ==
    ASSUME InOrder, SoundFile, Follow, NEW payload \in Sizes, Write(payload)
    PROVE  Follow'
<1> SUFFICES ASSUME sound', ~overran' PROVE Following'
    BY DEF Follow
<1>1. WellTyped /\ ReaderPast
    BY DEF InOrder
<1>2. UNCHANGED <<dwBlockIndex, dwOffset, dwRealSize, pc, from, delivered, overran>>
    BY DEF Write, readerVars
<1>3. sound
    BY <1>1, SoundWriteStep
<1>4. Reading /\ Following
    BY <1>2, <1>3 DEF Reading, Follow
<1>5. PICK r \in Record : /\ SoundRecord(r)
                          /\ Follows(size, r.at)
                          /\ size' = r.at + r.len
                          /\ log' = Append(log, r)
    BY <1>1, SoundWriteStep
<1>6. PICK n \in Nat : n = Len(log)
    BY <1>1, Numbers
<1>7. /\ Len(log') = n + 1 /\ log'[n + 1] = r
      /\ \A i \in 1..n : log'[i] = log[i]
    <2>1. log \in Seq(Record)
        BY <1>1 DEF WellTyped, TypeOK, Record
    <2> QED
        BY <1>5, <1>6, <2>1, AppendProperties
<1>8. \A i \in 1..Len(log') : i \in 1..n \/ i = n + 1
    BY <1>7
<1>9. \A i \in 1..n : End(i)' = End(i)
    BY <1>7 DEF End
<1> DEFINE place == Place
           base == Base
           next == NextDue
<1>10. /\ base \in Nat /\ place \in Nat /\ place = base + dwOffset
       /\ size \in Nat /\ BLOCKHEAD_SIZE \in Nat \ {0} /\ BlockSize \in Nat
       /\ dwOffset \in Nat /\ dwRealSize \in Nat
    BY <1>1, Bases
<1>11. next \in Nat /\ next <= n + 1
    BY <1>4, <1>6, DueFacts
<1>12. place' = place /\ base' = base /\ next' = next
    BY <1>2 DEF Place, Base, NextDue
<1>13. place <= size /\ Ahead(place, next) /\ Due(base, place, dwOffset, next)
       /\ Cached(base, dwOffset, dwRealSize)
    BY <1>4 DEF Following
<1>14. PICK at \in Nat, len \in Nat : at = r.at /\ len = r.len
    BY DEF Record
<1>15. size <= at /\ size <= size'
    BY <1>5, <1>10, <1>14 DEF Follows
<1>16. \A i \in 1..n : log[i].at \in Nat /\ End(i) \in Nat
    BY <1>4, <1>6, SoundRecords
<1>17. place' <= size'
    BY <1>5, <1>10, <1>12, <1>13, <1>14, <1>15
<1>18. Ahead(Place, NextDue)'
    <2>1. ASSUME NEW i \in 1..Len(log'), next <= i PROVE place <= log'[i].at
        <3>1. CASE i \in 1..n
            BY <1>6, <1>7, <1>13, <2>1, <3>1 DEF Ahead
        <3>2. CASE i = n + 1
            BY <1>7, <1>10, <1>13, <1>14, <1>15, <3>2
        <3> QED
            BY <1>8, <3>1, <3>2
    <2> QED
        BY <1>12, <2>1 DEF Ahead
<1>19. Due(Base, Place, dwOffset, NextDue)'
    <2>1. ASSUME BLOCKHEAD_SIZE <= dwOffset
          PROVE  /\ next \in 1..Len(log') =>
                        log'[next].at = place \/ base + BlockSize <= log'[next].at
                 /\ ~(Len(log') < next)
        <3>1. CASE next \in 1..n
            <4>1. log[next].at = place \/ base + BlockSize <= log[next].at
                BY <1>6, <1>13, <2>1, <3>1 DEF Due
            <4> QED
                BY <1>7, <1>11, <3>1, <4>1
        <3>2. CASE next = n + 1
            <4>1. place = size
                BY <1>6, <1>13, <2>1, <3>2 DEF Due
            <4>2. base < place
                BY <1>10, <2>1
            <4>3. at = place \/ base + BlockSize <= at
                BY <1>1, <1>5, <1>10, <1>14, <4>1, <4>2, FollowsDue
            <4> QED
                BY <1>7, <1>14, <3>2, <4>3
        <3>3. CASE next = 0
            BY <1>7, <3>3
        <3> QED
            BY <1>11, <3>1, <3>2, <3>3
    <2> QED
        BY <1>2, <1>12, <2>1 DEF Due
<1>20. Cached(Base, dwOffset, dwRealSize)'
    <2>1. ASSUME 0 < dwRealSize
          PROVE  /\ BLOCKHEAD_SIZE <= dwOffset
                 /\ base + dwRealSize <= size'
                 /\ \A i \in 1..Len(log') : \/ End(i)' <= base + dwRealSize
                                            \/ base + dwRealSize <= log'[i].at
        <3>1. BLOCKHEAD_SIZE <= dwOffset /\ base + dwRealSize <= size
            BY <1>13, <2>1 DEF Cached
        <3>2. base + dwRealSize <= at /\ base + dwRealSize <= size'
            BY <1>5, <1>10, <1>14, <1>15, <3>1
        <3>3. ASSUME NEW i \in 1..Len(log')
              PROVE  End(i)' <= base + dwRealSize \/ base + dwRealSize <= log'[i].at
            <4>1. CASE i \in 1..n
                <5>1. End(i) <= base + dwRealSize \/ base + dwRealSize <= log[i].at
                    BY <1>6, <1>13, <2>1, <4>1 DEF Cached
                <5> QED
                    BY <1>7, <1>9, <4>1, <5>1
            <4>2. CASE i = n + 1
                BY <1>7, <1>14, <3>2, <4>2
            <4> QED
                BY <1>8, <4>1, <4>2
        <3> QED
            BY <3>1, <3>2, <3>3
    <2> QED
        BY <1>2, <1>12, <2>1 DEF Cached
<1>21. /\ \A k \in 1..Len(delivered') : delivered'[k] = from' + k - 1
       /\ pc' = "reload" => 0 < dwRealSize'
    BY <1>2, <1>4 DEF Following
<1> QED
    BY <1>17, <1>18, <1>19, <1>20, <1>21 DEF Following

(* A step of the reader leaves the file alone. *)
LEMMA FollowingNow ==
    ASSUME UNCHANGED <<size, log>>,
           NEW place, NEW base, NEW next, NEW offset, NEW cached,
           place = Place', base = Base', next = NextDue', offset = dwOffset',
           cached = dwRealSize',
           \A k \in 1..Len(delivered') : delivered'[k] = from' + k - 1,
           place <= size, Ahead(place, next), Due(base, place, offset, next),
           Cached(base, offset, cached),
           pc' = "reload" => 0 < cached
    PROVE  Following'
<1>1. Place' <= size'
    OBVIOUS
<1>2. Ahead(Place, NextDue)'
    BY DEF Ahead
<1>3. Due(Base, Place, dwOffset, NextDue)'
    BY DEF Due
<1>4. Cached(Base, dwOffset, dwRealSize)'
    BY DEF Cached, End
<1> QED
    BY <1>1, <1>2, <1>3, <1>4 DEF Following

LEMMA BaseIsStart ==
    ASSUME NEW index \in Nat, NEW base \in Nat, base = DataOffset + BlockSize * index
    PROVE  IsStart(base)
<1>1. base <= base /\ base <= base + BlockSize
    BY LayoutAssumption
<1> QED
    BY <1>1, Starts

(* What is cached of a block. *)
LEMMA CachedNow ==
    ASSUME Reading, NEW index \in Nat, NEW base \in Nat,
           base = DataOffset + BlockSize * index, BlockOffset(index) = base,
           NEW offset, BLOCKHEAD_SIZE <= offset
    PROVE  Cached(base, offset, Available(index))
<1>1. WellTyped
    BY DEF Reading, InOrder
<1>2. /\ size \in Nat /\ BlockSize \in Nat /\ DataOffset \in Nat
      /\ BLOCKHEAD_SIZE \in Nat /\ BLOCKHEAD_SIZE < BlockSize
    BY <1>1, Bases
<1>0. IsStart(base)
    BY BaseIsStart
<1>3. Available(index) = IF size <= base THEN 0 ELSE Smaller(BlockSize, size - base)
    BY DEF Available
<1> SUFFICES ASSUME 0 < Available(index)
             PROVE  /\ base + Available(index) <= size
                    /\ \A i \in 1..Len(log) : \/ End(i) <= base + Available(index)
                                              \/ base + Available(index) <= log[i].at
    BY DEF Cached
<1>4. base < size /\ Available(index) = Smaller(BlockSize, size - base)
    BY <1>2, <1>3
<1>5. CASE size - base <= BlockSize
    <2>1. base + Available(index) = size
        BY <1>2, <1>4, <1>5 DEF Smaller
    <2> QED
        BY <1>2, <2>1, SoundRecords
<1>6. CASE BlockSize < size - base
    <2>1. Available(index) = BlockSize /\ base + BlockSize <= size
        BY <1>2, <1>4, <1>6 DEF Smaller
    <2>2. ASSUME NEW i \in 1..Len(log)
          PROVE  End(i) <= base + BlockSize \/ base + BlockSize <= log[i].at
        <3>1. PICK r \in Record : r = log[i] /\ SoundRecord(r) /\ End(i) = r.at + r.len
            BY SoundRecords
        <3>2. /\ log[i].at \in Nat /\ log[i].len \in Nat /\ End(i) \in Nat
              /\ End(i) = log[i].at + log[i].len
            BY SoundRecords
        <3>3. CASE base <= r.at
            <4>1. r.at < base + BlockSize => r.at + r.len <= base + BlockSize
                BY <3>1, <3>3, RecordsOfBlock
            <4> QED
                BY <1>2, <3>1, <3>2, <4>1
        <3>4. CASE r.at < base
            <4>1. CASE index = 0
                <5>1. BlockSize * index = 0
                    BY <1>2, <4>1
                <5>2. base = DataOffset
                    BY <5>1, LayoutAssumption
                <5>3. DataOffset <= r.at
                    BY <3>1 DEF SoundRecord, AfterHead
                <5> QED
                    BY <3>1, <3>2, <3>4, <5>2, <5>3
            <4>2. CASE index # 0
                <5>1. IsStart(base)
                    BY <1>0
                <5>2. DataOffset <= base /\ base \in heads
                    <6>1. BlockSize * index \in Nat
                        BY BlockOffsets
                    <6>2. DataOffset <= base
                        BY <6>1, LayoutAssumption
                    <6>3. heads = StartsBefore(size)
                        BY Layout DEF Reading, SoundFile
                    <6> QED
                        BY <1>2, <1>4, <5>1, <6>2, <6>3, LayoutAssumption DEF StartsBefore
                <5>3. PICK j \in 1..Len(log) : log[j].at = base + BLOCKHEAD_SIZE
                    BY <5>2 DEF Reading, SoundFile
                <5>4. log[j].at \in Nat /\ log[i].at < log[j].at /\ Len(log) \in Nat
                      /\ log[j].at < End(j) /\ End(j) \in Nat
                    BY <3>1, <3>2, <3>4, <5>3, LayoutAssumption, SoundRecords
                <5>5. i < j
                    <6>1. j < i => End(j) <= log[i].at
                        BY SoundRecords
                    <6>2. j # i
                        BY <3>2, <5>4
                    <6> QED
                        BY <3>2, <5>4, <6>1, <6>2
                <5>6. End(i) <= log[j].at
                    BY <5>5, SoundRecords
                <5>7. base + BLOCKHEAD_SIZE <= base + BlockSize
                    BY <1>2, LayoutAssumption
                <5> QED
                    BY <1>2, <3>2, <5>3, <5>4, <5>6, <5>7, LayoutAssumption
            <4> QED
                BY <4>1, <4>2
        <3> QED
            BY <3>1, <3>2, <3>3, <3>4
    <2> QED
        BY <2>1, <2>2
<1> QED
    BY <1>2, <1>4, <1>5, <1>6

(* A block that has begun has a head, with a record behind it. *)
LEMMA HeadFound ==
    ASSUME Reading, NEW index \in Nat, NEW base \in Nat,
           base = DataOffset + BlockSize * index, BlockOffset(index) = base,
           base < size
    PROVE  /\ base \in heads
           /\ BLOCKHEAD_SIZE <= Available(index)
           /\ base + BLOCKHEAD_SIZE <= size
           /\ \E j \in 1..Len(log) : log[j].at = base + BLOCKHEAD_SIZE
<1>1. WellTyped
    BY DEF Reading, InOrder
<1>2. size \in Nat /\ BlockSize \in Nat /\ DataOffset \in Nat /\ BLOCKHEAD_SIZE \in Nat
      /\ BLOCKHEAD_SIZE < BlockSize
    BY <1>1, Bases
<1>3. IsStart(base)
    BY BaseIsStart
<1>4. DataOffset <= base
    <2>1. BlockSize * index \in Nat
        BY BlockOffsets
    <2> QED
        BY <1>2, <2>1
<1>5. base \in heads
    <2>1. heads = StartsBefore(size)
        BY Layout DEF Reading, SoundFile
    <2> QED
        BY <1>2, <1>3, <1>4, <2>1 DEF StartsBefore
<1>6. PICK j \in 1..Len(log) : log[j].at = base + BLOCKHEAD_SIZE
    BY <1>5 DEF Reading, SoundFile
<1>7. base + BLOCKHEAD_SIZE <= size
    <2>1. log[j].at < End(j) /\ End(j) <= size /\ End(j) \in Nat /\ log[j].at \in Nat
        BY SoundRecords
    <2> QED
        BY <1>2, <1>6, <2>1
<1>8. Available(index) = Smaller(BlockSize, size - base)
    BY <1>2 DEF Available
<1> QED
    BY <1>2, <1>5, <1>6, <1>7, <1>8 DEF Smaller

(* Behind the head of a block the reader finds the next record. *)
LEMMA BlockEntered ==
    ASSUME Reading, Following, NEW index \in Nat, NEW base \in Nat,
           base = DataOffset + BlockSize * index, BlockOffset(index) = base,
           base < size, base <= Place, Place < base + BLOCKHEAD_SIZE
    PROVE  /\ base + BLOCKHEAD_SIZE <= size
           /\ Ahead(base + BLOCKHEAD_SIZE, NextDue)
           /\ Due(base, base + BLOCKHEAD_SIZE, BLOCKHEAD_SIZE, NextDue)
<1>1. WellTyped
    BY DEF Reading, InOrder
<1>2. BLOCKHEAD_SIZE \in Nat /\ Place \in Nat /\ size \in Nat
    BY <1>1, Bases
<1>3. PICK next \in Nat : next = NextDue /\ 1 <= next
    BY DueFacts
<1>4. \A i \in 1..Len(log) : i < next => End(i) <= Place
    BY <1>3, DueFacts
<1>5. Ahead(Place, next)
    BY <1>3 DEF Following
<1>6. PICK first \in Nat : first = base + BLOCKHEAD_SIZE
    BY <1>2
<1>7. ASSUME NEW i \in 1..Len(log), next <= i PROVE first <= log[i].at
    <2>1. Place <= log[i].at /\ log[i].at \in Nat
        BY <1>5, <1>7, SoundRecords DEF Ahead
    <2>2. PICK r \in Record : r = log[i] /\ SoundRecord(r)
        BY SoundRecords
    <2>3. base <= r.at
        BY <1>2, <2>1, <2>2
    <2> QED
        BY <1>6, <2>2, <2>3, RecordsOfBlock
<1>8. PICK j \in 1..Len(log) : log[j].at = first
    BY <1>6, HeadFound
<1>9. Len(log) \in Nat /\ log[j].at < End(j) /\ End(j) \in Nat
    BY SoundRecords
<1>10. next <= j
    <2>1. j < next => End(j) <= Place
        BY <1>4
    <2> QED
        BY <1>2, <1>3, <1>6, <1>8, <1>9, <2>1
<1>11. next \in 1..Len(log)
    BY <1>3, <1>9, <1>10
<1>12. log[next].at = first
    <2>1. next < j => End(next) <= log[j].at
        BY <1>11, SoundRecords
    <2>2. log[next].at \in Nat /\ log[next].at < End(next) /\ End(next) \in Nat
        BY <1>11, SoundRecords
    <2>3. first <= log[next].at
        BY <1>7, <1>11
    <2> QED
        BY <1>8, <1>10, <2>1, <2>2, <2>3
<1>13. Ahead(first, next)
    BY <1>7 DEF Ahead
<1>14. Due(base, first, BLOCKHEAD_SIZE, next)
    BY <1>9, <1>11, <1>12 DEF Due
<1>15. first <= size
    BY <1>6, HeadFound
<1> QED
    BY <1>3, <1>6, <1>13, <1>14, <1>15

(* The offsets of a reader below 4 GiB are those of the file. *)
LEMMA FittingOffsets ==
    ASSUME WellTyped, Fits
    PROVE  /\ BlockOffset(dwBlockIndex) = Base /\ ReadOffset = Place
           /\ Base + BlockSize = DataOffset + BlockSize * (dwBlockIndex + 1)
           /\ dwOffset = BlockSize => BlockOffset(dwBlockIndex + 1) = Base + BlockSize
<1>1. /\ Base \in Nat /\ dwOffset \in Nat /\ Place \in Nat /\ Place = Base + dwOffset
      /\ BlockSize \in Nat /\ dwBlockIndex \in Nat /\ DataOffset \in Nat
    BY Bases
<1>2. Place < OFFSET_SPAN
    BY DEF Fits
<1>3. Base % OFFSET_SPAN = Base /\ Place % OFFSET_SPAN = Place
    <2>1. Base < OFFSET_SPAN
        BY <1>1, <1>2, LayoutAssumption
    <2> QED
        BY <1>1, <1>2, <2>1, OffsetsAreNatural
<1>4. BlockOffset(dwBlockIndex) = Base
    BY <1>3 DEF BlockOffset, Base
<1>5. ReadOffset = Place
    <2>1. ReadOffset = Place % OFFSET_SPAN
        BY <1>1, <1>4 DEF ReadOffset, Here
    <2> QED
        BY <1>3, <2>1
<1>6. Base + BlockSize = DataOffset + BlockSize * (dwBlockIndex + 1)
    <2>1. PICK block \in Nat : block = BlockSize * dwBlockIndex
        BY <1>1, BlockOffsets
    <2>2. BlockSize * (dwBlockIndex + 1) = block + BlockSize
        BY <1>1, <2>1, BlockOffsets
    <2>3. Base = DataOffset + block
        BY <2>1 DEF Base
    <2> QED
        BY <1>1, <2>2, <2>3
<1>7. ASSUME dwOffset = BlockSize PROVE BlockOffset(dwBlockIndex + 1) = Base + BlockSize
    <2>1. Place = Base + BlockSize
        BY <1>1, <1>7
    <2>2. BlockOffset(dwBlockIndex + 1) = Place % OFFSET_SPAN
        BY <1>6, <2>1 DEF BlockOffset
    <2> QED
        BY <1>3, <2>1, <2>2
<1> QED
    BY <1>4, <1>5, <1>6, <1>7

(* pread finds nothing of a block only where the file has ended. *)
LEMMA NothingAvailable ==
    ASSUME WellTyped, NEW index \in Nat, Available(index) = 0
    PROVE  size <= BlockOffset(index)
<1>1. BlockOffset(index) \in Nat
    BY BlockOffsets
<1>2. size \in Nat /\ BlockSize \in Nat \ {0}
    BY LayoutAssumption DEF WellTyped, TypeOK
<1> QED
    BY <1>1, <1>2 DEF Available, Smaller

LEMMA StillFollowing ==
    ASSUME Following,
           UNCHANGED <<size, log, dwBlockIndex, dwOffset, dwRealSize, from, delivered>>,
           pc' = "reload" => 0 < dwRealSize
    PROVE  Following'
<1>1. /\ Place' = Place /\ Base' = Base /\ NextDue' = NextDue
      /\ dwOffset' = dwOffset /\ dwRealSize' = dwRealSize
    BY DEF Place, Base, NextDue
<1>2. \A k \in 1..Len(delivered') : delivered'[k] = from' + k - 1
    BY DEF Following
<1>3. /\ Place <= size /\ Ahead(Place, NextDue) /\ Due(Base, Place, dwOffset, NextDue)
      /\ Cached(Base, dwOffset, dwRealSize)
    BY DEF Following
<1> QED
    BY <1>1, <1>2, <1>3, FollowingNow

(* The reader has gone behind the head of a block. *)
LEMMA EnteredFollow ==
    ASSUME Reading, Following, NEW index \in Nat, NEW base \in Nat,
           base = DataOffset + BlockSize * index, BlockOffset(index) = base,
           base < size, base <= Place, Place < base + BLOCKHEAD_SIZE,
           UNCHANGED <<size, log, from, delivered>>,
           dwBlockIndex' = index, dwOffset' = BLOCKHEAD_SIZE,
           dwRealSize' = Available(index), pc' # "reload"
    PROVE  Following'
<1>1. PICK first : first = base + BLOCKHEAD_SIZE
    OBVIOUS
<1>2. PICK next : next = NextDue
    OBVIOUS
<1>3. /\ first <= size /\ Ahead(first, next)
      /\ Due(base, first, BLOCKHEAD_SIZE, next)
    BY <1>1, <1>2, BlockEntered
<1>4. BLOCKHEAD_SIZE <= BLOCKHEAD_SIZE
    BY LayoutAssumption
<1>5. PICK cached : cached = Available(index)
    OBVIOUS
<1>6. Cached(base, BLOCKHEAD_SIZE, cached)
    BY <1>4, <1>5, CachedNow
<1>7. base = Base' /\ first = Place' /\ next = NextDue' /\ cached = dwRealSize'
    BY <1>1, <1>2, <1>5 DEF Base, Place, NextDue
<1>8. \A k \in 1..Len(delivered') : delivered'[k] = from' + k - 1
    BY DEF Following
<1> QED
    BY <1>3, <1>6, <1>7, <1>8, FollowingNow

LEMMA BlockTaken ==
    ASSUME WellTyped, NEW index \in Nat, NEW found, TakeBlock(index, found)
    PROVE  /\ dwRealSize' = Available(index)
           /\ Available(index) = 0 => dwOffset' = dwOffset
           /\ BLOCKHEAD_SIZE <= Available(index) /\ BlockOffset(index) \in heads =>
                 dwOffset' = found /\ pc' = pc
           /\ pc' \in {"idle", pc}
           /\ pc' # pc /\ result' = "end of file" => Available(index) = 0
<1>1. PICK cached \in Nat : cached = Available(index)
    BY AvailableFits, LayoutAssumption
<1>2. dwRealSize' = cached
    BY <1>1 DEF TakeBlock
<1>3. BLOCKHEAD_SIZE \in Nat \ {0}
    BY LayoutAssumption
<1>4. \/ dwRealSize' = 0 /\ pc' = "idle" /\ dwOffset' = dwOffset
      \/ dwRealSize' \in 1..(BLOCKHEAD_SIZE - 1) /\ pc' = "idle" /\ result' = "error"
      \/ /\ dwRealSize' >= BLOCKHEAD_SIZE
         /\ BlockOffset(index) \in heads => dwOffset' = found
         /\ pc' = pc
    BY Zenon DEF TakeBlock, Returns
<1>5. CASE dwRealSize' = 0 /\ pc' = "idle" /\ dwOffset' = dwOffset
    BY <1>1, <1>2, <1>3, <1>5
<1>6. CASE dwRealSize' \in 1..(BLOCKHEAD_SIZE - 1) /\ pc' = "idle" /\ result' = "error"
    <2>1. cached # 0 /\ ~(BLOCKHEAD_SIZE <= cached)
        BY <1>2, <1>3, <1>6
    <2> QED
        BY <1>1, <1>2, <1>6, <2>1
<1>7. CASE /\ dwRealSize' >= BLOCKHEAD_SIZE
           /\ BlockOffset(index) \in heads => dwOffset' = found
           /\ pc' = pc
    <2>1. cached # 0
        BY <1>2, <1>3, <1>7
    <2> QED
        BY <1>1, <1>2, <1>7, <2>1
<1> QED
    BY <1>4, <1>5, <1>6, <1>7

-----------------------------------------------------------------------------
(* A reader of a sound file takes nothing but records for records, also    *)
(* when it has gone past the end of the file.                              *)

Clear(place) == \A i \in 1..Len(log) : ~(log[i].at < place /\ place < End(i))

(* The reader stands inside no record, and behind the head of its block.   *)
Aligned == sound =>
    /\ Place <= size \/ dwOffset = BlockSize
    /\ Clear(Place)
    /\ 0 < dwRealSize => BLOCKHEAD_SIZE <= dwOffset
    /\ pc = "reload" => 0 < dwRealSize

OnlyRecords == sound => \A k \in 1..Len(delivered) : delivered[k] # NoRecord

(* No record crosses the start of a block. *)
LEMMA Boundary ==
    ASSUME NEW q \in Nat, NEW base \in Nat, base = DataOffset + BlockSize * q,
           NEW r \in Record, SoundRecord(r), r.at < base
    PROVE  r.at + r.len <= base
<1>1. BlockSize \in Nat /\ DataOffset \in Nat /\ DataOffset <= r.at
    BY LayoutAssumption DEF SoundRecord, AfterHead
<1>2. PICK at \in Nat, len \in Nat : at = r.at - DataOffset /\ len = r.len
    BY <1>1 DEF Record
<1>3. PICK p \in Nat, k \in 0..(BlockSize - 1) :
        at = BlockSize * p + k /\ at % BlockSize = k
    BY <1>2, Division
<1>4. k + len <= BlockSize
    BY <1>2, <1>3 DEF SoundRecord, InBlock
<1>5. PICK mine \in Nat, block \in Nat : mine = BlockSize * p /\ block = BlockSize * q
    BY BlockOffsets
<1>6. k \in Nat /\ at = mine + k /\ base = DataOffset + block /\ r.at = DataOffset + at
    BY <1>1, <1>2, <1>3, <1>5 DEF Record
<1>7. q < p => block + BlockSize <= mine
    BY <1>5, Multiples
<1>8. p < q => mine + BlockSize <= block
    BY <1>5, Multiples
<1>9. p = q => mine = block
    BY <1>5
<1>10. p < q
    BY <1>1, <1>6, <1>7, <1>9
<1> QED
    BY <1>1, <1>2, <1>4, <1>6, <1>8, <1>10

LEMMA ClearAtBoundary ==
    ASSUME Reading, NEW q \in Nat, NEW base \in Nat, base = DataOffset + BlockSize * q
    PROVE  Clear(base)
<1> SUFFICES ASSUME NEW i \in 1..Len(log), log[i].at < base PROVE ~(base < End(i))
    BY DEF Clear
<1>1. PICK r \in Record : r = log[i] /\ SoundRecord(r) /\ End(i) = r.at + r.len
    BY SoundRecords
<1>2. r.at + r.len <= base
    BY <1>1, Boundary
<1> QED
    BY <1>1, <1>2, SoundRecords

LEMMA ClearAtRecord ==
    ASSUME Reading, NEW j \in 1..Len(log), NEW place \in {log[j].at, End(j)}
    PROVE  Clear(place) /\ place <= size
<1>1. /\ log[j].at \in Nat /\ End(j) \in Nat /\ log[j].at < End(j) /\ End(j) <= size
      /\ size \in Nat
    BY SoundRecords, Bases DEF Reading, InOrder
<1>2. ASSUME NEW i \in 1..Len(log) PROVE ~(log[i].at < place /\ place < End(i))
    <2>1. log[i].at \in Nat /\ End(i) \in Nat /\ Len(log) \in Nat
        BY SoundRecords
    <2>2. i < j => End(i) <= log[j].at
        BY SoundRecords
    <2>3. j < i => End(j) <= log[i].at
        BY SoundRecords
    <2> QED
        BY <1>1, <2>1, <2>2, <2>3
<1> QED
    BY <1>1, <1>2 DEF Clear

LEMMA NothingForeign ==
    ASSUME Reading, Aligned, Fits, dwOffset < dwRealSize
    PROVE  ~Foreign(Here)
<1>1. WellTyped
    BY DEF Reading, InOrder
<1>2. /\ Base \in Nat /\ dwOffset \in Nat /\ Place = Base + dwOffset /\ dwRealSize \in Nat
      /\ dwRealSize <= BlockSize /\ BlockSize \in Nat /\ BLOCKHEAD_SIZE \in Nat
      /\ dwBlockIndex \in Nat /\ DataOffset \in Nat /\ size \in Nat
    BY <1>1, Bases
<1>3. Here = Place
    BY <1>1, HereIsPlace
<1>4. BLOCKHEAD_SIZE <= dwOffset /\ Clear(Place)
    BY <1>2 DEF Aligned, Reading
<1>5. ~(Place < DataOffset)
    <2>1. PICK block \in Nat : block = BlockSize * dwBlockIndex
        BY <1>2, BlockOffsets
    <2>2. Base = DataOffset + block
        BY <2>1 DEF Base
    <2> QED
        BY <1>2, <2>2
<1>6. ASSUME NEW h \in heads PROVE ~(h < Place /\ Place < h + BLOCKHEAD_SIZE)
    <2>1. PICK o \in Nat : o = h /\ IsStart(o)
        BY <1>2, Layout DEF Reading, SoundFile, StartsBefore
    <2>2. PICK base \in Nat : base = Base
        BY <1>2
    <2>3. base < o => base + BlockSize <= o
        BY <1>2, <2>1, <2>2, NextStart DEF Base
    <2> QED
        BY <1>2, <1>4, <2>1, <2>2, <2>3
<1>7. ASSUME NEW i \in 1..Len(log)
      PROVE  ~(log[i].at < Place /\ Place < log[i].at + log[i].bytes)
    BY <1>4 DEF Clear, End
<1> QED
    BY <1>3, <1>5, <1>6, <1>7 DEF Foreign

(* What Next gives the program is the record it stands at, and it goes on  *)
(* behind it.                                                              *)
LEMMA SoundDelivery ==
    ASSUME Reading, Aligned, Fits, Deliver
    PROVE  \E i \in 1..Len(log) :
              /\ log[i].at = Place /\ Place' = End(i)
              /\ dwOffset' = dwOffset + log[i].len
              /\ delivered' = Append(delivered, i)
<1>1. WellTyped
    BY DEF Reading, InOrder
<1>2. dwOffset < dwRealSize /\ dwBlockIndex' = dwBlockIndex
    BY DEF Deliver
<1>3. PICK i \in 0..Len(log), length \in Nat :
          /\ delivered' = Append(delivered, i)
          /\ dwOffset' = dwOffset + length
          /\ i = NoRecord => Foreign(Here)
          /\ i # NoRecord => /\ i \in 1..Len(log) /\ log[i] \in Record
                             /\ log[i].at = Here
                             /\ LengthWritten(i) => length = log[i].len
    BY <1>1, Delivery
<1>4. i # NoRecord
    BY <1>2, <1>3, NothingForeign
<1>5. i \in 1..Len(log) /\ log[i].at = Place
    BY <1>1, <1>3, <1>4, HereIsPlace
<1>6. /\ SoundRecord(log[i]) /\ log[i].at \in Nat /\ log[i].len \in Nat
      /\ End(i) = log[i].at + log[i].len
    BY <1>5, SoundRecords
<1>7. length = log[i].len
    <2>1. log[i].bytes = log[i].len /\ LOG_OVERHEAD <= log[i].len
        BY <1>6 DEF SoundRecord, Whole
    <2>2. LengthWritten(i)
        BY <1>4, <1>6, <2>1, LayoutAssumption DEF LengthWritten
    <2> QED
        BY <1>3, <1>4, <2>2
<1>8. Place' = End(i)
    <2>1. PICK base \in Nat : base = Base /\ Place = base + dwOffset /\ dwOffset \in Nat
        BY <1>1, Bases
    <2>2. Place' = base + dwOffset'
        BY <1>2, <2>1 DEF Base, Place
    <2> QED
        BY <1>3, <1>5, <1>6, <1>7, <2>1, <2>2
<1> QED
    BY <1>3, <1>5, <1>7, <1>8

LEMMA WriteAligned ==
    ASSUME WellTyped, SoundFile, Aligned, NEW payload \in Sizes, Write(payload)
    PROVE  Aligned'
<1> SUFFICES ASSUME sound' PROVE Aligned'
    BY DEF Aligned
<1>1. sound /\ UNCHANGED <<dwBlockIndex, dwOffset, dwRealSize, pc>>
    BY SoundWriteStep DEF Write, readerVars
<1>2. PICK r \in Record : /\ SoundRecord(r) /\ Follows(size, r.at)
                          /\ size' = r.at + r.len /\ log' = Append(log, r)
    BY SoundWriteStep
<1>3. /\ Base \in Nat /\ Place \in Nat /\ Place = Base + dwOffset /\ size \in Nat
      /\ BlockSize \in Nat /\ BLOCKHEAD_SIZE \in Nat /\ dwBlockIndex \in Nat
      /\ DataOffset \in Nat
    BY Bases
<1>4. r.at \in Nat /\ r.len \in Nat /\ r.bytes = r.len
    BY <1>2 DEF Record, SoundRecord, Whole
<1>5. size <= r.at
    BY <1>2, <1>3, <1>4 DEF Follows
<1>6. Place' = Place /\ (Place <= size \/ dwOffset = BlockSize) /\ Clear(Place)
    BY <1>1 DEF Place, Aligned
<1>7. ~(r.at < Place /\ Place < r.at + r.bytes)
    <2>1. CASE Place <= size
        BY <1>3, <1>4, <1>5, <2>1
    <2>2. CASE dwOffset = BlockSize
        <3>1. PICK block \in Nat : block = BlockSize * dwBlockIndex
            BY <1>3, BlockOffsets
        <3>2. BlockSize * (dwBlockIndex + 1) = block + BlockSize
            BY <1>3, <3>1, BlockOffsets
        <3>3. Base = DataOffset + block
            BY <3>1 DEF Base
        <3>4. PICK q \in Nat, place \in Nat : q = dwBlockIndex + 1 /\ place = Place
            BY <1>3
        <3>5. place = DataOffset + BlockSize * q
            BY <1>3, <2>2, <3>2, <3>3, <3>4
        <3>6. r.at < place => r.at + r.len <= place
            BY <1>2, <3>5, Boundary
        <3> QED
            BY <1>3, <1>4, <3>4, <3>6
    <2> QED
        BY <1>6, <2>1, <2>2
<1>8. PICK n \in Nat : n = Len(log)
    BY Numbers
<1>9. /\ Len(log') = n + 1 /\ log'[n + 1] = r
      /\ \A i \in 1..n : log'[i] = log[i]
    BY <1>2, <1>8, AppendProperties DEF WellTyped, TypeOK, Record
<1>10. ASSUME NEW i \in 1..Len(log')
       PROVE  ~(log'[i].at < Place /\ Place < log'[i].at + log'[i].bytes)
    <2>1. i \in 1..n \/ i = n + 1
        BY <1>9
    <2>2. CASE i \in 1..n
        BY <1>6, <1>8, <1>9, <2>2 DEF Clear, End
    <2>3. CASE i = n + 1
        BY <1>7, <1>9, <2>3
    <2> QED
        BY <2>1, <2>2, <2>3
<1>11. Clear(Place)'
    BY <1>6, <1>10 DEF Clear, End
<1>12. Place <= size' \/ dwOffset = BlockSize
    BY <1>2, <1>3, <1>4, <1>5, <1>6
<1> QED
    BY <1>1, <1>6, <1>11, <1>12 DEF Aligned

LEMMA OpenAligned ==
    ASSUME Reading, GetIterator
    PROVE  Aligned'
<1>1. /\ UNCHANGED <<size, log, returned>> /\ dwRealSize' = 0 /\ pc' = "idle"
    BY DEF GetIterator, writerVars
<1>2. WellTyped
    BY DEF Reading, InOrder
<1>3. PICK place : place = Place'
    OBVIOUS
<1>4. Clear(place) /\ place <= size
    <2>1. CASE place = DataOffset
        <3>1. ASSUME NEW i \in 1..Len(log) PROVE ~(log[i].at < place)
            BY <2>1, SoundRecords, LayoutAssumption DEF SoundRecord, AfterHead
        <3> QED
            BY <1>2, <2>1, <3>1 DEF Clear, WellTyped, FileSound
    <2>2. CASE \E i \in 1..Len(log) : place = returned[i]
        <3>1. PICK i \in 1..Len(log) : place = returned[i]
            BY <2>2
        <3>2. place = log[i].at
            BY <3>1, Layout DEF Reading, SoundFile
        <3> QED
            BY <3>2, ClearAtRecord
    <2> QED
        BY <1>2, <1>3, <2>1, <2>2, IteratorOpens
<1>5. Clear(Place)'
    BY <1>1, <1>3, <1>4 DEF Clear, End
<1> QED
    BY <1>1, <1>3, <1>4, <1>5 DEF Aligned

(* The reader has gone behind the head of a block. *)
LEMMA EnteredAligned ==
    ASSUME Reading, NEW index \in Nat, NEW base \in Nat,
           base = DataOffset + BlockSize * index, BlockOffset(index) = base, base < size,
           UNCHANGED <<size, log>>, dwBlockIndex' = index, dwOffset' = BLOCKHEAD_SIZE,
           pc' # "reload"
    PROVE  Aligned'
<1>1. PICK j \in 1..Len(log) : log[j].at = base + BLOCKHEAD_SIZE
    BY HeadFound
<1>2. PICK place : place = base + BLOCKHEAD_SIZE
    OBVIOUS
<1>3. Clear(place) /\ place <= size
    BY <1>1, <1>2, ClearAtRecord
<1>4. place = Place'
    BY <1>2 DEF Place
<1>5. Clear(Place)'
    BY <1>3, <1>4 DEF Clear, End
<1>6. BLOCKHEAD_SIZE <= dwOffset'
    BY LayoutAssumption
<1> QED
    BY <1>3, <1>4, <1>5, <1>6 DEF Aligned

(* The reader stands where it stood. *)
LEMMA StillAligned ==
    ASSUME Reading, Aligned, UNCHANGED <<size, log, dwBlockIndex, dwOffset>>,
           0 < dwRealSize' => BLOCKHEAD_SIZE <= dwOffset,
           pc' = "reload" => 0 < dwRealSize'
    PROVE  Aligned'
<1>1. Place' = Place
    BY DEF Place
<1>2. Clear(Place)'
    BY <1>1 DEF Reading, Aligned, Clear, End
<1> QED
    BY <1>1, <1>2 DEF Reading, Aligned

LEMMA ReadNextAligned ==
    ASSUME Reading, Aligned, Fits, ReadNextBlock
    PROVE  Aligned'
<1>1. /\ UNCHANGED <<size, log>>
      /\ dwBlockIndex' = dwBlockIndex + 1
      /\ TakeBlock(dwBlockIndex + 1, BLOCKHEAD_SIZE)
      /\ dwOffset >= BlockSize /\ pc = "scan"
    BY DEF ReadNextBlock, writerVars
<1>2. WellTyped
    BY DEF Reading, InOrder
<1>3. /\ Base \in Nat /\ dwOffset \in Nat /\ Place = Base + dwOffset /\ dwOffset <= BlockSize
      /\ BlockSize \in Nat /\ size \in Nat /\ BLOCKHEAD_SIZE \in Nat \ {0}
      /\ dwBlockIndex \in Nat
    BY <1>2, Bases
<1>4. dwOffset = BlockSize
    BY <1>1, <1>3
<1>5. PICK index \in Nat, base \in Nat : index = dwBlockIndex + 1 /\ base = Base + BlockSize
    BY <1>3
<1>6. /\ base = DataOffset + BlockSize * index /\ BlockOffset(index) = base
      /\ base = Place
    BY <1>2, <1>3, <1>4, <1>5, FittingOffsets
<1>7. TakeBlock(index, BLOCKHEAD_SIZE)
    BY <1>1, <1>5
<1>8. dwRealSize' = Available(index) /\ Available(index) \in Nat /\ pc' # "reload"
    <2>1. dwRealSize' = Available(index) /\ pc' \in {"idle", pc}
        BY <1>2, <1>7, BlockTaken
    <2>2. Available(index) \in 0..BlockSize
        BY <1>2, AvailableFits
    <2> QED
        BY <1>1, <1>3, <2>1, <2>2
<1>9. CASE Available(index) = 0
    <2>1. dwOffset' = BlockSize
        BY <1>2, <1>4, <1>7, <1>9, BlockTaken
    <2>2. PICK place \in Nat : place = base + BlockSize
        BY <1>3
    <2>3. place = DataOffset + BlockSize * (index + 1) /\ index + 1 \in Nat
        <3>1. PICK block \in Nat : block = BlockSize * index
            BY BlockOffsets
        <3>2. BlockSize * (index + 1) = block + BlockSize
            BY <3>1, BlockOffsets
        <3> QED
            BY <1>6, <2>2, <3>1, <3>2, LayoutAssumption
    <2>4. Clear(place)
        BY <2>3, ClearAtBoundary
    <2>5. Place' = place
        BY <1>1, <1>5, <1>6, <2>1, <2>2 DEF Place
    <2>6. Clear(Place)'
        BY <1>1, <2>4, <2>5 DEF Clear, End
    <2> QED
        BY <1>8, <1>9, <2>1, <2>6 DEF Aligned
<1>10. CASE Available(index) # 0
    <2>1. base < size
        BY <1>3, <1>6, <1>10 DEF Available
    <2>2. BLOCKHEAD_SIZE <= Available(index) /\ base \in heads
        BY <1>6, <2>1, HeadFound
    <2>3. dwOffset' = BLOCKHEAD_SIZE
        BY <1>2, <1>6, <1>7, <2>2, BlockTaken
    <2> QED
        BY <1>1, <1>5, <1>6, <1>8, <2>1, <2>3, EnteredAligned
<1> QED
    BY <1>9, <1>10

LEMMA LoadAligned ==
    ASSUME Reading, Aligned, Fits, LoadBlock
    PROVE  Aligned'
<1> DEFINE found == IF dwOffset < BLOCKHEAD_SIZE THEN BLOCKHEAD_SIZE ELSE dwOffset
<1>1. /\ UNCHANGED <<size, log, dwBlockIndex>>
      /\ TakeBlock(dwBlockIndex, found) /\ pc = "scan"
    BY DEF LoadBlock, writerVars
<1>2. WellTyped
    BY DEF Reading, InOrder
<1>3. /\ dwOffset \in Nat /\ size \in Nat /\ BLOCKHEAD_SIZE \in Nat /\ dwBlockIndex \in Nat
    BY <1>2, Bases
<1>4. PICK index \in Nat, base \in Nat : index = dwBlockIndex /\ base = Base
    BY <1>2, Bases
<1>5. base = DataOffset + BlockSize * index /\ BlockOffset(index) = base
    BY <1>2, <1>4, FittingOffsets DEF Base
<1> HIDE DEF found
<1>6. TakeBlock(index, found)
    BY <1>1, <1>4
<1>7. dwRealSize' = Available(index) /\ pc' # "reload"
    BY <1>1, <1>2, <1>6, BlockTaken
<1>8. CASE Available(index) = 0
    <2>1. dwOffset' = dwOffset
        BY <1>2, <1>6, <1>8, BlockTaken
    <2>2. ~(0 < dwRealSize')
        BY <1>7, <1>8
    <2> QED
        BY <1>1, <1>7, <2>1, <2>2, StillAligned
<1>9. CASE Available(index) # 0
    <2>1. base < size
        BY <1>3, <1>5, <1>9 DEF Available
    <2>2. BLOCKHEAD_SIZE <= Available(index) /\ base \in heads
        BY <1>5, <2>1, HeadFound
    <2>3. dwOffset' = found
        BY <1>2, <1>5, <1>6, <2>2, BlockTaken
    <2>4. CASE dwOffset < BLOCKHEAD_SIZE
        <3>1. dwOffset' = BLOCKHEAD_SIZE
            BY <2>3, <2>4 DEF found
        <3> QED
            BY <1>1, <1>4, <1>5, <1>7, <2>1, <3>1, EnteredAligned
    <2>5. CASE BLOCKHEAD_SIZE <= dwOffset
        <3>1. dwOffset' = dwOffset
            BY <1>3, <2>3, <2>5 DEF found
        <3> QED
            BY <1>1, <1>7, <2>5, <3>1, StillAligned
    <2> QED
        BY <1>3, <2>4, <2>5
<1> QED
    BY <1>8, <1>9

LEMMA DeliverAligned ==
    ASSUME Reading, Aligned, Fits, Deliver
    PROVE  Aligned'
<1>1. /\ UNCHANGED <<size, log, dwRealSize>> /\ pc' = "idle" /\ dwOffset < dwRealSize
    BY DEF Deliver, Returns, writerVars
<1>2. PICK i \in 1..Len(log) : Place' = End(i) /\ dwOffset' = dwOffset + log[i].len
    BY SoundDelivery
<1>3. PICK place : place = End(i)
    OBVIOUS
<1>4. Clear(place) /\ place <= size
    BY <1>3, ClearAtRecord
<1>5. Clear(Place)'
    BY <1>1, <1>2, <1>3, <1>4 DEF Clear, End
<1>6. BLOCKHEAD_SIZE <= dwOffset'
    <2>1. WellTyped
        BY DEF Reading, InOrder
    <2>2. dwOffset \in Nat /\ dwRealSize \in Nat /\ BLOCKHEAD_SIZE \in Nat
        BY <2>1, Bases
    <2>3. BLOCKHEAD_SIZE <= dwOffset
        BY <1>1, <2>2 DEF Aligned, Reading
    <2>4. log[i].len \in Nat
        BY SoundRecords
    <2> QED
        BY <1>2, <2>2, <2>3, <2>4
<1> QED
    BY <1>1, <1>2, <1>3, <1>4, <1>5, <1>6 DEF Aligned

LEMMA SkipAligned ==
    ASSUME Reading, SkipBlock
    PROVE  Aligned'
<1>1. /\ UNCHANGED <<size, log, dwBlockIndex, dwRealSize>> /\ pc' = "scan"
      /\ dwOffset' = BlockSize
    BY DEF SkipBlock, writerVars
<1>2. /\ Base \in Nat /\ BlockSize \in Nat /\ BLOCKHEAD_SIZE \in Nat
      /\ BLOCKHEAD_SIZE < BlockSize /\ dwBlockIndex \in Nat /\ DataOffset \in Nat
    BY Bases DEF Reading, InOrder
<1>3. PICK place \in Nat, q \in Nat : place = Base + BlockSize /\ q = dwBlockIndex + 1
    BY <1>2
<1>4. place = DataOffset + BlockSize * q
    <2>1. PICK block \in Nat : block = BlockSize * dwBlockIndex
        BY <1>2, BlockOffsets
    <2>2. BlockSize * (dwBlockIndex + 1) = block + BlockSize
        BY <1>2, <2>1, BlockOffsets
    <2>3. Base = DataOffset + block
        BY <2>1 DEF Base
    <2> QED
        BY <1>2, <1>3, <2>2, <2>3
<1>5. Clear(place)
    BY <1>4, ClearAtBoundary
<1>6. Place' = place
    BY <1>1, <1>3 DEF Place, Base
<1>7. Clear(Place)'
    BY <1>1, <1>5, <1>6 DEF Clear, End
<1> QED
    BY <1>1, <1>2, <1>7 DEF Aligned

LEMMA AlignedStep == InOrder /\ SoundFile /\ Aligned /\ Fits /\ [Next]_vars => Aligned'
<1> SUFFICES ASSUME InOrder, SoundFile, Aligned, Fits, [Next]_vars, sound' PROVE Aligned'
    BY DEF Aligned
<1>0. WellTyped
    BY DEF InOrder
<1>1. ASSUME NEW payload \in Sizes, Write(payload) PROVE Aligned'
    BY <1>0, <1>1, WriteAligned
<1>2. CASE \/ GetIterator \/ CallNext \/ ReadNextBlock \/ CheckGrowth \/ ReloadBlock
           \/ LoadBlock \/ Deliver \/ SkipBlock \/ NextThrows \/ UNCHANGED vars
    <2>1. UNCHANGED <<size, log, sound>>
        BY <1>2 DEF GetIterator, CallNext, ReadNextBlock, CheckGrowth, ReloadBlock, LoadBlock,
                    Deliver, SkipBlock, NextThrows, vars, writerVars
    <2>2. Reading
        BY <2>1 DEF Reading
    <2>3. CASE ReloadBlock
        <3>1. pc = "reload" /\ UNCHANGED <<dwBlockIndex, dwOffset>> /\ pc' # "reload"
            BY <2>3 DEF ReloadBlock, Returns
        <3>2. BLOCKHEAD_SIZE <= dwOffset
            BY <2>2, <3>1 DEF Aligned, Reading
        <3> QED
            BY <2>1, <2>2, <3>1, <3>2, StillAligned
    <2>4. CASE CallNext \/ CheckGrowth \/ NextThrows \/ UNCHANGED vars
        <3>1. UNCHANGED <<dwBlockIndex, dwOffset, dwRealSize>>
            BY <2>4 DEF CallNext, CheckGrowth, NextThrows, vars
        <3>2. pc' = "reload" => 0 < dwRealSize \/ pc = "reload"
            BY <2>4 DEF CallNext, CheckGrowth, NextThrows, Returns, vars
        <3>3. /\ 0 < dwRealSize => BLOCKHEAD_SIZE <= dwOffset
              /\ pc' = "reload" => 0 < dwRealSize
            BY <2>2, <3>2 DEF Aligned, Reading
        <3> QED
            BY <2>1, <2>2, <3>1, <3>3, StillAligned
    <2> QED
        BY <1>2, <2>2, <2>3, <2>4, OpenAligned, ReadNextAligned, LoadAligned, DeliverAligned,
           SkipAligned
<1> QED
    BY <1>1, <1>2 DEF Next

LEMMA OnlyRecordsStep ==
    InOrder /\ SoundFile /\ Aligned /\ OnlyRecords /\ Fits /\ [Next]_vars => OnlyRecords'
<1> SUFFICES ASSUME InOrder, SoundFile, Aligned, OnlyRecords, Fits, [Next]_vars, sound'
             PROVE  OnlyRecords'
    BY DEF OnlyRecords
<1>0. WellTyped
    BY DEF InOrder
<1>1. CASE Deliver
    <2>1. Reading
        BY <1>1 DEF Reading, Deliver, writerVars
    <2>2. PICK i \in 1..Len(log) : delivered' = Append(delivered, i)
        BY <1>1, <2>1, SoundDelivery
    <2>3. PICK n \in Nat : n = Len(delivered) /\ delivered \in Seq(0..Len(log))
        BY <1>0, Numbers DEF WellTyped, TypeOK
    <2>4. /\ Len(delivered') = n + 1 /\ delivered'[n + 1] = i
          /\ \A k \in 1..n : delivered'[k] = delivered[k]
        BY <2>2, <2>3, AppendProperties
    <2>5. i # NoRecord
        BY <1>0, Numbers DEF NoRecord
    <2>6. \A k \in 1..n : delivered[k] # NoRecord
        BY <2>1, <2>3 DEF OnlyRecords, Reading
    <2>7. \A k \in 1..Len(delivered') : k \in 1..n \/ k = n + 1
        BY <2>4
    <2> QED
        BY <2>4, <2>5, <2>6, <2>7 DEF OnlyRecords
<1>2. CASE GetIterator
    <2>1. Len(delivered') = 0
        BY <1>2, EmptySeq DEF GetIterator
    <2> QED
        BY <2>1 DEF OnlyRecords
<1>3. CASE \/ CallNext \/ ReadNextBlock \/ CheckGrowth \/ ReloadBlock
           \/ LoadBlock \/ SkipBlock \/ NextThrows \/ UNCHANGED vars
    <2>1. UNCHANGED <<delivered, sound>>
        BY <1>3 DEF CallNext, ReadNextBlock, CheckGrowth, ReloadBlock, LoadBlock,
                    SkipBlock, NextThrows, vars, writerVars
    <2> QED
        BY <2>1 DEF OnlyRecords
<1>4. ASSUME NEW payload \in Sizes, Write(payload) PROVE OnlyRecords'
    <2>1. sound /\ delivered' = delivered
        BY <1>0, <1>4, SoundWriteStep DEF Write, readerVars
    <2> QED
        BY <2>1 DEF OnlyRecords
<1> QED
    BY <1>1, <1>2, <1>3, <1>4 DEF Next

LEMMA AlignedInit == Init => Aligned /\ OnlyRecords
<1> SUFFICES ASSUME Init PROVE Aligned /\ OnlyRecords
    OBVIOUS
<1>1. /\ log = <<>> /\ delivered = <<>> /\ size = DataOffset
      /\ dwBlockIndex = 0 /\ dwOffset = 0 /\ dwRealSize = 0 /\ pc = "idle"
    BY DEF Init
<1>2. Len(log) = 0 /\ Len(delivered) = 0
    BY <1>1, EmptySeq
<1>3. Place = DataOffset
    <2>1. BlockSize * 0 = 0
        BY LayoutAssumption
    <2> QED
        BY <1>1, <2>1, LayoutAssumption DEF Place
<1>4. Place <= size
    BY <1>1, <1>3, LayoutAssumption
<1> QED
    BY <1>1, <1>2, <1>4 DEF Aligned, OnlyRecords, Clear

(* What a reader below 4 GiB gets is in order: its records come in the     *)
(* order they were written, each once, from the one its iterator was       *)
(* opened at, and a record that was cut short only where later Writes have *)
(* filled its place, whatever became of the Writes; from a sound file it   *)
(* gets nothing but records, whatever the bytes of the records look like.  *)
THEOREM BinlogReadInOrder == Spec /\ []Fits => []ReadInOrder
<1> DEFINE All == InOrder /\ SoundFile /\ Aligned /\ OnlyRecords
<1>1. All => ReadInOrder
    BY DEF InOrder, RecordsInOrder, RecordInOrder, OnlyRecords, ReadInOrder
<1>2. Init => All
    BY InOrderInit, SoundInit, AlignedInit
<1>3. All /\ Fits /\ [Next]_vars => All'
    <2>1. InOrder => WellTyped
        BY DEF InOrder
    <2> QED
        BY <2>1, InOrderStep, SoundStep, AlignedStep, OnlyRecordsStep
<1> HIDE DEF All
<1> QED
    BY <1>1, <1>2, <1>3, PTL DEF Spec

-----------------------------------------------------------------------------
(* What a reader that follows a sound file gets. *)

LEMMA OpenFollow ==
    ASSUME InOrder, SoundFile, GetIterator
    PROVE  Follow'
<1> SUFFICES ASSUME sound' PROVE Following'
    BY DEF Follow
<1>1. /\ UNCHANGED <<size, log, returned, sound, pc>>
      /\ dwRealSize' = 0 /\ delivered' = <<>> /\ pc = "idle"
    BY DEF GetIterator, writerVars
<1>2. Reading
    BY <1>1 DEF Reading
<1>3. WellTyped
    BY DEF InOrder
<1>4. size \in Nat /\ DataOffset \in Nat /\ BLOCKHEAD_SIZE \in Nat \ {0}
    BY <1>3, Bases
<1>5. Len(delivered') = 0
    BY <1>1, EmptySeq
<1>6. PICK next : next = from'
    OBVIOUS
<1>7. PICK place, base : place = Place' /\ base = Base'
    OBVIOUS
<1>8. PICK offset : offset = dwOffset'
    OBVIOUS
<1>9. next = NextDue'
    <2>1. next = 1 \/ next \in 1..Len(log)
        BY <1>3, <1>6, IteratorOpens
    <2>2. next \in Nat
        BY <1>2, <2>1, SoundRecords
    <2>3. NextDue' = next + 0
        BY <1>5, <1>6 DEF NextDue
    <2> QED
        BY <2>2, <2>3
<1>10. Cached(base, offset, 0)
    BY DEF Cached
<1>11. CASE next = 1 /\ offset = 0 /\ place = DataOffset
    <2>1. place <= size
        BY <1>3, <1>4, <1>11 DEF WellTyped, FileSound
    <2>2. Ahead(place, next)
        <3>1. ASSUME NEW i \in 1..Len(log) PROVE place <= log[i].at
            BY <1>2, <1>11, SoundRecords DEF SoundRecord, AfterHead
        <3> QED
            BY <3>1 DEF Ahead
    <2>3. Due(base, place, offset, next)
        BY <1>4, <1>11 DEF Due
    <2> QED
        BY <1>1, <1>5, <1>7, <1>8, <1>9, <1>10, <2>1, <2>2, <2>3, FollowingNow
<1>12. CASE next \in 1..Len(log) /\ place = returned[next]
    <2>1. place = log[next].at
        BY <1>2, <1>12, Layout DEF Reading, SoundFile
    <2>2. place <= size
        <3>1. /\ log[next].at \in Nat /\ End(next) \in Nat
              /\ log[next].at < End(next) /\ End(next) <= size
            BY <1>2, <1>12, SoundRecords
        <3> QED
            BY <1>4, <2>1, <3>1
    <2>3. Ahead(place, next)
        <3>1. ASSUME NEW i \in 1..Len(log), next <= i PROVE place <= log[i].at
            <4>1. /\ log[next].at \in Nat /\ End(next) \in Nat /\ log[i].at \in Nat
                  /\ log[next].at < End(next) /\ Len(log) \in Nat
                BY <1>2, <1>12, SoundRecords
            <4>2. next < i => End(next) <= log[i].at
                BY <1>2, <1>12, SoundRecords
            <4> QED
                BY <1>12, <2>1, <3>1, <4>1, <4>2
        <3> QED
            BY <3>1 DEF Ahead
    <2>4. Due(base, place, offset, next)
        <3>1. Len(log) \in Nat
            BY <1>2, SoundRecords
        <3> QED
            BY <1>12, <2>1, <3>1 DEF Due
    <2> QED
        BY <1>1, <1>5, <1>7, <1>8, <1>9, <1>10, <2>2, <2>3, <2>4, FollowingNow
<1> QED
    BY <1>3, <1>6, <1>7, <1>8, <1>11, <1>12, IteratorOpens

LEMMA ReadNextFollow ==
    ASSUME InOrder, SoundFile, Follow, Fits, ReadNextBlock
    PROVE  Follow'
<1> SUFFICES ASSUME sound', ~overran' PROVE Following'
    BY DEF Follow
<1>1. /\ UNCHANGED <<size, log, sound, from, delivered>>
      /\ dwBlockIndex' = dwBlockIndex + 1
      /\ TakeBlock(dwBlockIndex + 1, BLOCKHEAD_SIZE)
      /\ overran' = (overran \/ dwRealSize' = 0)
      /\ dwOffset >= BlockSize /\ pc = "scan"
    BY DEF ReadNextBlock, writerVars
<1>2. Reading /\ Following
    BY <1>1 DEF Reading, Follow
<1>3. WellTyped
    BY DEF InOrder
<1>4. /\ Base \in Nat /\ dwOffset \in Nat /\ Place = Base + dwOffset /\ dwOffset <= BlockSize
      /\ BlockSize \in Nat /\ size \in Nat /\ BLOCKHEAD_SIZE \in Nat \ {0}
      /\ dwBlockIndex \in Nat
    BY <1>3, Bases
<1>5. dwOffset = BlockSize
    BY <1>1, <1>4
<1>6. PICK index \in Nat : index = dwBlockIndex + 1
    BY <1>4
<1>7. PICK base \in Nat : base = Base + BlockSize
    BY <1>4
<1>8. /\ base = DataOffset + BlockSize * index /\ BlockOffset(index) = base
      /\ base = Place
    BY <1>3, <1>4, <1>5, <1>6, <1>7, FittingOffsets
<1>9. dwRealSize' = Available(index) /\ Available(index) # 0
    BY <1>1, <1>3, <1>6, BlockTaken
<1>10. base < size
    BY <1>4, <1>8, <1>9 DEF Available
<1>11. BLOCKHEAD_SIZE <= Available(index) /\ base \in heads
    BY <1>2, <1>8, <1>10, HeadFound
<1>12. TakeBlock(index, BLOCKHEAD_SIZE)
    BY <1>1, <1>6
<1>13. dwOffset' = BLOCKHEAD_SIZE /\ pc' = pc
    BY <1>3, <1>8, <1>11, <1>12, BlockTaken
<1>14. base <= Place /\ Place < base + BLOCKHEAD_SIZE
    BY <1>4, <1>8
<1>15. pc' # "reload" /\ dwBlockIndex' = index
    BY <1>1, <1>6, <1>13
<1> QED
    BY <1>1, <1>2, <1>8, <1>9, <1>10, <1>13, <1>14, <1>15, EnteredFollow

LEMMA LoadFollow ==
    ASSUME InOrder, SoundFile, Follow, Fits, LoadBlock
    PROVE  Follow'
<1> SUFFICES ASSUME sound', ~overran' PROVE Following'
    BY DEF Follow
<1> DEFINE found == IF dwOffset < BLOCKHEAD_SIZE THEN BLOCKHEAD_SIZE ELSE dwOffset
<1>1. /\ UNCHANGED <<size, log, sound, from, delivered, dwBlockIndex, overran>>
      /\ TakeBlock(dwBlockIndex, found) /\ pc = "scan"
    BY DEF LoadBlock, writerVars
<1>2. Reading /\ Following
    BY <1>1 DEF Reading, Follow
<1>3. WellTyped
    BY DEF InOrder
<1>4. /\ Base \in Nat /\ dwOffset \in Nat /\ Place = Base + dwOffset
      /\ BlockSize \in Nat /\ size \in Nat /\ BLOCKHEAD_SIZE \in Nat \ {0}
      /\ dwBlockIndex \in Nat
    BY <1>3, Bases
<1>5. PICK index \in Nat : index = dwBlockIndex
    BY <1>4
<1>6. PICK base \in Nat : base = Base
    BY <1>4
<1>7. base = DataOffset + BlockSize * index /\ BlockOffset(index) = base
    BY <1>3, <1>5, <1>6, FittingOffsets DEF Base
<1> HIDE DEF found
<1>0. TakeBlock(index, found)
    BY <1>1, <1>5
<1>8. dwRealSize' = Available(index)
    BY <1>0, <1>3, BlockTaken
<1>9. \A k \in 1..Len(delivered') : delivered'[k] = from' + k - 1
    BY <1>1, <1>2 DEF Following
<1>10. PICK place, next : place = Place /\ next = NextDue
    OBVIOUS
<1>11. base = Base' /\ next = NextDue'
    BY <1>1, <1>6, <1>10 DEF Base, NextDue
<1>12. /\ place <= size /\ Ahead(place, next) /\ Due(base, place, dwOffset, next)
    BY <1>2, <1>6, <1>10 DEF Following
<1>13. pc' # "reload"
    BY <1>0, <1>1, <1>3, BlockTaken
<1>14. PICK offset : offset = dwOffset
    OBVIOUS
<1>15. dwOffset' = dwOffset => place = Place'
    BY <1>1, <1>10 DEF Place
<1>16. CASE Available(index) = 0
    <2>1. dwOffset' = dwOffset
        BY <1>0, <1>3, <1>16, BlockTaken
    <2>2. Cached(base, offset, 0)
        BY DEF Cached
    <2> QED
        BY <1>1, <1>8, <1>9, <1>11, <1>12, <1>13, <1>14, <1>15, <1>16, <2>1, <2>2,
           FollowingNow
<1>17. CASE Available(index) # 0
    <2>1. base < size
        BY <1>4, <1>7, <1>17 DEF Available
    <2>2. BLOCKHEAD_SIZE <= Available(index) /\ base \in heads
        BY <1>2, <1>7, <2>1, HeadFound
    <2>3. BlockOffset(index) \in heads
        BY <1>7, <2>2
    <2>4. dwOffset' = found
        BY <1>0, <1>3, <2>2, <2>3, BlockTaken
    <2>5. CASE dwOffset < BLOCKHEAD_SIZE
        <3>1. dwOffset' = BLOCKHEAD_SIZE
            BY <2>4, <2>5 DEF found
        <3>2. base <= Place /\ Place < base + BLOCKHEAD_SIZE
            BY <1>4, <1>6, <2>5
        <3>3. dwBlockIndex' = index
            BY <1>1, <1>5
        <3> QED
            BY <1>1, <1>2, <1>7, <1>8, <1>13, <2>1, <3>1, <3>2, <3>3, EnteredFollow
    <2>6. CASE BLOCKHEAD_SIZE <= dwOffset
        <3>1. dwOffset' = dwOffset
            BY <1>4, <2>4, <2>6 DEF found
        <3>2. PICK cached : cached = Available(index)
            OBVIOUS
        <3>3. Cached(base, offset, cached)
            BY <1>2, <1>7, <1>14, <2>6, <3>2, CachedNow
        <3> QED
            BY <1>1, <1>8, <1>9, <1>11, <1>12, <1>13, <1>14, <1>15, <3>1, <3>2, <3>3,
               FollowingNow
    <2> QED
        BY <1>4, <2>5, <2>6
<1> QED
    BY <1>16, <1>17

LEMMA ReloadFollow ==
    ASSUME InOrder, SoundFile, Follow, Fits, ReloadBlock
    PROVE  Follow' /\ (sound /\ ~overran => pc' = "scan")
<1> SUFFICES ASSUME sound, ~overran PROVE Following' /\ pc' = "scan"
    <2>1. UNCHANGED <<sound, overran>>
        BY DEF ReloadBlock, writerVars
    <2> QED
        BY <2>1 DEF Follow
<1>1. /\ UNCHANGED <<size, log, from, delivered, dwBlockIndex, dwOffset>>
      /\ dwRealSize' = Available(dwBlockIndex) /\ pc = "reload"
      /\ dwRealSize' >= BLOCKHEAD_SIZE => pc' = "scan"
    BY DEF ReloadBlock, writerVars
<1>2. Reading /\ Following
    BY DEF Reading, Follow
<1>3. WellTyped
    BY DEF InOrder
<1>4. /\ Base \in Nat /\ dwOffset \in Nat /\ dwRealSize \in Nat /\ size \in Nat
      /\ BLOCKHEAD_SIZE \in Nat \ {0} /\ dwBlockIndex \in Nat
    BY <1>3, Bases
<1>5. PICK index \in Nat : index = dwBlockIndex
    BY <1>4
<1>6. PICK base \in Nat : base = Base
    BY <1>4
<1>7. base = DataOffset + BlockSize * index /\ BlockOffset(index) = base
    BY <1>3, <1>5, <1>6, FittingOffsets DEF Base
<1>8. 0 < dwRealSize /\ BLOCKHEAD_SIZE <= dwOffset /\ base < size
    <2>1. 0 < dwRealSize
        BY <1>1, <1>2 DEF Following
    <2>2. BLOCKHEAD_SIZE <= dwOffset /\ base + dwRealSize <= size
        BY <1>2, <1>6, <2>1 DEF Following, Cached
    <2> QED
        BY <1>4, <2>1, <2>2
<1>9. BLOCKHEAD_SIZE <= Available(index)
    BY <1>2, <1>7, <1>8, HeadFound
<1>10. Available(index) \in 0..BlockSize
    BY <1>3, AvailableFits
<1>11. pc' = "scan"
    BY <1>1, <1>4, <1>5, <1>9, <1>10, LayoutAssumption
<1>12. PICK place, next, offset, cached :
          place = Place /\ next = NextDue /\ offset = dwOffset /\ cached = Available(index)
    OBVIOUS
<1>13. /\ place = Place' /\ base = Base' /\ next = NextDue' /\ offset = dwOffset'
       /\ cached = dwRealSize'
    BY <1>1, <1>5, <1>6, <1>12 DEF Place, Base, NextDue
<1>14. place <= size /\ Ahead(place, next) /\ Due(base, place, offset, next)
    BY <1>2, <1>6, <1>12 DEF Following
<1>15. Cached(base, offset, cached)
    BY <1>2, <1>7, <1>8, <1>12, CachedNow
<1>16. \A k \in 1..Len(delivered') : delivered'[k] = from' + k - 1
    BY <1>1, <1>2 DEF Following
<1>17. Following'
    BY <1>1, <1>11, <1>13, <1>14, <1>15, <1>16, FollowingNow
<1> QED
    BY <1>11, <1>17

LEMMA DeliverFollow ==
    ASSUME InOrder, SoundFile, Aligned, Follow, Fits, Deliver
    PROVE  Follow'
<1> SUFFICES ASSUME sound', ~overran' PROVE Following'
    BY DEF Follow
<1>1. /\ UNCHANGED <<size, log, sound, from, dwBlockIndex, dwRealSize, overran>>
      /\ dwOffset < dwRealSize /\ pc' = "idle"
    BY DEF Deliver, Returns, writerVars
<1>2. Reading /\ Following
    BY <1>1 DEF Reading, Follow
<1>3. WellTyped
    BY DEF InOrder
<1>4. /\ Base \in Nat /\ dwOffset \in Nat /\ Place \in Nat /\ Place = Base + dwOffset
      /\ dwRealSize \in Nat /\ size \in Nat /\ BLOCKHEAD_SIZE \in Nat \ {0}
      /\ BlockSize \in Nat
    BY <1>3, Bases
<1>5. PICK i \in 1..Len(log) :
          /\ log[i].at = Place
          /\ dwOffset' = dwOffset + log[i].len
          /\ delivered' = Append(delivered, i)
    BY <1>2, SoundDelivery
<1>6. PICK base \in Nat : base = Base
    BY <1>4
<1>7. PICK next \in Nat : next = NextDue /\ 1 <= next /\ next <= Len(log) + 1
    BY <1>2, DueFacts
<1>8. /\ Ahead(Place, next) /\ Due(base, Place, dwOffset, next)
      /\ Cached(base, dwOffset, dwRealSize)
    BY <1>2, <1>6, <1>7 DEF Following
<1>9. BLOCKHEAD_SIZE <= dwOffset
    BY <1>1, <1>4, <1>8 DEF Cached
<1>10. /\ Len(log) \in Nat /\ log[i].at \in Nat /\ log[i].len \in Nat /\ End(i) \in Nat
       /\ End(i) = log[i].at + log[i].len /\ log[i].at < End(i) /\ End(i) <= size
    BY <1>2, SoundRecords
<1>11. i = next
    <2>1. ~(i < next)
        <3>1. i < next => End(i) <= Place
            BY <1>2, <1>7, DueFacts
        <3> QED
            BY <1>4, <1>5, <1>10, <3>1
    <2>2. ~(next < i)
        <3> SUFFICES ASSUME next < i PROVE FALSE
            OBVIOUS
        <3>1. next \in 1..Len(log) /\ next <= next
            BY <1>7, <1>10
        <3>2. /\ Place <= log[next].at /\ log[next].at < End(next)
              /\ End(next) <= log[i].at /\ log[next].at \in Nat /\ End(next) \in Nat
            BY <1>2, <1>8, <3>1, SoundRecords DEF Ahead
        <3> QED
            BY <1>4, <1>5, <1>10, <3>2
    <2> QED
        BY <1>7, <1>10, <2>1, <2>2
<1>12. PICK place \in Nat : place = End(i)
    BY <1>10
<1>13. PICK offset \in Nat : offset = dwOffset'
    BY <1>4, <1>5, <1>10
<1>14. offset = dwOffset + log[i].len /\ place = base + offset
    BY <1>4, <1>5, <1>6, <1>10, <1>12, <1>13
<1>15. place = Place' /\ base = Base'
    <2>1. base = Base'
        BY <1>1, <1>6 DEF Base
    <2>2. Place' = base + offset
        BY <1>1, <1>6, <1>13 DEF Base, Place
    <2> QED
        BY <1>14, <2>1, <2>2
<1>16. PICK n \in Nat : n = Len(delivered) /\ from \in Nat
    BY <1>3, Numbers
<1>17. /\ Len(delivered') = n + 1 /\ delivered'[n + 1] = i
       /\ \A k \in 1..n : delivered'[k] = delivered[k]
    <2>1. delivered \in Seq(0..Len(log)) /\ i \in 0..Len(log)
        BY <1>3, <1>10 DEF WellTyped, TypeOK
    <2> QED
        BY <1>5, <1>16, <2>1, AppendProperties
<1>18. next = from + n
    BY <1>7, <1>16 DEF NextDue
<1>19. PICK then \in Nat : then = next + 1 /\ then = NextDue'
    BY <1>1, <1>7, <1>16, <1>17, <1>18 DEF NextDue
<1>20. \A k \in 1..Len(delivered') : delivered'[k] = from' + k - 1
    <2>1. ASSUME NEW k \in 1..(n + 1) PROVE delivered'[k] = from + k - 1
        <3>1. CASE k \in 1..n
            BY <1>2, <1>16, <1>17, <3>1 DEF Following
        <3>2. CASE k = n + 1
            BY <1>11, <1>16, <1>17, <1>18, <3>2
        <3> QED
            BY <1>16, <3>1, <3>2
    <2> QED
        BY <1>1, <1>17, <2>1
<1>21. place <= size
    BY <1>10, <1>12
<1>22. Ahead(place, then)
    <2>1. ASSUME NEW j \in 1..Len(log), then <= j PROVE place <= log[j].at
        <3>1. i < j
            BY <1>7, <1>11, <1>19, <2>1
        <3> QED
            BY <1>2, <1>12, <3>1, SoundRecords
    <2> QED
        BY <2>1 DEF Ahead
<1>23. Due(base, place, offset, then)
    <2>1. CASE then \in 1..Len(log)
        <3>1. Follows(place, log[then].at)
            BY <1>2, <1>11, <1>12, <1>19, <2>1 DEF Reading, SoundFile
        <3>2. log[then].at \in Nat
            BY <1>2, <2>1, SoundRecords
        <3>3. Base < place
            BY <1>4, <1>5, <1>10, <1>12
        <3>4. log[then].at = place \/ base + BlockSize <= log[then].at
            BY <1>3, <1>6, <3>1, <3>2, <3>3, FollowsDue
        <3>5. ~(Len(log) < then)
            BY <1>10, <2>1
        <3> QED
            BY <3>4, <3>5 DEF Due
    <2>2. CASE then \notin 1..Len(log)
        <3>1. i = Len(log)
            BY <1>10, <1>11, <1>19, <2>2
        <3>2. size = log[i].at + log[i].len
            BY <1>2, <3>1 DEF Reading, SoundFile
        <3> QED
            BY <1>10, <1>12, <2>2, <3>2 DEF Due
    <2> QED
        BY <2>1, <2>2
<1>24. PICK cached : cached = dwRealSize
    OBVIOUS
<1>25. Cached(base, offset, cached)
    <2>1. BLOCKHEAD_SIZE <= offset
        BY <1>4, <1>9, <1>10, <1>14
    <2> QED
        BY <1>8, <1>24, <2>1 DEF Cached
<1>26. UNCHANGED <<size, log>> /\ cached = dwRealSize' /\ pc' # "reload"
    BY <1>1, <1>24
<1> QED
    BY <1>13, <1>15, <1>19, <1>20, <1>21, <1>22, <1>23, <1>25, <1>26, FollowingNow

(* The reader gives up a block only where it holds no further record. *)
LEMMA SkipFollow ==
    ASSUME InOrder, SoundFile, Follow, Fits, SkipBlock
    PROVE  Follow'
<1> SUFFICES ASSUME sound', ~overran' PROVE Following'
    BY DEF Follow
<1>1. /\ UNCHANGED <<size, log, sound, from, delivered, dwBlockIndex, dwRealSize, overran>>
      /\ dwOffset < dwRealSize /\ dwOffset' = BlockSize /\ pc' = "scan"
      /\ \A i \in Seen : ~(Complete(i) /\ Buffered(log[i].len))
    BY DEF SkipBlock, writerVars
<1>2. Reading /\ Following
    BY <1>1 DEF Reading, Follow
<1>3. WellTyped
    BY DEF InOrder
<1>4. /\ Base \in Nat /\ dwOffset \in Nat /\ Place \in Nat /\ Place = Base + dwOffset
      /\ dwRealSize \in Nat /\ size \in Nat /\ BLOCKHEAD_SIZE \in Nat \ {0}
      /\ BlockSize \in Nat /\ BLOCKHEAD_SIZE < BlockSize
    BY <1>3, Bases
<1>5. PICK base \in Nat : base = Base
    BY <1>4
<1>6. PICK next \in Nat : next = NextDue /\ 1 <= next /\ next <= Len(log) + 1
    BY <1>2, DueFacts
<1>7. /\ Ahead(Place, next) /\ Due(base, Place, dwOffset, next)
      /\ Cached(base, dwOffset, dwRealSize)
    BY <1>2, <1>5, <1>6 DEF Following
<1>8. /\ BLOCKHEAD_SIZE <= dwOffset /\ base + dwRealSize <= size
      /\ \A i \in 1..Len(log) : End(i) <= base + dwRealSize \/ base + dwRealSize <= log[i].at
    BY <1>1, <1>4, <1>7 DEF Cached
<1>9. next \in 1..Len(log)
    <2>1. Len(log) \in Nat
        BY <1>2, SoundRecords
    <2>2. Len(log) < next => Place = size
        BY <1>7, <1>8 DEF Due
    <2> QED
        BY <1>1, <1>4, <1>5, <1>6, <1>8, <2>1, <2>2
<1>10. /\ log[next].at \in Nat /\ log[next].len \in Nat /\ End(next) \in Nat
       /\ End(next) = log[next].at + log[next].len
       /\ log[next].at < End(next) /\ End(next) <= size
       /\ There(next) /\ SoundRecord(log[next])
    BY <1>2, <1>9, SoundRecords
<1>11. base + BlockSize <= log[next].at
    <2> SUFFICES ASSUME log[next].at = Place PROVE FALSE
        BY <1>7, <1>8, <1>9 DEF Due
    <2>1. End(next) <= base + dwRealSize
        BY <1>1, <1>4, <1>5, <1>8, <1>9, <1>10
    <2>2. log[next].len <= dwRealSize - dwOffset
        BY <1>4, <1>5, <1>10, <2>1
    <2>3. LOG_OVERHEAD <= log[next].len /\ Whole(log[next])
        BY <1>10 DEF SoundRecord
    <2>4. LOG_OVERHEAD <= dwRealSize - dwOffset
        BY <1>4, <1>10, <2>2, <2>3, LayoutAssumption
    <2>5. Complete(next) /\ Buffered(log[next].len)
        <3>1. next # NoRecord
            BY <1>6 DEF NoRecord
        <3> QED
            BY <1>4, <1>10, <2>2, <2>3, <2>4, <3>1, LayoutAssumption DEF Complete, Buffered
    <2>6. next \in Seen
        BY <1>3, <1>9, <1>10, HereIsPlace DEF Seen, RecordAt, There
    <2> QED
        BY <1>1, <2>5, <2>6
<1>12. PICK place \in Nat : place = base + BlockSize
    BY <1>4
<1>13. place = Place' /\ base = Base' /\ next = NextDue'
    BY <1>1, <1>5, <1>6, <1>12 DEF Place, Base, NextDue
<1>14. place <= size
    BY <1>4, <1>10, <1>11, <1>12
<1>15. Ahead(place, next)
    <2>1. ASSUME NEW i \in 1..Len(log), next <= i PROVE place <= log[i].at
        <3>1. Len(log) \in Nat /\ log[i].at \in Nat
            BY <1>2, SoundRecords
        <3>2. next < i => End(next) <= log[i].at
            BY <1>2, <1>9, SoundRecords
        <3>3. CASE next = i
            BY <1>11, <1>12, <3>3
        <3>4. CASE next < i
            BY <1>10, <1>11, <1>12, <3>1, <3>2, <3>4
        <3> QED
            BY <2>1, <3>1, <3>3, <3>4, <1>6
    <2> QED
        BY <2>1 DEF Ahead
<1>16. Due(base, place, BlockSize, next)
    <2>1. ~(Len(log) < next)
        BY <1>6, <1>9
    <2> QED
        BY <1>11, <2>1 DEF Due
<1>17. PICK cached : cached = dwRealSize
    OBVIOUS
<1>18. Cached(base, BlockSize, cached)
    <2>1. BLOCKHEAD_SIZE <= BlockSize
        BY <1>4
    <2> QED
        BY <1>7, <1>17, <2>1 DEF Cached
<1>19. /\ UNCHANGED <<size, log>> /\ cached = dwRealSize' /\ pc' # "reload"
       /\ BlockSize = dwOffset'
    BY <1>1, <1>17
<1>20. \A k \in 1..Len(delivered') : delivered'[k] = from' + k - 1
    BY <1>1, <1>2 DEF Following
<1> QED
    BY <1>13, <1>14, <1>15, <1>16, <1>18, <1>19, <1>20, FollowingNow

LEMMA FollowInit == Init => Follow
<1> SUFFICES ASSUME Init PROVE Following
    BY DEF Follow
<1>1. /\ log = <<>> /\ delivered = <<>> /\ from = 1 /\ size = DataOffset
      /\ dwBlockIndex = 0 /\ dwOffset = 0 /\ dwRealSize = 0 /\ pc = "idle"
    BY DEF Init
<1>2. Len(log) = 0 /\ Len(delivered) = 0
    BY <1>1, EmptySeq
<1>3. /\ DataOffset \in Nat /\ BLOCKHEAD_SIZE \in Nat \ {0} /\ BlockSize \in Nat
    BY LayoutAssumption
<1>4. Place = DataOffset
    <2>1. BlockSize * 0 = 0
        BY <1>3
    <2> QED
        BY <1>1, <1>3, <2>1 DEF Place
<1>5. Place <= size
    BY <1>1, <1>3, <1>4
<1>6. Ahead(Place, NextDue)
    BY <1>2 DEF Ahead
<1>7. Due(Base, Place, dwOffset, NextDue)
    BY <1>1, <1>3 DEF Due
<1>8. Cached(Base, dwOffset, dwRealSize)
    BY <1>1 DEF Cached
<1>9. \A k \in 1..Len(delivered) : delivered[k] = from + k - 1
    BY <1>2
<1> QED
    BY <1>1, <1>5, <1>6, <1>7, <1>8, <1>9 DEF Following

LEMMA FollowStep ==
    InOrder /\ SoundFile /\ Aligned /\ Follow /\ Fits /\ [Next]_vars => Follow'
<1> SUFFICES ASSUME InOrder, SoundFile, Aligned, Follow, Fits, [Next]_vars PROVE Follow'
    OBVIOUS
<1>1. ASSUME NEW payload \in Sizes, Write(payload) PROVE Follow'
    BY <1>1, WriteFollow
<1>2. CASE GetIterator
    BY <1>2, OpenFollow
<1>3. CASE ReadNextBlock
    BY <1>3, ReadNextFollow
<1>4. CASE LoadBlock
    BY <1>4, LoadFollow
<1>5. CASE ReloadBlock
    BY <1>5, ReloadFollow
<1>6. CASE Deliver
    BY <1>6, DeliverFollow
<1>7. CASE SkipBlock
    BY <1>7, SkipFollow
<1>8. CASE CallNext \/ CheckGrowth \/ NextThrows \/ UNCHANGED vars
    <2>1. UNCHANGED <<size, log, dwBlockIndex, dwOffset, dwRealSize, from, delivered,
                      sound, overran>>
        BY <1>8 DEF CallNext, CheckGrowth, NextThrows, vars, writerVars
    <2>2. pc' = "reload" => 0 < dwRealSize \/ pc = "reload"
        BY <1>8 DEF CallNext, CheckGrowth, NextThrows, Returns, vars
    <2>3. Following => Following'
        <3> SUFFICES ASSUME Following PROVE Following'
            OBVIOUS
        <3>1. pc' = "reload" => 0 < dwRealSize
            BY <2>2 DEF Following
        <3> QED
            BY <2>1, <3>1, StillFollowing
    <2> QED
        BY <2>1, <2>3 DEF Follow
<1> QED
    BY <1>1, <1>2, <1>3, <1>4, <1>5, <1>6, <1>7, <1>8 DEF Next

Invariant == InOrder /\ SoundFile /\ Aligned /\ Follow

LEMMA InvariantStep == Invariant /\ Fits /\ [Next]_vars => Invariant'
<1>1. InOrder => WellTyped
    BY DEF InOrder
<1> QED
    BY <1>1, InOrderStep, SoundStep, AlignedStep, FollowStep DEF Invariant

LEMMA InvariantInit == Init => Invariant
BY InOrderInit, SoundInit, AlignedInit, FollowInit DEF Invariant

(* A reader of a sound log gets every record from the one its iterator was *)
(* opened at, without a gap, while the log grows: a block is given up only *)
(* where no record of it is left, and its cached part ends where a record  *)
(* ends.                                                                   *)
THEOREM BinlogNothingSkipped == Spec /\ []Fits => []NothingSkipped
<1>1. Invariant => NothingSkipped
    BY DEF Invariant, Follow, Following, NothingSkipped
<1> QED
    BY <1>1, InvariantInit, InvariantStep, PTL DEF Spec

(* At the end of the file nothing is due. *)
LEMMA NothingDue ==
    ASSUME Reading, Following, size <= Place
    PROVE  AllRead
<1>1. PICK next \in Nat : next = NextDue /\ 1 <= next /\ next <= Len(log) + 1
    BY DueFacts
<1>2. Len(log) \in Nat
    BY SoundRecords
<1>3. ~(next <= Len(log))
    <2> SUFFICES ASSUME next <= Len(log) PROVE FALSE
        OBVIOUS
    <2>1. next \in 1..Len(log) /\ next <= next
        BY <1>1, <1>2
    <2>2. /\ log[next].at \in Nat /\ End(next) \in Nat
          /\ log[next].at < End(next) /\ End(next) <= size
        BY <2>1, SoundRecords
    <2>3. Place <= log[next].at
        BY <1>1, <2>1 DEF Following, Ahead
    <2>4. WellTyped
        BY DEF Reading, InOrder
    <2>5. size \in Nat /\ Place \in Nat
        BY <2>4, Bases
    <2> QED
        BY <2>2, <2>3, <2>5
<1>4. from + Len(delivered) > Len(log)
    BY <1>1, <1>2, <1>3 DEF NextDue
<1> QED
    BY <1>4 DEF AllRead

LEMMA EndOfFileStep ==
    ASSUME Invariant, Fits, [Next]_vars, NextReturnsEof, sound, ~overran
    PROVE  AllRead
<1>1. Reading /\ Following /\ WellTyped
    BY DEF Invariant, Reading, Follow, InOrder
<1>2. pc # "idle" /\ pc' = "idle" /\ result' = "end of file"
    BY DEF NextReturnsEof
<1>3. /\ Base \in Nat /\ dwOffset \in Nat /\ Place = Base + dwOffset /\ Place \in Nat
      /\ BlockSize \in Nat /\ size \in Nat /\ dwBlockIndex \in Nat /\ dwOffset <= BlockSize
      /\ BLOCKHEAD_SIZE \in Nat
    BY <1>1, Bases
<1> SUFFICES size <= Place
    BY <1>1, NothingDue
<1>4. CASE ReadNextBlock
    <2>1. /\ TakeBlock(dwBlockIndex + 1, BLOCKHEAD_SIZE) /\ dwOffset >= BlockSize
        BY <1>4 DEF ReadNextBlock
    <2>2. PICK index \in Nat : index = dwBlockIndex + 1
        BY <1>3
    <2>3. Available(index) = 0
        BY <1>1, <1>2, <2>1, <2>2, BlockTaken
    <2>4. dwOffset = BlockSize
        BY <1>3, <2>1
    <2>5. BlockOffset(index) = Place
        BY <1>1, <1>3, <2>2, <2>4, FittingOffsets
    <2> QED
        BY <1>1, <2>3, <2>5, NothingAvailable
<1>5. CASE CheckGrowth
    <2>1. ReadOffset >= size
        BY <1>2, <1>5 DEF CheckGrowth
    <2> QED
        BY <1>1, <1>3, <2>1, FittingOffsets
<1>6. CASE LoadBlock
    <2>1. PICK found : TakeBlock(dwBlockIndex, found)
        BY <1>6 DEF LoadBlock
    <2>2. Available(dwBlockIndex) = 0
        BY <1>1, <1>2, <1>3, <2>1, BlockTaken
    <2>3. size <= Base
        BY <1>1, <1>3, <2>2, FittingOffsets, NothingAvailable
    <2> QED
        BY <1>3, <2>3
<1>7. CASE ReloadBlock
    <2>1. pc' = "scan"
        BY <1>7, ReloadFollow DEF Invariant
    <2> QED
        BY <1>2, <2>1
<1>8. CASE Deliver \/ SkipBlock \/ NextThrows \/ GetIterator \/ CallNext \/ UNCHANGED vars
    BY <1>2, <1>8 DEF Deliver, SkipBlock, NextThrows, GetIterator, CallNext, Returns, vars
<1>9. ASSUME NEW payload \in Sizes, Write(payload) PROVE FALSE
    BY <1>2, <1>9 DEF Write, readerVars
<1> QED
    BY <1>4, <1>5, <1>6, <1>7, <1>8, <1>9 DEF Next

(* When Next of a reader that has not gone past the end of the file says   *)
(* "end of file", every record that was written has been returned, though  *)
(* a Write may have come between any two of its system calls.              *)
THEOREM BinlogEndOfFile ==
    Spec /\ []Fits => EndOfFileMeansAllReadBeforeOverrun
<1>1. Invariant /\ Fits /\ [Next]_vars =>
          [NextReturnsEof /\ sound /\ ~overran => AllRead]_vars
    BY EndOfFileStep
<1> QED
    BY <1>1, InvariantInit, InvariantStep, PTL DEF Spec, EndOfFileMeansAllReadBeforeOverrun
=============================================================================
