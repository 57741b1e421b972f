------------------------- MODULE SharedWindowProofs -------------------------
(***************************************************************************)
(* Whatever a core takes for the state of the link is one publication, for *)
(* any number of fields, attempts, publications, resets and halts.         *)
(***************************************************************************)
EXTENDS SharedWindow, TLAPS

Uniform(copy) == \A f, g \in Fields : copy[f] = copy[g]

WriterType == [what : {"none", "snapshot", "descriptor"}, at : Nat]
ReaderType == [at : Nat, attempt : Nat, seq : Nat, copy : [Fields -> Nat]]

Typed ==
  /\ snapshot \in [seq : Nat, mem : [Fields -> Nat]]
  /\ writer \in WriterType
  /\ reader \in [Cores -> ReaderType]
  /\ last \in [Cores -> [Fields -> Nat]]
  /\ published \in Nat
  /\ booted \in BOOLEAN /\ running \in BOOLEAN

\* From the boot on the sequence is odd exactly while the interrupt publishes.
Parity == booted => (Odd(snapshot.seq) <=> writer.what = "snapshot")

\* What it has written is of this publication; when it does not write all is one.
Written ==
  booted =>
    IF writer.what = "snapshot"
    THEN /\ writer.at \in 1..(FieldCount + 1)
         /\ \A f \in Fields : f < writer.at => snapshot.mem[f] = published
    ELSE Uniform(snapshot.mem)

\* As long as the sequence has not moved a read has what is in the window.
Follows(r) ==
  r.at # 0 =>
    /\ booted
    /\ ~Odd(r.seq) /\ r.seq <= snapshot.seq
    /\ r.seq = snapshot.seq => \A f \in Fields : f < r.at => r.copy[f] = snapshot.mem[f]

Reading == \A c \in Cores : Follows(reader[c])

IInv ==
  /\ Typed /\ Parity /\ Written /\ Reading /\ SnapshotWhole
  /\ running => booted

-----------------------------------------------------------------------------
\* Parity alternates.
LEMMA OddAlternates == \A n \in Nat : Odd(n + 1) <=> ~Odd(n)
  BY DEF Odd

\* The cleared window and the initial copies are of one publication.
LEMMA NoSnapshotUniform == NoSnapshot \in [Fields -> Nat] /\ Uniform(NoSnapshot)
  BY DEF NoSnapshot, Uniform

\* A core that does not read holds nothing to be checked.
LEMMA NotReadingType == NotReading \in ReaderType /\ NotReading.at = 0
  BY NoSnapshotUniform DEF NotReading, ReaderType

\* The initial state.
LEMMA InitIInv == Init => IInv
  <1> SUFFICES ASSUME Init PROVE IInv
    OBVIOUS
  <1> USE WindowAssumption, NoSnapshotUniform, NotReadingType DEF Init
  <1>1. Typed
    BY DEF Typed, NoWriter, WriterType
  <1>2. Parity /\ Written
    BY DEF Parity, Written
  <1>3. Reading
    BY DEF Reading, Follows
  <1>4. SnapshotWhole
    BY DEF SnapshotWhole, NoSnapshot
  <1> QED
    BY <1>1, <1>2, <1>3, <1>4 DEF IInv
-----------------------------------------------------------------------------
\* Nothing that the lock consists of changes.
LEMMA ElsewhereIInv ==
  ASSUME IInv, UNCHANGED <<snapshot, booted, writer, running, readVars, published>>
  PROVE  IInv'
  BY DEF IInv, Typed, Parity, Written, Reading, SnapshotWhole, Follows, Uniform, readVars

\* Nor when core 0 publishes a descriptor.
LEMMA DescriptorIInv ==
  ASSUME IInv, writer.what # "snapshot", writer' \in WriterType, writer'.what # "snapshot",
         UNCHANGED <<snapshot, booted, running, readVars, published>>
  PROVE  IInv'
  BY DEF IInv, Typed, Parity, Written, Reading, SnapshotWhole, Follows, Uniform, readVars

LEMMA DescriptorStepIInv ==
  ASSUME IInv,
         \/ \E d \in Descriptors : DescriptorBegin(d)
         \/ DescriptorByte \/ DescriptorWord \/ DescriptorEnd
  PROVE  IInv'
  <1> USE DescriptorIInv
  <1>1. writer \in WriterType
    BY DEF IInv, Typed
  <1>2. CASE \E d \in Descriptors : DescriptorBegin(d)
    <2>1. /\ writer = NoWriter /\ writer' = [what |-> "descriptor", at |-> 1]
          /\ UNCHANGED <<snapshot, booted, running, readVars, published>>
      BY <1>2 DEF DescriptorBegin
    <2> QED
      BY <2>1 DEF WriterType, NoWriter
  <1>3. CASE DescriptorByte \/ DescriptorWord
    <2>1. /\ writer.what = "descriptor" /\ writer' = [writer EXCEPT !.at = @ + 1]
          /\ UNCHANGED <<snapshot, booted, running, readVars, published>>
      BY <1>3 DEF DescriptorByte, DescriptorWord
    <2> QED
      BY <1>1, <2>1 DEF WriterType
  <1>4. CASE DescriptorEnd
    <2>1. /\ writer.what = "descriptor" /\ writer' = NoWriter
          /\ UNCHANGED <<snapshot, booted, running, readVars, published>>
      BY <1>4 DEF DescriptorEnd
    <2> QED
      BY <2>1 DEF WriterType, NoWriter
  <1> QED
    BY <1>2, <1>3, <1>4

-----------------------------------------------------------------------------
\* The interrupt's publication: the sequence moves past what a read has noted
\* before any field changes.
LEMMA PublishBeginIInv == IInv /\ PublishBegin => IInv'
  <1> SUFFICES ASSUME IInv, PublishBegin PROVE IInv'
    OBVIOUS
  <1> USE DEF IInv, Typed
  <1>1. /\ snapshot' \in [seq : Nat, mem : [Fields -> Nat]]
        /\ snapshot'.seq = snapshot.seq + 1 /\ snapshot'.mem = snapshot.mem
    BY DEF PublishBegin
  <1>2. /\ writer.what = "none" /\ writer'.what = "snapshot" /\ writer'.at = 1
        /\ writer' \in WriterType
        /\ UNCHANGED <<booted, running, readVars>>
    BY DEF PublishBegin, WriterType, NoWriter
  <1>3. Typed'
    BY <1>1, <1>2 DEF PublishBegin, readVars
  <1>4. Parity'
    BY <1>1, <1>2, OddAlternates DEF Parity
  <1>5. Written'
    BY <1>2, WindowAssumption DEF Written, Fields
  <1>6. Reading'
    <2> SUFFICES ASSUME NEW c \in Cores PROVE Follows(reader[c])'
      BY DEF Reading
    <2>1. Follows(reader[c]) /\ reader'[c] = reader[c] /\ reader[c].seq \in Nat
      BY <1>2 DEF Reading, readVars, ReaderType
    <2> QED
      BY <1>1, <1>2, <2>1 DEF Follows
  <1> QED
    BY <1>2, <1>3, <1>4, <1>5, <1>6 DEF SnapshotWhole, readVars

LEMMA PublishFieldIInv == IInv /\ PublishField => IInv'
  <1> SUFFICES ASSUME IInv, PublishField PROVE IInv'
    OBVIOUS
  <1> USE DEF IInv, Typed
  <1> DEFINE n == writer.at
  <1>1. /\ n \in Fields /\ n \in Nat
        /\ snapshot' \in [seq : Nat, mem : [Fields -> Nat]]
        /\ snapshot'.seq = snapshot.seq
        /\ snapshot'.mem = [snapshot.mem EXCEPT ![n] = published]
    BY DEF PublishField, WriterType
  <1>2. /\ writer.what = "snapshot" /\ writer'.what = "snapshot" /\ writer'.at = n + 1
        /\ writer' \in WriterType
        /\ UNCHANGED <<booted, running, readVars, published>>
    BY DEF PublishField, WriterType
  <1>3. Typed'
    BY <1>1, <1>2 DEF readVars
  <1>4. Parity'
    BY <1>1, <1>2 DEF Parity
  <1>5. Written'
    <2> SUFFICES ASSUME booted PROVE /\ n + 1 \in 1..(FieldCount + 1)
                                     /\ \A f \in Fields : f < n + 1 => snapshot'.mem[f] = published
      BY <1>2 DEF Written
    <2>1. FieldCount \in Nat /\ n \in 1..FieldCount
      BY <1>1, WindowAssumption DEF Fields
    <2>2. \A f \in Fields : f < n => snapshot.mem[f] = published
      BY <1>2 DEF Written
    <2>3. snapshot.mem \in [Fields -> Nat]
      OBVIOUS
    <2>4. ASSUME NEW f \in Fields, f < n + 1 PROVE snapshot'.mem[f] = published
      <3>1. f = n \/ f < n
        BY <2>1, <2>4 DEF Fields
      <3> QED
        BY <1>1, <2>2, <2>3, <3>1
    <2> QED
      BY <2>1, <2>4
  <1>6. Reading'
    <2> SUFFICES ASSUME NEW c \in Cores, reader[c].at # 0 PROVE Follows(reader[c])'
      BY <1>2 DEF Reading, Follows, readVars
    <2>1. Follows(reader[c]) /\ reader'[c] = reader[c]
      BY <1>2 DEF Reading, readVars
    <2>2. booted /\ Odd(snapshot.seq)
      BY <1>2, <2>1 DEF Parity, Follows
    <2> QED
      BY <1>1, <1>2, <2>1, <2>2 DEF Follows
  <1> QED
    BY <1>2, <1>3, <1>4, <1>5, <1>6 DEF SnapshotWhole, readVars

LEMMA PublishEndIInv == IInv /\ PublishEnd => IInv'
  <1> SUFFICES ASSUME IInv, PublishEnd PROVE IInv'
    OBVIOUS
  <1> USE DEF IInv, Typed
  <1>1. /\ snapshot' \in [seq : Nat, mem : [Fields -> Nat]]
        /\ snapshot'.seq = snapshot.seq + 1 /\ snapshot'.mem = snapshot.mem
    BY DEF PublishEnd
  <1>2. /\ writer.what = "snapshot" /\ writer.at = FieldCount + 1
        /\ writer'.what = "none" /\ writer' \in WriterType
        /\ UNCHANGED <<booted, running, readVars, published>>
    BY DEF PublishEnd, WriterType, NoWriter
  <1>3. Typed'
    BY <1>1, <1>2 DEF readVars
  <1>4. Parity'
    BY <1>1, <1>2, OddAlternates DEF Parity
  <1>5. Written'
    BY <1>1, <1>2, WindowAssumption DEF Written, Fields, Uniform
  <1>6. Reading'
    <2> SUFFICES ASSUME NEW c \in Cores PROVE Follows(reader[c])'
      BY DEF Reading
    <2>1. Follows(reader[c]) /\ reader'[c] = reader[c] /\ reader[c].seq \in Nat
      BY <1>2 DEF Reading, readVars, ReaderType
    <2> QED
      BY <1>1, <1>2, <2>1 DEF Follows
  <1> QED
    BY <1>2, <1>3, <1>4, <1>5, <1>6 DEF SnapshotWhole, readVars
-----------------------------------------------------------------------------
\* A read that starts over, or gives up, holds nothing.
LEMMA RetryIInv ==
  ASSUME IInv, NEW c \in Cores, Retry(c),
         UNCHANGED <<snapshot, booted, writer, running, last, published>>
  PROVE  IInv'
  <1> USE DEF IInv, Typed
  <1>1. /\ reader[c].attempt \in Nat
        /\ reader'[c] \in ReaderType /\ reader'[c].at = 0
        /\ \A d \in Cores \ {c} : reader'[d] = reader[d]
        /\ reader' \in [Cores -> ReaderType]
    <2>1. reader[c].attempt \in Nat
      BY DEF ReaderType
    <2> DEFINE n == IF reader[c].attempt + 1 = ReadAttempts THEN 0 ELSE reader[c].attempt + 1
               r == [NotReading EXCEPT !.attempt = n]
    <2>2. n \in Nat
      BY <2>1
    <2> HIDE DEF n
    <2>3. r \in ReaderType /\ r.at = 0
      BY <2>2, NotReadingType DEF ReaderType
    <2>4. reader' = [reader EXCEPT ![c] = r]
      BY DEF Retry, n
    <2> HIDE DEF r
    <2> QED
      BY <2>1, <2>3, <2>4
  <1>2. Reading'
    BY <1>1 DEF Reading, Follows
  <1> QED
    BY <1>1, <1>2 DEF Parity, Written, SnapshotWhole, Uniform

LEMMA ReadBeginIInv == ASSUME NEW c \in Cores, IInv, ReadBegin(c) PROVE IInv'
  <1> USE DEF IInv, Typed
  <1>1. UNCHANGED <<snapshot, booted, writer, running, last, published>>
    BY DEF ReadBegin
  <1>2. CASE Retry(c)
    BY <1>1, <1>2, RetryIInv
  <1>3. CASE /\ ~Odd(snapshot.seq)
             /\ reader' = [reader EXCEPT ![c].at = 1, ![c].seq = snapshot.seq]
    <2>1. booted
      BY DEF ReadBegin, MayRead, Cores
    <2>2. /\ reader'[c] \in ReaderType /\ reader'[c].at = 1 /\ reader'[c].seq = snapshot.seq
          /\ \A d \in Cores \ {c} : reader'[d] = reader[d]
          /\ reader' \in [Cores -> ReaderType]
      BY <1>3 DEF ReaderType
    <2>3. Follows(reader[c])'
      BY <1>1, <1>3, <2>1, <2>2 DEF Follows, Fields
    <2>4. Reading'
      BY <1>1, <2>2, <2>3 DEF Reading, Follows
    <2> QED
      BY <1>1, <2>2, <2>4 DEF Parity, Written, SnapshotWhole, Uniform
  <1> QED
    BY <1>2, <1>3 DEF ReadBegin

LEMMA ReadFieldIInv == ASSUME NEW c \in Cores, IInv, ReadField(c) PROVE IInv'
  <1> USE DEF IInv, Typed
  <1> DEFINE n == reader[c].at
             copied == [reader[c].copy EXCEPT ![n] = snapshot.mem[n]]
             r == [reader[c] EXCEPT !.copy = copied, !.at = n + 1]
  <1>1. UNCHANGED <<snapshot, booted, writer, running, last, published>>
    BY DEF ReadField
  <1>2. n \in Fields /\ n \in Nat /\ n # 0 /\ reader[c] \in ReaderType
    BY WindowAssumption DEF ReadField, Fields
  <1>3. snapshot.mem \in [Fields -> Nat]
    OBVIOUS
  <1>4. reader' = [reader EXCEPT ![c] = r]
    BY DEF ReadField
  <1>5. /\ r \in ReaderType /\ r.at = n + 1 /\ r.seq = reader[c].seq
        /\ \A f \in Fields : r.copy[f] = IF f = n THEN snapshot.mem[f] ELSE reader[c].copy[f]
    <2>1. reader[c].copy \in [Fields -> Nat] /\ snapshot.mem[n] \in Nat
      BY <1>2, <1>3 DEF ReaderType
    <2>2. /\ copied \in [Fields -> Nat]
          /\ \A f \in Fields : copied[f] = IF f = n THEN snapshot.mem[f] ELSE reader[c].copy[f]
      BY <2>1
    <2>3. r.copy = copied /\ r.at = n + 1 /\ r.seq = reader[c].seq
      BY <1>2 DEF ReaderType
    <2> HIDE DEF copied
    <2>4. n + 1 \in Nat
      BY <1>2
    <2>5. r \in ReaderType
      BY ONLY <1>2, <2>2, <2>4 DEF ReaderType
    <2> HIDE DEF r
    <2> QED
      BY <2>2, <2>3, <2>5
  <1> HIDE DEF r, copied
  <1>6. /\ reader'[c] = r /\ reader' \in [Cores -> ReaderType]
        /\ \A d \in Cores \ {c} : reader'[d] = reader[d]
    BY <1>4, <1>5
  <1>7. Follows(reader[c])'
    <2>1. /\ booted /\ ~Odd(r.seq) /\ r.seq <= snapshot.seq
          /\ r.seq = snapshot.seq =>
               \A f \in Fields : f < n => reader[c].copy[f] = snapshot.mem[f]
      BY <1>2, <1>5 DEF Reading, Follows
    <2>2. ASSUME NEW f \in Fields, f < n + 1, r.seq = snapshot.seq
          PROVE  r.copy[f] = snapshot.mem[f]
      <3>1. f = n \/ f < n
        BY <1>2, <2>2, WindowAssumption DEF Fields
      <3> QED
        BY <1>5, <2>1, <2>2, <3>1
    <2> QED
      BY <1>1, <1>5, <1>6, <2>1, <2>2 DEF Follows
  <1>8. Reading'
    BY <1>1, <1>6, <1>7 DEF Reading, Follows
  <1> QED
    BY <1>1, <1>6, <1>8 DEF Parity, Written, SnapshotWhole, Uniform
\* The sequence has not moved, so nobody was writing, and the copy is the
\* window's.
LEMMA ReadEndIInv == ASSUME NEW c \in Cores, IInv, ReadEnd(c) PROVE IInv'
  <1> USE DEF IInv, Typed
  <1>1. UNCHANGED <<snapshot, booted, writer, running, published>>
    BY DEF ReadEnd
  <1>2. CASE Retry(c) /\ UNCHANGED last
    BY <1>1, <1>2, RetryIInv
  <1>3. CASE /\ Unmoved(c)
             /\ last' = [last EXCEPT ![c] = reader[c].copy]
             /\ reader' = [reader EXCEPT ![c] = NotReading]
    <2>1. /\ reader[c] \in ReaderType /\ reader[c].at = FieldCount + 1 /\ reader[c].at # 0
          /\ \A f \in Fields : f < reader[c].at
      BY WindowAssumption DEF ReadEnd, Fields
    <2>2. Follows(reader[c])
      BY DEF Reading
    <2>3. /\ booted /\ ~Odd(snapshot.seq)
          /\ \A f \in Fields : reader[c].copy[f] = snapshot.mem[f]
      BY <1>3, <2>1, <2>2 DEF Follows, Unmoved
    <2>4. Uniform(snapshot.mem)
      BY <2>3 DEF Parity, Written
    <2>5. reader[c].copy \in [Fields -> Nat] /\ Uniform(reader[c].copy)
      BY <2>1, <2>3, <2>4 DEF ReaderType, Uniform
    <2>6. last' \in [Cores -> [Fields -> Nat]] /\ SnapshotWhole'
      BY <1>3, <2>5 DEF SnapshotWhole, Uniform
    <2>7. reader' \in [Cores -> ReaderType] /\ Reading'
      BY <1>1, <1>3, NotReadingType DEF Reading, Follows
    <2> QED
      BY <1>1, <2>6, <2>7 DEF Parity, Written, Uniform
  <1> QED
    BY <1>2, <1>3 DEF ReadEnd

-----------------------------------------------------------------------------
\* Before the boot nobody reads.
LEMMA WindowResetIInv == IInv /\ WindowReset => IInv'
  <1> SUFFICES ASSUME IInv, WindowReset PROVE IInv'
    OBVIOUS
  <1> USE DEF IInv, Typed
  <1>1. /\ ~booted /\ booted' /\ writer.what = "none"
        /\ snapshot' \in [seq : Nat, mem : [Fields -> Nat]]
        /\ snapshot'.seq = 0 /\ Uniform(snapshot'.mem)
        /\ UNCHANGED <<writer, running, readVars, published>>
    BY NoSnapshotUniform DEF WindowReset, Cleared, NoWriter
  <1>2. Parity' /\ Written'
    BY <1>1 DEF Parity, Written, Odd, Uniform
  <1>3. Reading'
    BY <1>1 DEF Reading, Follows, readVars
  <1>4. Typed'
    BY <1>1 DEF WindowReset, readVars
  <1> QED
    BY <1>1, <1>2, <1>3, <1>4 DEF SnapshotWhole, readVars

\* A core that starts, or stops, does not read; what it has is cleared or kept.
LEMMA StopIInv ==
  ASSUME IInv, UNCHANGED <<snapshot, published>>,
         reader' \in [Cores -> ReaderType],
         \A c \in Cores : reader'[c].at = 0 \/ (reader'[c] = reader[c] /\ booted' = booted),
         last' \in [Cores -> [Fields -> Nat]],
         \A c \in Cores : last'[c] = last[c] \/ last'[c] = NoSnapshot,
         booted' \in BOOLEAN, running' \in BOOLEAN, running' => booted',
         \/ booted' = booted /\ writer' = writer
         \/ ~booted' /\ writer' = NoWriter
  PROVE  IInv'
  <1> USE DEF IInv, Typed
  <1>1. Typed'
    BY DEF WriterType, NoWriter
  <1>2. Parity' /\ Written'
    BY DEF Parity, Written, Uniform
  <1>3. Reading'
    <2> SUFFICES ASSUME NEW c \in Cores, reader'[c].at # 0 PROVE Follows(reader[c])'
      BY DEF Reading, Follows
    <2>1. reader'[c] = reader[c] /\ booted' = booted /\ Follows(reader[c])
      BY DEF Reading
    <2> QED
      BY <2>1 DEF Follows
  <1>4. SnapshotWhole'
    BY NoSnapshotUniform DEF SnapshotWhole, Uniform
  <1> QED
    BY <1>1, <1>2, <1>3, <1>4

LEMMA StopsIInv == IInv /\ (Core1Release \/ Core1Halt \/ ChipReset) => IInv'
  <1> SUFFICES ASSUME IInv, Core1Release \/ Core1Halt \/ ChipReset PROVE IInv'
    OBVIOUS
  <1>0. reader \in [Cores -> ReaderType] /\ last \in [Cores -> [Fields -> Nat]]
    BY DEF IInv, Typed
  <1>1. CASE Core1Release
    BY <1>0, <1>1, StopIInv, NotReadingType, NoSnapshotUniform DEF Core1Release, IInv, Typed, Cores
  <1>2. CASE Core1Halt
    <2>1. /\ running' = FALSE /\ reader' = [reader EXCEPT ![1] = NotReading]
          /\ UNCHANGED <<snapshot, published, booted, writer, last>>
      BY <1>2 DEF Core1Halt
    <2>2. reader' \in [Cores -> ReaderType]
      BY <1>0, <2>1, NotReadingType
    <2>3. reader'[1] = NotReading /\ reader'[0] = reader[0]
      BY <1>0, <2>1 DEF Cores
    <2>4. \A c \in Cores : reader'[c].at = 0 \/ (reader'[c] = reader[c] /\ booted' = booted)
      BY <2>1, <2>3, NotReadingType DEF Cores
    <2>5. /\ booted' \in BOOLEAN /\ running' \in BOOLEAN /\ (running' => booted')
          /\ booted' = booted /\ writer' = writer
      BY <2>1 DEF IInv, Typed
    <2>6. last' \in [Cores -> [Fields -> Nat]] /\ \A c \in Cores : last'[c] = last[c]
      BY <1>0, <2>1
    <2>7. /\ \A c \in Cores : last'[c] = last[c] \/ last'[c] = NoSnapshot
          /\ (booted' = booted /\ writer' = writer) \/ (~booted' /\ writer' = NoWriter)
          /\ UNCHANGED <<snapshot, published>>
      BY <2>1, <2>5, <2>6
    <2> QED
      BY ONLY IInv, <2>2, <2>4, <2>5, <2>6, <2>7, StopIInv, Zenon
  <1>3. CASE ChipReset
    <2>1. /\ booted' = FALSE /\ running' = FALSE /\ writer' = NoWriter
          /\ reader' = [c \in Cores |-> NotReading] /\ last' = [c \in Cores |-> NoSnapshot]
          /\ UNCHANGED <<snapshot, published>>
      BY <1>3 DEF ChipReset
    <2>2. /\ reader' \in [Cores -> ReaderType] /\ \A c \in Cores : reader'[c].at = 0
          /\ last' \in [Cores -> [Fields -> Nat]] /\ \A c \in Cores : last'[c] = NoSnapshot
      BY <2>1, NotReadingType, NoSnapshotUniform
    <2>3. /\ \A c \in Cores : reader'[c].at = 0 \/ (reader'[c] = reader[c] /\ booted' = booted)
          /\ \A c \in Cores : last'[c] = last[c] \/ last'[c] = NoSnapshot
      BY <2>2, Zenon
    <2>4. /\ (booted' = booted /\ writer' = writer) \/ (~booted' /\ writer' = NoWriter)
          /\ booted' \in BOOLEAN /\ running' \in BOOLEAN /\ (running' => booted')
          /\ UNCHANGED <<snapshot, published>>
      BY <2>1
    <2> QED
      BY ONLY IInv, <2>2, <2>3, <2>4, StopIInv, Zenon
  <1> QED
    BY <1>1, <1>2, <1>3

\* Core 1's drawing touches nothing of the lock.
LEMMA DrawsIInv == IInv /\ Draws => IInv'
  <1> SUFFICES ASSUME IInv, Draws PROVE IInv'
    OBVIOUS
  <1>1. UNCHANGED <<snapshot, booted, writer, running, readVars, published>>
    BY DEF Draws, FrameSequence, FrameGeneration, FrameLength, FrameByte, FrameInterface,
           FrameEnd, Core1Only
  <1> QED
    BY <1>1, ElsewhereIInv

-----------------------------------------------------------------------------
\* Every step, and a stutter, keeps the invariant.
LEMMA NextIInv == IInv /\ [Next]_vars => IInv'
  <1> SUFFICES ASSUME IInv, [Next]_vars PROVE IInv'
    OBVIOUS
  <1>1. CASE PublishBegin
    BY <1>1, PublishBeginIInv
  <1>2. CASE \E d \in Descriptors : DescriptorBegin(d)
    BY <1>2, DescriptorStepIInv
  <1>3. CASE Publishes
    BY <1>3, PublishFieldIInv, PublishEndIInv, DescriptorStepIInv DEF Publishes
  <1>4. ASSUME NEW c \in Cores, Reads(c) PROVE IInv'
    BY <1>4, ReadBeginIInv, ReadFieldIInv, ReadEndIInv DEF Reads
  <1>5. CASE Draws
    BY <1>5, DrawsIInv
  <1>6. CASE WindowReset
    BY <1>6, WindowResetIInv
  <1>7. CASE Core1Release \/ Core1Halt \/ ChipReset
    BY <1>7, StopsIInv
  <1>8. CASE UNCHANGED vars
    BY <1>8, ElsewhereIInv DEF vars, readVars
  <1> QED
    BY <1>1, <1>2, <1>3, <1>4, <1>5, <1>6, <1>7, <1>8 DEF Next

\* What a core takes for the state of the link is one publication, for any
\* number of fields, attempts, publications, resets and halts.
THEOREM SnapshotsAreWhole == Spec => []SnapshotWhole
  <1>1. IInv => SnapshotWhole
    BY DEF IInv
  <1> QED
    BY InitIInv, NextIInv, <1>1, PTL DEF Spec
=============================================================================
