-------------------------- MODULE AudioRingBuffer --------------------------
(***************************************************************************)
(* ofxVlc4RingBuffer, and the three threads of ofxVlc4 that use the one of *)
(* the audio component.                                                    *)
(*                                                                         *)
(* libVLC's audio thread writes in audioPlay() without a lock, and resets  *)
(* the buffer under audioMutex in audioFlush().  The application's audio   *)
(* thread reads (readAudioIntoBuffer) and visualizers look at the latest   *)
(* samples (peekLatestAudioSamples) under audioMutex.  The main thread     *)
(* resets the buffer under audioMutex when it starts, stops or seeks, and  *)
(* writes silence under audioMutex when a visualizer runs without audio:   *)
(* MainCalls says which of the two it does, and MainWaits whether it does  *)
(* so only while audioPlay() is not running: nothing in the code sees to   *)
(* that.                                                                   *)
(*                                                                         *)
(* readStart and writeStart only grow and wrap with their machine word;    *)
(* a slot is an index masked by the capacity, a power of two.  A sample is *)
(* the number of samples accepted when it was, itself included.            *)
(***************************************************************************)
EXTENDS Integers, FiniteSets

CONSTANTS
    Capacity,    \* number of slots
    Word,        \* indices are computed modulo Word
    MaxBlock,    \* samples in the largest block written or asked for
    MaxSamples,  \* bound on the number of samples accepted
    MainCalls,   \* a subset of {"reset", "silence"}
    MainWaits    \* the main thread's calls and audioPlay() never overlap

ASSUME CapacityAssumption == Capacity \in Nat \ {0}
ASSUME WordAssumption == Word \in Nat /\ Word > Capacity /\ Word % Capacity = 0
ASSUME BoundsAssumption == MaxBlock \in 1 .. Capacity /\ MaxSamples \in Nat
ASSUME MainCallsAssumption == MainCalls \subseteq {"reset", "silence"} /\ MainWaits \in BOOLEAN

VARIABLES
    readStart,   \* _readStart
    writeStart,  \* _writeStart
    slots,       \* _buffer
    mutex,       \* who holds audioMutex
    writer,      \* the threads that write and reset
    reader,      \* the thread that reads and peeks
    accepted, delivered, heard  \* what the buffer is for: see SampleQueue

vars == << readStart, writeStart, slots, mutex, writer, reader,
           accepted, delivered, heard >>

ghosts == << accepted, delivered, heard >>

Index == 0 .. Word - 1
Slots == 0 .. Capacity - 1
Samples == 0 .. MaxSamples
Writers == {"audio", "main"}

\* A slot never written, and memory outside the buffer.
NoSample == 0

Blocks == UNION {[1 .. n -> Samples] : n \in 0 .. MaxBlock}

WriterPlaces == {"idle", "begin", "room", "copy", "end", "publish", "resetRead", "resetWrite"}
ReaderPlaces == {"idle", "begin", "copy", "end"}

WriterType == [at : WriterPlaces, want : 0 .. MaxBlock, w : Index, r : Index, n : 0 .. MaxBlock]
ReaderType == [at : ReaderPlaces, op : {"read", "peek"}, want : 0 .. MaxBlock, w : Index,
               r : Index, n : 0 .. MaxBlock, block : Blocks, latest : Samples]

TypeOK ==
    /\ readStart \in Index /\ writeStart \in Index
    /\ slots \in [Slots -> Samples]
    /\ mutex \in Writers \cup {"reader", "free"}
    /\ writer \in [Writers -> WriterType]
    /\ reader \in ReaderType
    /\ accepted \in Samples /\ delivered \in Samples /\ heard \in Blocks

AtRest == [at |-> "idle", want |-> 0, w |-> 0, r |-> 0, n |-> 0]
ReaderAtRest == [at |-> "idle", op |-> "read", want |-> 0, w |-> 0, r |-> 0, n |-> 0,
                 block |-> << >>, latest |-> 0]

\* A buffer just allocated.
Init ==
    /\ readStart = 0 /\ writeStart = 0
    /\ slots = [s \in Slots |-> NoSample]
    /\ mutex = "free"
    /\ writer = [t \in Writers |-> AtRest]
    /\ reader = ReaderAtRest
    /\ accepted = 0 /\ delivered = 0 /\ heard = << >>

-----------------------------------------------------------------------------
(* Indices: size_t arithmetic *)

Smaller(a, b) == IF a < b THEN a ELSE b
Minus(a, b) == (a - b) % Word
Slot(index) == index % Capacity

\* Unsigned subtraction handles the wrap of the indices.
Readable(w, r) == Minus(w, r)

\* A plausible bug: one slot more than there is.
Writable_OneMore(w, r) == Minus(Capacity + 1, Readable(w, r))
Writable(w, r) == Minus(Capacity, Readable(w, r))

\* writeBegin(): how many of the samples go behind the write position; the
\* others go to the start of the buffer.
WriteFirst(w, r) ==
    IF Slot(w) >= Slot(r) THEN Smaller(Capacity - Slot(w), Writable(w, r)) ELSE Writable(w, r)

\* readBegin(), likewise.
\* A plausible bug: a full buffer is taken for one that does not wrap.
ReadFirst_NotStrict(w, r) ==
    IF Slot(w) >= Slot(r) THEN Readable(w, r)
    ELSE IF Readable(w, r) = 0 THEN 0 ELSE Capacity - Slot(r)
ReadFirst(w, r) ==
    IF Slot(w) > Slot(r) THEN Readable(w, r)
    ELSE IF Readable(w, r) = 0 THEN 0 ELSE Capacity - Slot(r)

\* peekLatest(): the last n samples.
\* A plausible bug: it starts at the oldest sample.
PeekStart_Oldest(w, r, n) == Slot(r)
PeekStart(w, r, n) == Slot(w - n)

\* Where the i-th sample (from 1) of a copy in two parts is.
Place(i, start, first) == IF i <= first THEN start + i - 1 ELSE i - first - 1

WritePlace(t, i) == Place(i, Slot(writer[t].w), WriteFirst(writer[t].w, writer[t].r))
ReadPlace(i) ==
    IF reader.op = "read"
    THEN Place(i, Slot(reader.r), ReadFirst(reader.w, reader.r))
    ELSE LET start == PeekStart(reader.w, reader.r, reader.n) IN
         Place(i, start, Smaller(Capacity - start, reader.n))

-----------------------------------------------------------------------------
(* Writing: audioPlay() on libVLC's audio thread, silence on the main one *)

WriterGoes(t, from, to) ==
    /\ writer[t].at = from
    /\ writer' = [writer EXCEPT ![t].at = to]

\* The main thread holds audioMutex to write, libVLC's thread does not.
Releases(t) == mutex' = IF mutex = t THEN "free" ELSE mutex

\* No other thread is in a write or a reset, where the calls do not overlap.
Alone(t) == MainWaits => \A u \in Writers \ {t} : writer[u].at = "idle"

Write(t) ==
    /\ Alone(t)
    /\ t = "main" => "silence" \in MainCalls /\ mutex = "free"
    /\ writer[t].at = "idle"
    /\ \E want \in 1 .. MaxBlock :
          /\ accepted + want <= MaxSamples
          /\ writer' = [writer EXCEPT ![t] = [AtRest EXCEPT !.at = "begin", !.want = want]]
    /\ mutex' = IF t = "main" THEN t ELSE mutex
    /\ UNCHANGED << readStart, writeStart, slots, reader, ghosts >>

\* writeBegin() loads both indices; consumed is what there is room for, and a
\* write without any ends here.
WriteBegin(t) ==
    /\ writer[t].at = "begin"
    /\ writer' = [writer EXCEPT ![t].at = "room", ![t].w = writeStart]
    /\ UNCHANGED << readStart, writeStart, slots, mutex, reader, ghosts >>

WriteRoom(t) ==
    /\ writer[t].at = "room"
    /\ LET consumed == Smaller(writer[t].want, Writable(writer[t].w, readStart)) IN
       IF consumed = 0
       THEN writer' = [writer EXCEPT ![t] = AtRest] /\ Releases(t)
       ELSE /\ writer' = [writer EXCEPT ![t].at = "copy", ![t].r = readStart, ![t].n = consumed]
            /\ UNCHANGED mutex
    /\ UNCHANGED << readStart, writeStart, slots, reader, ghosts >>

\* memcpy()
WriteCopy(t) ==
    /\ WriterGoes(t, "copy", "end")
    /\ slots' = [s \in Slots |->
          LET here == {i \in 1 .. writer[t].n : WritePlace(t, i) = s} IN
          IF here = {} THEN slots[s]
          ELSE accepted + (CHOOSE i \in here : TRUE)]
    /\ UNCHANGED << readStart, writeStart, mutex, reader, ghosts >>

\* writeEnd(): a load and a store.
WriteEnd(t) ==
    /\ writer[t].at = "end"
    /\ writer' = [writer EXCEPT ![t].at = "publish", ![t].w = writeStart]
    /\ UNCHANGED << readStart, writeStart, slots, mutex, reader, ghosts >>

WritePublish(t) ==
    /\ writer[t].at = "publish"
    /\ writeStart' = (writer[t].w + writer[t].n) % Word
    /\ accepted' = accepted + writer[t].n
    /\ writer' = [writer EXCEPT ![t] = AtRest]
    /\ Releases(t)
    /\ UNCHANGED << readStart, slots, reader, delivered, heard >>

-----------------------------------------------------------------------------
(* resetBuffer(): audioFlush() on libVLC's audio thread, and the main thread *)

Reset(t) ==
    /\ Alone(t)
    /\ t = "main" => "reset" \in MainCalls
    /\ mutex = "free"
    /\ WriterGoes(t, "idle", "resetRead")
    /\ mutex' = t
    /\ UNCHANGED << readStart, writeStart, slots, reader, ghosts >>

ResetRead(t) ==
    /\ WriterGoes(t, "resetRead", "resetWrite")
    /\ readStart' = 0
    /\ UNCHANGED << writeStart, slots, mutex, reader, ghosts >>

ResetWrite(t) ==
    /\ WriterGoes(t, "resetWrite", "idle")
    /\ writeStart' = 0
    /\ delivered' = accepted
    /\ mutex' = "free"
    /\ UNCHANGED << readStart, slots, reader, accepted, heard >>

WriterStep(t) ==
    \/ Write(t)
    \/ WriteBegin(t)
    \/ WriteRoom(t)
    \/ WriteCopy(t)
    \/ WriteEnd(t)
    \/ WritePublish(t)
    \/ Reset(t)
    \/ ResetRead(t)
    \/ ResetWrite(t)

-----------------------------------------------------------------------------
(* Reading: read() and peekLatest(), under audioMutex *)

Read(op) ==
    /\ reader.at = "idle" /\ mutex = "free"
    /\ \E want \in 1 .. MaxBlock :
          reader' = [ReaderAtRest EXCEPT !.at = "begin", !.op = op, !.want = want]
    /\ mutex' = "reader"
    /\ UNCHANGED << readStart, writeStart, slots, writer, ghosts >>

Filled(want, readable) == Smaller(want, readable)

\* Both indices are loaded; readStart changes under the mutex only.
ReadBegin ==
    /\ reader.at = "begin"
    /\ reader' = [reader EXCEPT !.at = "copy", !.w = writeStart, !.r = readStart,
                                !.n = Filled(reader.want, Readable(writeStart, readStart)),
                                !.latest = accepted]
    /\ UNCHANGED << readStart, writeStart, slots, mutex, writer, ghosts >>

ReadCopy ==
    /\ reader.at = "copy"
    /\ reader' = [reader EXCEPT !.at = "end",
          !.block = [i \in 1 .. reader.n |->
             IF ReadPlace(i) \in Slots THEN slots[ReadPlace(i)] ELSE NoSample]]
    /\ UNCHANGED << readStart, writeStart, slots, mutex, writer, ghosts >>

\* readEnd() of a read; a peek moves nothing.
Advanced(want, filled) == filled

ReadEnd ==
    /\ reader.at = "end" /\ reader.op = "read"
    /\ readStart' = (readStart + Advanced(reader.want, reader.n)) % Word
    /\ delivered' = delivered + reader.n
    /\ heard' = reader.block
    /\ reader' = ReaderAtRest
    /\ mutex' = "free"
    /\ UNCHANGED << writeStart, slots, writer, accepted >>

PeekEnd ==
    /\ reader.at = "end" /\ reader.op = "peek"
    /\ reader' = ReaderAtRest
    /\ mutex' = "free"
    /\ UNCHANGED << readStart, writeStart, slots, writer, ghosts >>

ReaderStep ==
    \/ Read("read")
    \/ Read("peek")
    \/ ReadBegin
    \/ ReadCopy
    \/ ReadEnd
    \/ PeekEnd

Next == (\E t \in Writers : WriterStep(t)) \/ ReaderStep

Spec == Init /\ [][Next]_vars

-----------------------------------------------------------------------------
(* Properties *)

\* The slots a copy under way touches.
WriteSlots(t) ==
    IF writer[t].at = "copy" THEN {WritePlace(t, i) : i \in 1 .. writer[t].n} ELSE {}
ReadSlots ==
    IF reader.at = "copy" THEN {ReadPlace(i) : i \in 1 .. reader.n} ELSE {}

\* audioPlay() writes without the mutex, yet never to a slot being read: the
\* two indices alone keep the threads apart.
NoTornCopy == \A t \in Writers : WriteSlots(t) \cap ReadSlots = {}

\* A peek returns the latest samples there were when it began, in order, though
\* the producer goes on writing meanwhile.
PeekIsLatest ==
    (reader.at = "end" /\ reader.op = "peek") =>
        reader.block = [i \in 1 .. reader.n |-> reader.latest - reader.n + i]

\* To its consumers the ring buffer is a bounded queue: every sample is
\* delivered at most once, in order, unless a reset drops it.
Queue == INSTANCE SampleQueue
IsSampleQueue == Queue!Spec

\* What the main thread's calls may break when they do overlap audioPlay(): the
\* buffer never claims to hold more samples than it has slots
\* (getNumReadableSamples(): the indices only grow,
\* src/support/ofxVlc4RingBuffer.cpp:58).
ReadableWithinCapacity ==
    (\A t \in Writers : writer[t].at # "resetWrite")
        => Readable(writeStart, readStart) <= Capacity
=============================================================================
