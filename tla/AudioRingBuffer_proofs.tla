----------------------- MODULE AudioRingBuffer_proofs -----------------------
(***************************************************************************)
(* The ring buffer is a queue, for any capacity, word and blocks, as long  *)
(* as the main thread does not write or reset it during audioPlay().       *)
(***************************************************************************)
EXTENDS AudioRingBuffer, TLAPS

-----------------------------------------------------------------------------
(* Indices *)

\* Quotient and remainder
LEMMA Division ==
    ASSUME NEW a \in Int, NEW b \in Nat \ {0}
    PROVE  /\ a \div b \in Int
           /\ a % b \in Nat /\ a % b < b
           /\ a = b * (a \div b) + (a % b)
OBVIOUS

\* The only multiple that is less than one away from zero is zero.
LEMMA SmallMultiple ==
    ASSUME NEW b \in Nat \ {0}, NEW k \in Int, b * k < b, 0 - b < b * k
    PROVE  k = 0
<1>1. CASE k >= 1
  <2>1. PICK j \in Nat : k = 1 + j
    BY <1>1, k - 1 \in Nat
  <2>2. b * k = b + b * j /\ b * j >= 0
    BY <2>1
  <2> QED BY <2>2
<1>2. CASE k <= -1
  <2>1. PICK j \in Nat : k = -1 - j
    BY <1>2, -1 - k \in Nat
  <2>2. b * k = 0 - b - b * j /\ b * j >= 0
    BY <2>1
  <2> QED BY <2>2
<1> QED BY <1>1, <1>2

\* There is one remainder.
LEMMA Remainder ==
    ASSUME NEW a \in Int, NEW b \in Nat \ {0}, NEW q \in Int, NEW r \in Nat,
           r < b, a = b * q + r
    PROVE  a % b = r
<1> DEFINE q1 == a \div b  r1 == a % b
<1>1. q1 \in Int /\ r1 \in Nat /\ r1 < b /\ a = b * q1 + r1
  BY Division
<1> HIDE DEF q1, r1
<1>2. b * (q1 - q) = r - r1
  BY <1>1
<1>3. q1 - q = 0
  <2>1. q1 - q \in Int /\ b * (q1 - q) < b /\ 0 - b < b * (q1 - q)
    BY <1>1, <1>2
  <2> QED BY <2>1, SmallMultiple
<1>4. r1 = r
  BY <1>1, <1>2, <1>3
<1> QED BY <1>4 DEF r1

\* The slots come around with the word.
LEMMA SlotOfWord ==
    ASSUME NEW x \in Int, NEW y \in Int
    PROVE  Slot((x % Word) + y) = Slot(x + y)
<1> DEFINE q == x \div Word  r == x % Word  m == Word \div Capacity
           p == (r + y) \div Capacity  s == (r + y) % Capacity
<1>1. /\ Capacity \in Nat \ {0} /\ Word \in Nat \ {0}
      /\ Word % Capacity = 0
  BY CapacityAssumption, WordAssumption
<1>2. /\ q \in Int /\ r \in Int /\ x = Word * q + r
      /\ m \in Int /\ Word = Capacity * m
  BY <1>1, Division
<1>3. p \in Int /\ s \in Nat /\ s < Capacity /\ r + y = Capacity * p + s
  BY <1>1, <1>2, Division
<1> HIDE DEF q, r, m, p, s
<1>4. x + y = Capacity * (m * q + p) + s
  <2>1. Word * q = Capacity * (m * q)
    BY <1>1, <1>2
  <2>2. Capacity * (m * q + p) = Capacity * (m * q) + Capacity * p
    BY <1>1, <1>2, <1>3
  <2>3. m * q \in Int /\ Capacity * (m * q) \in Int /\ Capacity * p \in Int
    BY <1>1, <1>2, <1>3
  <2> DEFINE a == Capacity * (m * q)  b == Capacity * p
  <2>4. /\ a \in Int /\ b \in Int /\ x = a + r /\ r + y = b + s
        /\ Capacity * (m * q + p) = a + b
    BY <1>2, <1>3, <2>1, <2>2, <2>3
  <2> HIDE DEF a, b
  <2> QED BY <1>2, <1>3, <2>4
<1>5. (x + y) % Capacity = s
  <2>1. m * q + p \in Int /\ x + y \in Int
    BY <1>2, <1>3
  <2> QED BY <1>1, <1>3, <1>4, <2>1, Remainder
<1> QED BY <1>5 DEF Slot, s, r

LEMMA SlotInside ==
    ASSUME NEW x \in Int
    PROVE  Slot(x) \in Slots /\ Slot(x) \in Nat /\ Slot(x) < Capacity
BY CapacityAssumption, Division DEF Slot, Slots

\* Two indices less than the capacity apart share no slot.
LEMMA SlotsApart ==
    ASSUME NEW x \in Int, NEW y \in Int, Slot(x) = Slot(y), x - y < Capacity, y - x < Capacity
    PROVE  x = y
<1> DEFINE p == x \div Capacity  q == y \div Capacity
<1>1. /\ Capacity \in Nat \ {0}
      /\ p \in Int /\ x = Capacity * p + Slot(x)
      /\ q \in Int /\ y = Capacity * q + Slot(y)
      /\ Slot(x) \in Nat
  BY CapacityAssumption, Division DEF Slot
<1> HIDE DEF p, q
<1>2. Capacity * (p - q) = x - y
  BY <1>1
<1>3. p - q = 0
  BY <1>1, <1>2, SmallMultiple
<1> QED BY <1>1, <1>2, <1>3

\* The slot some indices on
LEMMA SlotOn ==
    ASSUME NEW x \in Int, NEW i \in 0 .. Capacity
    PROVE  Slot(x + i) = IF Slot(x) + i < Capacity THEN Slot(x) + i ELSE Slot(x) + i - Capacity
<1> DEFINE q == x \div Capacity
<1>1. /\ Capacity \in Nat \ {0} /\ q \in Int /\ x = Capacity * q + Slot(x)
      /\ Slot(x) \in Nat /\ Slot(x) < Capacity
  BY CapacityAssumption, Division DEF Slot
<1> HIDE DEF q
<1>2. CASE Slot(x) + i < Capacity
  <2>1. x + i = Capacity * q + (Slot(x) + i) /\ x + i \in Int /\ Slot(x) + i \in Nat
    BY <1>1
  <2>2. (x + i) % Capacity = Slot(x) + i
    BY <1>1, <1>2, <2>1, Remainder
  <2> QED BY <1>2, <2>2 DEF Slot
<1>3. CASE ~(Slot(x) + i < Capacity)
  <2>1. /\ x + i = Capacity * (q + 1) + (Slot(x) + i - Capacity) /\ x + i \in Int
        /\ Slot(x) + i - Capacity \in Nat /\ Slot(x) + i - Capacity < Capacity /\ q + 1 \in Int
    BY <1>1, <1>3
  <2>2. (x + i) % Capacity = Slot(x) + i - Capacity
    BY <1>1, <2>1, Remainder
  <2> QED BY <1>3, <2>2 DEF Slot
<1> QED BY <1>2, <1>3

\* The difference of two indices is the number of samples between them.
LEMMA Difference ==
    ASSUME NEW r \in Index, NEW u \in Nat, u < Word
    PROVE  /\ (r + u) % Word \in Index
           /\ Minus((r + u) % Word, r) = u
<1> DEFINE q == (r + u) \div Word  w == (r + u) % Word
<1>1. /\ Word \in Nat \ {0} /\ r \in Int /\ q \in Int
      /\ w \in Nat /\ w < Word /\ r + u = Word * q + w
  BY CapacityAssumption, WordAssumption, Division DEF Index
<1> HIDE DEF q, w
<1>2. w - r = Word * (0 - q) + u
  BY <1>1
<1>3. (w - r) % Word = u
  <2>1. w - r \in Int /\ 0 - q \in Int
    BY <1>1
  <2> QED BY <1>1, <1>2, <2>1, Remainder
<1> QED BY <1>1, <1>3 DEF Minus, Index, w

\* The word swallows what is added before and after.
LEMMA WordAdds ==
    ASSUME NEW x \in Int, NEW y \in Int
    PROVE  ((x % Word) + y) % Word = (x + y) % Word
<1> DEFINE q == x \div Word  r == x % Word
           p == (r + y) \div Word  s == (r + y) % Word
<1>1. Word \in Nat \ {0} /\ q \in Int /\ r \in Int /\ x = Word * q + r
  BY CapacityAssumption, WordAssumption, Division
<1>2. p \in Int /\ s \in Nat /\ s < Word /\ r + y = Word * p + s
  BY <1>1, Division
<1> HIDE DEF q, r, p, s
<1>3. x + y = Word * (q + p) + s
  <2> DEFINE a == Word * q  b == Word * p
  <2>1. a \in Int /\ b \in Int /\ x = a + r /\ r + y = b + s /\ Word * (q + p) = a + b
    BY <1>1, <1>2
  <2> HIDE DEF a, b
  <2> QED BY <1>1, <1>2, <2>1
<1>4. (x + y) % Word = s
  <2>1. q + p \in Int /\ x + y \in Int
    BY <1>1, <1>2
  <2> QED BY <1>1, <1>2, <1>3, <2>1, Remainder
<1> QED BY <1>4 DEF s, r

-----------------------------------------------------------------------------
(* Copies in two parts *)

Ahead(w, r, u) == r \in Index /\ u \in 0 .. Capacity /\ w = (r + u) % Word

\* The write index, u samples after the read index: what writeBegin() and readBegin() compute
LEMMA Positions ==
    ASSUME NEW w, NEW r, NEW u, Ahead(w, r, u)
    PROVE  /\ u \in 0 .. Capacity /\ w \in Index /\ r \in Int /\ w \in Int
           /\ Readable(w, r) = u
           /\ Writable(w, r) = Capacity - u
           /\ Slot(w) = Slot(r + u)
           /\ Slot(w) = IF Slot(r) + u < Capacity THEN Slot(r) + u ELSE Slot(r) + u - Capacity
           /\ \A n \in Int : Slot(w + n) = Slot((r + u) + n)
<1>1. /\ Capacity \in Nat \ {0} /\ Word \in Nat /\ Capacity < Word /\ u \in Nat /\ u < Word
      /\ r \in Index /\ r \in Int /\ u \in 0 .. Capacity /\ w = (r + u) % Word
  BY CapacityAssumption, WordAssumption DEF Index, Ahead
<1>2. w \in Index /\ Readable(w, r) = u
  BY <1>1, Difference DEF Readable
<1>3. Writable(w, r) = Capacity - u
  <2>1. /\ Capacity - u \in Int /\ Word \in Nat \ {0} /\ 0 \in Int /\ Capacity - u \in Nat
        /\ Capacity - u < Word /\ Capacity - u = Word * 0 + (Capacity - u)
    BY <1>1
  <2>2. (Capacity - u) % Word = Capacity - u
    BY <2>1, Remainder
  <2> QED BY <1>2, <2>2 DEF Writable, Minus
<1>4. ASSUME NEW n \in Int PROVE Slot(w + n) = Slot((r + u) + n)
  BY <1>1, SlotOfWord, r + u \in Int
<1>5. Slot(w) = Slot(r + u)
  <2>1. Slot(w + 0) = Slot((r + u) + 0)
    BY <1>4
  <2> QED BY <1>1, <1>2, <2>1 DEF Index
<1>6. Slot(r + u) = IF Slot(r) + u < Capacity THEN Slot(r) + u ELSE Slot(r) + u - Capacity
  BY <1>1, SlotOn
<1> QED BY <1>1, <1>2, <1>3, <1>4, <1>5, <1>6 DEF Index

\* A write goes to the slots after the write index,
LEMMA WritePlaces ==
    ASSUME NEW w, NEW r, NEW u, Ahead(w, r, u),
           NEW n \in Nat, n <= Capacity - u, NEW i \in 1 .. n
    PROVE  Place(i, Slot(w), WriteFirst(w, r)) = Slot(w + (i - 1))
<1>1. /\ Capacity \in Nat \ {0} /\ Writable(w, r) = Capacity - u /\ w \in Int /\ r \in Int /\ u \in 0 .. Capacity
      /\ Slot(w) = IF Slot(r) + u < Capacity THEN Slot(r) + u ELSE Slot(r) + u - Capacity
  BY Positions, CapacityAssumption
<1>2. Slot(w) \in Nat /\ Slot(w) < Capacity /\ Slot(r) \in Nat /\ Slot(r) < Capacity
  BY <1>1, SlotInside
<1>3. i - 1 \in 0 .. Capacity
  BY <1>1
<1>4. Slot(w + (i - 1)) = IF Slot(w) + (i - 1) < Capacity THEN Slot(w) + (i - 1)
                          ELSE Slot(w) + (i - 1) - Capacity
  BY <1>1, <1>3, SlotOn
<1>5. CASE Slot(w) >= Slot(r)
  BY <1>1, <1>2, <1>4, <1>5 DEF Place, WriteFirst, Smaller
<1>6. CASE ~(Slot(w) >= Slot(r))
  BY <1>1, <1>2, <1>4, <1>6 DEF Place, WriteFirst
<1> QED BY <1>5, <1>6

\* a read comes from those after the read index,
LEMMA ReadPlaces ==
    ASSUME NEW w, NEW r, NEW u, Ahead(w, r, u),
           NEW n \in Nat, n <= u, NEW i \in 1 .. n
    PROVE  Place(i, Slot(r), ReadFirst(w, r)) = Slot(r + (i - 1))
<1>1. /\ Capacity \in Nat \ {0} /\ Readable(w, r) = u /\ w \in Int /\ r \in Int /\ u \in 0 .. Capacity
      /\ Slot(w) = IF Slot(r) + u < Capacity THEN Slot(r) + u ELSE Slot(r) + u - Capacity
  BY Positions, CapacityAssumption
<1>2. Slot(w) \in Nat /\ Slot(w) < Capacity /\ Slot(r) \in Nat /\ Slot(r) < Capacity
  BY <1>1, SlotInside
<1>3. i - 1 \in 0 .. Capacity
  BY <1>1
<1>4. Slot(r + (i - 1)) = IF Slot(r) + (i - 1) < Capacity THEN Slot(r) + (i - 1)
                          ELSE Slot(r) + (i - 1) - Capacity
  BY <1>1, <1>3, SlotOn
<1>5. CASE Slot(w) > Slot(r)
  BY <1>1, <1>2, <1>4, <1>5 DEF Place, ReadFirst
<1>6. CASE ~(Slot(w) > Slot(r))
  BY <1>1, <1>2, <1>4, <1>6 DEF Place, ReadFirst
<1> QED BY <1>5, <1>6

\* and a peek from those before the write index.
LEMMA PeekPlaces ==
    ASSUME NEW w, NEW r, NEW u, Ahead(w, r, u),
           NEW n \in Nat, n <= u, NEW i \in 1 .. n
    PROVE  Place(i, PeekStart(w, r, n), Smaller(Capacity - PeekStart(w, r, n), n))
             = Slot(r + (u - n + (i - 1)))
<1> DEFINE x == r + (u - n)
<1>1. Capacity \in Nat \ {0} /\ w \in Int /\ r \in Int /\ u \in 0 .. Capacity /\ x \in Int
  BY Positions, CapacityAssumption
<1>2. PeekStart(w, r, n) = Slot(x)
  <2>1. 0 - n \in Int /\ w + (0 - n) = w - n /\ (r + u) + (0 - n) = x
    BY <1>1
  <2>2. Slot(w + (0 - n)) = Slot((r + u) + (0 - n))
    BY <2>1, Positions
  <2> QED BY <2>1, <2>2 DEF PeekStart
<1>3. Slot(x) \in Nat /\ Slot(x) < Capacity /\ i - 1 \in 0 .. Capacity
  BY <1>1, SlotInside
<1> HIDE DEF x
<1>4. Slot(x + (i - 1)) = IF Slot(x) + (i - 1) < Capacity THEN Slot(x) + (i - 1)
                          ELSE Slot(x) + (i - 1) - Capacity
  BY <1>1, <1>3, SlotOn
<1>5. Place(i, Slot(x), Smaller(Capacity - Slot(x), n)) = Slot(x + (i - 1))
  BY <1>1, <1>3, <1>4 DEF Place, Smaller
<1>6. x + (i - 1) = r + (u - n + (i - 1))
  BY <1>1 DEF x
<1> QED BY <1>2, <1>5, <1>6

-----------------------------------------------------------------------------
(* The inductive invariant *)

\* A reset is under way: one index is zero, the other not yet.
HalfReset == \E t \in Writers : writer[t].at = "resetWrite"

\* The reader holds the mutex, and so does a thread that resets.
MutexHeld ==
    /\ mutex = "reader" <=> reader.at # "idle"
    /\ \A t \in Writers : writer[t].at \in {"resetRead", "resetWrite"} => mutex = t
    /\ HalfReset => readStart = 0

\* Two threads do not write at once.
OneWriter ==
    \A t, u \in Writers : t # u => writer[t].at = "idle" \/ writer[u].at = "idle"

\* The indices are as far apart as the samples accepted and delivered,
IndicesCount ==
    /\ delivered <= accepted
    /\ ~HalfReset => Ahead(writeStart, readStart, accepted - delivered)

\* and between them are these samples.
SlotsHold ==
    ~HalfReset => \A k \in 1 .. accepted - delivered :
                      slots[Slot(readStart + (k - 1))] = delivered + k

\* What a writer has found room for stays free, whatever the reader does, and what it has
\* copied stays there until it is published.
WriterHolds(t) ==
    /\ writer[t].at \in {"begin", "room", "copy", "end", "publish"} =>
          writer[t].want >= 1 /\ accepted + writer[t].want <= MaxSamples
    /\ writer[t].at \in {"room", "copy", "end", "publish"} => writer[t].w = writeStart
    /\ writer[t].at \in {"copy", "end", "publish"} =>
          /\ writer[t].n >= 1 /\ writer[t].n <= writer[t].want
          /\ writer[t].n <= Capacity - (accepted - delivered)
    /\ writer[t].at = "copy" =>
          \E u \in 0 .. Capacity : Ahead(writer[t].w, writer[t].r, u) /\ writer[t].n <= Capacity - u
    /\ writer[t].at \in {"end", "publish"} =>
          \A i \in 1 .. writer[t].n : slots[Slot(writeStart + (i - 1))] = accepted + i

\* A reader has seen samples that no one delivers meanwhile.
ReaderHolds ==
    reader.at \in {"copy", "end"} =>
        /\ reader.r = readStart
        /\ delivered <= reader.latest /\ reader.latest <= accepted
        /\ reader.n <= reader.latest - delivered
        /\ reader.at = "copy" => Ahead(reader.w, reader.r, reader.latest - delivered)
        /\ reader.at = "end" =>
              reader.block = [i \in 1 .. reader.n |->
                  IF reader.op = "read" THEN delivered + i ELSE reader.latest - reader.n + i]

IInv ==
    /\ TypeOK
    /\ MutexHeld
    /\ OneWriter
    /\ IndicesCount
    /\ SlotsHold
    /\ \A t \in Writers : WriterHolds(t)
    /\ ReaderHolds

LEMMA WriterFields ==
    ASSUME TypeOK, NEW t \in Writers
    PROVE  /\ writer[t] \in WriterType /\ writer[t].at \in WriterPlaces
           /\ writer[t].want \in Nat /\ writer[t].want <= MaxBlock
           /\ writer[t].w \in Index /\ writer[t].r \in Index
           /\ writer[t].n \in Nat /\ writer[t].n <= MaxBlock
BY BoundsAssumption DEF TypeOK, WriterType

LEMMA ReaderFields ==
    ASSUME TypeOK
    PROVE  /\ reader \in ReaderType /\ reader.at \in ReaderPlaces /\ reader.op \in {"read", "peek"}
           /\ reader.want \in Nat /\ reader.want <= MaxBlock
           /\ reader.w \in Index /\ reader.r \in Index
           /\ reader.n \in Nat /\ reader.n <= MaxBlock
           /\ reader.block \in Blocks /\ reader.latest \in Nat
BY BoundsAssumption DEF TypeOK, ReaderType, Samples

LEMMA Numbers ==
    ASSUME TypeOK
    PROVE  /\ Capacity \in Nat \ {0} /\ Word \in Nat /\ Capacity < Word
           /\ MaxBlock \in Nat /\ MaxBlock <= Capacity /\ MaxSamples \in Nat
           /\ readStart \in Int /\ writeStart \in Int /\ 0 \in Index
           /\ accepted \in Nat /\ accepted <= MaxSamples
           /\ delivered \in Nat /\ delivered <= MaxSamples
BY CapacityAssumption, WordAssumption, BoundsAssumption DEF TypeOK, Index, Samples

\* One writer moves and the other one rests.
LEMMA WriterMoves ==
    ASSUME IInv, NEW t \in Writers, NEW rec \in WriterType, writer' = [writer EXCEPT ![t] = rec],
           \A u \in Writers \ {t} : writer[u].at = "idle"
    PROVE  /\ writer' \in [Writers -> WriterType] /\ writer'[t] = rec
           /\ \A u \in Writers \ {t} : writer'[u] = writer[u] /\ writer'[u].at = "idle"
           /\ OneWriter'
           /\ HalfReset <=> writer[t].at = "resetWrite"
           /\ HalfReset' <=> rec.at = "resetWrite"
<1>1. /\ writer' \in [Writers -> WriterType] /\ writer'[t] = rec
      /\ \A u \in Writers \ {t} : writer'[u] = writer[u] /\ writer'[u].at = "idle"
  BY DEF IInv, TypeOK
<1> QED BY <1>1 DEF OneWriter, HalfReset

\* The other one rests, because it did before.
LEMMA OtherRests ==
    ASSUME IInv, NEW t \in Writers, writer[t].at # "idle"
    PROVE  \A u \in Writers \ {t} : writer[u].at = "idle"
BY DEF IInv, OneWriter

\* A resting writer holds nothing.
LEMMA RestHolds ==
    ASSUME NEW t \in Writers, writer'[t].at = "idle"
    PROVE  WriterHolds(t)'
BY DEF WriterHolds

-----------------------------------------------------------------------------
(* The steps of a writer *)

LEMMA WriteKeeps ==
    ASSUME IInv, MainWaits, NEW t \in Writers, Write(t)
    PROVE  IInv'
<1>1. PICK want \in 1 .. MaxBlock :
            /\ accepted + want <= MaxSamples
            /\ writer' = [writer EXCEPT ![t] = [AtRest EXCEPT !.at = "begin", !.want = want]]
  BY DEF Write
<1> DEFINE rec == [AtRest EXCEPT !.at = "begin", !.want = want]
<1>2. rec \in WriterType /\ rec.at = "begin" /\ rec.want = want
  <2>1. 0 \in Index /\ 0 \in 0 .. MaxBlock /\ want \in 0 .. MaxBlock
    BY Numbers DEF IInv
  <2>2. AtRest \in WriterType
    BY <2>1 DEF AtRest, WriterType, WriterPlaces
  <2> QED BY <2>1, <2>2 DEF WriterType, WriterPlaces
<1>3. \A u \in Writers \ {t} : writer[u].at = "idle"
  BY DEF Write, Alone
<1> HIDE DEF rec
<1>4. /\ writer' \in [Writers -> WriterType] /\ writer'[t] = rec
      /\ \A u \in Writers \ {t} : writer'[u] = writer[u] /\ writer'[u].at = "idle"
      /\ OneWriter' /\ ~HalfReset' /\ ~HalfReset
  <2>1. writer[t].at = "idle" /\ writer' = [writer EXCEPT ![t] = rec]
    BY <1>1 DEF Write, rec
  <2> QED BY <1>2, <1>3, <2>1, WriterMoves
<1>5. UNCHANGED << readStart, writeStart, slots, reader, ghosts >>
  BY DEF Write
<1>6. mutex' \in Writers \cup {"reader", "free"} /\ (mutex' = "reader" <=> mutex = "reader")
  BY DEF Write, IInv, TypeOK, Writers
<1>7. TypeOK'
  BY <1>4, <1>5, <1>6 DEF IInv, TypeOK, ghosts
<1>8. MutexHeld'
  BY <1>2, <1>4, <1>5, <1>6 DEF IInv, MutexHeld
<1>9. IndicesCount' /\ SlotsHold'
  BY <1>4, <1>5 DEF IInv, IndicesCount, SlotsHold, ghosts, Ahead
<1>10. \A u \in Writers : WriterHolds(u)'
  <2>1. WriterHolds(t)'
    BY <1>1, <1>2, <1>4, <1>5 DEF WriterHolds, ghosts
  <2> QED BY <1>4, <2>1, RestHolds
<1>11. ReaderHolds'
  BY <1>5 DEF IInv, ReaderHolds, ghosts, Ahead
<1> QED BY <1>4, <1>7, <1>8, <1>9, <1>10, <1>11 DEF IInv

LEMMA WriteBeginKeeps ==
    ASSUME IInv, NEW t \in Writers, WriteBegin(t)
    PROVE  IInv'
<1> DEFINE rec == [writer[t] EXCEPT !.at = "room", !.w = writeStart]
<1>1. /\ rec \in WriterType /\ rec.at = "room" /\ rec.w = writeStart
      /\ rec.want = writer[t].want /\ writer' = [writer EXCEPT ![t] = rec]
  BY WriterFields DEF IInv, TypeOK, WriteBegin, WriterType, WriterPlaces
<1> HIDE DEF rec
<1>2. writer[t].at = "begin" /\ UNCHANGED << readStart, writeStart, slots, mutex, reader, ghosts >>
  BY DEF WriteBegin
<1>3. /\ writer' \in [Writers -> WriterType] /\ writer'[t] = rec
      /\ \A u \in Writers \ {t} : writer'[u] = writer[u] /\ writer'[u].at = "idle"
      /\ OneWriter' /\ ~HalfReset' /\ ~HalfReset
  BY <1>1, <1>2, OtherRests, WriterMoves
<1>4. TypeOK'
  BY <1>2, <1>3 DEF IInv, TypeOK, ghosts
<1>5. MutexHeld'
  BY <1>1, <1>2, <1>3 DEF IInv, MutexHeld
<1>6. IndicesCount' /\ SlotsHold'
  BY <1>2, <1>3 DEF IInv, IndicesCount, SlotsHold, ghosts, Ahead
<1>7. \A u \in Writers : WriterHolds(u)'
  <2>1. WriterHolds(t)'
    BY <1>1, <1>2, <1>3 DEF IInv, WriterHolds, ghosts
  <2> QED BY <1>3, <2>1, RestHolds
<1>8. ReaderHolds'
  BY <1>2 DEF IInv, ReaderHolds, ghosts, Ahead
<1> QED BY <1>3, <1>4, <1>5, <1>6, <1>7, <1>8 DEF IInv

\* There is room for as many samples as the reader has taken so far.
LEMMA WriteRoomKeeps ==
    ASSUME IInv, NEW t \in Writers, WriteRoom(t)
    PROVE  IInv'
<1> DEFINE used == accepted - delivered
           room == Writable(writer[t].w, readStart)
           consumed == Smaller(writer[t].want, room)
<1>1. /\ writer[t].at = "room" /\ writer[t].w = writeStart
      /\ writer[t].want >= 1 /\ accepted + writer[t].want <= MaxSamples
      /\ UNCHANGED << readStart, writeStart, slots, reader, ghosts >>
  BY DEF WriteRoom, IInv, WriterHolds
<1>2. \A u \in Writers \ {t} : writer[u].at = "idle"
  BY <1>1, OtherRests
<1>3. ~HalfReset
  BY <1>1, <1>2 DEF HalfReset
<1>4. Ahead(writeStart, readStart, used) /\ used \in 0 .. Capacity
  BY <1>3, Positions DEF IInv, IndicesCount
<1>5. room = Capacity - used
  BY <1>1, <1>4, Positions
<1>6. ReaderHolds' /\ mutex' \in Writers \cup {"reader", "free"}
      /\ (mutex' = "reader" <=> mutex = "reader")
  <2>1. ReaderHolds'
    BY <1>1 DEF IInv, ReaderHolds, ghosts, Ahead
  <2>2. mutex' \in {mutex, "free"} /\ (mutex' # mutex => mutex = t)
    BY DEF WriteRoom, Releases
  <2> QED BY <2>1, <2>2 DEF IInv, TypeOK, Writers
<1>7. CASE consumed = 0
  <2>1. writer' = [writer EXCEPT ![t] = AtRest]
    BY <1>7 DEF WriteRoom
  <2>2. AtRest \in WriterType /\ AtRest.at = "idle"
    BY Numbers DEF IInv, AtRest, WriterType, WriterPlaces
  <2>3. /\ writer' \in [Writers -> WriterType] /\ writer'[t] = AtRest
        /\ \A u \in Writers \ {t} : writer'[u] = writer[u] /\ writer'[u].at = "idle"
        /\ OneWriter' /\ ~HalfReset'
    BY <1>2, <2>1, <2>2, WriterMoves
  <2>4. TypeOK'
    BY <1>1, <1>6, <2>3 DEF IInv, TypeOK, ghosts
  <2>5. MutexHeld'
    BY <1>1, <1>6, <2>2, <2>3 DEF IInv, MutexHeld
  <2>6. IndicesCount' /\ SlotsHold'
    BY <1>1, <1>3, <2>3 DEF IInv, IndicesCount, SlotsHold, ghosts, Ahead
  <2>7. \A u \in Writers : WriterHolds(u)'
    BY <2>2, <2>3, RestHolds
  <2> QED BY <1>6, <2>3, <2>4, <2>5, <2>6, <2>7 DEF IInv
<1>8. CASE consumed # 0
  <2> DEFINE rec == [writer[t] EXCEPT !.at = "copy", !.r = readStart, !.n = consumed]
  <2>1. /\ consumed \in Nat /\ consumed >= 1 /\ consumed <= writer[t].want
        /\ consumed <= Capacity - used /\ consumed \in 0 .. MaxBlock
    <3>1. /\ room \in Nat /\ writer[t].want \in Nat /\ writer[t].want <= MaxBlock
          /\ MaxBlock \in Nat
      BY <1>4, <1>5, WriterFields, Numbers DEF IInv
    <3> HIDE DEF room, used
    <3> QED BY <1>5, <1>8, <3>1 DEF Smaller
  <2>2. mutex' = mutex /\ writer' = [writer EXCEPT ![t] = rec]
    BY <1>8, WriterFields DEF WriteRoom, IInv, TypeOK, WriterType
  <2> HIDE DEF consumed
  <2>3. /\ rec \in WriterType /\ rec.at = "copy" /\ rec.r = readStart /\ rec.n = consumed
        /\ rec.w = writeStart /\ rec.want = writer[t].want
    BY <1>1, <2>1, WriterFields DEF IInv, TypeOK, WriterType, WriterPlaces
  <2> HIDE DEF rec
  <2>4. /\ writer' \in [Writers -> WriterType] /\ writer'[t] = rec
        /\ \A u \in Writers \ {t} : writer'[u] = writer[u] /\ writer'[u].at = "idle"
        /\ OneWriter' /\ ~HalfReset'
    BY <1>2, <2>2, <2>3, WriterMoves
  <2>5. TypeOK'
    BY <1>1, <1>6, <2>4 DEF IInv, TypeOK, ghosts
  <2>6. MutexHeld'
    BY <1>1, <1>6, <2>3, <2>4 DEF IInv, MutexHeld
  <2>7. IndicesCount' /\ SlotsHold'
    BY <1>1, <1>3, <2>4 DEF IInv, IndicesCount, SlotsHold, ghosts, Ahead
  <2>8. \A u \in Writers : WriterHolds(u)'
    <3>1. WriterHolds(t)'
      BY <1>1, <1>4, <2>1, <2>3, <2>4 DEF WriterHolds, ghosts
    <3> QED BY <2>4, <3>1, RestHolds
  <2> QED BY <1>6, <2>4, <2>5, <2>6, <2>7, <2>8 DEF IInv
<1> QED BY <1>7, <1>8

\* The slots after the write index are not among those between the indices, and differ.
LEMMA FreeSlots ==
    ASSUME TypeOK, NEW used, Ahead(writeStart, readStart, used), NEW n \in Nat, n <= Capacity - used
    PROVE  /\ \A i \in 1 .. n, j \in 1 .. n :
                Slot(writeStart + (i - 1)) = Slot(writeStart + (j - 1)) => i = j
           /\ \A i \in 1 .. n, k \in 1 .. used :
                Slot(writeStart + (i - 1)) # Slot(readStart + (k - 1))
<1>1. /\ used \in 0 .. Capacity /\ Capacity \in Nat /\ readStart \in Int /\ writeStart \in Int
      /\ \A m \in Int : Slot(writeStart + m) = Slot((readStart + used) + m)
  BY Positions, Numbers
<1>2. ASSUME NEW i \in 1 .. n, NEW j \in 1 .. n,
             Slot(writeStart + (i - 1)) = Slot(writeStart + (j - 1))
      PROVE  i = j
  <2>1. /\ writeStart + (i - 1) \in Int /\ writeStart + (j - 1) \in Int
        /\ (writeStart + (i - 1)) - (writeStart + (j - 1)) < Capacity
        /\ (writeStart + (j - 1)) - (writeStart + (i - 1)) < Capacity
    BY <1>1
  <2>2. writeStart + (i - 1) = writeStart + (j - 1)
    BY <1>2, <2>1, SlotsApart
  <2> QED BY <1>1, <2>2
<1>3. ASSUME NEW i \in 1 .. n, NEW k \in 1 .. used,
             Slot(writeStart + (i - 1)) = Slot(readStart + (k - 1))
      PROVE  FALSE
  <2> DEFINE x == (readStart + used) + (i - 1)  y == readStart + (k - 1)
  <2>1. Slot(x) = Slot(y)
    BY <1>1, <1>3, i - 1 \in Int
  <2>2. x \in Int /\ y \in Int /\ x - y < Capacity /\ y - x < Capacity /\ x # y
    BY <1>1
  <2> HIDE DEF x, y
  <2> QED BY <2>1, <2>2, SlotsApart
<1> QED BY <1>2, <1>3

\* The copy fills the slots it was given room for, and no other one.
LEMMA CopyFills ==
    ASSUME IInv, NEW t \in Writers, WriteCopy(t), ~HalfReset
    PROVE  /\ slots' \in [Slots -> Samples]
           /\ \A i \in 1 .. writer[t].n : slots'[Slot(writeStart + (i - 1))] = accepted + i
           /\ \A k \in 1 .. accepted - delivered :
                slots'[Slot(readStart + (k - 1))] = slots[Slot(readStart + (k - 1))]
<1> DEFINE n == writer[t].n
           used == accepted - delivered
           Here(s) == {i \in 1 .. n : WritePlace(t, i) = s}
           at(i) == Slot(writeStart + (i - 1))
<1>1. /\ writer[t].at = "copy" /\ writer[t].w = writeStart
      /\ n >= 1 /\ n <= writer[t].want /\ n <= Capacity - used
      /\ accepted + writer[t].want <= MaxSamples
      /\ n \in Nat /\ writer[t].want \in Nat /\ accepted \in Nat /\ MaxSamples \in Nat
      /\ readStart \in Int /\ writeStart \in Int
  BY WriterFields, Numbers DEF WriteCopy, WriterGoes, IInv, WriterHolds
<1>2. PICK u \in 0 .. Capacity : Ahead(writer[t].w, writer[t].r, u) /\ n <= Capacity - u
  BY <1>1 DEF IInv, WriterHolds
<1>3. ASSUME NEW i \in 1 .. n PROVE WritePlace(t, i) = at(i)
  BY <1>1, <1>2, WritePlaces DEF WritePlace
<1>4. Ahead(writeStart, readStart, used)
  BY DEF IInv, IndicesCount
<1>5. slots' = [s \in Slots |->
          IF Here(s) = {} THEN slots[s] ELSE accepted + (CHOOSE i \in Here(s) : TRUE)]
  BY DEF WriteCopy
<1>6. ASSUME NEW s \in Slots PROVE Here(s) = {i \in 1 .. n : at(i) = s}
  BY <1>3
<1> HIDE DEF Here
<1>7. ASSUME NEW s \in Slots, Here(s) # {}
      PROVE  /\ (CHOOSE i \in Here(s) : TRUE) \in 1 .. n
             /\ at(CHOOSE i \in Here(s) : TRUE) = s
  <2>1. (CHOOSE i \in Here(s) : TRUE) \in Here(s)
    BY <1>7
  <2> QED BY <1>6, <2>1
<1>8. slots' \in [Slots -> Samples]
  <2>1. ASSUME NEW s \in Slots, Here(s) # {}
        PROVE  accepted + (CHOOSE i \in Here(s) : TRUE) \in Samples
    BY <1>1, <1>7, <2>1 DEF Samples
  <2> QED BY <1>5, <2>1 DEF IInv, TypeOK
<1>9. ASSUME NEW i \in 1 .. n PROVE slots'[at(i)] = accepted + i
  <2>1. at(i) \in Slots
    BY <1>1, SlotInside, writeStart + (i - 1) \in Int
  <2>2. i \in Here(at(i))
    BY <1>6, <2>1
  <2> DEFINE j == CHOOSE j \in Here(at(i)) : TRUE
  <2>3. j \in 1 .. n /\ at(j) = at(i)
    BY <1>7, <2>1, <2>2
  <2>4. slots'[at(i)] = accepted + j
    BY <1>5, <2>1, <2>2
  <2> HIDE DEF j
  <2>5. j = i
    BY <1>1, <1>4, <2>3, FreeSlots DEF IInv
  <2> QED BY <2>4, <2>5
<1>10. ASSUME NEW k \in 1 .. used PROVE slots'[Slot(readStart + (k - 1))] = slots[Slot(readStart + (k - 1))]
  <2> DEFINE s == Slot(readStart + (k - 1))
  <2>1. s \in Slots
    BY <1>1, Numbers, SlotInside, readStart + (k - 1) \in Int DEF IInv
  <2>2. \A i \in 1 .. n : at(i) # s
    BY <1>1, <1>4, FreeSlots DEF IInv
  <2>3. Here(s) = {}
    BY <1>6, <2>1, <2>2
  <2> QED BY <1>5, <2>1, <2>3
<1> QED BY <1>8, <1>9, <1>10

LEMMA WriteCopyKeeps ==
    ASSUME IInv, NEW t \in Writers, WriteCopy(t)
    PROVE  IInv'
<1> DEFINE rec == [writer[t] EXCEPT !.at = "end"]
<1>1. /\ writer[t].at = "copy" /\ writer' = [writer EXCEPT ![t] = rec]
      /\ UNCHANGED << readStart, writeStart, mutex, reader, ghosts >>
  BY WriterFields DEF WriteCopy, WriterGoes, IInv, TypeOK, WriterType
<1>2. /\ rec \in WriterType /\ rec.at = "end" /\ rec.w = writer[t].w /\ rec.n = writer[t].n
      /\ rec.want = writer[t].want
  BY WriterFields DEF IInv, WriterType, WriterPlaces
<1> HIDE DEF rec
<1>3. /\ writer' \in [Writers -> WriterType] /\ writer'[t] = rec
      /\ \A u \in Writers \ {t} : writer'[u] = writer[u] /\ writer'[u].at = "idle"
      /\ OneWriter' /\ ~HalfReset' /\ ~HalfReset
  BY <1>1, <1>2, OtherRests, WriterMoves
<1>4. /\ slots' \in [Slots -> Samples]
      /\ \A i \in 1 .. writer[t].n : slots'[Slot(writeStart + (i - 1))] = accepted + i
      /\ \A k \in 1 .. accepted - delivered :
            slots'[Slot(readStart + (k - 1))] = slots[Slot(readStart + (k - 1))]
  BY <1>3, CopyFills
<1>5. TypeOK'
  BY <1>1, <1>3, <1>4 DEF IInv, TypeOK, ghosts
<1>6. MutexHeld'
  BY <1>1, <1>2, <1>3 DEF IInv, MutexHeld
<1>7. IndicesCount'
  BY <1>1, <1>3 DEF IInv, IndicesCount, ghosts, Ahead
<1>8. SlotsHold'
  BY <1>1, <1>3, <1>4 DEF IInv, SlotsHold, ghosts, Slot
<1>9. \A u \in Writers : WriterHolds(u)'
  <2>1. WriterHolds(t)'
    BY <1>1, <1>2, <1>3, <1>4 DEF IInv, WriterHolds, ghosts, Slot
  <2> QED BY <1>3, <2>1, RestHolds
<1>10. ReaderHolds'
  BY <1>1 DEF IInv, ReaderHolds, ghosts, Ahead
<1> QED BY <1>3, <1>5, <1>6, <1>7, <1>8, <1>9, <1>10 DEF IInv

LEMMA WriteEndKeeps ==
    ASSUME IInv, NEW t \in Writers, WriteEnd(t)
    PROVE  IInv'
<1> DEFINE rec == [writer[t] EXCEPT !.at = "publish", !.w = writeStart]
<1>1. /\ rec \in WriterType /\ rec.at = "publish" /\ rec.w = writeStart
      /\ rec.want = writer[t].want /\ rec.n = writer[t].n /\ writer' = [writer EXCEPT ![t] = rec]
  BY WriterFields DEF IInv, TypeOK, WriteEnd, WriterType, WriterPlaces
<1> HIDE DEF rec
<1>2. writer[t].at = "end" /\ UNCHANGED << readStart, writeStart, slots, mutex, reader, ghosts >>
  BY DEF WriteEnd
<1>3. /\ writer' \in [Writers -> WriterType] /\ writer'[t] = rec
      /\ \A u \in Writers \ {t} : writer'[u] = writer[u] /\ writer'[u].at = "idle"
      /\ OneWriter' /\ ~HalfReset' /\ ~HalfReset
  BY <1>1, <1>2, OtherRests, WriterMoves
<1>4. TypeOK'
  BY <1>2, <1>3 DEF IInv, TypeOK, ghosts
<1>5. MutexHeld'
  BY <1>1, <1>2, <1>3 DEF IInv, MutexHeld
<1>6. IndicesCount' /\ SlotsHold'
  BY <1>2, <1>3 DEF IInv, IndicesCount, SlotsHold, ghosts, Ahead, Slot
<1>7. \A u \in Writers : WriterHolds(u)'
  <2>1. WriterHolds(t)'
    BY <1>1, <1>2, <1>3 DEF IInv, WriterHolds, ghosts, Slot
  <2> QED BY <1>3, <2>1, RestHolds
<1>8. ReaderHolds'
  BY <1>2 DEF IInv, ReaderHolds, ghosts, Ahead
<1> QED BY <1>3, <1>4, <1>5, <1>6, <1>7, <1>8 DEF IInv

\* What the queue sees of it
LEMMA PublishIsPut ==
    ASSUME IInv, NEW t \in Writers, WritePublish(t)
    PROVE  /\ writer[t].n \in 1 .. Capacity /\ accepted + writer[t].n <= delivered + Capacity
           /\ accepted' = accepted + writer[t].n /\ UNCHANGED << delivered, heard >>
<1>1. writer[t].at = "publish" /\ writer[t].n \in Nat
  BY WriterFields DEF WritePublish, IInv
<1> QED BY <1>1, Numbers DEF WritePublish, IInv, WriterHolds, IndicesCount

LEMMA WritePublishKeeps ==
    ASSUME IInv, NEW t \in Writers, WritePublish(t)
    PROVE  IInv'
<1> DEFINE n == writer[t].n
           used == accepted - delivered
<1>1. /\ writer[t].at = "publish" /\ writer[t].w = writeStart
      /\ n \in Nat /\ n >= 1 /\ n <= writer[t].want /\ n <= Capacity - used
      /\ accepted + writer[t].want <= MaxSamples /\ writer[t].want \in Nat
      /\ \A i \in 1 .. n : slots[Slot(writeStart + (i - 1))] = accepted + i
  BY WriterFields DEF WritePublish, IInv, WriterHolds
<1>2. /\ writeStart' = (writeStart + n) % Word /\ accepted' = accepted + n
      /\ writer' = [writer EXCEPT ![t] = AtRest]
      /\ UNCHANGED << readStart, slots, reader, delivered, heard >>
  BY <1>1 DEF WritePublish
<1>3. /\ mutex' \in Writers \cup {"reader", "free"} /\ (mutex' = "reader" <=> mutex = "reader")
      /\ (mutex' # mutex => mutex = t)
  BY DEF WritePublish, Releases, IInv, TypeOK, Writers
<1>4. AtRest \in WriterType /\ AtRest.at = "idle"
  BY Numbers DEF IInv, AtRest, WriterType, WriterPlaces
<1>5. /\ writer' \in [Writers -> WriterType] /\ writer'[t] = AtRest
      /\ \A u \in Writers \ {t} : writer'[u] = writer[u] /\ writer'[u].at = "idle"
      /\ OneWriter' /\ ~HalfReset' /\ ~HalfReset
  BY <1>1, <1>2, <1>4, OtherRests, WriterMoves
<1>6. /\ Ahead(writeStart, readStart, used) /\ used \in 0 .. Capacity
      /\ Capacity \in Nat /\ readStart \in Int /\ writeStart \in Int /\ delivered \in Nat
      /\ accepted \in Nat /\ MaxSamples \in Nat /\ accepted = delivered + used
      /\ \A m \in Int : Slot(writeStart + m) = Slot((readStart + used) + m)
  BY <1>5, Positions, Numbers DEF IInv, IndicesCount
<1> HIDE DEF n, used
<1>7. Ahead(writeStart', readStart, used + n)
  <2>1. (((readStart + used) % Word) + n) % Word = (readStart + used + n) % Word
    BY <1>1, <1>6, WordAdds, readStart + used \in Int
  <2>2. readStart + used + n = readStart + (used + n) /\ used + n \in 0 .. Capacity
    BY <1>1, <1>6
  <2> QED BY <1>2, <1>6, <2>1, <2>2 DEF Ahead
<1>8. accepted' - delivered' = used + n /\ accepted' \in Samples /\ delivered' <= accepted'
  BY <1>1, <1>2, <1>6 DEF Samples
<1>9. TypeOK'
  <2>1. writeStart' \in Index
    BY <1>7, Positions
  <2> QED BY <1>2, <1>3, <1>5, <1>8, <2>1 DEF IInv, TypeOK
<1>10. MutexHeld'
  BY <1>2, <1>3, <1>4, <1>5 DEF IInv, MutexHeld
<1>11. IndicesCount'
  BY <1>2, <1>7, <1>8 DEF IndicesCount, Ahead
<1>12. SlotsHold'
  <2>1. ASSUME NEW k \in 1 .. used + n
        PROVE  slots[Slot(readStart + (k - 1))] = delivered + k
    <3>1. CASE k <= used
      BY <1>5, <1>6, <3>1 DEF IInv, SlotsHold, used
    <3>2. CASE ~(k <= used)
      <4>1. k - used \in 1 .. n
        BY <1>1, <1>6, <3>2
      <4>2. slots[Slot(writeStart + ((k - used) - 1))] = accepted + (k - used)
        BY <1>1, <4>1 DEF n
      <4>3. Slot(writeStart + ((k - used) - 1)) = Slot(readStart + (k - 1))
        <5>1. (readStart + used) + ((k - used) - 1) = readStart + (k - 1) /\ (k - used) - 1 \in Int
          BY <1>6, <4>1
        <5> QED BY <1>6, <5>1
      <4>4. accepted + (k - used) = delivered + k
        BY <1>6
      <4> QED BY <4>2, <4>3, <4>4
    <3> QED BY <3>1, <3>2
  <2> QED BY <1>2, <1>8, <2>1 DEF SlotsHold, Slot
<1>13. \A u \in Writers : WriterHolds(u)'
  BY <1>4, <1>5, RestHolds
<1>14. ReaderHolds'
  <2>1. ASSUME reader.at \in {"copy", "end"} PROVE reader.latest <= accepted + n
    BY <1>1, <1>6, <2>1, ReaderFields DEF IInv, ReaderHolds
  <2> QED BY <1>2, <2>1 DEF IInv, ReaderHolds, Ahead
<1> QED BY <1>5, <1>9, <1>10, <1>11, <1>12, <1>13, <1>14 DEF IInv

LEMMA ResetKeeps ==
    ASSUME IInv, MainWaits, NEW t \in Writers, Reset(t)
    PROVE  IInv'
<1> DEFINE rec == [writer[t] EXCEPT !.at = "resetRead"]
<1>1. /\ writer[t].at = "idle" /\ writer' = [writer EXCEPT ![t] = rec] /\ mutex = "free" /\ mutex' = t
      /\ UNCHANGED << readStart, writeStart, slots, reader, ghosts >>
  BY WriterFields DEF Reset, WriterGoes, IInv, TypeOK, WriterType
<1>2. rec \in WriterType /\ rec.at = "resetRead"
  BY WriterFields DEF IInv, WriterType, WriterPlaces
<1>3. \A u \in Writers \ {t} : writer[u].at = "idle"
  BY DEF Reset, Alone
<1> HIDE DEF rec
<1>4. /\ writer' \in [Writers -> WriterType] /\ writer'[t] = rec
      /\ \A u \in Writers \ {t} : writer'[u] = writer[u] /\ writer'[u].at = "idle"
      /\ OneWriter' /\ ~HalfReset' /\ ~HalfReset
  BY <1>1, <1>2, <1>3, WriterMoves
<1>5. TypeOK'
  BY <1>1, <1>4 DEF IInv, TypeOK, ghosts
<1>6. MutexHeld'
  BY <1>1, <1>4 DEF IInv, MutexHeld, Writers
<1>7. IndicesCount' /\ SlotsHold'
  BY <1>1, <1>4 DEF IInv, IndicesCount, SlotsHold, ghosts, Ahead, Slot
<1>8. \A u \in Writers : WriterHolds(u)'
  <2>1. WriterHolds(t)'
    BY <1>2, <1>4 DEF WriterHolds
  <2> QED BY <1>4, <2>1, RestHolds
<1>9. ReaderHolds'
  BY <1>1 DEF IInv, ReaderHolds, ghosts, Ahead
<1> QED BY <1>4, <1>5, <1>6, <1>7, <1>8, <1>9 DEF IInv

\* A reset holds the mutex, so nothing is being read.
LEMMA ResetReadKeeps ==
    ASSUME IInv, NEW t \in Writers, ResetRead(t)
    PROVE  IInv'
<1> DEFINE rec == [writer[t] EXCEPT !.at = "resetWrite"]
<1>1. /\ writer[t].at = "resetRead" /\ writer' = [writer EXCEPT ![t] = rec] /\ readStart' = 0
      /\ UNCHANGED << writeStart, slots, mutex, reader, ghosts >>
  BY WriterFields DEF ResetRead, WriterGoes, IInv, TypeOK, WriterType
<1>2. rec \in WriterType /\ rec.at = "resetWrite"
  BY WriterFields DEF IInv, WriterType, WriterPlaces
<1> HIDE DEF rec
<1>3. mutex = t /\ mutex # "reader" /\ reader.at = "idle"
  BY <1>1 DEF IInv, MutexHeld, Writers
<1>4. /\ writer' \in [Writers -> WriterType] /\ writer'[t] = rec
      /\ \A u \in Writers \ {t} : writer'[u] = writer[u] /\ writer'[u].at = "idle"
      /\ OneWriter' /\ HalfReset' /\ ~HalfReset
  BY <1>1, <1>2, OtherRests, WriterMoves
<1>5. TypeOK'
  BY <1>1, <1>4, Numbers DEF IInv, TypeOK, ghosts
<1>6. MutexHeld'
  BY <1>1, <1>3, <1>4 DEF IInv, MutexHeld, Writers
<1>7. IndicesCount' /\ SlotsHold'
  BY <1>1, <1>4 DEF IInv, IndicesCount, SlotsHold, ghosts
<1>8. \A u \in Writers : WriterHolds(u)'
  <2>1. WriterHolds(t)'
    BY <1>2, <1>4 DEF WriterHolds
  <2> QED BY <1>4, <2>1, RestHolds
<1>9. ReaderHolds'
  BY <1>1, <1>3 DEF ReaderHolds
<1> QED BY <1>4, <1>5, <1>6, <1>7, <1>8, <1>9 DEF IInv

LEMMA ResetWriteKeeps ==
    ASSUME IInv, NEW t \in Writers, ResetWrite(t)
    PROVE  IInv'
<1> DEFINE rec == [writer[t] EXCEPT !.at = "idle"]
<1>1. /\ writer[t].at = "resetWrite" /\ writer' = [writer EXCEPT ![t] = rec] /\ writeStart' = 0
      /\ delivered' = accepted /\ mutex' = "free"
      /\ UNCHANGED << readStart, slots, reader, accepted, heard >>
  BY WriterFields DEF ResetWrite, WriterGoes, IInv, TypeOK, WriterType
<1>2. rec \in WriterType /\ rec.at = "idle"
  BY WriterFields DEF IInv, WriterType, WriterPlaces
<1> HIDE DEF rec
<1>3. mutex = t /\ mutex # "reader" /\ reader.at = "idle"
  BY <1>1 DEF IInv, MutexHeld, Writers
<1>4. /\ writer' \in [Writers -> WriterType] /\ writer'[t] = rec
      /\ \A u \in Writers \ {t} : writer'[u] = writer[u] /\ writer'[u].at = "idle"
      /\ OneWriter' /\ ~HalfReset' /\ HalfReset
  BY <1>1, <1>2, OtherRests, WriterMoves
<1>5. TypeOK'
  BY <1>1, <1>4, Numbers DEF IInv, TypeOK
<1>6. MutexHeld'
  BY <1>1, <1>2, <1>3, <1>4 DEF MutexHeld
<1>7. readStart = 0
  BY <1>4 DEF IInv, MutexHeld
<1>8. IndicesCount'
  <2>1. (0 + 0) % Word = 0
    BY Numbers, WordAssumption, Remainder, 0 = Word * 0 + 0 DEF IInv
  <2>2. Ahead(0, 0, 0)
    BY <2>1, Numbers DEF IInv, Ahead
  <2>3. accepted - accepted = 0 /\ accepted <= accepted
    BY Numbers DEF IInv
  <2> QED BY <1>1, <1>7, <2>2, <2>3 DEF IndicesCount
<1>9. SlotsHold'
  <2>1. 1 .. accepted - accepted = {}
    BY Numbers DEF IInv
  <2> QED BY <1>1, <2>1 DEF SlotsHold
<1>10. \A u \in Writers : WriterHolds(u)'
  BY <1>2, <1>4, RestHolds
<1>11. ReaderHolds'
  BY <1>1, <1>3 DEF ReaderHolds
<1> QED BY <1>4, <1>5, <1>6, <1>8, <1>9, <1>10, <1>11 DEF IInv

LEMMA WriterStepKeeps ==
    ASSUME IInv, MainWaits, NEW t \in Writers, WriterStep(t)
    PROVE  IInv'
BY WriteKeeps, WriteBeginKeeps, WriteRoomKeeps, WriteCopyKeeps, WriteEndKeeps, WritePublishKeeps,
   ResetKeeps, ResetReadKeeps, ResetWriteKeeps DEF WriterStep

-----------------------------------------------------------------------------
(* The steps of the reader *)

LEMMA ReaderAtRestTyped ==
    ASSUME TypeOK
    PROVE  ReaderAtRest \in ReaderType /\ ReaderAtRest.at = "idle"
<1>1. /\ 0 \in Index /\ 0 \in 0 .. MaxBlock /\ 0 \in Samples
  BY Numbers DEF Samples
<1>2. << >> \in Blocks
  <2>1. << >> \in [1 .. 0 -> Samples]
    OBVIOUS
  <2> QED BY <1>1, <2>1 DEF Blocks
<1> QED BY <1>1, <1>2 DEF ReaderAtRest, ReaderType, ReaderPlaces

\* The reader leaves the writers' part of the invariant alone.
LEMMA WritersUnmoved ==
    ASSUME IInv, UNCHANGED << readStart, writeStart, slots, writer, ghosts >>
    PROVE  /\ OneWriter' /\ IndicesCount' /\ SlotsHold' /\ HalfReset' = HalfReset
           /\ \A t \in Writers : WriterHolds(t)'
<1>1. OneWriter' /\ HalfReset' = HalfReset
  BY DEF IInv, OneWriter, HalfReset
<1>2. IndicesCount' /\ SlotsHold'
  BY <1>1 DEF IInv, IndicesCount, SlotsHold, ghosts, Ahead, Slot
<1>3. ASSUME NEW t \in Writers PROVE WriterHolds(t)'
  BY DEF IInv, WriterHolds, ghosts, Ahead, Slot
<1> QED BY <1>1, <1>2, <1>3

\* Who reads holds the mutex, so no reset is under way.
LEMMA NoResetWhileReading ==
    ASSUME IInv, reader.at # "idle"
    PROVE  mutex = "reader" /\ ~HalfReset
BY DEF IInv, MutexHeld, HalfReset, Writers

LEMMA ReadStartsKeeps ==
    ASSUME IInv, NEW op \in {"read", "peek"}, Read(op)
    PROVE  IInv'
<1>1. PICK want \in 1 .. MaxBlock :
            reader' = [ReaderAtRest EXCEPT !.at = "begin", !.op = op, !.want = want]
  BY DEF Read
<1>2. /\ mutex = "free" /\ mutex' = "reader"
      /\ UNCHANGED << readStart, writeStart, slots, writer, ghosts >>
  BY DEF Read
<1>3. reader' \in ReaderType /\ reader'.at = "begin"
  <2>1. want \in 0 .. MaxBlock
    BY Numbers DEF IInv
  <2> QED BY <1>1, <2>1, ReaderAtRestTyped DEF IInv, ReaderType, ReaderPlaces
<1>4. TypeOK'
  BY <1>2, <1>3 DEF IInv, TypeOK, ghosts
<1>5. MutexHeld'
  BY <1>2, <1>3, WritersUnmoved DEF IInv, MutexHeld, Writers
<1>6. ReaderHolds'
  BY <1>3 DEF ReaderHolds
<1> QED BY <1>2, <1>4, <1>5, <1>6, WritersUnmoved DEF IInv

LEMMA ReadBeginKeeps ==
    ASSUME IInv, ReadBegin
    PROVE  IInv'
<1> DEFINE used == accepted - delivered
           filled == Filled(reader.want, Readable(writeStart, readStart))
<1>1. /\ reader.at = "begin"
      /\ reader' = [reader EXCEPT !.at = "copy", !.w = writeStart, !.r = readStart,
                                   !.n = filled, !.latest = accepted]
      /\ UNCHANGED << readStart, writeStart, slots, mutex, writer, ghosts >>
  BY DEF ReadBegin
<1>2. mutex = "reader" /\ ~HalfReset
  BY <1>1, NoResetWhileReading
<1>3. Ahead(writeStart, readStart, used) /\ used \in 0 .. Capacity
  BY <1>2, Positions DEF IInv, IndicesCount
<1>4. Readable(writeStart, readStart) = used
  BY <1>3, Positions
<1>5. filled \in 0 .. MaxBlock /\ filled <= used
  <2> HIDE DEF used
  <2> QED BY <1>3, <1>4, ReaderFields, Numbers DEF IInv, Filled, Smaller
<1> HIDE DEF filled
<1>6. /\ reader' \in ReaderType /\ reader'.at = "copy" /\ reader'.w = writeStart
      /\ reader'.r = readStart /\ reader'.n = filled /\ reader'.latest = accepted
  BY <1>1, <1>5, ReaderFields DEF IInv, TypeOK, ReaderType, ReaderPlaces
<1>7. TypeOK'
  BY <1>1, <1>6 DEF IInv, TypeOK, ghosts
<1>8. MutexHeld'
  BY <1>1, <1>2, <1>6, WritersUnmoved DEF IInv, MutexHeld, Writers
<1>9. ReaderHolds'
  <2>1. delivered <= accepted /\ accepted <= accepted /\ UNCHANGED << readStart, accepted, delivered >>
    BY <1>1, Numbers DEF IInv, IndicesCount, ghosts
  <2> QED BY <1>3, <1>5, <1>6, <2>1 DEF ReaderHolds, Ahead
<1> QED BY <1>1, <1>7, <1>8, <1>9, WritersUnmoved DEF IInv

\* The samples a reader copies are the ones it has come for.
LEMMA CopyReads ==
    ASSUME IInv, reader.at = "copy", NEW i \in 1 .. reader.n
    PROVE  /\ ReadPlace(i) \in Slots
           /\ \E k \in 1 .. accepted - delivered : ReadPlace(i) = Slot(readStart + (k - 1))
           /\ slots[ReadPlace(i)] =
                 IF reader.op = "read" THEN delivered + i ELSE reader.latest - reader.n + i
<1> DEFINE n == reader.n
           seen == reader.latest - delivered
<1>1. /\ reader.r = readStart /\ n \in Nat /\ reader.latest \in Nat
      /\ delivered <= reader.latest /\ reader.latest <= accepted
      /\ n <= seen /\ Ahead(reader.w, readStart, seen) /\ reader.op \in {"read", "peek"}
  BY ReaderFields DEF IInv, ReaderHolds
<1>2. readStart \in Int /\ delivered \in Nat /\ accepted \in Nat
  BY Numbers DEF IInv
<1>3. \A k \in 1 .. accepted - delivered : slots[Slot(readStart + (k - 1))] = delivered + k
  BY NoResetWhileReading DEF IInv, SlotsHold
<1>4. CASE reader.op = "read"
  <2>1. ReadPlace(i) = Slot(readStart + (i - 1))
    <3>1. i \in 1 .. n
      OBVIOUS
    <3> HIDE DEF n, seen
    <3>2. Place(i, Slot(readStart), ReadFirst(reader.w, readStart)) = Slot(readStart + (i - 1))
      BY <1>1, <3>1, ReadPlaces
    <3> QED BY <1>1, <1>4, <3>2 DEF ReadPlace
  <2>2. i \in 1 .. accepted - delivered /\ readStart + (i - 1) \in Int
    BY <1>1, <1>2
  <2>3. slots[Slot(readStart + (i - 1))] = delivered + i
    BY <1>3, <2>2
  <2>4. Slot(readStart + (i - 1)) \in Slots
    BY <2>2, SlotInside
  <2> QED BY <1>4, <2>1, <2>2, <2>3, <2>4
<1>5. CASE reader.op # "read"
  <2> DEFINE k == seen - n + i
  <2>1. ReadPlace(i) = Slot(readStart + (k - 1))
    <3>1. i \in 1 .. n /\ seen - n + (i - 1) = k - 1
      BY <1>1, <1>2
    <3> HIDE DEF n, seen, k
    <3> DEFINE start == PeekStart(reader.w, readStart, n)
    <3>2. Place(i, start, Smaller(Capacity - start, n)) = Slot(readStart + (seen - n + (i - 1)))
      BY <1>1, <3>1, PeekPlaces
    <3> QED BY <1>1, <1>5, <3>1, <3>2 DEF ReadPlace, n
  <2>2. k \in 1 .. accepted - delivered /\ readStart + (k - 1) \in Int
        /\ delivered + k = reader.latest - n + i
    BY <1>1, <1>2
  <2> HIDE DEF k
  <2>3. slots[Slot(readStart + (k - 1))] = delivered + k
    BY <1>3, <2>2
  <2>4. Slot(readStart + (k - 1)) \in Slots
    BY <2>2, SlotInside
  <2> QED BY <1>5, <2>1, <2>2, <2>3, <2>4
<1> QED BY <1>4, <1>5

LEMMA ReadCopyKeeps ==
    ASSUME IInv, ReadCopy
    PROVE  IInv'
<1> DEFINE block == [i \in 1 .. reader.n |->
                        IF ReadPlace(i) \in Slots THEN slots[ReadPlace(i)] ELSE NoSample]
<1>1. /\ reader.at = "copy" /\ reader' = [reader EXCEPT !.at = "end", !.block = block]
      /\ UNCHANGED << readStart, writeStart, slots, mutex, writer, ghosts >>
  BY DEF ReadCopy
<1>2. block = [i \in 1 .. reader.n |->
                  IF reader.op = "read" THEN delivered + i ELSE reader.latest - reader.n + i]
  BY <1>1, CopyReads
<1>3. block \in Blocks
  <2>1. \A i \in 1 .. reader.n : slots[ReadPlace(i)] \in Samples /\ ReadPlace(i) \in Slots
    BY <1>1, CopyReads DEF IInv, TypeOK
  <2>2. block \in [1 .. reader.n -> Samples] /\ reader.n \in 0 .. MaxBlock
    BY <2>1, ReaderFields, Numbers DEF IInv
  <2> QED BY <2>2 DEF Blocks
<1> HIDE DEF block
<1>4. /\ reader' \in ReaderType /\ reader'.at = "end" /\ reader'.block = block
      /\ reader'.r = reader.r /\ reader'.n = reader.n /\ reader'.latest = reader.latest
      /\ reader'.op = reader.op
  BY <1>1, <1>3, ReaderFields DEF IInv, TypeOK, ReaderType, ReaderPlaces
<1>5. TypeOK'
  BY <1>1, <1>4 DEF IInv, TypeOK, ghosts
<1>6. MutexHeld'
  BY <1>1, <1>4, NoResetWhileReading, WritersUnmoved DEF IInv, MutexHeld, Writers
<1>7. ReaderHolds'
  BY <1>1, <1>2, <1>4 DEF IInv, ReaderHolds, ghosts
<1> QED BY <1>1, <1>5, <1>6, <1>7, WritersUnmoved DEF IInv

\* What the queue sees of it
LEMMA ReadEndIsTake ==
    ASSUME IInv, ReadEnd
    PROVE  /\ reader.n \in 0 .. accepted - delivered
           /\ heard' = [i \in 1 .. reader.n |-> delivered + i]
           /\ delivered' = delivered + reader.n /\ UNCHANGED accepted
<1>1. /\ reader.at = "end" /\ reader.op = "read" /\ heard' = reader.block
      /\ delivered' = delivered + reader.n /\ UNCHANGED accepted
  BY DEF ReadEnd
<1>2. /\ reader.n \in Nat /\ reader.latest \in Nat /\ accepted \in Nat /\ delivered \in Nat
      /\ reader.latest <= accepted /\ reader.n <= reader.latest - delivered
  BY <1>1, ReaderFields, Numbers DEF IInv, ReaderHolds
<1>3. reader.block = [i \in 1 .. reader.n |-> delivered + i]
  BY <1>1 DEF IInv, ReaderHolds
<1> QED BY <1>1, <1>2, <1>3

LEMMA ReadEndKeeps ==
    ASSUME IInv, ReadEnd
    PROVE  IInv'
<1> DEFINE n == reader.n
           used == accepted - delivered
<1>1. /\ readStart' = (readStart + n) % Word /\ delivered' = delivered + n
      /\ heard' = reader.block /\ reader' = ReaderAtRest /\ mutex' = "free"
      /\ UNCHANGED << writeStart, slots, writer, accepted >>
  BY DEF ReadEnd, Advanced
<1>2. mutex = "reader" /\ ~HalfReset
  BY NoResetWhileReading DEF ReadEnd
<1>3. /\ Ahead(writeStart, readStart, used) /\ used \in 0 .. Capacity
  BY <1>2, Positions DEF IInv, IndicesCount
<1>4. /\ n \in Nat /\ n <= used /\ delivered \in Nat /\ accepted \in Nat
      /\ accepted <= MaxSamples /\ readStart \in Int
      /\ Capacity \in Nat /\ MaxSamples \in Nat /\ accepted = delivered + used
  BY ReadEndIsTake, Numbers DEF IInv
<1>5. accepted' - delivered' = used - n /\ delivered' \in Samples /\ delivered' <= accepted'
  BY <1>1, <1>3, <1>4 DEF Samples
<1>6. \A k \in 1 .. used : slots[Slot(readStart + (k - 1))] = delivered + k
  BY <1>2 DEF IInv, SlotsHold
<1>7. ReaderAtRest \in ReaderType /\ ReaderAtRest.at = "idle" /\ reader.block \in Blocks
  BY ReaderAtRestTyped, ReaderFields DEF IInv
<1>8. /\ HalfReset' = HalfReset /\ OneWriter'
  BY <1>1 DEF IInv, HalfReset, OneWriter
<1> HIDE DEF n, used
<1>9. Ahead(writeStart, readStart', used - n)
  <2>1. (((readStart + n) % Word) + (used - n)) % Word = ((readStart + n) + (used - n)) % Word
    BY <1>3, <1>4, WordAdds, readStart + n \in Int, used - n \in Int
  <2>2. /\ (readStart + n) + (used - n) = readStart + used /\ used - n \in 0 .. Capacity
        /\ n \in Nat /\ n < Word /\ readStart \in Index
    BY <1>3, <1>4, Numbers DEF IInv, TypeOK
  <2>3. (readStart + n) % Word \in Index
    BY <2>2, Difference
  <2> QED BY <1>1, <1>3, <2>1, <2>2, <2>3 DEF Ahead
<1>10. TypeOK'
  <2>1. readStart' \in Index
    BY <1>9 DEF Ahead
  <2> QED BY <1>1, <1>5, <1>7, <2>1 DEF IInv, TypeOK
<1>11. MutexHeld'
  BY <1>1, <1>2, <1>7, <1>8 DEF IInv, MutexHeld, Writers
<1>12. IndicesCount'
  BY <1>1, <1>5, <1>9 DEF IndicesCount, Ahead
<1>13. SlotsHold'
  <2>1. ASSUME NEW k \in 1 .. used - n
        PROVE  slots[Slot(readStart' + (k - 1))] = delivered + n + k
    <3>1. n + k \in 1 .. used /\ k - 1 \in Int /\ readStart + n \in Int
          /\ (readStart + n) + (k - 1) = readStart + ((n + k) - 1)
          /\ delivered + (n + k) = delivered + n + k
      BY <1>3, <1>4
    <3>2. Slot(readStart' + (k - 1)) = Slot(readStart + ((n + k) - 1))
      BY <1>1, <3>1, SlotOfWord
    <3>3. slots[Slot(readStart + ((n + k) - 1))] = delivered + (n + k)
      BY <1>6, <3>1
    <3> QED BY <3>1, <3>2, <3>3
  <2> QED BY <1>1, <1>5, <2>1 DEF SlotsHold, Slot
<1>14. ASSUME NEW t \in Writers PROVE WriterHolds(t)'
  <2>1. ASSUME writer[t].n <= Capacity - used PROVE writer[t].n <= Capacity - (used - n)
    BY <1>3, <1>4, <2>1, WriterFields DEF IInv
  <2>2. WriterHolds(t)
    BY DEF IInv
  <2> QED BY <1>1, <1>5, <2>1, <2>2 DEF WriterHolds, Ahead, Slot, used
<1>15. ReaderHolds'
  BY <1>1, <1>7 DEF ReaderHolds
<1> QED BY <1>8, <1>10, <1>11, <1>12, <1>13, <1>14, <1>15 DEF IInv

LEMMA PeekEndKeeps ==
    ASSUME IInv, PeekEnd
    PROVE  IInv'
<1>1. /\ reader.at = "end" /\ reader' = ReaderAtRest /\ mutex' = "free"
      /\ UNCHANGED << readStart, writeStart, slots, writer, ghosts >>
  BY DEF PeekEnd
<1>2. mutex = "reader" /\ ~HalfReset
  BY <1>1, NoResetWhileReading
<1>3. ReaderAtRest \in ReaderType /\ ReaderAtRest.at = "idle"
  BY ReaderAtRestTyped DEF IInv
<1>4. TypeOK'
  BY <1>1, <1>3 DEF IInv, TypeOK, ghosts
<1>5. MutexHeld'
  BY <1>1, <1>2, <1>3, WritersUnmoved DEF IInv, MutexHeld, Writers
<1>6. ReaderHolds'
  BY <1>1, <1>3 DEF ReaderHolds
<1> QED BY <1>1, <1>4, <1>5, <1>6, WritersUnmoved DEF IInv

-----------------------------------------------------------------------------
(* The theorems *)

LEMMA InitHolds ==
    ASSUME Init
    PROVE  IInv
<1>1. /\ readStart = 0 /\ writeStart = 0 /\ slots = [s \in Slots |-> NoSample] /\ mutex = "free"
      /\ writer = [t \in Writers |-> AtRest] /\ reader = ReaderAtRest
      /\ accepted = 0 /\ delivered = 0 /\ heard = << >>
  BY DEF Init
<1>2. /\ 0 \in Index /\ 0 \in 0 .. MaxBlock /\ 0 \in Samples /\ Word \in Nat \ {0}
      /\ Capacity \in Nat \ {0}
  BY CapacityAssumption, WordAssumption, BoundsAssumption DEF Index, Samples
<1>3. << >> \in Blocks
  <2>1. << >> \in [1 .. 0 -> Samples]
    OBVIOUS
  <2> QED BY <1>2, <2>1 DEF Blocks
<1>4. TypeOK
  <2>1. AtRest \in WriterType
    BY <1>2 DEF AtRest, WriterType, WriterPlaces
  <2>2. ReaderAtRest \in ReaderType
    BY <1>2, <1>3 DEF ReaderAtRest, ReaderType, ReaderPlaces
  <2> QED BY <1>1, <1>2, <1>3, <2>1, <2>2 DEF TypeOK, NoSample
<1>5. (\A t \in Writers : writer[t].at = "idle") /\ ~HalfReset /\ reader.at = "idle"
  BY <1>1 DEF AtRest, ReaderAtRest, HalfReset
<1>6. MutexHeld /\ OneWriter /\ ReaderHolds /\ \A t \in Writers : WriterHolds(t)
  BY <1>1, <1>5 DEF MutexHeld, OneWriter, ReaderHolds, WriterHolds
<1>7. IndicesCount /\ SlotsHold
  <2>1. (0 + 0) % Word = 0
    BY <1>2, Remainder, 0 = Word * 0 + 0
  <2>2. Ahead(0, 0, 0)
    BY <1>2, <2>1 DEF Ahead
  <2>3. 0 - 0 = 0 /\ 1 .. 0 = {}
    OBVIOUS
  <2> QED BY <1>1, <2>2, <2>3 DEF IndicesCount, SlotsHold
<1> QED BY <1>4, <1>6, <1>7 DEF IInv

LEMMA NextKeeps ==
    ASSUME IInv, MainWaits, [Next]_vars
    PROVE  IInv'
<1>1. CASE \E t \in Writers : WriterStep(t)
  BY <1>1, WriterStepKeeps
<1>2. CASE ReaderStep
  BY <1>2, ReadStartsKeeps, ReadBeginKeeps, ReadCopyKeeps, ReadEndKeeps, PeekEndKeeps
  DEF ReaderStep
<1>3. CASE UNCHANGED vars
  <2>1. /\ UNCHANGED << readStart, writeStart, slots, writer, ghosts >>
        /\ UNCHANGED << mutex, reader >>
    BY <1>3 DEF vars, ghosts
  <2>2. TypeOK'
    BY <2>1 DEF IInv, TypeOK, ghosts
  <2>3. MutexHeld'
    BY <2>1, WritersUnmoved DEF IInv, MutexHeld
  <2>4. ReaderHolds'
    BY <2>1 DEF IInv, ReaderHolds, ghosts, Ahead
  <2> QED BY <2>1, <2>2, <2>3, <2>4, WritersUnmoved DEF IInv
<1> QED BY <1>1, <1>2, <1>3 DEF Next

\* The invariant the other theorems rest on: the two indices are as far apart
\* as the samples accepted and not delivered, and the slots between them hold
\* exactly these.
THEOREM Inductive ==
    ASSUME MainWaits
    PROVE  Spec => []IInv
<1>1. Init => IInv
  BY InitHolds
<1>2. IInv /\ [Next]_vars => IInv'
  BY NextKeeps
<1> QED BY <1>1, <1>2, PTL DEF Spec

\* Indices, slots and the threads' copies have the types they are declared with.
THEOREM TypeInvariant ==
    ASSUME MainWaits
    PROVE  Spec => []TypeOK
<1>1. IInv => TypeOK
  BY DEF IInv
<1> QED BY <1>1, Inductive, PTL

LEMMA CopiesApart ==
    ASSUME IInv
    PROVE  NoTornCopy
<1> SUFFICES ASSUME NEW t \in Writers, NEW s \in WriteSlots(t), s \in ReadSlots
             PROVE  FALSE
  BY DEF NoTornCopy
<1> DEFINE used == accepted - delivered
<1>1. PICK i \in 1 .. writer[t].n : writer[t].at = "copy" /\ s = WritePlace(t, i)
  BY DEF WriteSlots
<1>2. PICK j \in 1 .. reader.n : reader.at = "copy" /\ s = ReadPlace(j)
  BY DEF ReadSlots
<1>3. PICK k \in 1 .. used : s = Slot(readStart + (k - 1))
  BY <1>2, CopyReads
<1>4. Ahead(writeStart, readStart, used)
  BY <1>2, NoResetWhileReading DEF IInv, IndicesCount
<1>5. /\ writer[t].n \in Nat /\ writer[t].n <= Capacity - used /\ writer[t].w = writeStart
      /\ \E u \in 0 .. Capacity :
            Ahead(writeStart, writer[t].r, u) /\ writer[t].n <= Capacity - u
  BY <1>1, WriterFields DEF IInv, WriterHolds
<1>6. s = Slot(writeStart + (i - 1))
  BY <1>1, <1>5, WritePlaces DEF WritePlace
<1> HIDE DEF used
<1> QED BY <1>3, <1>4, <1>5, <1>6, FreeSlots DEF IInv

\* audioPlay() copies without the mutex, and yet never to a slot that a read or
\* a peek is copying from.
THEOREM CopiesApartAlways ==
    ASSUME MainWaits
    PROVE  Spec => []NoTornCopy
<1>1. IInv => NoTornCopy
  BY CopiesApart
<1> QED BY <1>1, Inductive, PTL

\* A peek returns the samples that were the latest when it began, in order.
THEOREM PeekIsLatestAlways ==
    ASSUME MainWaits
    PROVE  Spec => []PeekIsLatest
<1>1. IInv => PeekIsLatest
  <2> SUFFICES ASSUME IInv, reader.at = "end", reader.op = "peek"
               PROVE  reader.block = [i \in 1 .. reader.n |-> reader.latest - reader.n + i]
    BY DEF PeekIsLatest
  <2> QED BY DEF IInv, ReaderHolds
<1> QED BY <1>1, Inductive, PTL

\* The buffer never claims to hold more samples than it has slots, when the
\* main thread keeps its calls apart from audioPlay().
THEOREM ReadableWithinCapacityAlways ==
    ASSUME MainWaits
    PROVE  Spec => []ReadableWithinCapacity
<1>1. IInv => ReadableWithinCapacity
  <2> SUFFICES ASSUME IInv, ~HalfReset
               PROVE  Readable(writeStart, readStart) <= Capacity
    BY DEF ReadableWithinCapacity, HalfReset
  <2> DEFINE used == accepted - delivered
  <2>1. Ahead(writeStart, readStart, used)
    BY DEF IInv, IndicesCount
  <2> HIDE DEF used
  <2>2. Readable(writeStart, readStart) = used /\ used \in 0 .. Capacity
    BY <2>1, Positions
  <2> QED BY <2>2, CapacityAssumption
<1> QED BY <1>1, Inductive, PTL

\* A step of the threads is a step of the queue, or changes nothing it knows of.
LEMMA StepIsQueueStep ==
    ASSUME IInv, [Next]_vars
    PROVE  [Queue!Next]_<< accepted, delivered, heard >>
<1>1. ASSUME NEW t \in Writers, WritePublish(t)
      PROVE  Queue!Put
  BY <1>1, PublishIsPut DEF Queue!Put
<1>2. ASSUME NEW t \in Writers, ResetWrite(t)
      PROVE  Queue!Drop
  BY <1>2 DEF ResetWrite, Queue!Drop
<1>3. ASSUME ReadEnd
      PROVE  Queue!Take
  BY <1>3, ReadEndIsTake DEF Queue!Take
<1>4. ASSUME NEW t \in Writers,
             \/ Write(t) \/ WriteBegin(t) \/ WriteRoom(t) \/ WriteCopy(t) \/ WriteEnd(t)
             \/ Reset(t) \/ ResetRead(t)
      PROVE  UNCHANGED << accepted, delivered, heard >>
  BY <1>4 DEF Write, WriteBegin, WriteRoom, WriteCopy, WriteEnd, Reset, ResetRead, ghosts
<1>5. ASSUME \/ Read("read") \/ Read("peek") \/ ReadBegin \/ ReadCopy \/ PeekEnd
      PROVE  UNCHANGED << accepted, delivered, heard >>
  BY <1>5 DEF Read, ReadBegin, ReadCopy, PeekEnd, ghosts
<1>6. UNCHANGED vars => UNCHANGED << accepted, delivered, heard >>
  BY DEF vars
<1> QED BY <1>1, <1>2, <1>3, <1>4, <1>5, <1>6 DEF Next, WriterStep, ReaderStep, Queue!Next

\* To its consumers the ring buffer is a bounded queue: whatever the threads'
\* interleaving, each sample accepted is delivered at most once, in order,
\* unless a reset drops it.
THEOREM RingIsSampleQueue ==
    ASSUME MainWaits
    PROVE  Spec => IsSampleQueue
<1>1. Init => Queue!Init
  BY DEF Init, Queue!Init
<1>2. IInv /\ [Next]_vars => [Queue!Next]_<< accepted, delivered, heard >>
  BY StepIsQueueStep
<1> QED BY <1>1, <1>2, Inductive, PTL DEF Spec, IsSampleQueue, Queue!Spec
=============================================================================
