------------------------- MODULE MidiPlayback_proofs -------------------------
(***************************************************************************)
(* Proofs about MidiPlayback, for any files, tempos, tolerances and plans: *)
(* any number of calls and frames.                                         *)
(***************************************************************************)
EXTENDS MidiPlayback, FiniteSetTheorems, SequenceTheorems, TLAPS

-----------------------------------------------------------------------------
(* Searching for a message *)

\* A set of natural numbers has a least one: the intervals up to its elements are
\* well-founded by inclusion.
LEMMA MinOfNats ==
    ASSUME NEW S \in SUBSET Nat, S # {}
    PROVE  Min(S) \in S /\ \A n \in S : Min(S) <= n
<1>. DEFINE upTo(n) == 1 .. n
            T == {upTo(n) : n \in S}
<1>1. T \subseteq FiniteSubsetsOf(Nat) /\ T # {}
  <2>1. ASSUME NEW n \in S PROVE IsFiniteSet(1 .. n) /\ 1 .. n \in SUBSET Nat
    BY FS_Interval
  <2>. QED
    BY <2>1 DEF FiniteSubsetsOf
<1>2. PICK I \in T : \A J \in T : ~ (<< J, I >> \in StrictSubsetOrdering(Nat))
  <2>. HIDE DEF T
  <2>. QED
    BY <1>1, FS_StrictSubsetOrderingWellFounded, WFMin
<1>3. PICK x \in S : I = 1 .. x
  BY <1>2
<1>4. ASSUME NEW y \in S PROVE x <= y
  <2>1. SUFFICES ASSUME y < x PROVE FALSE
    OBVIOUS
  <2>2. /\ 1 .. y \in SUBSET Nat /\ 1 .. x \in SUBSET Nat
        /\ 1 .. y \subseteq 1 .. x /\ x \in 1 .. x /\ x \notin 1 .. y
    BY <2>1
  <2>3. << 1 .. y, 1 .. x >> \in StrictSubsetOrdering(Nat)
    BY <2>2 DEF StrictSubsetOrdering
  <2>. QED
    BY <2>3, <1>2, <1>3
<1>. QED
  BY <1>4 DEF Min

\* A file that is loaded, and none, are alike: their messages are sorted.
LEMMA FileFields ==
    ASSUME NEW f \in Files \cup {NoFile}
    PROVE  /\ f.duration \in Nat
           /\ Len(f.messages) \in Nat /\ DOMAIN f.messages = 1 .. Len(f.messages)
           /\ \A i \in 1 .. Len(f.messages) :
                 f.messages[i].time \in Nat /\ f.messages[i].time <= f.duration
           /\ \A i, j \in 1 .. Len(f.messages) :
                 i < j => f.messages[i].time <= f.messages[j].time
<1>1. CASE f \in Files
  <2>1. /\ f.duration \in Nat
        /\ f.messages \in Seq([time : 0 .. f.duration, note : Notes, on : BOOLEAN])
        /\ Sorted(f.messages)
    BY <1>1, FilesAssumption
  <2>2. /\ Len(f.messages) \in Nat /\ DOMAIN f.messages = 1 .. Len(f.messages)
        /\ \A i \in 1 .. Len(f.messages) :
              f.messages[i] \in [time : 0 .. f.duration, note : Notes, on : BOOLEAN]
    BY <2>1, LenProperties, ElementOfSeq
  <2>3. \A i \in 1 .. Len(f.messages) : f.messages[i].time \in 0 .. f.duration
    BY <2>2
  <2>. QED
    BY <2>1, <2>2, <2>3 DEF Sorted
<1>2. CASE f = NoFile
  BY <1>2 DEF NoFile
<1>. QED
  BY <1>1, <1>2

\* Where the cursor comes to when messages are sent up to a position.
LEMMA CursorAdvances ==
    ASSUME NEW m, m.file \in Files \cup {NoFile}, m.cursor \in 0 .. Len(m.file.messages),
           NEW position \in Nat
    PROVE  LET c == AdvancedUntil(m, position) IN
           /\ c \in m.cursor .. Len(m.file.messages)
           /\ \A i \in 1 .. Len(m.file.messages) :
                 i > m.cursor => (i <= c <=> m.file.messages[i].time <= position)
<1>. DEFINE N == Len(m.file.messages)
            t(i) == m.file.messages[i].time
            S == {c \in m.cursor .. N : c < N => t(c + 1) > position}
            c == Min(S)
<1>1. /\ N \in Nat /\ \A i \in 1 .. N : t(i) \in Nat
      /\ \A i, j \in 1 .. N : i < j => t(i) <= t(j)
  BY FileFields
<1>2. S \in SUBSET Nat /\ N \in S
  BY <1>1
<1>3. c \in S /\ \A n \in S : c <= n
  BY <1>2, MinOfNats
<1>4. c = AdvancedUntil(m, position)
  BY DEF AdvancedUntil
<1>. HIDE DEF c
<1>5. /\ m.cursor \in Nat /\ c \in m.cursor .. N
      /\ c < N => t(c + 1) > position
      /\ \A n \in m.cursor .. N : n < c => t(n + 1) <= position
  <2>. HIDE DEF t, N
  <2>. QED
    BY <1>1, <1>3
<1>. HIDE DEF t, N, S
<1>6. \A i \in 1 .. N : i > m.cursor => (i <= c <=> t(i) <= position)
  <2>. SUFFICES ASSUME NEW i \in 1 .. N, i > m.cursor PROVE i <= c <=> t(i) <= position
    OBVIOUS
  <2>1. CASE i <= c
    <3>1. i - 1 \in m.cursor .. N /\ i - 1 < c /\ (i - 1) + 1 = i
      BY <1>1, <1>5, <2>1
    <3>. QED
      BY <3>1, <1>5, <2>1
  <2>2. CASE i > c
    <3>1. c \in Nat /\ c < N /\ c + 1 \in 1 .. N /\ t(c + 1) > position
      BY <1>1, <1>5, <2>2
    <3>2. t(c + 1) <= t(i)
      <4>1. CASE c + 1 = i
        BY <4>1, <3>1, <1>1
      <4>2. CASE c + 1 < i
        BY <4>2, <3>1, <1>1
      <4>. QED
        BY <4>1, <4>2, <2>2, <3>1
    <3>3. t(i) \in Nat /\ t(c + 1) \in Nat /\ i \in Nat
      BY <1>1, <3>1
    <3>. QED
      BY <3>1, <3>2, <3>3, <2>2
  <2>. QED
    BY <2>1, <2>2, <1>1, <1>5
<1>. QED
  BY <1>4, <1>5, <1>6 DEF N, t

\* Where the cursor comes to in a seek.
LEMMA CursorSought ==
    ASSUME NEW m, m.file \in Files \cup {NoFile},
           NEW position \in Nat
    PROVE  LET c == SoughtTo(m, position) IN
           /\ c \in 0 .. Len(m.file.messages)
           /\ \A i \in 1 .. Len(m.file.messages) :
                 (i <= c <=> m.file.messages[i].time < position)
<1>. DEFINE N == Len(m.file.messages)
            t(i) == m.file.messages[i].time
            S == {c \in 0 .. N : c < N => t(c + 1) >= position}
            c == Min(S)
<1>1. /\ N \in Nat /\ \A i \in 1 .. N : t(i) \in Nat
      /\ \A i, j \in 1 .. N : i < j => t(i) <= t(j)
  BY FileFields
<1>2. S \in SUBSET Nat /\ N \in S
  BY <1>1
<1>3. c \in S /\ \A n \in S : c <= n
  BY <1>2, MinOfNats
<1>4. c = SoughtTo(m, position)
  BY DEF SoughtTo
<1>. HIDE DEF c
<1>5. /\ 0 \in Nat /\ c \in 0 .. N
      /\ c < N => t(c + 1) >= position
      /\ \A n \in 0 .. N : n < c => t(n + 1) < position
  <2>. HIDE DEF t, N
  <2>. QED
    BY <1>1, <1>3
<1>. HIDE DEF t, N, S
<1>6. \A i \in 1 .. N : (i <= c <=> t(i) < position)
  <2>. SUFFICES ASSUME NEW i \in 1 .. N, i > 0 PROVE i <= c <=> t(i) < position
    OBVIOUS
  <2>1. CASE i <= c
    <3>1. i - 1 \in 0 .. N /\ i - 1 < c /\ (i - 1) + 1 = i
      BY <1>1, <1>5, <2>1
    <3>. QED
      BY <3>1, <1>5, <2>1
  <2>2. CASE i > c
    <3>1. c \in Nat /\ c < N /\ c + 1 \in 1 .. N /\ t(c + 1) >= position
      BY <1>1, <1>5, <2>2
    <3>2. t(c + 1) <= t(i)
      <4>1. CASE c + 1 = i
        BY <4>1, <3>1, <1>1
      <4>2. CASE c + 1 < i
        BY <4>2, <3>1, <1>1
      <4>. QED
        BY <4>1, <4>2, <2>2, <3>1
    <3>3. t(i) \in Nat /\ t(c + 1) \in Nat /\ i \in Nat
      BY <1>1, <3>1
    <3>. QED
      BY <3>1, <3>2, <3>3, <2>2
  <2>. QED
    BY <2>1, <2>2, <1>1, <1>5
<1>. QED
  BY <1>4, <1>5, <1>6 DEF N, t

-----------------------------------------------------------------------------
(* Division *)

\* Quotient and remainder
LEMMA Quotient ==
    ASSUME NEW a \in Nat, NEW b \in Nat \ {0}
    PROVE  a \div b \in Nat /\ b * (a \div b) <= a /\ a < b * (a \div b) + b
OBVIOUS

\* There is no other quotient.
LEMMA QuotientUnique ==
    ASSUME NEW a \in Nat, NEW b \in Nat \ {0}, NEW q \in Nat, NEW r \in Nat,
           r < b, a = b * q + r
    PROVE  a \div b = q
OBVIOUS

\* Below the next multiple the quotient stays.
LEMMA SameQuotient ==
    ASSUME NEW a \in Nat, NEW c \in Nat, NEW b \in Nat \ {0},
           a <= c, c < (1 + a \div b) * b
    PROVE  c \div b = a \div b
<1>. DEFINE q == a \div b
<1>1. q \in Nat /\ b * q <= a
  BY Quotient
<1>2. c < (1 + q) * b
  OBVIOUS
<1>. HIDE DEF q
<1>3. (1 + q) * b = b * q + b /\ b * q \in Nat
  BY <1>1
<1>4. c - b * q \in Nat /\ c - b * q < b /\ c = b * q + (c - b * q)
  BY <1>1, <1>2, <1>3
<1>5. c \div b = q
  BY <1>1, <1>4, QuotientUnique
<1>. QED
  BY <1>5 DEF q

\* Multiples are counted apart.
LEMMA QuotientAbove ==
    ASSUME NEW a \in Nat, NEW b \in Nat \ {0}, NEW n \in Nat, n * b <= a
    PROVE  (a - n * b) \div b = a \div b - n
<1>. DEFINE q == (a - n * b) \div b
            c == a - n * b
<1>1. c \in Nat /\ n * b \in Nat
  OBVIOUS
<1>. HIDE DEF c
<1>2. c \div b \in Nat /\ b * (c \div b) <= c /\ c < b * (c \div b) + b
  BY <1>1, Quotient
<1>. DEFINE k == c \div b
<1>3. k \in Nat /\ b * k <= c /\ c < b * k + b
  BY <1>2
<1>. HIDE DEF k
<1>4. b * k \in Nat /\ b * (k + n) = b * k + n * b /\ a = c + n * b
  BY <1>1, <1>3 DEF c
<1>5. c - b * k \in Nat /\ c - b * k < b /\ a = b * (k + n) + (c - b * k)
  BY <1>1, <1>3, <1>4
<1>6. a \div b = k + n
  BY <1>3, <1>5, QuotientUnique
<1>. QED
  BY <1>3, <1>6 DEF k, c

-----------------------------------------------------------------------------
(* What holds of the session between two calls *)

\* A session that plays has been loaded, and was started before now.
Typed(m) ==
    /\ m \in MidiType
    /\ m.loaded => m.file \in plan.files
    /\ ~m.loaded => ~m.playing
    /\ m.playing => m.startWall <= now

\* RestsSilently, of a session.
Silent(m) ==
    (\A f \in plan.files : f.messages # << >>) =>
        m.running = m.playing /\ (~m.playing => m.notes = {})

\* The first and the last message of the pass are those at its origin and at the cursor.
Heard(m) ==
    LET N == Len(m.file.messages)
        before == m.cursor - Len(m.heard)
    IN  /\ before \in Nat /\ m.cursor <= N
        /\ \A k \in 1 .. Len(m.heard) : m.heard[k] = before + k
        /\ \A i \in 1 .. N : i <= before <=> m.file.messages[i].time < m.origin
        /\ m.reached # NotYet =>
              \A i \in 1 .. N : i <= m.cursor <=> m.file.messages[i].time <= m.reached
        /\ m.reached = NotYet => Len(m.heard) = 0

\* Neither the playhead nor the position is behind what has been sent.
InTime(m) ==
    m.file.duration > 0 =>
        /\ m.origin <= m.file.duration /\ m.origin <= m.playhead
        /\ m.reached <= m.file.duration /\ m.reached <= m.playhead
        /\ m.playing => m.origin <= Position(m) /\ m.reached <= Position(m)

\* PositionIsElapsed, of a session.
Elapsed(m) ==
    "replay" \notin plan.kinds /\ m.file.duration > 0 =>
        Smaller(IF m.playing THEN Position(m) ELSE m.playhead, m.file.duration)
            = Smaller(m.origin + m.elapsed, m.file.duration)

\* Nothing but seeks, loops and files moves the playhead away from the clock.
Steady == plan.kinds \cap {"pause", "tempo", "replay", "sync"} = {}

\* The next tick is the first one that is not among those of the pass; a session that has
\* played and does not is at the end, and begins a new pass when it is started.
Clocked(m) ==
    Steady =>
        /\ m.playing => m.playhead <= Position(m)
        /\ IF m.reached = NotYet
           THEN m.clocks = 0 /\ m.nextSync = m.origin /\ m.playhead = m.origin
           ELSE /\ m.origin <= m.reached /\ m.playhead = m.reached
                /\ m.clocks = 1 + (m.reached - m.origin) \div Interval
                /\ m.nextSync = m.origin + m.clocks * Interval
                /\ ~m.playing => m.finished /\ m.file.duration <= m.playhead

Good(m) == Typed(m) /\ Silent(m) /\ Heard(m) /\ InTime(m) /\ Elapsed(m) /\ Clocked(m)

\* The world the session is in.
World == now \in Nat /\ plan \in Plans

\* A pass has just begun at a position.
Begins(m, p) ==
    /\ m.playhead = p /\ m.origin = p /\ m.reached = NotYet /\ m.elapsed = 0 /\ m.heard = << >>
    /\ m.clocks = 0 /\ m.nextSync = p
    /\ m.cursor \in 0 .. Len(m.file.messages)
    /\ \A i \in 1 .. Len(m.file.messages) : i <= m.cursor <=> m.file.messages[i].time < p
    /\ m.file.duration > 0 => p <= m.file.duration

\* Since then no time has passed.
Anew(m) == m.playing => m.startPos = m.playhead /\ m.startWall = now

LEMMA Fields ==
    ASSUME NEW m \in MidiType
    PROVE  /\ m.file \in Files \cup {NoFile}
           /\ m.loaded \in BOOLEAN /\ m.playing \in BOOLEAN /\ m.finished \in BOOLEAN
           /\ m.loop \in BOOLEAN /\ m.running \in BOOLEAN
           /\ m.playhead \in Nat /\ m.startWall \in Nat /\ m.startPos \in Nat
           /\ m.tempo \in Tempos /\ m.tempo \in Nat /\ m.nextSync \in Nat /\ m.cursor \in Nat
           /\ m.notes \in SUBSET Notes /\ m.heard \in Seq(Nat) /\ m.clocks \in Nat
           /\ m.origin \in Nat /\ m.reached \in Nat \cup {NotYet} /\ m.elapsed \in Nat
           /\ m.file.duration \in Nat /\ Len(m.file.messages) \in Nat
           /\ Len(m.heard) \in Nat
<1>1. m.file \in Files \cup {NoFile} /\ m.tempo \in Tempos /\ m.heard \in Seq(Nat)
  BY DEF MidiType
<1>2. m.file.duration \in Nat /\ Len(m.file.messages) \in Nat
  BY <1>1, FileFields
<1>3. m.tempo \in Nat
  BY <1>1, TempoAssumption
<1>4. Len(m.heard) \in Nat
  BY <1>1, LenProperties
<1>. QED
  BY <1>1, <1>2, <1>3, <1>4 DEF MidiType

\* The position is a number, not behind where the playhead was set.
LEMMA PositionNatural ==
    ASSUME World, NEW m \in MidiType, m.startWall <= now
    PROVE  Position(m) \in Nat /\ Position(m) >= m.startPos
<1>1. now - m.startWall \in Nat /\ m.tempo \in Nat /\ m.startPos \in Nat
  BY Fields DEF World
<1>2. (now - m.startWall) * m.tempo \in Nat
  BY <1>1
<1>. QED
  BY <1>1, <1>2 DEF Position

\* When a pass begins nothing has been sent, and the playhead is its origin.
LEMMA PassBegins ==
    ASSUME World, NEW m \in MidiType, NEW p \in Nat, Begins(m, p), Anew(m)
    PROVE  Heard(m) /\ InTime(m) /\ Elapsed(m) /\ Clocked(m)
<1>1. m.cursor \in Nat /\ m.tempo \in Nat /\ m.file.duration \in Nat /\ now \in Nat
  BY Fields DEF World
<1>2. Len(m.heard) = 0
  BY DEF Begins
<1>3. Heard(m)
  BY <1>1, <1>2 DEF Heard, Begins
<1>4. m.playing => Position(m) = p
  BY <1>1 DEF Position, Begins, Anew
<1>5. InTime(m)
  BY <1>1, <1>4 DEF InTime, Begins, NotYet
<1>6. Elapsed(m)
  BY <1>1, <1>4 DEF Elapsed, Begins
<1>7. Clocked(m)
  BY <1>4 DEF Clocked, Begins
<1>. QED
  BY <1>3, <1>5, <1>6, <1>7

-----------------------------------------------------------------------------
(* Each operation keeps it *)

\* A new pass changes nothing of the session.
LEMMA PassFromFields ==
    ASSUME NEW m \in MidiType, NEW p \in Nat
    PROVE  LET s == PassFrom(m, p) IN
           /\ s \in MidiType
           /\ s.origin = p /\ s.reached = NotYet /\ s.elapsed = 0 /\ s.heard = << >>
           /\ s.file = m.file /\ s.loaded = m.loaded /\ s.playing = m.playing
           /\ s.finished = m.finished /\ s.clocks = 0 /\ s.nextSync = m.nextSync
           /\ s.playhead = m.playhead /\ s.startWall = m.startWall /\ s.startPos = m.startPos
           /\ s.tempo = m.tempo /\ s.cursor = m.cursor
           /\ s.notes = m.notes /\ s.running = m.running
<1>1. << >> \in Seq(Nat) /\ NotYet \in Nat \cup {NotYet}
  OBVIOUS
<1>2. PassFrom(m, p) \in MidiType
  BY <1>1 DEF PassFrom, MidiType
<1>. QED
  BY <1>2 DEF PassFrom, MidiType

\* What the device is told changes nothing else.
LEMMA DeviceFields ==
    ASSUME NEW m \in MidiType
    PROVE  /\ \A s \in {AllNotesOff(m), TransportStart(m), TransportStop(m)} :
                 /\ s \in MidiType
                 /\ s.file = m.file /\ s.loaded = m.loaded /\ s.playing = m.playing
                 /\ s.finished = m.finished
                 /\ s.playhead = m.playhead /\ s.startWall = m.startWall
                 /\ s.startPos = m.startPos /\ s.tempo = m.tempo /\ s.cursor = m.cursor
                 /\ s.origin = m.origin /\ s.reached = m.reached /\ s.elapsed = m.elapsed
                 /\ s.heard = m.heard /\ s.clocks = m.clocks /\ s.nextSync = m.nextSync
           /\ AllNotesOff(m).notes = {} /\ AllNotesOff(m).running = m.running
           /\ TransportStart(m).running /\ TransportStart(m).notes = m.notes
           /\ ~TransportStop(m).running /\ TransportStop(m).notes = m.notes
BY DEF AllNotesOff, TransportStart, TransportStop, MidiType

\* stop() rests at the start, unless there is nothing to play.
LEMMA StoppedFields ==
    ASSUME NEW m \in MidiType, m.loaded, m.file.messages # << >>
    PROVE  LET s == Stopped(m) IN
           /\ s \in MidiType /\ s.file = m.file /\ s.loaded /\ ~s.playing /\ ~s.running
           /\ s.notes = {} /\ s.cursor = 0
           /\ s.playhead = 0 /\ s.origin = 0 /\ s.reached = NotYet /\ s.elapsed = 0
           /\ s.heard = << >> /\ s.clocks = 0 /\ s.nextSync = 0
<1>. DEFINE reset == [m EXCEPT !.playing = FALSE, !.finished = FALSE, !.playhead = 0,
                               !.startWall = 0, !.startPos = 0, !.nextSync = 0, !.cursor = 0]
            pass == PassFrom(reset, 0)
            stopped == TransportStop(pass)
<1>1. /\ reset \in MidiType /\ reset.file = m.file /\ reset.loaded /\ ~reset.playing
      /\ reset.playhead = 0 /\ reset.cursor = 0 /\ reset.nextSync = 0
  BY DEF MidiType
<1>2. Stopped(m) = AllNotesOff(stopped)
  BY DEF Stopped
<1>. HIDE DEF reset
<1>3. /\ pass \in MidiType /\ pass.file = m.file /\ pass.loaded /\ ~pass.playing
      /\ pass.playhead = 0 /\ pass.cursor = 0 /\ pass.origin = 0 /\ pass.reached = NotYet
      /\ pass.elapsed = 0 /\ pass.heard = << >> /\ pass.clocks = 0 /\ pass.nextSync = 0
  BY <1>1, PassFromFields
<1>. HIDE DEF pass
<1>4. /\ stopped \in MidiType /\ stopped.file = m.file /\ stopped.loaded /\ ~stopped.playing
      /\ stopped.playhead = 0 /\ stopped.cursor = 0 /\ stopped.origin = 0
      /\ stopped.reached = NotYet /\ stopped.elapsed = 0 /\ stopped.heard = << >>
      /\ ~stopped.running /\ stopped.clocks = 0 /\ stopped.nextSync = 0
  BY <1>3, DeviceFields
<1>. HIDE DEF stopped
<1>. QED
  BY <1>2, <1>4, DeviceFields

LEMMA StoppedKeeps ==
    ASSUME World, NEW m, Good(m)
    PROVE  Good(Stopped(m))
<1>1. CASE ~m.loaded \/ m.file.messages = << >>
  BY <1>1 DEF Stopped
<1>2. CASE m.loaded /\ m.file.messages # << >>
  <2>. DEFINE s == Stopped(m)
  <2>1. /\ s \in MidiType /\ s.file = m.file /\ s.loaded /\ ~s.playing /\ ~s.running
        /\ s.notes = {} /\ s.cursor = 0
        /\ s.playhead = 0 /\ s.origin = 0 /\ s.reached = NotYet /\ s.elapsed = 0
        /\ s.heard = << >> /\ s.clocks = 0 /\ s.nextSync = 0
    BY <1>2, StoppedFields DEF Good, Typed
  <2>. HIDE DEF s
  <2>2. Begins(s, 0) /\ Anew(s)
    BY <2>1, FileFields, Fields DEF Begins, Anew
  <2>3. Typed(s) /\ Silent(s)
    BY <1>2, <2>1, Fields DEF Good, Typed, Silent
  <2>. QED
    BY <2>1, <2>2, <2>3, PassBegins DEF Good, s
<1>. QED
  BY <1>1, <1>2

\* load() and clear(): like stop(), but with another file or none.
LEMMA LoadedFields ==
    ASSUME NEW m \in MidiType, NEW f \in Files \cup {NoFile}, NEW loaded \in BOOLEAN
    PROVE  LET s == Loaded(m, f, loaded)
               stopped == Stopped(m)
           IN
           /\ stopped \in MidiType =>
                /\ s \in MidiType /\ s.file = f /\ s.loaded = loaded /\ ~s.playing
                /\ s.cursor = 0 /\ s.playhead = 0 /\ s.clocks = 0 /\ s.nextSync = 0
                /\ s.origin = 0 /\ s.reached = NotYet /\ s.elapsed = 0 /\ s.heard = << >>
                /\ s.notes = stopped.notes /\ s.running = stopped.running
<1>. DEFINE stopped == Stopped(m)
            cleared == [stopped EXCEPT !.file = f, !.loaded = loaded, !.playing = FALSE,
                           !.finished = FALSE, !.playhead = 0, !.startWall = 0, !.startPos = 0,
                           !.tempo = 1, !.nextSync = 0, !.cursor = 0]
<1>1. Loaded(m, f, loaded) = PassFrom(cleared, 0)
  BY DEF Loaded
<1>. HIDE DEF stopped
<1>2. ASSUME stopped \in MidiType
      PROVE  /\ cleared \in MidiType /\ cleared.file = f /\ cleared.loaded = loaded
             /\ ~cleared.playing /\ cleared.playhead = 0 /\ cleared.cursor = 0
             /\ cleared.nextSync = 0
             /\ cleared.notes = stopped.notes /\ cleared.running = stopped.running
  BY <1>2, TempoAssumption DEF MidiType
<1>. HIDE DEF cleared
<1>. QED
  BY <1>1, <1>2, PassFromFields DEF stopped

LEMMA LoadedKeeps ==
    ASSUME World, NEW m, Good(m), NEW f, NEW loaded \in BOOLEAN,
           \/ loaded /\ f \in plan.files
           \/ ~loaded /\ f = NoFile
    PROVE  Good(Loaded(m, f, loaded))
<1>. DEFINE s == Loaded(m, f, loaded)
            stopped == Stopped(m)
<1>1. Good(stopped) /\ m \in MidiType
  BY StoppedKeeps DEF Good, Typed
<1>2. f \in Files \cup {NoFile}
  BY PlansAssumption DEF World
<1>3. stopped \in MidiType
  BY <1>1 DEF Good, Typed
<1>4. /\ s \in MidiType /\ s.file = f /\ s.loaded = loaded /\ ~s.playing
      /\ s.cursor = 0 /\ s.playhead = 0 /\ s.clocks = 0 /\ s.nextSync = 0
      /\ s.origin = 0 /\ s.reached = NotYet /\ s.elapsed = 0 /\ s.heard = << >>
      /\ s.notes = stopped.notes /\ s.running = stopped.running
  BY <1>1, <1>2, <1>3, LoadedFields
<1>5. (\A g \in plan.files : g.messages # << >>) =>
          ~stopped.running /\ ~stopped.playing /\ stopped.notes = {}
  <2>. SUFFICES ASSUME \A g \in plan.files : g.messages # << >>
                PROVE  ~stopped.running /\ ~stopped.playing /\ stopped.notes = {}
    OBVIOUS
  <2>1. CASE m.loaded
    <3>1. m.file.messages # << >>
      BY <2>1 DEF Good, Typed
    <3>. QED
      BY <3>1, <2>1, <1>1, StoppedFields
  <2>2. CASE ~m.loaded
    <3>1. stopped = m /\ ~m.playing
      BY <2>2 DEF Stopped, Good, Typed
    <3>. QED
      BY <3>1, <1>1, <1>3, Fields DEF Good, Silent
  <2>. QED
    BY <2>1, <2>2
<1>. HIDE DEF s, stopped
<1>6. Begins(s, 0) /\ Anew(s)
  BY <1>2, <1>4, FileFields DEF Begins, Anew
<1>7. Typed(s) /\ Silent(s)
  BY <1>4, <1>5, Fields DEF Typed, Silent
<1>. QED
  BY <1>4, <1>6, <1>7, PassBegins DEF Good, s

\* seek() begins a pass where it goes to, in silence.
Seeks(s, m, at) ==
    /\ s \in MidiType /\ s.file = m.file /\ s.loaded /\ s.playing = m.playing
    /\ s.startPos = s.playhead /\ s.running = m.running /\ s.notes = {}
    /\ s.startWall = IF m.playing /\ at > 0 THEN at ELSE m.startWall
    /\ Begins(s, s.playhead)

LEMMA SoughtSeeks ==
    ASSUME NEW m \in MidiType, m.loaded, NEW seconds \in Nat, NEW at \in Nat
    PROVE  Seeks(Sought(m, seconds, at), m, at)
<1>. DEFINE to == Smaller(seconds, m.file.duration)
            wall == IF m.playing /\ at > 0 THEN at ELSE m.startWall
            cursor == SoughtTo(m, to)
            ended == m.file.duration > 0 /\ to >= m.file.duration
            moved == [m EXCEPT !.playhead = to, !.startPos = to, !.nextSync = to,
                               !.startWall = wall, !.cursor = cursor, !.finished = ended]
            pass == PassFrom(moved, to)
            s == AllNotesOff(pass)
<1>1. s = Sought(m, seconds, at)
  BY DEF Sought
<1>2. m.file.duration \in Nat /\ m.startWall \in Nat /\ m.file \in Files \cup {NoFile}
  BY Fields
<1>3. to \in Nat /\ to <= m.file.duration
  BY <1>2 DEF Smaller
<1>4. wall \in Nat /\ ended \in BOOLEAN
  BY <1>2
<1>. HIDE DEF to, wall, ended
<1>5. /\ cursor \in 0 .. Len(m.file.messages) /\ cursor \in Nat
      /\ \A i \in 1 .. Len(m.file.messages) : i <= cursor <=> m.file.messages[i].time < to
  <2>1. /\ cursor \in 0 .. Len(m.file.messages)
        /\ \A i \in 1 .. Len(m.file.messages) : i <= cursor <=> m.file.messages[i].time < to
    BY <1>2, <1>3, CursorSought
  <2>2. Len(m.file.messages) \in Nat
    BY Fields
  <2>. HIDE DEF cursor
  <2>. QED
    BY <2>1, <2>2
<1>. HIDE DEF cursor
<1>6. /\ moved \in MidiType /\ moved.file = m.file /\ moved.loaded /\ moved.playing = m.playing
      /\ moved.cursor = cursor /\ moved.playhead = to /\ moved.startPos = to
      /\ moved.startWall = wall /\ moved.running = m.running /\ moved.nextSync = to
  BY <1>3, <1>4, <1>5 DEF MidiType
<1>. HIDE DEF moved
<1>7. /\ pass \in MidiType /\ pass.file = m.file /\ pass.loaded /\ pass.playing = m.playing
      /\ pass.cursor = cursor /\ pass.playhead = to /\ pass.startPos = to
      /\ pass.startWall = wall /\ pass.running = m.running
      /\ pass.origin = to /\ pass.reached = NotYet /\ pass.elapsed = 0 /\ pass.heard = << >>
      /\ pass.clocks = 0 /\ pass.nextSync = to
  BY <1>3, <1>6, PassFromFields
<1>. HIDE DEF pass
<1>8. /\ s \in MidiType /\ s.file = m.file /\ s.loaded /\ s.playing = m.playing
      /\ s.cursor = cursor /\ s.playhead = to /\ s.startPos = to
      /\ s.startWall = wall /\ s.running = m.running /\ s.notes = {}
      /\ s.origin = to /\ s.reached = NotYet /\ s.elapsed = 0 /\ s.heard = << >>
      /\ s.clocks = 0 /\ s.nextSync = to
  BY <1>7, DeviceFields
<1>. HIDE DEF s
<1>9. Begins(s, s.playhead)
  BY <1>3, <1>5, <1>8 DEF Begins
<1>. QED
  BY <1>1, <1>8, <1>9 DEF Seeks, wall

\* While playing a seek is from now on.
LEMMA SoughtKeeps ==
    ASSUME World, NEW m, Good(m), NEW seconds \in Nat, NEW at \in Nat,
           m.playing => at = now
    PROVE  Good(Sought(m, seconds, at)) /\ Sought(m, seconds, at).playing = m.playing
<1>. DEFINE s == Sought(m, seconds, at)
<1>1. CASE ~m.loaded
  BY <1>1 DEF Sought
<1>2. CASE m.loaded
  <2>1. m \in MidiType /\ now \in Nat /\ m.startWall \in Nat /\ m.playing \in BOOLEAN
    BY Fields DEF Good, Typed, World
  <2>2. Seeks(s, m, at)
    BY <1>2, <2>1, SoughtSeeks
  <2>. HIDE DEF s
  <2>3. Anew(s) /\ (s.playing => s.startWall = now)
    BY <2>1, <2>2 DEF Seeks, Anew, Good, Typed
  <2>4. s.playhead \in Nat
    BY <2>2, Fields DEF Seeks
  <2>5. Heard(s) /\ InTime(s) /\ Elapsed(s) /\ Clocked(s)
    BY <2>2, <2>3, <2>4, PassBegins DEF Seeks
  <2>6. Typed(s) /\ Silent(s)
    BY <1>2, <2>1, <2>2, <2>3, Fields DEF Seeks, Good, Typed, Silent
  <2>. QED
    BY <2>2, <2>5, <2>6 DEF Good, Seeks, s
<1>. QED
  BY <1>1, <1>2 DEF Good, Typed, MidiType

\* play() of a session that does not play, or of any in a plan with "replay".
LEMMA PlayedKeeps ==
    ASSUME World, NEW m, Good(m), m.playing => "replay" \in plan.kinds
    PROVE  Good(Played(m))
<1>1. CASE ~m.loaded
  BY <1>1 DEF Played
<1>2. CASE m.loaded
  <2>. DEFINE again == m.finished /\ m.playhead >= m.file.duration
              sought == Sought(m, 0, 0)
              rewound == [sought EXCEPT !.finished = FALSE]
              from == IF again THEN rewound ELSE m
              started == [from EXCEPT !.startWall = now, !.startPos = from.playhead,
                                      !.playing = TRUE, !.nextSync = from.playhead]
              s == TransportStart(started)
  <2>1. s = Played(m)
    BY <1>2 DEF Played
  <2>2. m \in MidiType /\ now \in Nat
    BY DEF Good, Typed, World
  <2>3. Seeks(sought, m, 0)
    BY <1>2, <2>2, SoughtSeeks
  <2>. HIDE DEF sought, again
  <2>4. /\ rewound \in MidiType /\ rewound.file = sought.file /\ rewound.loaded = sought.loaded
        /\ rewound.cursor = sought.cursor /\ rewound.playhead = sought.playhead
        /\ rewound.origin = sought.origin /\ rewound.reached = sought.reached
        /\ rewound.elapsed = sought.elapsed /\ rewound.heard = sought.heard
        /\ rewound.clocks = sought.clocks
    BY <2>3 DEF Seeks, MidiType
  <2>. HIDE DEF rewound
  <2>5. from \in MidiType /\ from.file = m.file /\ from.loaded
    BY <1>2, <2>2, <2>3, <2>4 DEF Seeks
  <2>6. from.playhead \in Nat
    BY <2>5, Fields
  <2>. HIDE DEF from
  <2>7. /\ started \in MidiType /\ started.file = m.file /\ started.loaded /\ started.playing
        /\ started.startWall = now /\ started.startPos = from.playhead
        /\ started.cursor = from.cursor /\ started.playhead = from.playhead
        /\ started.origin = from.origin /\ started.reached = from.reached
        /\ started.elapsed = from.elapsed /\ started.heard = from.heard
        /\ started.clocks = from.clocks /\ started.nextSync = from.playhead
    BY <2>2, <2>5, <2>6 DEF MidiType
  <2>. HIDE DEF started
  <2>8. /\ s \in MidiType /\ s.file = m.file /\ s.loaded /\ s.playing /\ s.running
        /\ s.startWall = now /\ s.startPos = s.playhead
        /\ s.cursor = from.cursor /\ s.playhead = from.playhead
        /\ s.origin = from.origin /\ s.reached = from.reached
        /\ s.elapsed = from.elapsed /\ s.heard = from.heard
        /\ s.clocks = from.clocks /\ s.nextSync = s.playhead
    BY <2>7, DeviceFields
  <2>. HIDE DEF s
  <2>9. Anew(s) /\ Typed(s) /\ Silent(s)
    BY <1>2, <2>2, <2>8, Fields DEF Anew, Typed, Silent, Good
  <2>10. CASE again
    <3>1. Begins(s, s.playhead) /\ s.playhead \in Nat
      BY <2>3, <2>4, <2>6, <2>8, <2>10 DEF Seeks, Begins, from
    <3>. QED
      BY <2>1, <2>8, <2>9, <3>1, PassBegins DEF Good
  <2>11. CASE ~again
    <3>1. from = m
      BY <2>11 DEF from
    <3>2. /\ Position(s) = m.playhead /\ m.playhead \in Nat /\ m.playing \in BOOLEAN
      BY <2>2, <2>8, <3>1, Fields DEF Position
    <3>3. Heard(s) /\ InTime(s) /\ Elapsed(s)
      BY <2>8, <3>1, <3>2 DEF Good, Heard, InTime, Elapsed
    <3>4. Clocked(s)
      <4>1. Steady => m.reached = NotYet
        BY <2>11 DEF Good, Clocked, Steady, again
      <4>. QED
        BY <4>1, <2>8, <3>1, <3>2 DEF Good, Clocked
    <3>. QED
      BY <2>1, <2>9, <3>3, <3>4 DEF Good
  <2>. QED
    BY <2>10, <2>11
<1>. QED
  BY <1>1, <1>2 DEF Good, Typed, MidiType

\* pause() leaves the playhead at the position.
LEMMA PausedKeeps ==
    ASSUME World, ~Steady, NEW m, Good(m)
    PROVE  Good(Paused(m))
<1>1. CASE ~(m.loaded /\ m.playing)
  BY <1>1 DEF Paused
<1>2. CASE m.loaded /\ m.playing
  <2>. DEFINE position == Position(m)
              held == [m EXCEPT !.playhead = position, !.startPos = position, !.playing = FALSE]
              stopped == TransportStop(held)
              s == AllNotesOff(stopped)
  <2>1. s = Paused(m)
    BY <1>2 DEF Paused
  <2>2. m \in MidiType /\ now \in Nat /\ m.startWall <= now
    BY <1>2 DEF Good, Typed, World
  <2>3. position \in Nat
    BY <2>2, PositionNatural
  <2>. HIDE DEF position
  <2>4. /\ held \in MidiType /\ held.file = m.file /\ held.loaded /\ ~held.playing
        /\ held.playhead = position /\ held.cursor = m.cursor /\ held.origin = m.origin
        /\ held.reached = m.reached /\ held.elapsed = m.elapsed /\ held.heard = m.heard
    BY <1>2, <2>2, <2>3 DEF MidiType
  <2>. HIDE DEF held
  <2>5. /\ stopped \in MidiType /\ stopped.file = m.file /\ stopped.loaded /\ ~stopped.playing
        /\ stopped.playhead = position /\ stopped.cursor = m.cursor
        /\ stopped.origin = m.origin /\ stopped.reached = m.reached
        /\ stopped.elapsed = m.elapsed /\ stopped.heard = m.heard /\ ~stopped.running
    BY <2>4, DeviceFields
  <2>. HIDE DEF stopped
  <2>6. /\ s \in MidiType /\ s.file = m.file /\ s.loaded /\ ~s.playing
        /\ s.playhead = position /\ s.cursor = m.cursor
        /\ s.origin = m.origin /\ s.reached = m.reached
        /\ s.elapsed = m.elapsed /\ s.heard = m.heard /\ ~s.running /\ s.notes = {}
    BY <2>5, DeviceFields
  <2>. HIDE DEF s
  <2>7. Typed(s) /\ Silent(s)
    BY <1>2, <2>2, <2>6, Fields DEF Typed, Silent, Good
  <2>8. Heard(s) /\ InTime(s) /\ Elapsed(s)
    BY <1>2, <2>2, <2>6 DEF Good, Heard, InTime, Elapsed, position
  <2>. QED
    BY <2>1, <2>7, <2>8 DEF Good, Clocked
<1>. QED
  BY <1>1, <1>2

\* setTempoMultiplier() counts from now, where the old tempo has led.
LEMMA TempoKeeps ==
    ASSUME World, ~Steady, NEW m, Good(m), NEW tempo \in Tempos
    PROVE  Good(WithTempo(m, tempo))
<1>. DEFINE anchored == Anchored(m)
            s == [anchored EXCEPT !.tempo = tempo]
<1>1. CASE m.tempo = tempo
  BY <1>1 DEF WithTempo
<1>2. CASE m.tempo # tempo
  <2>1. s = WithTempo(m, tempo)
    BY <1>2 DEF WithTempo
  <2>2. m \in MidiType /\ now \in Nat
    BY DEF Good, Typed, World
  <2>3. CASE ~(m.loaded /\ m.playing)
    <3>1. anchored = m /\ ~m.playing
      BY <2>3 DEF Anchored, Good, Typed
    <3>. HIDE DEF anchored
    <3>2. /\ s \in MidiType /\ s.file = m.file /\ s.loaded = m.loaded /\ ~s.playing
          /\ s.playhead = m.playhead /\ s.cursor = m.cursor /\ s.origin = m.origin
          /\ s.reached = m.reached /\ s.elapsed = m.elapsed /\ s.heard = m.heard
          /\ s.running = m.running /\ s.notes = m.notes
      BY <2>2, <3>1 DEF MidiType
    <3>. HIDE DEF s
    <3>3. Typed(s)
      BY <3>2 DEF Typed, Good
    <3>4. m.playing = FALSE /\ s.playing = FALSE
      BY <2>2, <3>1, <3>2, Fields
    <3>5. Silent(s)
      BY <3>2, <3>4 DEF Silent, Good
    <3>6. Heard(s) /\ InTime(s) /\ Elapsed(s)
      BY <3>1, <3>2 DEF Good, Heard, InTime, Elapsed
    <3>. QED
      BY <2>1, <3>3, <3>5, <3>6 DEF Good, Clocked
  <2>4. CASE m.loaded /\ m.playing
    <3>. DEFINE position == Position(m)
                to == Smaller(position, m.file.duration)
    <3>1. anchored = [m EXCEPT !.playhead = position, !.startWall = now, !.startPos = to]
      BY <2>4 DEF Anchored
    <3>2. position \in Nat /\ to \in Nat
      BY <2>2, <2>4, PositionNatural, Fields DEF Smaller, Good, Typed
    <3>. HIDE DEF position, to, anchored
    <3>3. /\ s \in MidiType /\ s.file = m.file /\ s.loaded /\ s.playing
          /\ s.playhead = position /\ s.startPos = to /\ s.startWall = now /\ s.tempo = tempo
          /\ s.cursor = m.cursor /\ s.origin = m.origin
          /\ s.reached = m.reached /\ s.elapsed = m.elapsed /\ s.heard = m.heard
          /\ s.running = m.running /\ s.notes = m.notes
      BY <2>2, <2>4, <3>1, <3>2 DEF MidiType
    <3>. HIDE DEF s
    <3>4. Typed(s) /\ Silent(s)
      <4>1. Typed(s)
        BY <2>2, <2>4, <3>3 DEF Typed, Good
      <4>2. m.playing = TRUE /\ s.playing = TRUE
        BY <2>2, <2>4, <3>3, Fields
      <4>3. Silent(s)
        BY <3>3, <4>2 DEF Silent, Good
      <4>. QED
        BY <4>1, <4>3
    <3>5. Position(s) = to
      <4>1. s.tempo \in Nat
        BY <3>3, Fields
      <4>. QED
        BY <2>2, <3>2, <3>3, <4>1 DEF Position
    <3>6. m.file.duration \in Nat /\ m.origin \in Nat /\ m.reached \in Nat \cup {NotYet}
      BY <2>2, Fields
    <3>7. Heard(s) /\ InTime(s)
      BY <2>4, <3>2, <3>3, <3>5, <3>6 DEF Good, Heard, InTime, position, to, Smaller, NotYet
    <3>8. Elapsed(s)
      BY <2>4, <3>2, <3>3, <3>5, <3>6 DEF Good, Elapsed, position, to, Smaller
    <3>. QED
      BY <2>1, <3>4, <3>7, <3>8 DEF Good, Clocked
  <2>. QED
    BY <2>3, <2>4
<1>. QED
  BY <1>1, <1>2

\* update(): the ticks that are due are sent.
Ticked(m, s, to) ==
    LET first == Larger(m.nextSync, m.playhead)
        ticks == IF to < first THEN 0 ELSE 1 + (to - first) \div Interval
    IN  s.clocks = m.clocks + ticks /\ s.nextSync = first + ticks * Interval

\* They are those between where the last update() came and where this one does.
LEMMA TicksKept ==
    ASSUME World, Steady, NEW m \in MidiType, Clocked(m), NEW s, NEW to \in Nat,
           m.playhead <= to, Ticked(m, s, to)
    PROVE  /\ m.origin <= to
           /\ s.clocks = 1 + (to - m.origin) \div Interval
           /\ s.nextSync = m.origin + s.clocks * Interval
<1>. DEFINE first == Larger(m.nextSync, m.playhead)
            ticks == IF to < first THEN 0 ELSE 1 + (to - first) \div Interval
<1>1. /\ m.origin \in Nat /\ m.reached \in Nat \cup {NotYet} /\ m.playhead \in Nat
      /\ m.clocks \in Nat /\ m.nextSync \in Nat /\ Interval \in Nat \ {0}
  BY Fields, TimeAssumption
<1>2. s.clocks = m.clocks + ticks /\ s.nextSync = first + ticks * Interval
  BY DEF Ticked
<1>3. CASE m.reached = NotYet
  <2>1. m.clocks = 0 /\ first = m.origin /\ m.origin <= to
    BY <1>1, <1>3 DEF Clocked, Larger
  <2>2. ticks = 1 + (to - m.origin) \div Interval
    BY <1>1, <2>1
  <2>3. (to - m.origin) \div Interval \in Nat
    BY <1>1, <2>1, Quotient
  <2>. HIDE DEF ticks, first
  <2>. QED
    BY <1>1, <1>2, <2>1, <2>2, <2>3
<1>4. CASE m.reached # NotYet
  <2>. DEFINE r == m.reached - m.origin
              t == to - m.origin
  <2>1. /\ m.origin <= m.reached /\ m.playhead = m.reached /\ m.reached \in Nat
        /\ m.clocks = 1 + r \div Interval
        /\ m.nextSync = m.origin + m.clocks * Interval
    BY <1>1, <1>4 DEF Clocked
  <2>2. r \in Nat /\ t \in Nat /\ r <= t
    BY <1>1, <2>1
  <2>. HIDE DEF r, t
  <2>3. r < m.clocks * Interval
    BY <1>1, <2>1, <2>2, Quotient
  <2>4. first = m.nextSync
    BY <1>1, <2>1, <2>3 DEF Larger, r
  <2>5. CASE to < first
    <3>1. ticks = 0 /\ t < m.clocks * Interval
      BY <1>1, <2>1, <2>4, <2>5 DEF t
    <3>2. t \div Interval = r \div Interval
      BY <1>1, <2>1, <2>2, <3>1, SameQuotient
    <3>. QED
      BY <1>1, <1>2, <2>1, <2>4, <3>1, <3>2 DEF t
  <2>6. CASE ~(to < first)
    <3>1. /\ to - first = t - m.clocks * Interval
          /\ m.clocks * Interval <= t /\ m.clocks * Interval \in Nat
      BY <1>1, <2>1, <2>4, <2>6 DEF t
    <3>2. (to - first) \div Interval = t \div Interval - m.clocks
      <4>. HIDE DEF first, ticks
      <4>1. (t - m.clocks * Interval) \div Interval = t \div Interval - m.clocks
        BY <1>1, <2>2, <3>1, QuotientAbove
      <4>. QED
        BY <3>1, <4>1
    <3>3. ticks = 1 + (t \div Interval - m.clocks) /\ t \div Interval \in Nat
      BY <1>1, <2>2, <2>6, <3>2, Quotient
    <3>4. s.clocks = 1 + t \div Interval
      BY <1>1, <1>2, <3>3
    <3>5. ticks \in Int /\ s.clocks = m.clocks + ticks
      BY <1>1, <1>2, <3>3
    <3>6. s.nextSync = (m.origin + m.clocks * Interval) + ticks * Interval
      BY <1>2, <2>1, <2>4
    <3>. HIDE DEF ticks
    <3>7. s.nextSync = m.origin + (m.clocks + ticks) * Interval
      BY <1>1, <3>5, <3>6
    <3>. QED
      BY <1>1, <2>1, <2>2, <3>4, <3>5, <3>7 DEF t
  <2>. QED
    BY <2>5, <2>6
<1>. QED
  BY <1>3, <1>4

\* update(): the messages up to the position are sent.
LEMMA SentKeeps ==
    ASSUME World, NEW m, Good(m), m.loaded, m.playing,
           NEW to \in Nat,
           to = IF m.file.duration > 0 THEN Smaller(Position(m), m.file.duration) ELSE Position(m)
    PROVE  LET s == Synced(Dispatched([m EXCEPT !.playhead = to], to), m.playhead, to) IN
           /\ Good(s) /\ s.loaded /\ s.playing /\ s.playhead = to /\ s.file = m.file
           /\ Position(s) = Position(m)
<1>. DEFINE moved == [m EXCEPT !.playhead = to]
            c == AdvancedUntil(moved, to)
            notes == Sounding(moved, m.cursor, c)
            new == [k \in 1 .. c - m.cursor |-> m.cursor + k]
            d == [moved EXCEPT !.cursor = c, !.notes = notes, !.reached = to,
                               !.heard = moved.heard \o new]
            first == Larger(d.nextSync, m.playhead)
            ticks == IF to < first THEN 0 ELSE 1 + (to - first) \div Interval
            s == Synced(d, m.playhead, to)
<1>1. /\ m \in MidiType /\ now \in Nat /\ m.file \in Files \cup {NoFile}
      /\ m.playhead \in Nat /\ m.cursor \in Nat /\ m.heard \in Seq(Nat) /\ Len(m.heard) \in Nat
      /\ m.origin \in Nat /\ m.reached \in Nat \cup {NotYet}
      /\ m.cursor <= Len(m.file.messages) /\ Len(m.file.messages) \in Nat
      /\ m.file.duration \in Nat
  BY Fields DEF Good, Typed, World, Heard
<1>2. /\ moved \in MidiType /\ moved.file = m.file /\ moved.loaded /\ moved.playing
      /\ moved.playhead = to /\ moved.cursor = m.cursor /\ moved.heard = m.heard
      /\ moved.startWall = m.startWall /\ moved.startPos = m.startPos /\ moved.tempo = m.tempo
      /\ moved.origin = m.origin /\ moved.elapsed = m.elapsed /\ moved.running = m.running
      /\ moved.clocks = m.clocks /\ moved.nextSync = m.nextSync
  BY <1>1 DEF MidiType
<1>3. d = Dispatched(moved, to)
  BY <1>2 DEF Dispatched
<1>. HIDE DEF moved
<1>4. /\ c \in m.cursor .. Len(m.file.messages) /\ c \in Nat
      /\ \A i \in 1 .. Len(m.file.messages) :
            i > m.cursor => (i <= c <=> m.file.messages[i].time <= to)
  <2>1. moved.file \in Files \cup {NoFile} /\ moved.cursor \in 0 .. Len(moved.file.messages)
    BY <1>1, <1>2
  <2>2. /\ c \in moved.cursor .. Len(moved.file.messages)
        /\ \A i \in 1 .. Len(moved.file.messages) :
              i > moved.cursor => (i <= c <=> moved.file.messages[i].time <= to)
    BY <2>1, CursorAdvances
  <2>. HIDE DEF c
  <2>3. /\ c \in m.cursor .. Len(m.file.messages)
        /\ \A i \in 1 .. Len(m.file.messages) :
              i > m.cursor => (i <= c <=> m.file.messages[i].time <= to)
    BY <1>2, <2>2
  <2>. QED
    BY <1>1, <2>3
<1>5. notes \in SUBSET Notes
  BY DEF Sounding
<1>. HIDE DEF c, notes
<1>6. /\ new \in Seq(Nat) /\ Len(new) = c - m.cursor
      /\ \A k \in 1 .. c - m.cursor : new[k] = m.cursor + k
  <2>1. c - m.cursor \in Nat /\ new \in [1 .. c - m.cursor -> Nat]
    BY <1>1, <1>4
  <2>. QED
    BY <2>1
<1>. HIDE DEF new
<1>7. /\ m.heard \o new \in Seq(Nat) /\ Len(m.heard \o new) = Len(m.heard) + (c - m.cursor)
      /\ \A k \in 1 .. Len(m.heard) + (c - m.cursor) :
            (m.heard \o new)[k] = IF k <= Len(m.heard) THEN m.heard[k] ELSE new[k - Len(m.heard)]
  <2>. DEFINE old == m.heard
  <2>1. old \in Seq(Nat)
    BY <1>1
  <2>. HIDE DEF old
  <2>2. /\ old \o new \in Seq(Nat) /\ Len(old \o new) = Len(old) + Len(new)
        /\ \A k \in 1 .. Len(old) + Len(new) :
              (old \o new)[k] = IF k <= Len(old) THEN old[k] ELSE new[k - Len(old)]
    BY <1>6, <2>1, ConcatProperties
  <2>. QED
    BY <1>6, <2>2 DEF old
<1>8. /\ d \in MidiType /\ d.file = m.file /\ d.loaded /\ d.playing /\ d.playhead = to
      /\ d.startWall = m.startWall /\ d.startPos = m.startPos /\ d.tempo = m.tempo
      /\ d.cursor = c /\ d.origin = m.origin /\ d.reached = to
      /\ d.elapsed = m.elapsed /\ d.heard = m.heard \o new /\ d.running = m.running
      /\ d.clocks = m.clocks /\ d.nextSync = m.nextSync
  BY <1>2, <1>4, <1>5, <1>7 DEF MidiType
<1>. HIDE DEF d
<1>9. /\ s \in MidiType /\ s.file = m.file /\ s.loaded /\ s.playing /\ s.playhead = to
      /\ s.startWall = m.startWall /\ s.startPos = m.startPos /\ s.tempo = m.tempo
      /\ s.cursor = c /\ s.origin = m.origin /\ s.reached = to
      /\ s.elapsed = m.elapsed /\ s.heard = m.heard \o new /\ s.running = m.running
  <2>1. s = IF to < m.playhead THEN d
            ELSE [d EXCEPT !.clocks = d.clocks + ticks, !.nextSync = first + ticks * Interval]
    BY DEF Synced
  <2>2. first \in Nat /\ d.clocks \in Nat
    BY <1>1, <1>8, Fields DEF Larger
  <2>. HIDE DEF first
  <2>3. ticks \in Nat
    BY <2>2, TimeAssumption
  <2>. HIDE DEF ticks
  <2>4. d.clocks + ticks \in Nat /\ first + ticks * Interval \in Nat
    BY <2>2, <2>3, TimeAssumption
  <2>. HIDE DEF s
  <2>. QED
    BY <1>8, <2>1, <2>4 DEF MidiType
<1>16. m.playhead <= to => Ticked(m, s, to)
  <2>1. ASSUME ~(to < m.playhead)
        PROVE  s = [d EXCEPT !.clocks = d.clocks + ticks, !.nextSync = first + ticks * Interval]
    BY <2>1 DEF Synced
  <2>2. ASSUME ~(to < m.playhead)
        PROVE  s.clocks = d.clocks + ticks /\ s.nextSync = first + ticks * Interval
    <3>. HIDE DEF s, ticks, first
    <3>. QED
      BY <2>1, <2>2, <1>8 DEF MidiType
  <2>3. m.playhead <= to => ~(to < m.playhead)
    BY <1>1
  <2>. HIDE DEF s
  <2>. QED
    BY <1>8, <2>2, <2>3 DEF Ticked
<1>. HIDE DEF s
<1>10. Typed(s) /\ Silent(s)
  <2>1. Typed(s)
    BY <1>9 DEF Good, Typed
  <2>2. m.playing = TRUE /\ s.playing = TRUE
    BY <1>1, <1>9, Fields
  <2>3. Silent(s)
    BY <1>9, <2>2 DEF Good, Silent
  <2>. QED
    BY <2>1, <2>3
<1>11. Position(s) = Position(m)
  BY <1>9 DEF Position
<1>12. InTime(s)
  <2>1. Position(m) \in Nat
    BY <1>1, PositionNatural DEF Good, Typed
  <2>. QED
    BY <1>1, <1>9, <1>11, <2>1 DEF Good, InTime, Smaller, NotYet
<1>13. Elapsed(s)
  BY <1>9 DEF Good, Elapsed, Position
<1>14. Heard(s)
  <2>. DEFINE N == Len(m.file.messages)
              t(i) == m.file.messages[i].time
  <2>1. /\ \A i \in 1 .. N : t(i) \in Nat /\ t(i) <= m.file.duration
        /\ \A i, j \in 1 .. N : i < j => t(i) <= t(j)
    BY <1>1, FileFields
  <2>2. ASSUME NEW i \in 1 .. N, i <= m.cursor PROVE t(i) <= to
    <3>1. CASE m.file.duration = 0
      BY <3>1, <2>1
    <3>2. CASE m.file.duration > 0
      <4>1. m.origin <= to /\ m.reached <= to
        <5>1. Position(m) \in Nat
          BY <1>1, PositionNatural DEF Good, Typed
        <5>. QED
          BY <1>1, <3>2, <5>1 DEF Good, InTime, Smaller
      <4>2. CASE m.reached = NotYet
        <5>1. i <= m.cursor - Len(m.heard)
          BY <2>2, <4>2, <1>1 DEF Good, Heard
        <5>2. t(i) < m.origin
          BY <5>1 DEF Good, Heard
        <5>. QED
          BY <5>2, <4>1, <2>1, <1>1
      <4>3. CASE m.reached # NotYet
        <5>1. t(i) <= m.reached
          BY <2>2, <4>3 DEF Good, Heard
        <5>. QED
          BY <5>1, <4>1, <4>3, <2>1, <1>1
      <4>. QED
        BY <4>2, <4>3
    <3>. QED
      BY <3>1, <3>2, <1>1
  <2>3. \A i \in 1 .. N : i <= c <=> t(i) <= to
    BY <1>1, <1>4, <2>1, <2>2
  <2>4. Len(s.heard) = Len(m.heard) + (c - m.cursor)
        /\ s.cursor - Len(s.heard) = m.cursor - Len(m.heard)
    <3>1. Len(s.heard) = Len(m.heard) + (c - m.cursor) /\ s.cursor = c
      BY <1>7, <1>9
    <3>. QED
      BY <3>1, <1>1, <1>4
  <2>5. ASSUME NEW k \in 1 .. Len(s.heard)
        PROVE  s.heard[k] = (m.cursor - Len(m.heard)) + k
    <3>1. CASE k <= Len(m.heard)
      <4>1. k \in 1 .. Len(m.heard) /\ s.heard[k] = m.heard[k]
        BY <3>1, <2>4, <1>1, <1>4, <1>7, <1>9
      <4>. QED
        BY <4>1 DEF Good, Heard
    <3>2. CASE k > Len(m.heard)
      <4>1. k - Len(m.heard) \in 1 .. c - m.cursor
        BY <3>2, <2>4, <1>1, <1>4
      <4>2. s.heard[k] = new[k - Len(m.heard)]
        BY <3>2, <2>4, <1>1, <1>4, <1>7, <1>9
      <4>3. new[k - Len(m.heard)] = m.cursor + (k - Len(m.heard))
        BY <4>1, <1>6
      <4>. QED
        BY <4>1, <4>2, <4>3, <1>1
    <3>. QED
      BY <3>1, <3>2, <1>1
  <2>6. s.reached # NotYet
    BY <1>9 DEF NotYet
  <2>7. /\ m.cursor - Len(m.heard) \in Nat
        /\ \A i \in 1 .. N : i <= m.cursor - Len(m.heard) <=> t(i) < m.origin
    BY DEF Good, Heard
  <2>8. /\ s.cursor - Len(s.heard) \in Nat /\ s.cursor <= N
        /\ \A i \in 1 .. N : i <= s.cursor - Len(s.heard) <=> t(i) < s.origin
        /\ \A k \in 1 .. Len(s.heard) : s.heard[k] = (s.cursor - Len(s.heard)) + k
    <3>. HIDE DEF N, t
    <3>1. s.cursor <= N
      BY <1>1, <1>4, <1>9 DEF N
    <3>. QED
      BY <3>1, <1>9, <2>4, <2>5, <2>7
  <2>9. \A i \in 1 .. N : i <= s.cursor <=> t(i) <= s.reached
    BY <1>9, <2>3
  <2>. QED
    BY <1>9, <2>6, <2>8, <2>9 DEF Heard
<1>15. Clocked(s)
  <2>1. Position(m) \in Nat
    BY <1>1, PositionNatural DEF Good, Typed
  <2>2. Steady => m.playhead <= to /\ m.origin <= to /\ to <= Position(m)
    BY <1>1, <2>1 DEF Good, Clocked, InTime, Smaller, NotYet
  <2>. QED
    BY <1>1, <1>9, <1>11, <1>16, <2>1, <2>2, TicksKept DEF Good, Clocked, NotYet
<1>. QED
  BY <1>3, <1>9, <1>10, <1>12, <1>13, <1>14, <1>15, <1>11 DEF Good, s, moved

\* At the end a loop begins a pass at the start ...
LEMMA LoopedKeeps ==
    ASSUME World, NEW m, Good(m), m.loaded, m.playing
    PROVE  Good(Looped(m))
<1>. DEFINE rewound == [m EXCEPT !.playhead = 0, !.startPos = 0, !.startWall = now,
                                 !.nextSync = 0, !.cursor = 0]
            pass == PassFrom(rewound, 0)
            s == TransportStart(pass)
<1>1. s = Looped(m)
  BY DEF Looped
<1>2. m \in MidiType /\ now \in Nat /\ m.file \in Files \cup {NoFile}
  BY Fields DEF Good, Typed, World
<1>3. /\ rewound \in MidiType /\ rewound.file = m.file /\ rewound.loaded /\ rewound.playing
      /\ rewound.playhead = 0 /\ rewound.startPos = 0 /\ rewound.startWall = now
      /\ rewound.cursor = 0 /\ rewound.nextSync = 0
  BY <1>2 DEF MidiType
<1>. HIDE DEF rewound
<1>4. /\ pass \in MidiType /\ pass.file = m.file /\ pass.loaded /\ pass.playing
      /\ pass.playhead = 0 /\ pass.startPos = 0 /\ pass.startWall = now /\ pass.cursor = 0
      /\ pass.origin = 0 /\ pass.reached = NotYet /\ pass.elapsed = 0 /\ pass.heard = << >>
      /\ pass.clocks = 0 /\ pass.nextSync = 0
  BY <1>3, PassFromFields
<1>. HIDE DEF pass
<1>5. /\ s \in MidiType /\ s.file = m.file /\ s.loaded /\ s.playing /\ s.running
      /\ s.playhead = 0 /\ s.startPos = 0 /\ s.startWall = now /\ s.cursor = 0
      /\ s.origin = 0 /\ s.reached = NotYet /\ s.elapsed = 0 /\ s.heard = << >>
      /\ s.clocks = 0 /\ s.nextSync = 0
  BY <1>4, DeviceFields
<1>. HIDE DEF s
<1>6. Begins(s, 0) /\ Anew(s)
  BY <1>2, <1>5, FileFields DEF Begins, Anew
<1>7. Typed(s)
  BY <1>2, <1>5 DEF Typed, Good
<1>8. Silent(s)
  BY <1>5, Fields DEF Silent
<1>. QED
  BY <1>1, <1>5, <1>6, <1>7, <1>8, PassBegins DEF Good

\* ... and without one the session rests at the end.
LEMMA FinishedKeeps ==
    ASSUME World, NEW m, Good(m), m.loaded, m.playing, m.file.duration > 0,
           m.playhead = m.file.duration, Position(m) >= m.file.duration
    PROVE  Good(Finished(m))
<1>. DEFINE ended == [m EXCEPT !.playing = FALSE, !.finished = TRUE]
            stopped == TransportStop(ended)
            s == AllNotesOff(stopped)
<1>1. s = Finished(m)
  BY DEF Finished
<1>2. /\ m \in MidiType /\ now \in Nat /\ m.startWall <= now
      /\ m.file.duration \in Nat /\ m.origin \in Nat /\ m.elapsed \in Nat
  BY Fields DEF Good, Typed, World
<1>3. /\ ended \in MidiType /\ ended.file = m.file /\ ended.loaded /\ ~ended.playing
      /\ ended.playhead = m.playhead /\ ended.cursor = m.cursor /\ ended.origin = m.origin
      /\ ended.reached = m.reached /\ ended.elapsed = m.elapsed /\ ended.heard = m.heard
      /\ ended.clocks = m.clocks /\ ended.nextSync = m.nextSync /\ ended.finished
  BY <1>2 DEF MidiType
<1>. HIDE DEF ended
<1>4. /\ stopped \in MidiType /\ stopped.file = m.file /\ stopped.loaded /\ ~stopped.playing
      /\ stopped.playhead = m.playhead /\ stopped.cursor = m.cursor
      /\ stopped.origin = m.origin /\ stopped.reached = m.reached
      /\ stopped.elapsed = m.elapsed /\ stopped.heard = m.heard /\ ~stopped.running
      /\ stopped.clocks = m.clocks /\ stopped.nextSync = m.nextSync /\ stopped.finished
  BY <1>3, DeviceFields
<1>. HIDE DEF stopped
<1>5. /\ s \in MidiType /\ s.file = m.file /\ s.loaded /\ ~s.playing
      /\ s.playhead = m.playhead /\ s.cursor = m.cursor
      /\ s.origin = m.origin /\ s.reached = m.reached
      /\ s.elapsed = m.elapsed /\ s.heard = m.heard /\ ~s.running /\ s.notes = {}
      /\ s.clocks = m.clocks /\ s.nextSync = m.nextSync /\ s.finished
  BY <1>4, DeviceFields
<1>. HIDE DEF s
<1>6. Typed(s)
  BY <1>2, <1>5 DEF Typed, Good
<1>7. Silent(s)
  BY <1>5, Fields DEF Silent
<1>8. Heard(s) /\ InTime(s)
  BY <1>5 DEF Good, Heard, InTime
<1>9. Elapsed(s)
  <2>1. Position(m) \in Nat
    BY <1>2, PositionNatural
  <2>. QED
    BY <1>2, <1>5, <2>1 DEF Good, Elapsed, Smaller
<1>10. Clocked(s)
  BY <1>2, <1>5 DEF Good, Clocked
<1>. QED
  BY <1>1, <1>6, <1>7, <1>8, <1>9, <1>10 DEF Good

LEMMA UpdatedKeeps ==
    ASSUME World, NEW m, Good(m)
    PROVE  Good(Updated(m))
<1>1. CASE ~m.loaded \/ ~m.playing
  BY <1>1 DEF Updated
<1>2. CASE m.loaded /\ m.playing
  <2>. DEFINE ended == m.file.duration > 0 /\ Position(m) >= m.file.duration
              to == IF ended THEN m.file.duration ELSE Position(m)
              sent == Synced(Dispatched([m EXCEPT !.playhead = to], to), m.playhead, to)
  <2>1. Updated(m) = IF ~ended THEN sent ELSE IF m.loop THEN Looped(sent) ELSE Finished(sent)
    BY <1>2 DEF Updated
  <2>2. Position(m) \in Nat /\ m.file.duration \in Nat
    BY <1>2, PositionNatural, Fields DEF Good, Typed
  <2>3. /\ to \in Nat
        /\ to = IF m.file.duration > 0 THEN Smaller(Position(m), m.file.duration)
                ELSE Position(m)
    BY <2>2 DEF Smaller
  <2>4. /\ Good(sent) /\ sent.loaded /\ sent.playing /\ sent.playhead = to
        /\ sent.file = m.file /\ Position(sent) = Position(m)
    <3>. HIDE DEF to
    <3>. QED
      BY <1>2, <2>3, SentKeeps
  <2>. HIDE DEF sent
  <2>5. CASE ~ended
    BY <2>1, <2>4, <2>5
  <2>6. CASE ended /\ m.loop
    BY <2>1, <2>4, <2>6, LoopedKeeps
  <2>7. CASE ended /\ ~m.loop
    <3>1. Good(Finished(sent))
      BY <2>4, <2>7, FinishedKeeps
    <3>. QED
      BY <2>1, <2>7, <3>1
  <2>. QED
    BY <2>5, <2>6, <2>7
<1>. QED
  BY <1>1, <1>2

\* The session follows the watch time.
LEMMA FollowsKeeps ==
    ASSUME World, ~Steady, NEW m, Good(m), watch.time \in Nat
    PROVE  Good(Follows(m))
<1>. DEFINE discontinuity == watch.last = NotYet \/ Apart(watch.time, watch.last) > Jump
            drifted == Apart(m.playhead, watch.time) > Drift
            sought == Sought(m, watch.time, now)
            there == IF watch.seeking \/ discontinuity \/ drifted THEN sought ELSE m
<1>1. Follows(m) = IF watch.paused THEN Paused(there)
                   ELSE IF there.playing THEN there ELSE Played(there)
  BY DEF Follows
<1>2. Good(sought)
  BY SoughtKeeps DEF World
<1>3. Good(there)
  <2>. HIDE DEF sought
  <2>. QED
    BY <1>2
<1>. HIDE DEF there
<1>4. Good(Paused(there))
  BY <1>3, PausedKeeps
<1>5. CASE there.playing
  BY <1>1, <1>3, <1>4, <1>5
<1>6. CASE ~there.playing
  BY <1>1, <1>3, <1>4, <1>6, PlayedKeeps
<1>. QED
  BY <1>5, <1>6

-----------------------------------------------------------------------------
(* The specification *)

IInv == TypeOK /\ Good(midi) /\ (Steady => ~watch.sync)

\* What is good stays good where neither the time nor the plan has changed.
LEMMA SameWorld ==
    ASSUME UNCHANGED << now, plan >>, NEW m, Good(m), midi' = m
    PROVE  Good(midi)'
BY DEF Good, Typed, Silent, Heard, InTime, Elapsed, Clocked, Steady, Position, MidiType

LEMMA InitGood == Init => IInv
<1>. SUFFICES ASSUME Init PROVE IInv
  OBVIOUS
<1>1. /\ midi.playing = FALSE /\ midi.running = FALSE /\ midi.loaded = FALSE
      /\ midi.notes = {} /\ midi.file = NoFile /\ midi.cursor = 0 /\ midi.heard = << >>
      /\ midi.origin = 0 /\ midi.reached = NotYet /\ midi.playhead = 0 /\ midi.elapsed = 0
      /\ midi.clocks = 0 /\ midi.nextSync = 0 /\ watch.sync = FALSE
  BY DEF Init
<1>2. midi \in MidiType
  <2>1. << >> \in Seq(Nat) /\ NotYet \in Nat \cup {NotYet} /\ 1 \in Tempos
    BY TempoAssumption
  <2>. QED
    BY <2>1 DEF Init, MidiType
<1>3. TypeOK
  BY <1>2 DEF Init, TypeOK, WatchType
<1>4. World
  BY <1>3 DEF World, TypeOK
<1>5. Begins(midi, 0) /\ Anew(midi)
  BY <1>1 DEF Begins, Anew, NoFile
<1>6. Typed(midi) /\ Silent(midi)
  BY <1>1, <1>2 DEF Typed, Silent
<1>. QED
  BY <1>1, <1>2, <1>3, <1>4, <1>5, <1>6, PassBegins DEF IInv, Good

\* As time passes, so does what is played.
LEMMA TimePassesKeeps == IInv /\ TimePasses => Good(midi)'
<1>. SUFFICES ASSUME IInv, TimePasses PROVE Good(midi)'
  OBVIOUS
<1>. DEFINE s == midi'
<1>1. /\ World /\ midi \in MidiType /\ now' = now + 1 /\ plan' = plan /\ now \in Nat
      /\ midi.elapsed \in Nat /\ midi.tempo \in Nat /\ midi.playing \in BOOLEAN
      /\ midi.origin \in Nat /\ midi.reached \in Nat \cup {NotYet} /\ midi.file.duration \in Nat
      /\ midi.startWall \in Nat /\ midi.startPos \in Nat
  BY Fields DEF IInv, Good, Typed, TypeOK, World, TimePasses
<1>2. /\ s \in MidiType /\ s.file = midi.file /\ s.loaded = midi.loaded
      /\ s.playing = midi.playing /\ s.playhead = midi.playhead /\ s.cursor = midi.cursor
      /\ s.startWall = midi.startWall /\ s.startPos = midi.startPos /\ s.tempo = midi.tempo
      /\ s.origin = midi.origin /\ s.reached = midi.reached /\ s.heard = midi.heard
      /\ s.notes = midi.notes /\ s.running = midi.running /\ s.finished = midi.finished
      /\ s.clocks = midi.clocks /\ s.nextSync = midi.nextSync
      /\ s.elapsed = midi.elapsed + (IF midi.playing THEN midi.tempo ELSE 0)
  <2>. DEFINE elapsed == midi.elapsed + (IF midi.playing THEN midi.tempo ELSE 0)
  <2>1. elapsed \in Nat
    BY <1>1
  <2>2. midi' = [midi EXCEPT !.elapsed = elapsed]
    BY DEF TimePasses
  <2>. HIDE DEF elapsed
  <2>3. /\ s \in MidiType /\ s.file = midi.file /\ s.loaded = midi.loaded
        /\ s.playing = midi.playing /\ s.playhead = midi.playhead /\ s.cursor = midi.cursor
        /\ s.startWall = midi.startWall /\ s.startPos = midi.startPos /\ s.tempo = midi.tempo
        /\ s.origin = midi.origin /\ s.reached = midi.reached /\ s.heard = midi.heard
        /\ s.notes = midi.notes /\ s.running = midi.running /\ s.elapsed = elapsed
        /\ s.finished = midi.finished
        /\ s.clocks = midi.clocks /\ s.nextSync = midi.nextSync
    BY <1>1, <2>1, <2>2 DEF MidiType
  <2>. QED
    BY <2>3 DEF elapsed
<1>3. midi.playing =>
        /\ Position(midi) \in Nat
        /\ Position(midi)' = Position(midi) + midi.tempo
  <2>. SUFFICES ASSUME midi.playing
                PROVE  /\ Position(midi) \in Nat
                       /\ Position(midi)' = Position(midi) + midi.tempo
    OBVIOUS
  <2>1. midi.startWall <= now /\ Position(midi) \in Nat
    BY <1>1, PositionNatural DEF IInv, Good, Typed
  <2>2. Position(midi)' = midi.startPos + ((now + 1) - midi.startWall) * midi.tempo
    BY <1>1, <1>2 DEF Position
  <2>3. ((now + 1) - midi.startWall) * midi.tempo
          = (now - midi.startWall) * midi.tempo + midi.tempo
    BY <1>1
  <2>. QED
    BY <1>1, <2>1, <2>2, <2>3 DEF Position
<1>4. Typed(midi)'
  BY <1>1, <1>2 DEF IInv, Good, Typed, MidiType
<1>5. Silent(midi)'
  BY <1>1, <1>2 DEF IInv, Good, Silent
<1>6. Heard(midi)'
  BY <1>2 DEF IInv, Good, Heard, NotYet
<1>7. InTime(midi)'
  BY <1>1, <1>2, <1>3 DEF IInv, Good, InTime, NotYet
<1>8. Elapsed(midi)'
  <2>. SUFFICES ASSUME "replay" \notin plan.kinds, midi.file.duration > 0
                PROVE  Smaller(IF midi'.playing THEN Position(midi)' ELSE midi'.playhead,
                               midi.file.duration)
                         = Smaller(midi.origin + midi'.elapsed, midi.file.duration)
    BY <1>1, <1>2 DEF Elapsed, Smaller
  <2>1. CASE midi.playing
    <3>1. Smaller(Position(midi), midi.file.duration)
            = Smaller(midi.origin + midi.elapsed, midi.file.duration)
      BY <2>1 DEF IInv, Good, Elapsed
    <3>. QED
      BY <1>1, <1>2, <1>3, <2>1, <3>1 DEF Smaller
  <2>2. CASE ~midi.playing
    BY <1>1, <1>2, <2>2 DEF IInv, Good, Elapsed
  <2>. QED
    BY <2>1, <2>2
<1>9. Clocked(midi)'
  <2>1. midi.playhead \in Nat
    BY <1>1, Fields
  <2>. QED
    BY <1>1, <1>2, <1>3, <2>1 DEF IInv, Good, Clocked, Steady, NotYet
<1>. QED
  BY <1>4, <1>5, <1>6, <1>7, <1>8, <1>9 DEF Good

LEMMA NextGood == IInv /\ [Next]_vars => Good(midi)'
<1>. SUFFICES ASSUME IInv, [Next]_vars PROVE Good(midi)'
  OBVIOUS
<1>1. /\ World /\ Good(midi) /\ midi \in MidiType /\ now \in Nat
      /\ watch.time \in Nat
  BY DEF IInv, TypeOK, World, WatchType
<1>2. CASE LoadMidiFile
  <2>1. PICK f \in plan.files : midi' = Loaded(midi, f, TRUE)
    BY <1>2 DEF LoadMidiFile
  <2>2. Good(Loaded(midi, f, TRUE))
    BY <1>1, LoadedKeeps
  <2>. QED
    BY <1>2, <2>1, <2>2, SameWorld DEF LoadMidiFile, Calls
<1>3. CASE ClearMidiTransport
  <2>1. Good(Loaded(midi, NoFile, FALSE))
    BY <1>1, LoadedKeeps
  <2>. QED
    BY <1>3, <2>1, SameWorld DEF ClearMidiTransport, Calls
<1>4. CASE PlayMidi
  <2>1. Good(Played(midi))
    BY <1>1, <1>4, PlayedKeeps DEF PlayMidi, Calls
  <2>. QED
    BY <1>4, <2>1, SameWorld DEF PlayMidi, Calls
<1>5. CASE PauseMidi
  BY <1>1, <1>5, PausedKeeps, SameWorld DEF PauseMidi, Calls, Steady
<1>6. CASE StopMidi
  BY <1>1, <1>6, StoppedKeeps, SameWorld DEF StopMidi, Calls
<1>7. CASE SeekMidi
  <2>1. PICK s \in 0 .. midi.file.duration : midi' = Sought(midi, s, now)
    BY <1>7 DEF SeekMidi
  <2>2. s \in Nat
    BY <1>1, Fields
  <2>3. Good(Sought(midi, s, now))
    BY <1>1, <2>2, SoughtKeeps
  <2>. QED
    BY <1>7, <2>1, <2>3, SameWorld DEF SeekMidi, Calls
<1>8. CASE SetMidiTempoMultiplier
  <2>1. PICK t \in Tempos : midi' = WithTempo(midi, t)
    BY <1>8 DEF SetMidiTempoMultiplier
  <2>2. Good(WithTempo(midi, t))
    BY <1>1, <1>8, TempoKeeps DEF SetMidiTempoMultiplier, Calls, Steady
  <2>. QED
    BY <1>8, <2>1, <2>2, SameWorld DEF SetMidiTempoMultiplier, Calls
<1>9. CASE SetMidiLoopEnabled
  <2>. DEFINE s == [midi EXCEPT !.loop = ~midi.loop]
  <2>1. /\ s \in MidiType /\ s.file = midi.file /\ s.loaded = midi.loaded
        /\ s.playing = midi.playing /\ s.playhead = midi.playhead /\ s.cursor = midi.cursor
        /\ s.startWall = midi.startWall /\ s.startPos = midi.startPos /\ s.tempo = midi.tempo
        /\ s.origin = midi.origin /\ s.reached = midi.reached /\ s.heard = midi.heard
        /\ s.notes = midi.notes /\ s.running = midi.running /\ s.elapsed = midi.elapsed
        /\ s.clocks = midi.clocks /\ s.nextSync = midi.nextSync /\ s.finished = midi.finished
    BY <1>1 DEF MidiType
  <2>2. midi' = s /\ UNCHANGED << now, plan >>
    BY <1>9 DEF SetMidiLoopEnabled, Calls
  <2>. HIDE DEF s
  <2>3. Good(s)
    <3>1. Typed(s) /\ Silent(s)
      BY <1>1, <2>1 DEF Good, Typed, Silent
    <3>2. Heard(s) /\ InTime(s) /\ Elapsed(s)
      BY <1>1, <2>1 DEF Good, Heard, InTime, Elapsed, Position
    <3>3. Clocked(s)
      BY <1>1, <2>1 DEF Good, Clocked, Position
    <3>. QED
      BY <3>1, <3>2, <3>3 DEF Good
  <2>. QED
    BY <2>2, <2>3, SameWorld
<1>10. CASE UpdateMidiTransport
  <2>. DEFINE synced == midi.loaded /\ watch.sync /\ watch.available
              there == IF synced THEN Follows(midi) ELSE midi
  <2>1. midi' = Updated(there) /\ UNCHANGED << now, plan >>
    BY <1>10 DEF UpdateMidiTransport
  <2>2. synced => Good(Follows(midi))
    BY <1>1, FollowsKeeps DEF IInv
  <2>3. Good(there)
    BY <1>1, <2>2
  <2>. HIDE DEF there
  <2>4. Good(Updated(there))
    BY <1>1, <2>3, UpdatedKeeps
  <2>. QED
    BY <2>1, <2>4, SameWorld
<1>11. CASE TimePasses
  BY <1>11, TimePassesKeeps
<1>12. CASE UNCHANGED midi /\ UNCHANGED << now, plan >>
  BY <1>1, <1>12, SameWorld
<1>13. SetMidiSyncToWatchTimeEnabled \/ VideoMoves \/ UNCHANGED vars =>
          UNCHANGED midi /\ UNCHANGED << now, plan >>
  BY DEF SetMidiSyncToWatchTimeEnabled, VideoMoves, Calls, vars
<1>. QED
  BY <1>2, <1>3, <1>4, <1>5, <1>6, <1>7, <1>8, <1>9, <1>10, <1>11, <1>12, <1>13 DEF Next

LEMMA NextTyped == IInv /\ [Next]_vars /\ Good(midi)' => TypeOK'
<1>. SUFFICES ASSUME IInv, [Next]_vars, Good(midi)' PROVE TypeOK'
  OBVIOUS
<1>1. midi' \in MidiType'
  BY DEF Good, Typed
<1>2. now' \in Nat /\ frame' \in Nat \cup {NotYet} /\ plan' \in Plans /\ calls' \in Nat
  <2>1. now \in Nat /\ frame \in Nat \cup {NotYet} /\ plan \in Plans /\ calls \in Nat
    BY DEF IInv, TypeOK
  <2>2. \/ now' = now + 1 /\ UNCHANGED << frame, plan, calls >>
        \/ frame' = now /\ UNCHANGED << now, plan, calls >>
        \/ calls' = calls + 1 /\ UNCHANGED << now, frame, plan >>
        \/ UNCHANGED << now, frame, plan, calls >>
    BY DEF Next, LoadMidiFile, ClearMidiTransport, PlayMidi, PauseMidi, StopMidi,
           SeekMidi, SetMidiTempoMultiplier, SetMidiLoopEnabled, SetMidiSyncToWatchTimeEnabled,
           UpdateMidiTransport, TimePasses, VideoMoves, Calls, vars
  <2>. QED
    BY <2>1, <2>2
<1>3. watch' \in WatchType
  <2>1. watch \in WatchType /\ NotYet \in Nat \cup {NotYet} /\ watch.time \in Nat
        /\ watch.last \in Nat \cup {NotYet} /\ watch.sync \in BOOLEAN
    BY DEF IInv, TypeOK, WatchType
  <2>2. [watch EXCEPT !.last = NotYet] \in WatchType
    BY <2>1 DEF WatchType
  <2>3. [watch EXCEPT !.last = watch.time] \in WatchType
    BY <2>1 DEF WatchType
  <2>4. [watch EXCEPT !.sync = ~watch.sync,
                      !.last = IF watch.sync THEN NotYet ELSE watch.last] \in WatchType
    BY <2>1 DEF WatchType
  <2>5. CASE VideoMoves
    <3>1. plan.until \in Nat
      BY PlansAssumption DEF IInv, TypeOK
    <3>2. PICK paused \in BOOLEAN, seeking \in BOOLEAN, time \in 0 .. plan.until :
            watch' = [watch EXCEPT !.available = TRUE, !.paused = paused, !.seeking = seeking,
                                   !.time = time]
      BY <2>5 DEF VideoMoves
    <3>3. time \in Nat
      BY <3>1
    <3>. QED
      BY <2>1, <3>2, <3>3 DEF WatchType
  <2>6. CASE ~VideoMoves
    <3>1. watch' \in {watch, [watch EXCEPT !.last = NotYet], [watch EXCEPT !.last = watch.time],
                      [watch EXCEPT !.sync = ~watch.sync,
                                    !.last = IF watch.sync THEN NotYet ELSE watch.last]}
      BY <2>6 DEF Next, LoadMidiFile, ClearMidiTransport, PlayMidi, PauseMidi, StopMidi,
            SeekMidi, SetMidiTempoMultiplier, SetMidiLoopEnabled,
            SetMidiSyncToWatchTimeEnabled, UpdateMidiTransport, TimePasses, vars
    <3>. QED
      BY <3>1, <2>1, <2>2, <2>3, <2>4
  <2>. QED
    BY <2>5, <2>6
<1>. QED
  BY <1>1, <1>2, <1>3 DEF TypeOK, MidiType

\* Only a call of that kind sets syncToWatchTime.
LEMMA NextSteady == IInv /\ [Next]_vars => (Steady => ~watch.sync)'
<1>. SUFFICES ASSUME IInv, [Next]_vars, Steady PROVE ~watch'.sync /\ UNCHANGED plan
  BY DEF Next, LoadMidiFile, ClearMidiTransport, PlayMidi, PauseMidi, StopMidi, SeekMidi,
         SetMidiTempoMultiplier, SetMidiLoopEnabled, SetMidiSyncToWatchTimeEnabled,
         UpdateMidiTransport, TimePasses, VideoMoves, Calls, vars, Steady
<1>1. watch \in WatchType /\ ~watch.sync
  BY DEF IInv, TypeOK
<1>2. ~SetMidiSyncToWatchTimeEnabled /\ ~VideoMoves
  BY DEF SetMidiSyncToWatchTimeEnabled, VideoMoves, Calls, Steady
<1>3. UNCHANGED plan
  BY <1>2 DEF Next, LoadMidiFile, ClearMidiTransport, PlayMidi, PauseMidi, StopMidi, SeekMidi,
         SetMidiTempoMultiplier, SetMidiLoopEnabled,
         UpdateMidiTransport, TimePasses, Calls, vars
<1>4. watch' \in {watch, [watch EXCEPT !.last = NotYet], [watch EXCEPT !.last = watch.time]}
  BY <1>2 DEF Next, LoadMidiFile, ClearMidiTransport, PlayMidi, PauseMidi, StopMidi, SeekMidi,
         SetMidiTempoMultiplier, SetMidiLoopEnabled,
         UpdateMidiTransport, TimePasses, Calls, vars
<1>5. watch'.sync = watch.sync
  BY <1>1, <1>4 DEF WatchType
<1>. QED
  BY <1>1, <1>3, <1>5

LEMMA Inductive == Spec => []IInv
<1>1. IInv /\ [Next]_vars => IInv'
  BY NextGood, NextTyped, NextSteady DEF IInv
<1>. QED
  BY <1>1, InitGood, PTL DEF Spec

\* The state has its types.
THEOREM TypeInvariant == Spec => []TypeOK
<1>1. IInv => TypeOK
  BY DEF IInv
<1>. QED
  BY <1>1, Inductive, PTL

\* RestsSilently: the device runs when the session plays, and otherwise nothing sounds,
\* however pause(), stop(), seek(), load(), the end of the file and the video follow each
\* other.
THEOREM DeviceRestsSilently == Spec => []RestsSilently
<1>1. IInv => RestsSilently
  BY DEF IInv, Good, Silent, RestsSilently
<1>. QED
  BY <1>1, Inductive, PTL

\* PositionIsElapsed: the wall clock that update(), pause() and setTempoMultiplier() read
\* adds up to what has been played.
THEOREM PositionAddsUp == Spec => []PositionIsElapsed
<1>1. IInv => PositionIsElapsed
  BY DEF IInv, Good, Elapsed, PositionIsElapsed
<1>. QED
  BY <1>1, Inductive, PTL

\* EachMessageOncePerPass: the cursor loses no message and repeats none, for any file, any
\* calls and any time between two frames.
THEOREM MessagesOncePerPass == Spec => []EachMessageOncePerPass
<1>1. IInv => EachMessageOncePerPass
  <2>. SUFFICES ASSUME IInv PROVE EachMessageOncePerPass
    OBVIOUS
  <2>. DEFINE N == Len(midi.file.messages)
              t(i) == midi.file.messages[i].time
              before == midi.cursor - Len(midi.heard)
  <2>1. /\ midi \in MidiType /\ midi.heard \in Seq(Nat) /\ Len(midi.heard) \in Nat
        /\ midi.file \in Files \cup {NoFile} /\ midi.cursor \in Nat /\ midi.origin \in Nat
        /\ midi.reached \in Nat \cup {NotYet}
    BY Fields DEF IInv, Good, Typed
  <2>2. /\ DOMAIN midi.file.messages = 1 .. N /\ N \in Nat
        /\ \A i \in 1 .. N : t(i) \in Nat
    BY <2>1, FileFields
  <2>3. DOMAIN midi.heard = 1 .. Len(midi.heard)
    BY <2>1, LenProperties
  <2>4. /\ before \in Nat /\ midi.cursor <= N
        /\ \A k \in 1 .. Len(midi.heard) : midi.heard[k] = before + k
        /\ \A i \in 1 .. N : i <= before <=> t(i) < midi.origin
        /\ midi.reached # NotYet => \A i \in 1 .. N : i <= midi.cursor <=> t(i) <= midi.reached
        /\ midi.reached = NotYet => Len(midi.heard) = 0
    BY DEF IInv, Good, Heard
  <2>. HIDE DEF N, t
  <2>5. ASSUME NEW i \in 1 .. N
        PROVE  (\E k \in 1 .. Len(midi.heard) : midi.heard[k] = i) <=>
                  before < i /\ i <= midi.cursor
    <3>1. ASSUME before < i, i <= midi.cursor
          PROVE  \E k \in 1 .. Len(midi.heard) : midi.heard[k] = i
      <4>1. i - before \in 1 .. Len(midi.heard)
        BY <2>1, <2>4, <3>1
      <4>2. midi.heard[i - before] = before + (i - before)
        BY <2>4, <4>1
      <4>3. before + (i - before) = i
        BY <2>1
      <4>. QED
        BY <4>1, <4>2, <4>3
    <3>2. ASSUME NEW k \in 1 .. Len(midi.heard), midi.heard[k] = i
          PROVE  before < i /\ i <= midi.cursor
      BY <2>1, <2>4, <3>2
    <3>. QED
      BY <3>1, <3>2
  <2>6. ASSUME NEW i \in 1 .. N
        PROVE  before < i /\ i <= midi.cursor <=>
                  midi.origin <= t(i) /\ t(i) <= midi.reached
    <3>1. before < i <=> midi.origin <= t(i)
      BY <2>1, <2>2, <2>4
    <3>2. CASE midi.reached = NotYet
      BY <3>2, <2>1, <2>2, <2>4 DEF NotYet
    <3>3. CASE midi.reached # NotYet
      BY <3>1, <3>3, <2>4
    <3>. QED
      BY <3>2, <3>3
  <2>7. \A k \in 1 .. Len(midi.heard) - 1 : midi.heard[k + 1] = midi.heard[k] + 1
    <3>1. ASSUME NEW k \in 1 .. Len(midi.heard) - 1
          PROVE  midi.heard[k + 1] = midi.heard[k] + 1
      <4>1. k \in 1 .. Len(midi.heard) /\ k + 1 \in 1 .. Len(midi.heard)
        BY <2>1
      <4>2. midi.heard[k] = before + k /\ midi.heard[k + 1] = before + (k + 1)
        BY <2>4, <4>1
      <4>. QED
        BY <4>1, <4>2, <2>4
    <3>. QED
      BY <3>1
  <2>. QED
    BY <2>2, <2>3, <2>5, <2>6, <2>7 DEF EachMessageOncePerPass, t, N
<1>. QED
  BY <1>1, Inductive, PTL

\* ClockKeepsTime: emitSyncBetween() sends the ticks of a pass, none lost and none twice, for
\* any interval, files and times between two frames.
THEOREM ClockTicks == Spec => []ClockKeepsTime
<1>1. IInv => ClockKeepsTime
  BY DEF IInv, Good, Clocked, Steady, ClockKeepsTime
<1>. QED
  BY <1>1, Inductive, PTL
=============================================================================
