--------------------------- MODULE PlaylistLibrary ---------------------------
(***************************************************************************)
(* The playlist of MediaLibrary, its current index, the metadata cache and *)
(* the shuffle queue, with the transport that plays from it.               *)
(*                                                                         *)
(* All of it runs on the main thread.  What does not is the player: a stop *)
(* takes effect later, and until then the removed item is still the loaded *)
(* media and the next one to play is an index into a playlist that may be  *)
(* edited.  The transport is that of PlaybackTransport with each call, and *)
(* each Stopped event with the update() that follows it, as one step.      *)
(*                                                                         *)
(* An entry is one line of the playlist; two entries may have one path.    *)
(* Indices count from 0 as in the code.                                    *)
(***************************************************************************)
EXTENDS Integers, FiniteSets, SequencesExt

CONSTANTS
    Size,      \* number of entries that can be added
    PathOf,    \* the path of each entry, as a number
    Plans      \* a behaviour follows one: a subset of PlanType

Entries == 1 .. Size
NoMedia == 0
Direct == -1
NoIndex == -1

Kinds == {"add", "addFolder", "remove", "move", "moveGroup", "clear", "playIndex", "next",
          "previous", "direct", "stop", "metadata", "shuffle"}

PlanType ==
    [kinds : SUBSET Kinds,  \* the application's calls
     calls : Nat,           \* bound on their number
     mode : {"Default", "Repeat", "Loop"},
     calm : BOOLEAN]        \* the current item is not removed while it plays

ASSUME PlaylistAssumption ==
    /\ Size \in Nat
    /\ PathOf \in [Entries -> Nat \ {0}]
    /\ Plans # {} /\ Plans \subseteq PlanType

VARIABLES
    plan, calls,
    playlist,      \* MediaLibraryState::playlist
    currentIndex,  \* MediaLibraryState::currentIndex
    cache,         \* MediaLibraryState::metadataCache
    shuffle,       \* shuffleEnabled, shuffleQueueBuilt, shuffleQueue
    transport      \* what of the transport the playlist depends on

vars == << plan, calls, playlist, currentIndex, cache, shuffle, transport >>

\* Metadata are those of a media, and empty (0), sparse (1) or detailed (2).
NotCached == [of |-> NoMedia, level |-> 0]
Sources == Range(PathOf) \cup {NoMedia, Direct}
TransportType ==
    [loaded : Entries \cup {NoMedia, Direct},  \* sessionMedia
     active : BOOLEAN,     \* the player is neither stopped nor idle
     stopping : BOOLEAN,   \* pendingManualStopEvents > 0
     wanted : BOOLEAN,     \* playbackWanted
     pending : -1 .. Size - 1,  \* pendingActivateIndex
     direct : BOOLEAN,     \* hasPendingDirectMedia
     play : BOOLEAN]       \* pendingActivateShouldPlay

HasIndex(items, i) == i \in 0 .. Len(items) - 1
At(items, i) == items[i + 1]

TypeOK ==
    /\ plan \in Plans /\ calls \in Nat
    /\ playlist \in Seq(Entries)
    /\ currentIndex = NoIndex \/ HasIndex(playlist, currentIndex)
    /\ cache \in [Range(PathOf) -> [of : Sources, level : 0 .. 2]]
    /\ shuffle \in [on : BOOLEAN, built : BOOLEAN, queue : Seq(Nat)]
    /\ transport \in TransportType

NotBuilt(s) == [s EXCEPT !.built = FALSE, !.queue = << >>]
Nothing == [loaded |-> NoMedia, active |-> FALSE, stopping |-> FALSE, wanted |-> FALSE,
            pending |-> NoIndex, direct |-> FALSE, play |-> FALSE]
EmptyCache == [p \in Range(PathOf) |-> NotCached]

Init ==
    /\ plan \in Plans /\ calls = 0
    /\ playlist = << >> /\ currentIndex = NoIndex
    /\ cache = EmptyCache
    /\ shuffle = [on |-> FALSE, built |-> FALSE, queue |-> << >>]
    /\ transport = Nothing

Calls(kind) ==
    /\ kind \in plan.kinds /\ calls < plan.calls
    /\ calls' = calls + 1
    /\ UNCHANGED plan

-----------------------------------------------------------------------------
(* The transport *)

NoRequest(t) == [t EXCEPT !.pending = NoIndex, !.direct = FALSE, !.play = FALSE]

\* clearCurrentMedia(): a player that loses its media stops, and nothing follows it.
ClearedMedia(t) == [t EXCEPT !.loaded = NoMedia, !.active = FALSE, !.wanted = @ /\ ~t.active]

\* PlaybackController::stop()
Stopped(t) ==
    LET n == [NoRequest(t) EXCEPT !.wanted = FALSE] IN
    IF t.active THEN [n EXCEPT !.stopping = TRUE]
    ELSE [n EXCEPT !.loaded = NoMedia, !.stopping = FALSE]

\* activatePlaylistIndexImmediate(), the media loaded or not.
Activates(t, items, i, shouldPlay) ==
    \E loads \in BOOLEAN :
        /\ transport' = [t EXCEPT !.loaded = IF loads THEN At(items, i) ELSE NoMedia,
                                  !.active = loads /\ shouldPlay, !.wanted = shouldPlay]
        /\ currentIndex' = i
        /\ shuffle' = NotBuilt(shuffle)

\* activatePlaylistIndex(): at once on a stopped player, else queued until it stops.
Requests(t, items, current, i, shouldPlay, sh) ==
    IF HasIndex(items, i) /\ ~t.active
    THEN Activates(NoRequest([t EXCEPT !.stopping = FALSE]), items, i, shouldPlay)
    ELSE /\ transport' = IF HasIndex(items, i)
                         THEN [t EXCEPT !.pending = i, !.play = shouldPlay, !.stopping = TRUE]
                         ELSE t
         /\ currentIndex' = current /\ shuffle' = sh

\* activateDirectMediaImmediate()
OpensDirect(t, shouldPlay) ==
    \E loads \in BOOLEAN :
        /\ transport' = [t EXCEPT !.loaded = IF loads THEN Direct ELSE NoMedia,
                                  !.active = loads /\ shouldPlay, !.wanted = shouldPlay]
        /\ currentIndex' = NoIndex
        /\ UNCHANGED shuffle

-----------------------------------------------------------------------------
(* The metadata cache: getMetadataAtIndex(i) of `items`, whose current index is `current`, *)
(* when `known` is cached *)

Stored(known, path, of, level) == cache' = [known EXCEPT ![path] = [of |-> of, level |-> level]]

\* The loaded media answers for the current item; what is cached is kept if richer.
FromLoadedMedia(known, path, level) ==
    IF known[path].level > level THEN cache' = known
    ELSE Stored(known, path,
                IF transport.loaded = Direct THEN Direct ELSE PathOf[transport.loaded], level)

\* A media made from the path and parsed with a time limit answers for the others.
FromInspection(known, path) ==
    \/ cache' = known
    \/ /\ known[path].level < 2
       /\ \E level \in 1 .. 2 : level >= known[path].level /\ Stored(known, path, path, level)

\* A plausible bug: the loaded media answers for every item.
Fetches_AnyItem(known, items, current, i) ==
    IF ~HasIndex(items, i) THEN cache' = known
    ELSE LET path == PathOf[At(items, i)] IN
         \/ /\ transport.loaded # NoMedia
            /\ \E level \in 1 .. 2 : FromLoadedMedia(known, path, level)
         \/ FromInspection(known, path)

Fetches(known, items, current, i) ==
    IF ~HasIndex(items, i) THEN cache' = known
    ELSE LET path == PathOf[At(items, i)] IN
         \/ /\ i = current /\ transport.loaded # NoMedia
            /\ \E level \in 1 .. 2 : FromLoadedMedia(known, path, level)
         \/ FromInspection(known, path)

GetMetadata ==
    /\ Calls("metadata")
    /\ \E i \in -1 .. Len(playlist) : Fetches(cache, playlist, currentIndex, i)
    /\ UNCHANGED << playlist, currentIndex, shuffle, transport >>

-----------------------------------------------------------------------------
(* Adding and removing *)

Free == Entries \ (Range(playlist) \cup {transport.loaded})

\* addToPlaylistInternal() of each of `added` in turn.
Appends(added) ==
    /\ playlist' = playlist \o added
    /\ currentIndex' = IF currentIndex = NoIndex THEN 0 ELSE currentIndex

Forgotten(added) == [p \in Range(PathOf) |->
    IF \E k \in DOMAIN added : PathOf[added[k]] = p THEN NotCached ELSE cache[p]]

\* addToPlaylist() and a single file: the preload then asks for the index after the
\* last, so nothing is fetched.
AddToPlaylist ==
    /\ Calls("add")
    /\ \E e \in Free : Appends(<<e>>) /\ cache' = Forgotten(<<e>>)
    /\ UNCHANGED << shuffle, transport >>

\* What a folder may list, in the order of the listing: files that differ.
Listings ==
    {added \in UNION {[1 .. n -> Free] : n \in 1 .. Size} :
        \A j, k \in DOMAIN added : j # k => PathOf[added[j]] # PathOf[added[k]]}

\* addPathToPlaylist() of a folder: its files, then the metadata of the current item.
AddFolder ==
    /\ Calls("addFolder")
    /\ \E added \in Listings :
          /\ Appends(added)
          /\ Fetches(Forgotten(added), playlist', currentIndex', currentIndex')
    /\ UNCHANGED << shuffle, transport >>

ClearPlaylist ==
    /\ Calls("clear") /\ (plan.calm => ~transport.active)
    /\ playlist' = << >> /\ currentIndex' = NoIndex
    /\ cache' = EmptyCache
    /\ shuffle' = NotBuilt(shuffle)
    /\ LET t == Stopped(transport) IN
       transport' = IF t.stopping THEN t ELSE ClearedMedia(t)

\* The current index once the item at i is gone and `left` items remain.
IndexAfterRemoval(i, left) ==
    IF left = 0 THEN NoIndex
    ELSE IF i < currentIndex THEN currentIndex - 1
    ELSE IF currentIndex >= left THEN left - 1 ELSE currentIndex

\* removeFromPlaylist(i), with the removePlaylistItem() of the library.
RemoveAtIndex(i) ==
    LET removesCurrent == i = currentIndex
        t == IF removesCurrent THEN Stopped(transport) ELSE transport
        left == RemoveAt(playlist, i + 1)
        current == IndexAfterRemoval(i, Len(left))
    IN  IF ~HasIndex(playlist, i)
        THEN transport' = t /\ UNCHANGED << playlist, currentIndex, cache, shuffle >>
        ELSE /\ playlist' = left /\ cache' = EmptyCache
             /\ IF removesCurrent /\ left # << >>
                THEN Requests(t, left, current, current, transport.wanted, NotBuilt(shuffle))
                ELSE /\ currentIndex' = current /\ shuffle' = NotBuilt(shuffle)
                     /\ transport' = IF left = << >> /\ ~t.stopping THEN ClearedMedia(t) ELSE t

RemoveFromPlaylist ==
    /\ Calls("remove")
    /\ \E i \in -1 .. Len(playlist) :
          /\ plan.calm => i # currentIndex \/ ~transport.active
          /\ RemoveAtIndex(i)

-----------------------------------------------------------------------------
(* Moving *)

Least(a, b) == IF a < b THEN a ELSE b

\* How many indices of S are below i; the k-th index of S, from 1; the items at S in order.
Before(S, i) == Cardinality({j \in S : j < i})
Nth(S, k) == CHOOSE i \in S : Before(S, i) = k - 1
ItemsAt(items, S) == [k \in 1 .. Cardinality(S) |-> At(items, Nth(S, k))]

\* movePlaylistItem(): the items, and the index of what was current.
MovedOne(items, from, to) ==
    LET gap == Least(to, Len(items))
        place == IF from < gap THEN gap - 1 ELSE gap
    IN  IF ~HasIndex(items, from) \/ to < 0 \/ gap \in {from, from + 1} THEN items
        ELSE InsertAt(RemoveAt(items, from + 1), place + 1, At(items, from))

IndexMovedOne(items, current, from, to) ==
    LET gap == Least(to, Len(items))
        place == IF from < gap THEN gap - 1 ELSE gap
    IN  IF ~HasIndex(items, from) \/ to < 0 \/ gap \in {from, from + 1} THEN current
        ELSE IF current = from THEN place
        ELSE IF from < current /\ current <= place THEN current - 1
        ELSE IF place <= current /\ current < from THEN current + 1
        ELSE current

\* A plausible bug: the gap is not moved back by the items taken out before it.
MovedGroup_GapNotAdjusted(items, S, to) ==
    LET gap == IF to < 0 THEN 0 ELSE Least(to, Len(items))
        left == ItemsAt(items, (0 .. Len(items) - 1) \ S)
        place == Least(gap, Len(left))
    IN  SubSeq(left, 1, place) \o ItemsAt(items, S) \o SubSeq(left, place + 1, Len(left))

\* movePlaylistItems() of the items at S
MovedGroup(items, S, to) ==
    LET gap == IF to < 0 THEN 0 ELSE Least(to, Len(items))
        left == ItemsAt(items, (0 .. Len(items) - 1) \ S)
        place == Least(gap - Before(S, gap), Len(left))
    IN  SubSeq(left, 1, place) \o ItemsAt(items, S) \o SubSeq(left, place + 1, Len(left))

\* A plausible bug: the moved items are counted whatever side of the current one they land.
IndexMovedGroup_AlwaysShifts(items, current, S, to) ==
    LET gap == IF to < 0 THEN 0 ELSE Least(to, Len(items))
        place == Least(gap - Before(S, gap), Len(items) - Cardinality(S))
        rest == current - Before(S, current)
    IN  IF current < 0 THEN current
        ELSE IF current \in S THEN place + Before(S, current)
        ELSE rest + Cardinality(S)

IndexMovedGroup(items, current, S, to) ==
    LET gap == IF to < 0 THEN 0 ELSE Least(to, Len(items))
        place == Least(gap - Before(S, gap), Len(items) - Cardinality(S))
        rest == current - Before(S, current)
    IN  IF current < 0 THEN current
        ELSE IF current \in S THEN place + Before(S, current)
        ELSE IF rest >= place THEN rest + Cardinality(S)
        ELSE rest

\* A plausible bug: a move keeps a shuffle queue of indices that now mean other items.
MovePlaylistItem_KeepsQueue ==
    /\ Calls("move")
    /\ \E from, to \in -1 .. Len(playlist) + 1 :
          /\ playlist' = MovedOne(playlist, from, to)
          /\ currentIndex' = IndexMovedOne(playlist, currentIndex, from, to)
    /\ UNCHANGED << cache, transport, shuffle >>

MovePlaylistItem ==
    /\ Calls("move")
    /\ \E from, to \in -1 .. Len(playlist) + 1 :
          /\ playlist' = MovedOne(playlist, from, to)
          /\ currentIndex' = IndexMovedOne(playlist, currentIndex, from, to)
    /\ shuffle' = NotBuilt(shuffle)
    /\ UNCHANGED << cache, transport >>

\* The indices out of range and repeated are dropped first; none left, nothing moves.
MovePlaylistItems ==
    /\ Calls("moveGroup")
    /\ \E S \in SUBSET (0 .. Len(playlist) - 1), to \in -1 .. Len(playlist) + 1 :
          IF S = {}
          THEN UNCHANGED << playlist, currentIndex, cache >>
          ELSE /\ playlist' = MovedGroup(playlist, S, to)
               /\ currentIndex' = IndexMovedGroup(playlist, currentIndex, S, to)
               /\ cache' = EmptyCache
    /\ shuffle' = NotBuilt(shuffle)
    /\ UNCHANGED transport

-----------------------------------------------------------------------------
(* Playing from the playlist *)

PlayIndex ==
    /\ Calls("playIndex")
    /\ \E i \in 0 .. Len(playlist) - 1 :
          Requests(transport, playlist, currentIndex, i, TRUE, shuffle)
    /\ UNCHANGED << playlist, cache >>

\* buildShuffleQueue(): every index but the current one, in any order.
Shuffled == SetToSeqs((0 .. Len(playlist) - 1) \ {currentIndex})

\* popNextFromShuffleQueue(): from the back, the indices no longer valid skipped.
NextOf(q) ==
    LET valid == {k \in DOMAIN q : HasIndex(playlist, q[k])} IN
    IF valid = {} THEN [index |-> NoIndex, queue |-> << >>]
    ELSE LET k == CHOOSE k \in valid : \A j \in valid : j <= k IN
         [index |-> q[k], queue |-> SubSeq(q, 1, k - 1)]

\* nextFromShuffleQueueLazy(): the choices it may make.
ShuffleChoices ==
    LET chosen(q) == NextOf(q)
        first == IF shuffle.built THEN {chosen(shuffle.queue)} ELSE {chosen(q) : q \in Shuffled}
        again == {chosen(q) : q \in Shuffled}
    IN  {c \in first : c.index # NoIndex \/ plan.mode # "Loop"}
        \cup (IF plan.mode = "Loop" /\ \E c \in first : c.index = NoIndex THEN again ELSE {})

WithQueue(c) == [shuffle EXCEPT !.built = TRUE, !.queue = c.queue]

\* nextMediaListItem() and previousMediaListItem(), which choose alike when shuffled.
ByShuffle ==
    \E c \in ShuffleChoices :
        Requests(transport, playlist, currentIndex, c.index, transport.wanted, WithQueue(c))

Skips(kind, i) ==
    /\ Calls(kind) /\ playlist # << >>
    /\ IF shuffle.on THEN ByShuffle
       ELSE Requests(transport, playlist, currentIndex, i, transport.wanted, shuffle)
    /\ UNCHANGED << playlist, cache >>

NextItem == Skips("next", IF currentIndex + 1 < Len(playlist) THEN currentIndex + 1 ELSE 0)
Previous == Skips("previous", IF currentIndex > 0 THEN currentIndex - 1 ELSE Len(playlist) - 1)

SetShuffleEnabled ==
    /\ Calls("shuffle")
    /\ \E on \in BOOLEAN : shuffle' = [IF on THEN shuffle ELSE NotBuilt(shuffle) EXCEPT !.on = on]
    /\ UNCHANGED << playlist, currentIndex, cache, transport >>

\* requestDirectMediaActivation(): a source that is not in the playlist.
OpenDirect ==
    /\ Calls("direct")
    /\ IF transport.active
       THEN /\ transport' = [transport EXCEPT !.direct = TRUE, !.play = TRUE, !.stopping = TRUE]
            /\ UNCHANGED << currentIndex, shuffle >>
       ELSE OpensDirect(NoRequest([transport EXCEPT !.stopping = FALSE]), TRUE)
    /\ UNCHANGED << playlist, cache >>

Stop ==
    /\ Calls("stop")
    /\ transport' = Stopped(transport)
    /\ UNCHANGED << playlist, currentIndex, cache, shuffle >>

\* The player stops after all: the queued request is carried out, or the media cleared.
PlayerStops ==
    /\ transport.stopping
    /\ LET t == [transport EXCEPT !.active = FALSE, !.stopping = FALSE] IN
       IF t.pending # NoIndex /\ HasIndex(playlist, t.pending)
       THEN Activates([t EXCEPT !.pending = NoIndex, !.play = FALSE], playlist, t.pending, t.play)
       ELSE IF t.pending = NoIndex /\ t.direct
       THEN OpensDirect(NoRequest(t), t.play)
       ELSE /\ transport' = IF t.pending # NoIndex /\ t.wanted
                            THEN [t EXCEPT !.pending = NoIndex, !.play = FALSE]
                            ELSE ClearedMedia([t EXCEPT !.pending = NoIndex, !.play = FALSE])
            /\ UNCHANGED << currentIndex, shuffle >>
    /\ UNCHANGED << plan, calls, playlist, cache >>

Following == IF currentIndex + 1 < Len(playlist) THEN currentIndex + 1
             ELSE IF plan.mode = "Loop" THEN 0 ELSE NoIndex

\* The playing media ends: handlePlaybackEnded().
PlaybackEnds ==
    /\ transport.active /\ ~transport.stopping
    /\ LET t == [transport EXCEPT !.active = FALSE] IN
       IF ~HasIndex(playlist, currentIndex)
       THEN transport' = ClearedMedia([t EXCEPT !.wanted = FALSE]) /\ UNCHANGED << currentIndex, shuffle >>
       ELSE IF plan.mode = "Repeat"
       THEN UNCHANGED << transport, currentIndex, shuffle >>
       ELSE \E c \in (IF shuffle.on THEN ShuffleChoices ELSE {[index |-> Following, queue |-> shuffle.queue]}) :
            LET sh == IF shuffle.on THEN WithQueue(c) ELSE shuffle IN
            IF c.index # NoIndex
            THEN Requests(t, playlist, currentIndex, c.index, TRUE, sh)
            ELSE /\ transport' = ClearedMedia([t EXCEPT !.wanted = FALSE])
                 /\ shuffle' = sh /\ UNCHANGED currentIndex
    /\ UNCHANGED << plan, calls, playlist, cache >>

Next ==
    \/ AddToPlaylist \/ AddFolder \/ RemoveFromPlaylist \/ ClearPlaylist
    \/ MovePlaylistItem \/ MovePlaylistItems
    \/ PlayIndex \/ NextItem \/ Previous \/ SetShuffleEnabled \/ OpenDirect \/ Stop
    \/ GetMetadata
    \/ PlayerStops \/ PlaybackEnds

Spec == Init /\ [][Next]_vars

-----------------------------------------------------------------------------
(* Properties *)

\* An edit that leaves the current item in the playlist leaves the index on it, and one
\* that removes it puts the index on the item that followed it, or on the new last one
\* (addToPlaylist, removePlaylistItem, movePlaylistItem, movePlaylistItems).
EditsKeepCurrentItem == [][
    playlist' # playlist /\ playlist' # << >> /\ HasIndex(playlist, currentIndex) =>
        LET item == At(playlist, currentIndex)
            after == Least(currentIndex, Len(playlist') - 1)
        IN  IF item \in Range(playlist') THEN At(playlist', currentIndex') = item
            ELSE currentIndex' = after ]_vars

\* Moving one item and moving several both amount to a splice: what stays before the gap,
\* then what moves in its order, then what stays after the gap; and moving one item is
\* moving a group of one, index included (movePlaylistItem, movePlaylistItems).
MovesAreSplices ==
    LET all == 0 .. Len(playlist) - 1 IN
    \A to \in 0 .. Len(playlist) + 1 :
        /\ \A S \in SUBSET all :
              MovedGroup(playlist, S, to) =
                  ItemsAt(playlist, {i \in all \ S : i < to}) \o ItemsAt(playlist, S)
                      \o ItemsAt(playlist, {i \in all \ S : i >= to})
        /\ \A i \in all :
              /\ MovedOne(playlist, i, to) = MovedGroup(playlist, {i}, to)
              /\ IndexMovedOne(playlist, currentIndex, i, to) =
                     IndexMovedGroup(playlist, currentIndex, {i}, to)

\* While an item of the playlist is loaded, the shuffle queue never holds its index:
\* next, previous and the end of the media go to another item, through edits of the
\* playlist, queued activations and failed loads (buildShuffleQueue, invalidateShuffleQueue).
ShuffleSkipsLoaded ==
    \A i \in Range(shuffle.queue) :
        transport.loaded \in Entries /\ HasIndex(playlist, i) => At(playlist, i) # transport.loaded

\* As long as no item leaves the playlist while it plays, and no other source is opened,
\* the metadata cached for a path are that path's (getMetadataAtIndex, which takes the
\* loaded media for the current item).
CachedMetadataIsOwn ==
    plan.calm /\ "direct" \notin plan.kinds =>
        \A p \in Range(PathOf) : cache[p].level > 0 => cache[p].of = p
=============================================================================
