-------------------------- MODULE VideoOutput_proofs --------------------------
(***************************************************************************)
(* Proofs about VideoOutput, for any sizes, formats and plans: any number  *)
(* of frames, changes of size and sessions.                                *)
(***************************************************************************)
EXTENDS VideoOutput, TLAPS

\* What the fence does not stand for has been followed: the frame in the texture is
\* the fence's, or the main thread's commands come after it.
FrameFollowed ==
    IF fence # 0 THEN target.frame \in {0, fence}
    ELSE plan.fails \/ target.frame <= ordered

\* While the player is released the main thread does not draw, and no video is shown
\* unless the player hangs; while it draws there is no fence; while it prepares startup it
\* knows the fence, unless the video goes on beside it.
ClosesAtRest ==
    /\ flags.closing => main.at = "idle" /\ (plan.hung \/ vout.at \in {"none", "cleaning"})
    /\ main.at \in {"idle", "exchanged", "preparing", "replacing"} => main.state = NoState
    /\ main.at = "sampling" => fence = 0
    /\ Preparing => startup.size # 0 /\ (plan.hung \/ vout.at = "none")
    /\ main.at = "replacing" /\ ~plan.hung => startup.fence = fence

\* No size in use, and none that the main thread still holds, exceeds the texture's, but
\* for the one it is making room for.
SizesFit ==
    /\ ~flags.closing => render <= target.size \/ (Preparing /\ render = startup.size)
    /\ main.state.size <= target.size

\* Of what VLC last asked for, what has not been applied is still requested, or about to be.
AskedOrApplied == ~plan.hung =>
    /\ resize.state = "Requested" \/ vout.at = "resizing" => resize.size > 0
    /\ Preparing => startup.format = resize.format
    /\ ~flags.closing /\ ~Preparing /\ render > 0 /\ resize.state = "Idle" /\ vout.at # "resizing" =>
          target.format = resize.format
    /\ plan.calm /\ vout.at \notin {"none", "cleaning"} /\ vout.size # 0 =>
          /\ resize.format = vout.format
          /\ vout.size = IF resize.state = "Requested" \/ vout.at = "resizing"
                         THEN resize.size ELSE render

IInv == TypeOK /\ FencesDeletedOnce /\ FrameFollowed /\ ClosesAtRest /\ SizesFit
            /\ AskedOrApplied /\ RendersAsAsked

-----------------------------------------------------------------------------
(* The types of the fields, and of updated records *)

\* Sizes, and the absence of one, are natural numbers.
LEMMA SizesNatural == \A n \in Sizes \cup {0} : n \in Nat
BY VideoAssumption

\* Every record has the fields of its type.
LEMMA Fields ==
    ASSUME TypeOK
    PROVE  /\ vout.at \in {"none", "idle", "resizing", "current", "released", "received",
                         "cleaning"}
           /\ vout.size \in Sizes \cup {0} /\ vout.size \in Nat /\ vout.format \in Formats
           /\ resize.size \in Sizes \cup {0} /\ resize.size \in Nat /\ resize.format \in Formats
           /\ resize.state \in {"Idle", "Requested"}
           /\ target.size \in Sizes \cup {0} /\ target.size \in Nat
           /\ target.frame \in Nat /\ target.format \in Formats
           /\ main.state.size \in Sizes \cup {0} /\ main.state.size \in Nat
           /\ main.state \in StateType
           /\ main.at \in {"idle", "exchanged", "refresh", "draw", "sampling", "preparing",
                          "replacing"}
           /\ render \in Nat /\ flags.received \in BOOLEAN /\ flags.dirty \in BOOLEAN
           /\ flags.closing \in BOOLEAN
           /\ startup.size \in Sizes \cup {0} /\ startup.size \in Nat
           /\ startup.format \in Formats /\ startup.fence \in Nat
<1>1. \A n \in Sizes \cup {0} : n \in Nat
  BY SizesNatural
<1>2. /\ vout.at \in {"none", "idle", "resizing", "current", "released", "received",
                         "cleaning"}
      /\ vout.size \in Sizes \cup {0} /\ vout.format \in Formats
  BY DEF TypeOK, VoutType
<1>3. /\ resize.size \in Sizes \cup {0} /\ resize.format \in Formats
      /\ resize.state \in {"Idle", "Requested"}
  BY DEF TypeOK, ResizeType
<1>4. target.size \in Sizes \cup {0} /\ target.frame \in Nat /\ target.format \in Formats
  BY DEF TypeOK, TargetType
<1>5. /\ main.state \in StateType /\ main.state.size \in Sizes \cup {0}
      /\ main.at \in {"idle", "exchanged", "refresh", "draw", "sampling", "preparing",
                          "replacing"}
  BY DEF TypeOK, MainType, StateType
<1>6. flags.received \in BOOLEAN /\ flags.dirty \in BOOLEAN /\ flags.closing \in BOOLEAN
  BY DEF TypeOK, FlagsType
<1>7. /\ startup.size \in Sizes \cup {0} /\ startup.format \in Formats /\ startup.fence \in Nat
  BY DEF TypeOK, StartupType
<1>. QED
  BY <1>1, <1>2, <1>3, <1>4, <1>5, <1>6, <1>7 DEF TypeOK

\* The updates that the steps make.
LEMMA Updates ==
    ASSUME TypeOK
    PROVE  /\ \A b \in BOOLEAN : [flags EXCEPT !.dirty = b] \in FlagsType
           /\ \A b \in BOOLEAN : [flags EXCEPT !.dirty = TRUE, !.received = b] \in FlagsType
           /\ [flags EXCEPT !.received = TRUE] \in FlagsType
           /\ [flags EXCEPT !.closing = TRUE] \in FlagsType
           /\ \A at \in {"none", "idle", "resizing", "current", "released", "received",
                         "cleaning"} :
                 [vout EXCEPT !.at = at] \in VoutType
           /\ [resize EXCEPT !.state = "Idle", !.size = 0] \in ResizeType
           /\ [exposed EXCEPT !.frame = 0] \in ExposedType
           /\ AtRest \in MainType
           /\ [main EXCEPT !.at = "exchanged"] \in MainType
           /\ [main EXCEPT !.at = "sampling"] \in MainType
           /\ [main EXCEPT !.at = "preparing"] \in MainType
           /\ [main EXCEPT !.at = "replacing"] \in MainType
<1>1. /\ \A b \in BOOLEAN : [flags EXCEPT !.dirty = b] \in FlagsType
      /\ \A b \in BOOLEAN : [flags EXCEPT !.dirty = TRUE, !.received = b] \in FlagsType
      /\ [flags EXCEPT !.received = TRUE] \in FlagsType
      /\ [flags EXCEPT !.closing = TRUE] \in FlagsType
  BY DEF TypeOK, FlagsType
<1>2. \A at \in {"none", "idle", "resizing", "current", "released", "received",
                         "cleaning"} :
         [vout EXCEPT !.at = at] \in VoutType
  BY DEF TypeOK, VoutType
<1>3. [resize EXCEPT !.state = "Idle", !.size = 0] \in ResizeType
  BY DEF TypeOK, ResizeType
<1>4. [exposed EXCEPT !.frame = 0] \in ExposedType
  BY DEF TypeOK, ExposedType
<1>5. /\ AtRest \in MainType
      /\ [main EXCEPT !.at = "exchanged"] \in MainType
      /\ [main EXCEPT !.at = "sampling"] \in MainType
      /\ [main EXCEPT !.at = "preparing"] \in MainType
      /\ [main EXCEPT !.at = "replacing"] \in MainType
  BY DEF TypeOK, MainType, StateType, AtRest, NoState
<1>. QED
  BY <1>1, <1>2, <1>3, <1>4, <1>5

-----------------------------------------------------------------------------
(* What the steps that both threads take do to the fence and the texture *)

\* A wait leaves no fence, and the frame of the texture followed, unless it failed.
LEMMA WaitFollows ==
    ASSUME TypeOK, FencesDeletedOnce, FrameFollowed, WaitForFence, UNCHANGED << plan, target >>
    PROVE  /\ fence' = 0 /\ live' \subseteq Nat /\ ordered' \in Nat
           /\ ~plan.hung => live' = {}
           /\ ~plan.fails => target.frame <= ordered'
<1>1. /\ fence \in Nat /\ ordered \in Nat /\ target.frame \in Nat
      /\ fence' = 0 /\ live' = live \ {fence}
  BY Fields DEF TypeOK, WaitForFence, FenceCleared
<1>2. PICK outcome \in Outcomes : ordered' = FollowedAfterWait(outcome)
  BY DEF WaitForFence
<1>3. ordered' = IF outcome # "failed" /\ fence # 0 THEN fence ELSE ordered
  BY <1>2 DEF FollowedAfterWait
<1>4. outcome = "failed" => plan.fails
  BY <1>2 DEF Outcomes
<1>. QED
  BY <1>1, <1>3, <1>4 DEF FencesDeletedOnce, FrameFollowed, TypeOK

\* A texture made large enough holds the size; one that was replaced is blank, in the
\* format required, without a fence.
LEMMA CapacityEnsured ==
    ASSUME TypeOK, FencesDeletedOnce, NEW size \in Sizes, NEW format \in Formats,
           EnsuredCapacity(size, format)
    PROVE  /\ target' \in TargetType
           /\ target'.size >= target.size
           /\ \/ UNCHANGED << target, fence, live >>
              \/ /\ target'.frame = 0 /\ fence' = 0 /\ live' \subseteq live
                 /\ ~plan.hung => live' = {}
           /\ ~flags.closing => target'.size >= size /\ target'.format = format
<1>. /\ size \in Nat /\ target.size \in Nat /\ fence \in Nat
     /\ target \in TargetType
  BY Fields, VideoAssumption DEF TypeOK
<1>1. CASE flags.closing \/ ~TooSmall(size, format)
  BY <1>1 DEF EnsuredCapacity, TooSmall
<1>2. CASE ~(flags.closing \/ ~TooSmall(size, format))
  <2>1. /\ target' = [size |-> Capacity(size), format |-> format, frame |-> 0]
        /\ fence' = 0 /\ live' = live \ {fence}
    BY <1>2 DEF EnsuredCapacity, FenceCleared
  <2>2. Capacity(size) \in Sizes \cup {0} /\ Capacity(size) >= size /\ Capacity(size) >= target.size
    BY Fields DEF Capacity
  <2>. QED
    BY <2>1, <2>2 DEF FencesDeletedOnce, TargetType
<1>. QED
  BY <1>1, <1>2

-----------------------------------------------------------------------------
(* The initial states *)

\* Nothing has been asked for, rendered or drawn.
LEMMA InitHolds == Init => IInv
<1>. SUFFICES ASSUME Init PROVE IInv
  OBVIOUS
<1>1. TypeOK
  <2>1. PICK f \in Formats :
           /\ vout = [at |-> "none", size |-> 0, format |-> f]
           /\ resize = [state |-> "Idle", size |-> 0, format |-> f]
           /\ target = [size |-> 0, format |-> f, frame |-> 0]
           /\ startup = [size |-> 0, format |-> f, fence |-> 0]
    BY DEF Init
  <2>2. /\ vout \in VoutType /\ resize \in ResizeType /\ target \in TargetType
        /\ startup \in StartupType
    BY <2>1 DEF VoutType, ResizeType, TargetType, StartupType
  <2>3. flags \in FlagsType /\ exposed \in ExposedType /\ main \in MainType
    BY DEF Init, FlagsType, ExposedType, StateType, MainType, AtRest, NoState
  <2>. QED
    BY <2>2, <2>3 DEF Init, TypeOK
<1>2. FencesDeletedOnce /\ FrameFollowed /\ ClosesAtRest /\ SizesFit
  BY DEF Init, FencesDeletedOnce, FrameFollowed, ClosesAtRest, Preparing, SizesFit, AtRest,
     NoState
<1>3. AskedOrApplied /\ RendersAsAsked
  BY DEF Init, AskedOrApplied, Preparing, RendersAsAsked
<1>. QED
  BY <1>1, <1>2, <1>3 DEF IInv

-----------------------------------------------------------------------------
(* The steps *)

\* refreshExposedTextureLocked() keeps the types and what is known of the fence.
LEMMA RefreshedLocked ==
    ASSUME TypeOK, FencesDeletedOnce, FrameFollowed, RefreshLocked, UNCHANGED << plan, target >>
    PROVE  /\ main' \in MainType /\ main'.at \in {"idle", "sampling"}
           /\ main'.state \in {main.state, NoState}
           /\ main'.at = "idle" => main'.state = NoState
           /\ main'.at = "sampling" => fence' = 0
           /\ exposed' \in ExposedType
           /\ fence' \in Nat /\ live' \subseteq Nat
           /\ published' \in Nat /\ swapped' \in Nat /\ gpu' \in Nat /\ ordered' \in Nat
           /\ FencesDeletedOnce' /\ FrameFollowed'
<1>1. CASE main' = AtRest /\ UNCHANGED frameVars
             /\ (exposed' = [frame |-> 0, size |-> main.state.size] \/ UNCHANGED exposed)
  <2>1. [frame |-> 0, size |-> main.state.size] \in ExposedType
    BY Fields DEF ExposedType
  <2>. QED
    BY <1>1, <2>1, Updates DEF AtRest, frameVars, TypeOK, FencesDeletedOnce, FrameFollowed
<1>2. CASE /\ WaitForFence
           /\ exposed' = [frame |-> target.frame, size |-> main.state.size]
           /\ main' = [main EXCEPT !.at = "sampling"]
  <2>1. /\ fence' = 0 /\ live' \subseteq Nat /\ (~plan.hung => live' = {}) /\ ordered' \in Nat
        /\ ~plan.fails => target.frame <= ordered'
        /\ UNCHANGED << published, swapped, gpu >>
    BY <1>2, WaitFollows DEF WaitForFence
  <2>2. main' \in MainType /\ main'.at = "sampling" /\ main'.state = main.state
    BY <1>2, Updates DEF TypeOK, MainType
  <2>3. exposed' \in ExposedType
    BY <1>2, Fields DEF ExposedType
  <2>. QED
    BY <2>1, <2>2, <2>3, <1>2 DEF TypeOK, FencesDeletedOnce, FrameFollowed
<1>. QED
  BY <1>1, <1>2 DEF RefreshLocked

\* Taking the mutex to render applies the size asked for.
LEMMA AppliedTyped ==
    ASSUME TypeOK, FencesDeletedOnce, AppliesResize
    PROVE  /\ render' \in Sizes \cup {0}
           /\ target' \in TargetType
           /\ resize' = [resize EXCEPT !.state = "Idle"]
           /\ flags' \in FlagsType /\ flags'.closing = flags.closing
           /\ target'.size >= target.size
           /\ \/ UNCHANGED << target, fence, live >>
              \/ /\ target'.frame = 0 /\ fence' = 0 /\ live' \subseteq live
                 /\ ~plan.hung => live' = {}
           /\ IF resize.state = "Requested" /\ resize.size > 0
              THEN /\ render' = resize.size
                   /\ ~flags.closing => target'.size >= render' /\ target'.format = resize.format
              ELSE UNCHANGED << render, target >>
<1>1. /\ resize.size \in Sizes \cup {0} /\ resize.format \in Formats /\ target.size \in Nat
      /\ render \in Sizes \cup {0} /\ flags \in FlagsType
      /\ target \in TargetType
  BY Fields, VideoAssumption DEF TypeOK
<1>2. CASE resize.state = "Requested" /\ resize.size > 0
  <2>1. resize.size \in Sizes
    BY <1>1, <1>2
  <2>2. /\ EnsuredCapacity(resize.size, resize.format) /\ render' = resize.size
        /\ flags' = [flags EXCEPT !.dirty = TRUE] /\ resize' = [resize EXCEPT !.state = "Idle"]
    BY <1>2 DEF AppliesResize
  <2>. QED
    BY <1>1, <1>2, <2>1, <2>2, CapacityEnsured DEF FlagsType
<1>3. CASE ~(resize.state = "Requested" /\ resize.size > 0)
  BY <1>1, <1>3 DEF AppliesResize
<1>. QED
  BY <1>2, <1>3

\* The video output opens, with nothing asked yet.
LEMMA VoutStartsKeeps == IInv /\ VoutStarts => IInv'
<1>. SUFFICES ASSUME IInv, VoutStarts PROVE IInv'
  OBVIOUS
<1>. TypeOK
  BY DEF IInv
<1>1. TypeOK'
  <2>1. vout' \in VoutType
    BY DEF TypeOK, VoutType, VoutStarts
  <2>. QED
    BY <2>1 DEF TypeOK, VoutStarts, voutVars, frameVars, mainVars
<1>2. FencesDeletedOnce' /\ FrameFollowed'
  BY Fields DEF IInv, TypeOK, FencesDeletedOnce, FrameFollowed, VoutStarts, voutVars,
     frameVars, mainVars
<1>3. ClosesAtRest' /\ SizesFit'
  BY Fields DEF IInv, ClosesAtRest, Preparing, SizesFit, VoutStarts, voutVars, frameVars,
     mainVars
<1>4. AskedOrApplied' /\ RendersAsAsked'
  BY Fields DEF IInv, ClosesAtRest, Preparing, SizesFit, AskedOrApplied, RendersAsAsked,
     VoutStarts, voutVars, frameVars, mainVars
<1>. QED
  BY <1>1, <1>2, <1>3, <1>4 DEF IInv

\* The video output closes.
LEMMA VoutEndsKeeps == IInv /\ VoutEnds => IInv'
<1>. SUFFICES ASSUME IInv, VoutEnds PROVE IInv'
  OBVIOUS
<1>. TypeOK
  BY DEF IInv
<1>1. TypeOK'
  BY Fields, Updates DEF TypeOK, VoutEnds, voutVars, frameVars, mainVars
<1>2. FencesDeletedOnce' /\ FrameFollowed'
  BY Fields DEF IInv, TypeOK, FencesDeletedOnce, FrameFollowed, VoutEnds, voutVars, frameVars,
     mainVars
<1>3. ClosesAtRest' /\ SizesFit'
  BY Fields DEF IInv, ClosesAtRest, Preparing, SizesFit, VoutEnds, voutVars, frameVars, mainVars
<1>4. AskedOrApplied' /\ RendersAsAsked'
  BY Fields DEF IInv, ClosesAtRest, Preparing, SizesFit, AskedOrApplied, RendersAsAsked,
     VoutEnds, voutVars, frameVars, mainVars
<1>. QED
  BY <1>1, <1>2, <1>3, <1>4 DEF IInv

\* videoSwap() sets the two flags that no invariant but the types mentions.
LEMMA SwapReceivedKeeps == IInv /\ SwapReceived => IInv'
<1>. SUFFICES ASSUME IInv, SwapReceived PROVE IInv'
  OBVIOUS
<1>. TypeOK
  BY DEF IInv
<1>1. TypeOK'
  BY Fields, Updates DEF TypeOK, SwapReceived, voutVars, frameVars, mainVars
<1>2. FencesDeletedOnce' /\ FrameFollowed'
  BY Fields DEF IInv, TypeOK, FencesDeletedOnce, FrameFollowed, SwapReceived, voutVars,
     frameVars, mainVars
<1>3. ClosesAtRest' /\ SizesFit'
  BY Fields DEF IInv, ClosesAtRest, Preparing, SizesFit, SwapReceived, voutVars, frameVars,
     mainVars
<1>4. AskedOrApplied' /\ RendersAsAsked'
  BY Fields DEF IInv, ClosesAtRest, Preparing, SizesFit, AskedOrApplied, RendersAsAsked,
     SwapReceived, voutVars, frameVars, mainVars
<1>. QED
  BY <1>1, <1>2, <1>3, <1>4 DEF IInv

\* The same for the other flag.
LEMMA SwapDirtyKeeps == IInv /\ SwapDirty => IInv'
<1>. SUFFICES ASSUME IInv, SwapDirty PROVE IInv'
  OBVIOUS
<1>. TypeOK
  BY DEF IInv
<1>1. TypeOK'
  BY Fields, Updates DEF TypeOK, SwapDirty, voutVars, frameVars, mainVars
<1>2. FencesDeletedOnce' /\ FrameFollowed'
  BY Fields DEF IInv, TypeOK, FencesDeletedOnce, FrameFollowed, SwapDirty, voutVars,
     frameVars, mainVars
<1>3. ClosesAtRest' /\ SizesFit'
  BY Fields DEF IInv, ClosesAtRest, Preparing, SizesFit, SwapDirty, voutVars, frameVars,
     mainVars
<1>4. AskedOrApplied' /\ RendersAsAsked'
  BY Fields DEF IInv, ClosesAtRest, Preparing, SizesFit, AskedOrApplied, RendersAsAsked,
     SwapDirty, voutVars, frameVars, mainVars
<1>. QED
  BY <1>1, <1>2, <1>3, <1>4 DEF IInv

\* A swap that is refused sets none.
LEMMA SwapRefusedKeeps == IInv /\ SwapRefused => IInv'
<1>. SUFFICES ASSUME IInv, SwapRefused PROVE IInv'
  OBVIOUS
<1>. TypeOK
  BY DEF IInv
<1>1. TypeOK'
  BY Fields, Updates DEF TypeOK, SwapRefused, voutVars, frameVars, mainVars
<1>2. FencesDeletedOnce' /\ FrameFollowed'
  BY Fields DEF IInv, TypeOK, FencesDeletedOnce, FrameFollowed, SwapRefused, voutVars,
     frameVars, mainVars
<1>3. ClosesAtRest' /\ SizesFit'
  BY Fields DEF IInv, ClosesAtRest, Preparing, SizesFit, SwapRefused, voutVars, frameVars,
     mainVars
<1>4. AskedOrApplied' /\ RendersAsAsked'
  BY Fields DEF IInv, ClosesAtRest, Preparing, SizesFit, AskedOrApplied, RendersAsAsked,
     SwapRefused,
     voutVars, frameVars, mainVars
<1>. QED
  BY <1>1, <1>2, <1>3, <1>4 DEF IInv

\* The GPU finishes a frame.
LEMMA GpuKeeps == IInv /\ GpuFinishes => IInv'
<1>. SUFFICES ASSUME IInv, GpuFinishes PROVE IInv'
  OBVIOUS
<1>. TypeOK
  BY DEF IInv
<1>1. TypeOK'
  BY DEF TypeOK, GpuFinishes, voutVars, frameVars, mainVars
<1>2. FencesDeletedOnce' /\ FrameFollowed'
  BY Fields DEF IInv, TypeOK, FencesDeletedOnce, FrameFollowed, GpuFinishes, voutVars,
     frameVars, mainVars
<1>3. ClosesAtRest' /\ SizesFit'
  BY Fields DEF IInv, ClosesAtRest, Preparing, SizesFit, GpuFinishes, voutVars, frameVars,
     mainVars
<1>4. AskedOrApplied' /\ RendersAsAsked'
  BY Fields DEF IInv, ClosesAtRest, Preparing, SizesFit, AskedOrApplied, RendersAsAsked,
     GpuFinishes, voutVars, frameVars, mainVars
<1>. QED
  BY <1>1, <1>2, <1>3, <1>4 DEF IInv

\* getTexture() takes the flag down.
LEMMA GetTextureKeeps == IInv /\ GetTexture => IInv'
<1>. SUFFICES ASSUME IInv, GetTexture PROVE IInv'
  OBVIOUS
<1>. TypeOK
  BY DEF IInv
<1>1. TypeOK'
  BY Fields, Updates DEF TypeOK, GetTexture, voutVars, frameVars, mainVars
<1>2. FencesDeletedOnce' /\ FrameFollowed'
  BY Fields DEF IInv, TypeOK, FencesDeletedOnce, FrameFollowed, GetTexture, voutVars,
     frameVars, mainVars
<1>3. ClosesAtRest' /\ SizesFit'
  BY Fields DEF IInv, ClosesAtRest, Preparing, SizesFit, GetTexture, voutVars, frameVars,
     mainVars
<1>4. AskedOrApplied' /\ RendersAsAsked'
  BY Fields DEF IInv, ClosesAtRest, Preparing, SizesFit, AskedOrApplied, RendersAsAsked,
     GetTexture, voutVars, frameVars, mainVars
<1>. QED
  BY <1>1, <1>2, <1>3, <1>4 DEF IInv

\* The main thread reads the state, a size that fits.
LEMMA ReadStateKeeps == IInv /\ ReadState => IInv'
<1>. SUFFICES ASSUME IInv, ReadState PROVE IInv'
  OBVIOUS
<1>. TypeOK
  BY DEF IInv
<1>1. TypeOK'
  <2>1. StateInfo \in StateType
    BY Fields DEF TypeOK, StateType, StateInfo
  <2>2. [at |-> "refresh", state |-> StateInfo] \in MainType
    BY <2>1 DEF MainType
  <2>. QED
    BY <2>1, <2>2 DEF TypeOK, ReadState, voutVars, frameVars, mainVars
<1>2. FencesDeletedOnce' /\ FrameFollowed'
  BY Fields DEF IInv, TypeOK, FencesDeletedOnce, FrameFollowed, ReadState, StateInfo, NoState,
     voutVars, frameVars, mainVars
<1>3. ClosesAtRest' /\ SizesFit'
  BY Fields DEF IInv, ClosesAtRest, Preparing, SizesFit, ReadState, StateInfo, NoState,
     voutVars, frameVars, mainVars
<1>4. AskedOrApplied' /\ RendersAsAsked'
  BY Fields DEF IInv, ClosesAtRest, Preparing, SizesFit, AskedOrApplied, RendersAsAsked,
     ReadState, StateInfo, NoState, voutVars, frameVars, mainVars
<1>. QED
  BY <1>1, <1>2, <1>3, <1>4 DEF IInv

\* The main thread reads the state before it locks.
LEMMA DrawKeeps == IInv /\ Draw => IInv'
<1>. SUFFICES ASSUME IInv, Draw PROVE IInv'
  OBVIOUS
<1>. TypeOK
  BY DEF IInv
<1>1. TypeOK'
  <2>1. StateInfo \in StateType
    BY Fields DEF TypeOK, StateType, StateInfo
  <2>2. [at |-> "draw", state |-> StateInfo] \in MainType
    BY <2>1 DEF MainType
  <2>. QED
    BY <2>1, <2>2 DEF TypeOK, Draw, voutVars, frameVars, mainVars
<1>2. FencesDeletedOnce' /\ FrameFollowed'
  BY Fields DEF IInv, TypeOK, FencesDeletedOnce, FrameFollowed, Draw, StateInfo, NoState,
     voutVars, frameVars, mainVars
<1>3. ClosesAtRest' /\ SizesFit'
  BY Fields DEF IInv, ClosesAtRest, Preparing, SizesFit, Draw, StateInfo, NoState, voutVars,
     frameVars, mainVars
<1>4. AskedOrApplied' /\ RendersAsAsked'
  BY Fields DEF IInv, ClosesAtRest, Preparing, SizesFit, AskedOrApplied, RendersAsAsked, Draw,
     StateInfo, NoState, voutVars, frameVars, mainVars
<1>. QED
  BY <1>1, <1>2, <1>3, <1>4 DEF IInv

\* The main thread has drawn.
LEMMA UnlockKeeps == IInv /\ Unlock => IInv'
<1>. SUFFICES ASSUME IInv, Unlock PROVE IInv'
  OBVIOUS
<1>. TypeOK
  BY DEF IInv
<1>1. TypeOK'
  BY Fields, Updates DEF TypeOK, Unlock, voutVars, frameVars, mainVars
<1>2. FencesDeletedOnce' /\ FrameFollowed'
  BY Fields DEF IInv, TypeOK, FencesDeletedOnce, FrameFollowed, Unlock, AtRest, NoState,
     voutVars, frameVars, mainVars
<1>3. ClosesAtRest' /\ SizesFit'
  BY Fields DEF IInv, ClosesAtRest, Preparing, SizesFit, Unlock, AtRest, NoState, voutVars,
     frameVars, mainVars
<1>4. AskedOrApplied' /\ RendersAsAsked'
  BY Fields DEF IInv, ClosesAtRest, Preparing, SizesFit, AskedOrApplied, RendersAsAsked,
     Unlock, AtRest, NoState, voutVars, frameVars, mainVars
<1>. QED
  BY <1>1, <1>2, <1>3, <1>4 DEF IInv

\* The media is cleared.
LEMMA ClearKeeps == IInv /\ ClearCurrentMedia => IInv'
<1>. SUFFICES ASSUME IInv, ClearCurrentMedia PROVE IInv'
  OBVIOUS
<1>. TypeOK
  BY DEF IInv
<1>1. TypeOK'
  BY Fields, Updates DEF TypeOK, ClearCurrentMedia, voutVars, frameVars, mainVars
<1>2. FencesDeletedOnce' /\ FrameFollowed'
  BY Fields DEF IInv, TypeOK, FencesDeletedOnce, FrameFollowed, ClearCurrentMedia, voutVars,
     frameVars, mainVars
<1>3. ClosesAtRest' /\ SizesFit'
  BY Fields DEF IInv, ClosesAtRest, Preparing, SizesFit, ClearCurrentMedia, voutVars,
     frameVars, mainVars
<1>4. AskedOrApplied' /\ RendersAsAsked'
  <2>1. /\ main.at = "idle" /\ (plan.hung \/ vout.at = "none")
        /\ render' = 0 /\ flags'.closing = flags.closing
        /\ resize' = [resize EXCEPT !.state = "Idle", !.size = 0]
        /\ UNCHANGED << plan, vout, target, main, startup >>
    BY DEF ClearCurrentMedia, VideoGone, mainVars, TypeOK, FlagsType
  <2>2. resize'.state = "Idle"
    BY <2>1 DEF TypeOK, ResizeType
  <2>. QED
    BY <2>1, <2>2 DEF AskedOrApplied, Preparing, RendersAsAsked
<1>. QED
  BY <1>1, <1>2, <1>3, <1>4 DEF IInv

\* The player is to be released.
LEMMA ReleaseBeginsKeeps == IInv /\ ReleaseBegins => IInv'
<1>. SUFFICES ASSUME IInv, ReleaseBegins PROVE IInv'
  OBVIOUS
<1>. TypeOK
  BY DEF IInv
<1>1. TypeOK'
  <2>1. sessions' \in Nat
    BY DEF TypeOK, ReleaseBegins
  <2>2. flags' \in FlagsType
    BY Updates DEF ReleaseBegins
  <2>. QED
    BY <2>1, <2>2 DEF TypeOK, ReleaseBegins, voutVars, frameVars, mainVars
<1>2. FencesDeletedOnce' /\ FrameFollowed'
  BY Fields DEF IInv, TypeOK, FencesDeletedOnce, FrameFollowed, ReleaseBegins, voutVars,
     frameVars, mainVars
<1>3. ClosesAtRest' /\ SizesFit'
  BY Fields DEF IInv, ClosesAtRest, Preparing, SizesFit, ReleaseBegins, VideoGone, voutVars,
     frameVars, mainVars
<1>4. AskedOrApplied' /\ RendersAsAsked'
  BY Fields DEF IInv, ClosesAtRest, Preparing, SizesFit, AskedOrApplied, RendersAsAsked,
     ReleaseBegins, VideoGone, voutVars, frameVars, mainVars
<1>. QED
  BY <1>1, <1>2, <1>3, <1>4 DEF IInv

\* The GL objects are deleted.
LEMMA ReleaseEndsKeeps == IInv /\ ReleaseEnds => IInv'
<1>. SUFFICES ASSUME IInv, ReleaseEnds PROVE IInv'
  OBVIOUS
<1>. TypeOK
  BY DEF IInv
<1>1. TypeOK'
  <2>1. [target EXCEPT !.size = 0, !.frame = 0] \in TargetType /\ [frame |-> 0, size |-> 0] \in ExposedType
    BY DEF TypeOK, TargetType, ExposedType
  <2>2. [dirty |-> TRUE, received |-> FALSE, closing |-> FALSE] \in FlagsType
    BY DEF FlagsType
  <2>3. resize' \in ResizeType
    BY Updates DEF ReleaseEnds
  <2>. QED
    BY <2>1, <2>2, <2>3 DEF TypeOK, ReleaseEnds, FenceCleared, voutVars, frameVars, mainVars
<1>. /\ target.frame \in Nat /\ fence \in Nat /\ ordered \in Nat /\ target' \in TargetType
  BY <1>1, Fields DEF TypeOK
<1>2. FencesDeletedOnce' /\ FrameFollowed'
  <2>1. CASE target.size # 0 \/ exposed.size # 0
    <3>1. fence' = 0 /\ live' = live \ {fence} /\ target'.frame = 0 /\ ordered' = ordered
      BY <2>1 DEF ReleaseEnds, FenceCleared, TypeOK, TargetType
    <3>. QED
      BY <3>1 DEF IInv, FencesDeletedOnce, FrameFollowed, ReleaseEnds
  <2>2. CASE ~(target.size # 0 \/ exposed.size # 0)
    BY <2>2 DEF ReleaseEnds, IInv, FencesDeletedOnce, FrameFollowed
  <2>. QED
    BY <2>1, <2>2
<1>3. ClosesAtRest' /\ SizesFit'
  <2>1. /\ render' = 0 /\ main' = main /\ vout' = vout /\ main.state = NoState /\ ~flags'.closing
        /\ main.at = "idle"
    BY DEF IInv, ClosesAtRest, Preparing, ReleaseEnds, mainVars
  <2>2. target'.size \in Nat
    BY <1>1, SizesNatural DEF TypeOK, TargetType
  <2>. QED
    BY <2>1, <2>2 DEF ClosesAtRest, Preparing, SizesFit, NoState
<1>4. AskedOrApplied' /\ RendersAsAsked'
  BY Fields DEF IInv, ClosesAtRest, Preparing, SizesFit, AskedOrApplied, RendersAsAsked,
     ReleaseEnds, FenceCleared, NoState, voutVars, frameVars, mainVars
<1>. QED
  BY <1>1, <1>2, <1>3, <1>4 DEF IInv

\* make_current(false) replaces the fence and the frame together.
LEMMA PublishKeeps == IInv /\ MakeNotCurrent => IInv'
<1>. SUFFICES ASSUME IInv, MakeNotCurrent PROVE IInv'
  OBVIOUS
<1>. TypeOK
  BY DEF IInv
<1>1. TypeOK'
  <2>1. published + 1 \in Nat
    BY DEF TypeOK
  <2>2. \A n \in Nat : [target EXCEPT !.frame = n] \in TargetType
    BY DEF TypeOK, TargetType
  <2>3. target' \in TargetType
    BY <2>1, <2>2 DEF MakeNotCurrent
  <2>4. vout' \in VoutType
    BY Updates DEF MakeNotCurrent
  <2>. QED
    BY <2>1, <2>2, <2>3, <2>4 DEF TypeOK, MakeNotCurrent, FencesAfterPublish, FenceCleared,
       voutVars, frameVars, mainVars
<1>2. FencesDeletedOnce' /\ FrameFollowed'
  BY Fields DEF IInv, TypeOK, FencesDeletedOnce, FrameFollowed, MakeNotCurrent,
     FencesAfterPublish, FenceCleared, voutVars, frameVars, mainVars
<1>3. ClosesAtRest' /\ SizesFit'
  BY Fields DEF IInv, ClosesAtRest, Preparing, SizesFit, MakeNotCurrent, FencesAfterPublish,
     FenceCleared, MutexFree, voutVars, frameVars, mainVars
<1>4. AskedOrApplied' /\ RendersAsAsked'
  BY Fields DEF IInv, ClosesAtRest, Preparing, SizesFit, AskedOrApplied, RendersAsAsked,
     MakeNotCurrent, FencesAfterPublish, FenceCleared, voutVars, frameVars, mainVars
<1>. QED
  BY <1>1, <1>2, <1>3, <1>4 DEF IInv

\* videoResize() stores what differs from what VLC has, ...
LEMMA ResizeKeeps ==
    ASSUME IInv, NEW size \in Sizes, NEW format \in Formats, VideoResize(size, format)
    PROVE  IInv'
<1>. TypeOK /\ size \in Nat \ {0}
  BY VideoAssumption DEF IInv
<1>1. /\ vout.at = "idle" /\ ~flags.closing /\ (plan.calm => resize.state = "Idle")
      /\ vout' \in VoutType /\ vout'.size = size /\ vout'.format = format
      /\ resize' \in ResizeType /\ resize'.state = resize.state
      /\ \/ /\ vout'.at = "resizing" /\ resize'.size = size /\ resize'.format = format
         \/ /\ vout'.at = "idle" /\ UNCHANGED resize
            /\ size = render /\ format = resize.format
  <2>1. vout.at = "idle" /\ ~flags.closing /\ (plan.calm => resize.state = "Idle")
    BY DEF VideoResize
  <2>2. CASE Differs(size, format)
    <3>1. /\ vout' = [at |-> "resizing", size |-> size, format |-> format]
          /\ resize' = [resize EXCEPT !.size = size, !.format = format]
      BY <2>2 DEF VideoResize
    <3>. QED
      BY <2>1, <3>1 DEF TypeOK, VoutType, ResizeType
  <2>3. CASE ~Differs(size, format)
    <3>1. vout' = [at |-> "idle", size |-> size, format |-> format] /\ UNCHANGED resize
      BY <2>3 DEF VideoResize
    <3>2. size = render /\ format = resize.format
      BY <2>3 DEF Differs
    <3>. QED
      BY <2>1, <3>1, <3>2 DEF TypeOK, VoutType
  <2>. QED
    BY <2>2, <2>3
<1>2. /\ UNCHANGED << plan, sessions, render, target, frameVars, flags, exposed, mainVars >>
      /\ resizes' \in Nat
  BY DEF VideoResize, TypeOK
<1>3. TypeOK'
  BY <1>1, <1>2 DEF TypeOK, frameVars, mainVars
<1>4. FencesDeletedOnce' /\ FrameFollowed'
  BY <1>2 DEF IInv, FencesDeletedOnce, FrameFollowed, frameVars
<1>5. ClosesAtRest' /\ SizesFit'
  BY <1>1, <1>2 DEF IInv, ClosesAtRest, Preparing, SizesFit, frameVars, mainVars
<1>6. AskedOrApplied'
  BY <1>1, <1>2, Fields DEF IInv, ClosesAtRest, AskedOrApplied, Preparing, mainVars
<1>7. RendersAsAsked'
  BY <1>1 DEF RendersAsAsked
<1>. QED
  BY <1>3, <1>4, <1>5, <1>6, <1>7 DEF IInv

\* ... and requests it.
LEMMA RequestKeeps == IInv /\ RequestResize => IInv'
<1>. SUFFICES ASSUME IInv, RequestResize PROVE IInv'
  OBVIOUS
<1>. TypeOK
  BY DEF IInv
<1>1. /\ vout.at = "resizing" /\ vout'.at = "idle" /\ vout' \in VoutType
      /\ vout'.size = vout.size /\ vout'.format = vout.format
      /\ resize' \in ResizeType /\ resize'.state = "Requested"
      /\ resize'.size = resize.size /\ resize'.format = resize.format
      /\ UNCHANGED << plan, resizes, sessions, render, target, frameVars, flags, exposed, mainVars >>
  BY DEF RequestResize, TypeOK, VoutType, ResizeType
<1>2. TypeOK' /\ FencesDeletedOnce' /\ FrameFollowed'
  BY <1>1 DEF IInv, TypeOK, FencesDeletedOnce, FrameFollowed, frameVars, mainVars
<1>3. ClosesAtRest' /\ SizesFit'
  BY <1>1 DEF IInv, ClosesAtRest, Preparing, SizesFit, frameVars, mainVars
<1>4. AskedOrApplied' /\ RendersAsAsked'
  BY <1>1, Fields DEF IInv, ClosesAtRest, AskedOrApplied, Preparing, RendersAsAsked, mainVars
<1>. QED
  BY <1>2, <1>3, <1>4 DEF IInv

\* make_current(true) applies what was asked for; make_current(true) of the clean-up, too,
\* but allocates nothing.
LEMMA MakeCurrentKeeps ==
    ASSUME IInv, MakeCurrent
    PROVE  IInv'
<1>. TypeOK /\ FencesDeletedOnce /\ AppliesResize
  BY DEF IInv, MakeCurrent
<1>1. /\ render' \in Sizes \cup {0} /\ target' \in TargetType
      /\ resize' = [resize EXCEPT !.state = "Idle"]
      /\ flags' \in FlagsType /\ flags'.closing = flags.closing
      /\ target'.size >= target.size
      /\ \/ UNCHANGED << target, fence, live >>
         \/ /\ target'.frame = 0 /\ fence' = 0 /\ live' \subseteq live
            /\ ~plan.hung => live' = {}
      /\ IF resize.state = "Requested" /\ resize.size > 0
         THEN /\ render' = resize.size
              /\ ~flags.closing => target'.size >= render' /\ target'.format = resize.format
         ELSE UNCHANGED << render, target >>
  BY AppliedTyped
<1>2. resize' \in ResizeType /\ resize'.format = resize.format /\ resize'.state = "Idle"
  BY <1>1 DEF TypeOK, ResizeType
<1>3. /\ vout' \in VoutType /\ vout'.size = vout.size /\ vout'.format = vout.format
      /\ \/ vout.at = "idle" /\ vout.size # 0 /\ vout'.at = "current"
         \/ vout.at = "none" /\ flags.closing /\ vout'.at = "cleaning"
  BY DEF MakeCurrent, TypeOK, VoutType
<1>4. /\ UNCHANGED << plan, resizes, sessions, published, swapped, gpu, ordered, exposed, main, startup >>
      /\ main.at # "sampling"
  BY DEF MakeCurrent, MutexFree, mainVars
<1>. /\ target'.size \in Nat /\ render' \in Nat
     /\ target'.frame \in Nat
  BY <1>1, SizesNatural DEF TargetType
<1>5. TypeOK'
  BY <1>1, <1>2, <1>3, <1>4 DEF TypeOK
<1>6. FencesDeletedOnce' /\ FrameFollowed'
  BY <1>1, <1>4, Fields DEF IInv, TypeOK, FencesDeletedOnce, FrameFollowed
<1>7. ClosesAtRest' /\ SizesFit'
  BY <1>1, <1>3, <1>4, Fields DEF IInv, ClosesAtRest, Preparing, SizesFit
<1>8. AskedOrApplied' /\ RendersAsAsked'
  <2>1. CASE flags.closing
    BY <2>1, <1>1, <1>3, <1>4 DEF IInv, ClosesAtRest, Preparing, AskedOrApplied, RendersAsAsked
  <2>2. CASE ~flags.closing
    <3>1. vout.at = "idle" /\ vout.size # 0 /\ vout'.at = "current"
      BY <2>2, <1>3
    <3>2. ASSUME ~plan.hung, render' > 0, ~Preparing PROVE target'.format = resize'.format
      <4>1. CASE resize.state = "Requested" /\ resize.size > 0
        BY <4>1, <2>2, <1>1, <1>2
      <4>2. CASE resize.state = "Idle"
        BY <4>2, <2>2, <3>1, <3>2, <1>1, <1>2 DEF IInv, AskedOrApplied
      <4>3. ~(resize.state = "Requested" /\ resize.size = 0)
        BY <3>2 DEF IInv, AskedOrApplied
      <4>. QED
        BY <4>1, <4>2, <4>3, Fields
    <3>3. ASSUME ~plan.hung, plan.calm
          PROVE  render' = vout'.size /\ resize'.format = vout'.format
      BY <3>1, <3>3, <1>1, <1>2, <1>3, Fields DEF IInv, AskedOrApplied
    <3>4. ~plan.hung => ~Preparing /\ ~Preparing'
      BY <3>1, <1>4 DEF IInv, ClosesAtRest, Preparing
    <3>5. AskedOrApplied'
      <4>. SUFFICES ASSUME ~plan.hung PROVE AskedOrApplied'
        BY <1>4 DEF AskedOrApplied
      <4>. QED
        BY <3>1, <3>2, <3>3, <3>4, <1>2, <1>3, <1>4 DEF AskedOrApplied
    <3>6. RendersAsAsked'
      <4>. SUFFICES ASSUME ~plan.hung, plan.calm PROVE RendersAsAsked'
        BY <1>4 DEF RendersAsAsked
      <4>1. vout.size \in Nat /\ vout.size > 0
        BY <3>1, Fields
      <4>2. render' <= target'.size
        BY <3>4, <1>1, <1>4, <1>7, <2>2 DEF SizesFit
      <4>. QED
        BY <3>2, <3>3, <3>4, <4>1, <4>2, <1>2, <1>3 DEF RendersAsAsked
    <3>. QED
      BY <3>5, <3>6
  <2>. QED
    BY <2>1, <2>2
<1>. QED
  BY <1>5, <1>6, <1>7, <1>8 DEF IInv

\* Startup stores the size, ...
LEMMA PrepareStartupKeeps ==
    ASSUME IInv, NEW size \in Sizes, PrepareStartup(size)
    PROVE  IInv'
<1>. /\ TypeOK /\ resize.format \in Formats /\ size \in Nat \ {0}
  BY Fields, VideoAssumption DEF IInv
<1>1. /\ ~flags.closing /\ main.at = "idle" /\ (plan.hung \/ vout.at = "none")
      /\ UNCHANGED << plan, resizes, sessions, vout, resize, target, frameVars, flags, exposed >>
      /\ render' = size /\ main' = [main EXCEPT !.at = "preparing"]
      /\ startup' = [size |-> size, format |-> resize.format, fence |-> 0]
  BY DEF PrepareStartup, VideoGone
<1>2. main' \in MainType /\ main'.at = "preparing" /\ main'.state = main.state
  BY <1>1, Updates DEF TypeOK, MainType
<1>3. /\ startup' \in StartupType
      /\ startup'.size = size /\ startup'.format = resize.format
  BY <1>1 DEF StartupType
<1>4. TypeOK'
  BY <1>1, <1>2, <1>3 DEF TypeOK, frameVars
<1>5. FencesDeletedOnce' /\ FrameFollowed'
  BY <1>1 DEF IInv, FencesDeletedOnce, FrameFollowed, frameVars
<1>6. ClosesAtRest' /\ SizesFit'
  BY <1>1, <1>2, <1>3 DEF IInv, ClosesAtRest, Preparing, SizesFit, frameVars
<1>7. AskedOrApplied' /\ RendersAsAsked'
  BY <1>1, <1>2, <1>3 DEF IInv, AskedOrApplied, Preparing, RendersAsAsked
<1>. QED
  BY <1>4, <1>5, <1>6, <1>7 DEF IInv

\* The end of startup, which may enlarge the exposed texture.
LEMMA StartupEnded ==
    ASSUME TypeOK, StartupEnds
    PROVE  /\ main' = AtRest /\ main' \in MainType
           /\ startup' \in StartupType
           /\ startup'.format = startup.format
           /\ exposed' \in ExposedType
           /\ flags' \in FlagsType /\ flags'.closing = flags.closing
           /\ flags'.dirty /\ flags'.received = flags.received
<1>1. [frame |-> 0, size |-> startup.size] \in ExposedType
  BY Fields DEF ExposedType
<1>2. startup' \in StartupType /\ startup'.format = startup.format
  BY DEF StartupEnds, TypeOK, StartupType
<1>. QED
  BY <1>1, <1>2, Updates DEF StartupEnds, TypeOK, FlagsType

\* ... looks at the texture and the fence, ...
LEMMA StartupLooksKeeps == IInv /\ StartupLooks => IInv'
<1>. SUFFICES ASSUME IInv, StartupLooks PROVE IInv'
  OBVIOUS
<1>. TypeOK
  BY DEF IInv
<1>1. /\ main.at = "preparing" /\ Preparing
      /\ UNCHANGED << plan, resizes, sessions, vout, resize, render, target, frameVars >>
  BY DEF StartupLooks, Preparing, voutVars
<1>2. FencesDeletedOnce' /\ FrameFollowed'
  BY <1>1 DEF IInv, FencesDeletedOnce, FrameFollowed, frameVars
<1>3. CASE TooSmall(startup.size, startup.format)
  <2>1. /\ main' = [main EXCEPT !.at = "replacing"] /\ UNCHANGED << exposed, flags >>
        /\ startup' = [startup EXCEPT !.fence = fence]
    BY <1>3 DEF StartupLooks
  <2>2. /\ main' \in MainType /\ main'.at = "replacing" /\ main'.state = main.state
        /\ startup' \in StartupType /\ startup'.fence = fence
        /\ startup'.size = startup.size /\ startup'.format = startup.format
    BY <2>1, Updates DEF TypeOK, MainType, StartupType
  <2>3. TypeOK'
    BY <1>1, <2>1, <2>2 DEF TypeOK, frameVars
  <2>4. ClosesAtRest' /\ SizesFit'
    BY <1>1, <2>1, <2>2 DEF IInv, ClosesAtRest, Preparing, SizesFit, frameVars
  <2>5. AskedOrApplied' /\ RendersAsAsked'
    BY <1>1, <2>1, <2>2 DEF IInv, AskedOrApplied, Preparing, RendersAsAsked
  <2>. QED
    BY <1>2, <2>3, <2>4, <2>5 DEF IInv
<1>4. CASE ~TooSmall(startup.size, startup.format)
  <2>1. StartupEnds
    BY <1>4 DEF StartupLooks
  <2>2. TypeOK'
    BY <1>1, <2>1, StartupEnded DEF TypeOK, frameVars
  <2>3. startup.size <= target.size /\ startup.format = target.format
    BY <1>4, Fields DEF TooSmall
  <2>4. ClosesAtRest' /\ SizesFit'
    BY <1>1, <2>1, <2>3, StartupEnded, Fields
    DEF IInv, ClosesAtRest, Preparing, SizesFit, AtRest, NoState
  <2>5. AskedOrApplied' /\ RendersAsAsked'
    BY <1>1, <2>1, <2>3, StartupEnded
    DEF IInv, ClosesAtRest, AskedOrApplied, Preparing, RendersAsAsked, AtRest
  <2>. QED
    BY <1>2, <2>2, <2>4, <2>5 DEF IInv
<1>. QED
  BY <1>3, <1>4

\* ... and replaces them; the fence it deletes is the one it has looked at.
LEMMA StartupReplacesKeeps == IInv /\ StartupReplaces => IInv'
<1>. SUFFICES ASSUME IInv, StartupReplaces PROVE IInv'
  OBVIOUS
<1>. TypeOK
  BY DEF IInv
<1>1. /\ main.at = "replacing" /\ Preparing /\ StartupEnds
      /\ target' = [size |-> Capacity(startup.size), format |-> startup.format, frame |-> 0]
      /\ fence' = IF startup.fence = 0 THEN fence ELSE 0
      /\ live' = live \ {startup.fence}
      /\ UNCHANGED << plan, resizes, sessions, vout, resize, render, published, swapped, gpu, ordered >>
  BY DEF StartupReplaces, Preparing, FenceCleared
<1>2. /\ target' \in TargetType
      /\ target'.size >= startup.size /\ target'.size >= target.size /\ target'.size \in Nat
      /\ target'.frame = 0 /\ target'.format = startup.format
  <2>1. /\ Capacity(startup.size) \in Sizes \cup {0} /\ Capacity(startup.size) \in Nat
        /\ Capacity(startup.size) >= startup.size /\ Capacity(startup.size) >= target.size
    BY Fields DEF Capacity
  <2>. QED
    BY <1>1, <2>1, Fields DEF TargetType
<1>3. TypeOK'
  BY <1>1, <1>2, StartupEnded DEF TypeOK
<1>4. FencesDeletedOnce' /\ FrameFollowed'
  <2>1. FencesDeletedOnce'
    <3>. SUFFICES ASSUME ~plan.hung PROVE FencesDeletedOnce'
      BY <1>1 DEF FencesDeletedOnce
    <3>1. startup.fence = fence /\ live = IF fence = 0 THEN {} ELSE {fence}
      BY <1>1 DEF IInv, ClosesAtRest, FencesDeletedOnce
    <3>. QED
      BY <1>1, <3>1 DEF FencesDeletedOnce
  <2>2. FrameFollowed'
    BY <1>1, <1>2 DEF FrameFollowed, TypeOK
  <2>. QED
    BY <2>1, <2>2
<1>5. ClosesAtRest' /\ SizesFit'
  BY <1>1, <1>2, StartupEnded, Fields DEF IInv, ClosesAtRest, Preparing, SizesFit, AtRest,
     NoState
<1>6. AskedOrApplied' /\ RendersAsAsked'
  BY <1>1, <1>2, StartupEnded DEF IInv, ClosesAtRest, AskedOrApplied, Preparing,
     RendersAsAsked, AtRest
<1>. QED
  BY <1>3, <1>4, <1>5, <1>6 DEF IInv

\* Under the lock a frame is drawn or copied, if there is one, after its fence.
LEMMA RefreshKeeps ==
    ASSUME IInv, Refresh
    PROVE  IInv'
<1>. TypeOK /\ FencesDeletedOnce /\ FrameFollowed /\ ~flags.closing
  BY DEF IInv, ClosesAtRest, Preparing, Refresh
<1>1. /\ RefreshLocked /\ main.at = "refresh"
      /\ UNCHANGED << plan, resizes, sessions, vout, resize, render, target, flags, startup >>
  BY DEF Refresh, voutVars
<1>2. /\ main' \in MainType /\ main'.at \in {"idle", "sampling"}
      /\ main'.state \in {main.state, NoState}
      /\ main'.at = "idle" => main'.state = NoState
      /\ main'.at = "sampling" => fence' = 0
      /\ exposed' \in ExposedType
      /\ fence' \in Nat /\ live' \subseteq Nat
      /\ published' \in Nat /\ swapped' \in Nat /\ gpu' \in Nat /\ ordered' \in Nat
      /\ FencesDeletedOnce' /\ FrameFollowed'
  BY <1>1, RefreshedLocked
<1>4. TypeOK'
  BY <1>1, <1>2 DEF TypeOK
<1>5. ClosesAtRest' /\ SizesFit'
  BY <1>1, <1>2, Fields DEF IInv, ClosesAtRest, Preparing, SizesFit, NoState
<1>6. AskedOrApplied' /\ RendersAsAsked'
  BY <1>1, <1>2 DEF IInv, AskedOrApplied, Preparing, RendersAsAsked
<1>. QED
  BY <1>2, <1>4, <1>5, <1>6 DEF IInv

\* The same for drawCurrentFrame(), with or without the shader.
LEMMA DrawCurrentFrameKeeps ==
    ASSUME IInv, DrawCurrentFrame
    PROVE  IInv'
<1>. TypeOK /\ FencesDeletedOnce /\ FrameFollowed /\ ~flags.closing
  BY DEF IInv, ClosesAtRest, Preparing, DrawCurrentFrame
<1>1. /\ UNCHANGED << plan, resizes, sessions, vout, resize, render, target, startup >>
      /\ main.at = "draw"
  BY DEF DrawCurrentFrame, voutVars
<1>2. flags' \in FlagsType /\ flags'.closing = flags.closing
  BY DEF DrawCurrentFrame, RefreshLocked, TypeOK, FlagsType
<1>3. /\ main' \in MainType /\ main'.at \in {"idle", "sampling"}
      /\ main'.state \in {main.state, NoState}
      /\ main'.at = "idle" => main'.state = NoState
      /\ main'.at = "sampling" => fence' = 0
      /\ exposed' \in ExposedType
      /\ fence' \in Nat /\ live' \subseteq Nat
      /\ published' \in Nat /\ swapped' \in Nat /\ gpu' \in Nat /\ ordered' \in Nat
      /\ FencesDeletedOnce' /\ FrameFollowed'
  <2>1. CASE main' = AtRest /\ UNCHANGED << frameVars, exposed >>
    BY <2>1, <1>1, Updates DEF AtRest, NoState, TypeOK, frameVars, FencesDeletedOnce,
       FrameFollowed
  <2>2. CASE WaitForFence /\ main' = [main EXCEPT !.at = "sampling"] /\ UNCHANGED exposed
    <3>1. /\ fence' = 0 /\ live' \subseteq Nat /\ (~plan.hung => live' = {}) /\ ordered' \in Nat
          /\ ~plan.fails => target.frame <= ordered'
          /\ UNCHANGED << published, swapped, gpu >>
      BY <2>2, <1>1, WaitFollows DEF WaitForFence
    <3>2. main' \in MainType /\ main'.at = "sampling" /\ main'.state = main.state
      BY <2>2, Updates DEF TypeOK, MainType
    <3>. QED
      BY <3>1, <3>2, <2>2, <1>1 DEF TypeOK, FencesDeletedOnce, FrameFollowed
  <2>3. CASE RefreshLocked
    BY <2>3, <1>1, RefreshedLocked
  <2>. QED
    BY <2>1, <2>2, <2>3 DEF DrawCurrentFrame
<1>5. TypeOK'
  BY <1>1, <1>2, <1>3 DEF TypeOK
<1>6. ClosesAtRest' /\ SizesFit'
  BY <1>1, <1>2, <1>3, Fields DEF IInv, ClosesAtRest, Preparing, SizesFit, NoState
<1>7. AskedOrApplied' /\ RendersAsAsked'
  BY <1>1, <1>2, <1>3 DEF IInv, AskedOrApplied, Preparing, RendersAsAsked
<1>. QED
  BY <1>3, <1>5, <1>6, <1>7 DEF IInv

-----------------------------------------------------------------------------
(* The theorems *)

\* Every step keeps the invariant.
LEMMA StepKeeps == IInv /\ [Next]_vars => IInv'
<1>. SUFFICES ASSUME IInv, [Next]_vars PROVE IInv'
  OBVIOUS
<1>1. CASE Next
  BY <1>1, VoutStartsKeeps, VoutEndsKeeps, MakeCurrentKeeps, PublishKeeps, SwapReceivedKeeps,
     SwapDirtyKeeps, ResizeKeeps, GpuKeeps, GetTextureKeeps, ReadStateKeeps, RefreshKeeps,
     DrawKeeps, DrawCurrentFrameKeeps, UnlockKeeps, ClearKeeps, ReleaseBeginsKeeps,
     ReleaseEndsKeeps, PrepareStartupKeeps, StartupLooksKeeps, StartupReplacesKeeps,
     SwapRefusedKeeps, RequestKeeps
  DEF Next
<1>2. CASE UNCHANGED vars
  BY <1>2 DEF vars, voutVars, frameVars, mainVars, IInv, TypeOK, FencesDeletedOnce,
     FrameFollowed,
     ClosesAtRest, Preparing, SizesFit, AskedOrApplied, RendersAsAsked
<1>. QED
  BY <1>1, <1>2

\* The inductive invariant.
THEOREM Inductive == Spec => []IInv
<1>. QED
  BY InitHolds, StepKeeps, PTL DEF Spec

\* The only fence alive is the published one (clearPublishedFrameFence, makeCurrent,
\* waitForPublishedFrameFence): none is leaked, none deleted twice.
THEOREM FencesAreDeletedOnce == Spec => []FencesDeletedOnce
<1>1. IInv => FencesDeletedOnce
  BY DEF IInv
<1>. QED
  BY <1>1, Inductive, PTL

\* The main thread samples a frame only after the GPU's work on it, unless a wait failed
\* (waitForPublishedFrameFenceLocked).
THEOREM FinishedFrameIsSampled == Spec => []SamplesFinishedFrame
<1>1. IInv => SamplesFinishedFrame
  BY DEF IInv, ClosesAtRest, Preparing, FrameFollowed, SamplesFinishedFrame
<1>. QED
  BY <1>1, Inductive, PTL

\* What is sampled lies inside the texture (draw, ensureVideoRenderTargetCapacity): a size
\* read before the lock stays good because textures only grow while the main thread draws.
THEOREM SampledInsideTexture == Spec => []SamplesInsideTexture
<1>1. IInv => SamplesInsideTexture
  BY DEF IInv, SizesFit, Preparing, SamplesInsideTexture
<1>. QED
  BY <1>1, Inductive, PTL

\* VLC renders at the size and in the format it last asked for (videoResize,
\* applyPendingVideoResize), if it renders between two changes.
THEOREM RenderedAsAsked == Spec => []RendersAsAsked
<1>1. IInv => RendersAsAsked
  BY DEF IInv
<1>. QED
  BY <1>1, Inductive, PTL

-----------------------------------------------------------------------------
(* The exposed texture *)

\* A frame is in the texture before it is swapped; what has been published and not yet
\* swapped is there, unless its texture is gone.
FramesOrdered ==
    /\ swapped <= published /\ target.frame <= published
    /\ target.size = 0 => target.frame = 0
    /\ vout.at \in {"released", "received"} =>
          swapped < published /\ target.frame \in {0, published}
    /\ ~flags.dirty => render <= target.size \/ Preparing

\* What ExposedIsLatest promises an application.
ShowsLatest ==
    \/ exposed = [frame |-> target.frame, size |-> render]
    \/ target.frame > swapped

\* The copy is up to date or the flag is up, also while the copy is being finished and when
\* the first frame is about to be swapped; a state that was read before the copy and is
\* stale by now has its flag up, or soon.
Latest ==
    plan.user = "texture" =>
        /\ main.at # "draw"
        /\ /\ main.at \in {"idle", "sampling"} /\ ~flags.dirty /\ render > 0
           /\ flags.received \/ vout.at = "released"
           => ShowsLatest
        /\ main.at = "refresh" =>
              /\ main.state.size # render => flags.dirty
              /\ ~main.state.received /\ flags.received => flags.dirty \/ vout.at = "received"

\* The first frame has number 1, and nothing is shown.
LEMMA InitShown == Init => FramesOrdered /\ Latest
BY DEF Init, FramesOrdered, Latest, AtRest

\* The video output opens, closes, or finishes work that the main thread does not look at.
LEMMA VoutShown ==
    ASSUME IInv, FramesOrdered, Latest,
           VoutStarts \/ VoutEnds \/ GpuFinishes \/ SwapRefused \/ RequestResize
    PROVE  FramesOrdered' /\ Latest'
<1>. TypeOK
  BY DEF IInv
<1>1. CASE VoutStarts \/ VoutEnds
  <2>1. /\ vout'.at \in {"none", "idle"} /\ vout.at \in {"none", "idle"}
        /\ UNCHANGED << plan, render, target, flags, exposed, main, startup, published, swapped >>
    BY <1>1 DEF VoutStarts, VoutEnds, frameVars, mainVars, TypeOK, VoutType
  <2>. QED
    BY <2>1 DEF FramesOrdered, Latest, ShowsLatest, Preparing
<1>2. CASE SwapRefused \/ RequestResize
  <2>1. /\ vout'.at = "idle" /\ vout.at \in {"released", "resizing"}
        /\ UNCHANGED << plan, render, target, flags, exposed, main, startup, published, swapped >>
    BY <1>2 DEF SwapRefused, RequestResize, frameVars, mainVars, TypeOK, VoutType
  <2>. QED
    BY <2>1 DEF FramesOrdered, Latest, ShowsLatest, Preparing
<1>3. CASE GpuFinishes
  BY <1>3 DEF GpuFinishes, voutVars, mainVars, FramesOrdered, Latest, ShowsLatest, Preparing
<1>. QED
  BY <1>1, <1>2, <1>3

\* make_current(false): the frame published has not been swapped.
LEMMA PublishShown ==
    ASSUME IInv, FramesOrdered, Latest, MakeNotCurrent
    PROVE  FramesOrdered' /\ Latest'
<1>. TypeOK
  BY DEF IInv
<1>1. /\ UNCHANGED << plan, resize, render, swapped, flags, exposed, main, startup >>
      /\ published' = published + 1 /\ published \in Nat /\ swapped \in Nat
      /\ target'.size = target.size
      /\ target'.frame = IF target.size = 0 THEN 0 ELSE published + 1
      /\ vout.at \in {"current", "cleaning"} /\ vout'.size = vout.size
      /\ vout'.at = IF vout.at = "current" THEN "released" ELSE "none"
  BY DEF MakeNotCurrent, mainVars, TypeOK, VoutType, TargetType
<1>2. FramesOrdered'
  BY <1>1, Fields DEF FramesOrdered, Preparing
<1>3. Latest'
  <2>1. CASE target.size = 0
    BY <2>1, <1>1, Fields DEF FramesOrdered, Latest, Preparing
  <2>2. CASE target.size # 0
    BY <2>2, <1>1, Fields DEF FramesOrdered, Latest, ShowsLatest, Preparing
  <2>. QED
    BY <2>1, <2>2
<1>. QED
  BY <1>2, <1>3

\* videoSwap(): between its stores the frame is the last one and not yet swapped, ...
LEMMA SwapReceivedShown ==
    ASSUME IInv, FramesOrdered, Latest, SwapReceived
    PROVE  FramesOrdered' /\ Latest'
<1>. TypeOK
  BY DEF IInv
<1>1. /\ UNCHANGED << plan, resize, render, target, exposed, main, startup, swapped, published >>
      /\ published \in Nat /\ swapped \in Nat
      /\ vout.at = "released" /\ vout'.at = "received" /\ vout'.size = vout.size
      /\ flags'.dirty = flags.dirty
  BY DEF SwapReceived, frameVars, mainVars, TypeOK, VoutType, FlagsType
<1>. QED
  BY <1>1, Fields DEF FramesOrdered, Latest, ShowsLatest, Preparing

\* ... and after them the flag is up.
LEMMA SwapDirtyShown ==
    ASSUME IInv, FramesOrdered, Latest, SwapDirty
    PROVE  FramesOrdered' /\ Latest'
<1>. TypeOK
  BY DEF IInv
<1>1. /\ UNCHANGED << plan, resize, render, target, exposed, main, startup, published >>
      /\ swapped' = published /\ published \in Nat
      /\ vout.at = "received" /\ vout'.at = "idle" /\ vout'.size = vout.size
      /\ flags'.dirty
  BY DEF SwapDirty, frameVars, mainVars, TypeOK, VoutType, FlagsType
<1>. QED
  BY <1>1, Fields DEF FramesOrdered, Latest, Preparing

\* videoResize() stores what is not there.
LEMMA ResizeShown ==
    ASSUME IInv, FramesOrdered, Latest, NEW size \in Sizes, NEW format \in Formats,
           VideoResize(size, format)
    PROVE  FramesOrdered' /\ Latest'
<1>. TypeOK /\ size \in Nat \ {0}
  BY VideoAssumption DEF IInv
<1>1. /\ UNCHANGED << plan, render, target, exposed, main, flags, published, swapped >>
      /\ vout.at = "idle" /\ vout'.at \in {"idle", "resizing"}
  BY DEF VideoResize, frameVars, mainVars, TypeOK, VoutType
<1>. QED
  BY <1>1 DEF FramesOrdered, Latest, ShowsLatest, Preparing

\* make_current(true): what it changes of sizes and textures raises the flag.
LEMMA MakeCurrentShown ==
    ASSUME IInv, IInv', FramesOrdered, Latest, MakeCurrent
    PROVE  FramesOrdered' /\ Latest'
<1>. TypeOK /\ FencesDeletedOnce /\ AppliesResize /\ TypeOK'
  BY DEF IInv, MakeCurrent
<1>1. /\ UNCHANGED << plan, published, swapped, exposed, main, startup >>
      /\ \/ vout.at = "idle" /\ vout.size # 0 /\ vout'.at = "current"
         \/ vout.at = "none" /\ vout'.at = "cleaning"
      /\ vout'.size = vout.size /\ published \in Nat /\ swapped \in Nat
  BY DEF MakeCurrent, mainVars, TypeOK, VoutType
<1>2. /\ target'.size \in Nat /\ target'.frame \in Nat /\ render' \in Nat
      /\ target'.size >= target.size
      /\ UNCHANGED target \/ target'.frame = 0
  <2>1. target' \in TargetType /\ render' \in Sizes \cup {0}
    BY DEF TypeOK
  <2>. QED
    BY <2>1, AppliedTyped, SizesNatural DEF TargetType
<1>3. CASE resize.state = "Requested" /\ resize.size > 0
  <2>1. flags'.dirty /\ flags'.received = flags.received
    BY <1>3 DEF AppliesResize, TypeOK, FlagsType
  <2>2. FramesOrdered'
    BY <1>1, <1>2, <2>1, Fields DEF FramesOrdered
  <2>3. Latest'
    BY <1>1, <2>1 DEF Latest
  <2>. QED
    BY <2>2, <2>3
<1>4. CASE ~(resize.state = "Requested" /\ resize.size > 0)
  <2>1. UNCHANGED << render, target, flags >>
    BY <1>4 DEF AppliesResize
  <2>2. FramesOrdered'
    BY <1>1, <2>1 DEF FramesOrdered, Preparing
  <2>3. Latest'
    BY <1>1, <2>1 DEF Latest, ShowsLatest
  <2>. QED
    BY <2>2, <2>3
<1>. QED
  BY <1>3, <1>4

\* getTexture() takes the flag down before it reads the state.
LEMMA ReadShown ==
    ASSUME IInv, FramesOrdered, Latest, GetTexture \/ ReadState \/ Draw \/ Unlock
    PROVE  FramesOrdered' /\ Latest'
<1>. TypeOK
  BY DEF IInv
<1>1. CASE GetTexture
  <2>1. /\ UNCHANGED << plan, vout, resize, render, target, published, swapped >>
        /\ main.at = "idle" /\ main'.at = "exchanged" /\ ~flags.closing
    BY <1>1 DEF GetTexture, voutVars, frameVars, mainVars, TypeOK, MainType
  <2>. QED
    BY <2>1 DEF FramesOrdered, Latest, IInv, SizesFit, Preparing
<1>2. CASE ReadState
  <2>1. /\ UNCHANGED << plan, vout, resize, render, target, published, swapped, flags >>
        /\ main' = [at |-> "refresh", state |-> [size |-> render, received |-> flags.received]]
        /\ main.at = "exchanged"
    BY <1>2 DEF ReadState, StateInfo, voutVars, frameVars, mainVars
  <2>. QED
    BY <2>1 DEF FramesOrdered, Latest, Preparing
<1>3. CASE Draw
  BY <1>3 DEF Draw, voutVars, frameVars, FramesOrdered, Latest, Preparing
<1>4. CASE Unlock
  BY <1>4 DEF Unlock, AtRest, voutVars, frameVars, FramesOrdered, Latest, ShowsLatest, Preparing
<1>. QED
  BY <1>1, <1>2, <1>3, <1>4

\* refreshExposedTexture() copies the frame of the texture, at the size the state had.
LEMMA RefreshShown ==
    ASSUME IInv, FramesOrdered, Latest, Refresh
    PROVE  FramesOrdered' /\ Latest'
<1>. TypeOK
  BY DEF IInv
<1>1. /\ UNCHANGED << plan, vout, resize, render, target, flags >>
      /\ main.at = "refresh" /\ RefreshLocked
  BY DEF Refresh, voutVars
<1>2. UNCHANGED << published, swapped >>
  BY <1>1 DEF RefreshLocked, frameVars, WaitForFence
<1>3. FramesOrdered'
  BY <1>1, <1>2 DEF FramesOrdered, Preparing
<1>4. main'.at \in {"idle", "sampling"}
  BY <1>1 DEF RefreshLocked, AtRest, TypeOK, MainType
<1>5. ASSUME plan.user = "texture", ~flags.dirty, flags.received \/ vout.at = "released", render > 0
      PROVE  ShowsLatest'
  <2>1. main.state.size = render
    BY <1>1, <1>5 DEF Latest
  <2>2. target.size # 0
    BY <1>1, <1>5, Fields DEF FramesOrdered, Preparing
  <2>3. CASE ~main.state.received
    <3>1. vout.at \in {"released", "received"}
      BY <2>3, <1>1, <1>5 DEF Latest
    <3>2. swapped < published /\ target.frame \in {0, published}
      BY <3>1 DEF FramesOrdered
    <3>3. exposed' = [frame |-> 0, size |-> render]
      BY <2>1, <2>3, <1>1, <1>5, Fields DEF RefreshLocked
    <3>4. swapped' = swapped /\ target' = target /\ render' = render
      BY <1>1, <1>2
    <3>5. CASE target.frame = 0
      BY <3>3, <3>4, <3>5 DEF ShowsLatest
    <3>6. CASE target.frame = published
      BY <3>2, <3>4, <3>6 DEF ShowsLatest, TypeOK
    <3>. QED
      BY <3>2, <3>5, <3>6
  <2>4. CASE main.state.received
    BY <2>1, <2>2, <2>4, <1>1, <1>5 DEF RefreshLocked, ShowsLatest
  <2>. QED
    BY <2>3, <2>4
<1>. QED
  BY <1>1, <1>3, <1>4, <1>5 DEF Latest

\* drawCurrentFrame() is not for such an application.
LEMMA DrawCurrentFrameShown ==
    ASSUME IInv, IInv', FramesOrdered, Latest, DrawCurrentFrame
    PROVE  FramesOrdered' /\ Latest'
<1>. TypeOK
  BY DEF IInv
<1>1. /\ UNCHANGED << plan, vout, resize, render, target >>
      /\ main.at = "draw" /\ flags'.closing = flags.closing
  BY DEF DrawCurrentFrame, voutVars, TypeOK, FlagsType
<1>2. UNCHANGED << published, swapped >>
  BY DEF DrawCurrentFrame, RefreshLocked, frameVars, WaitForFence
<1>3. render <= target.size
  BY <1>1 DEF IInv, ClosesAtRest, Preparing, SizesFit
<1>4. FramesOrdered'
  BY <1>1, <1>2, <1>3 DEF FramesOrdered
<1>. QED
  BY <1>1, <1>4 DEF Latest

\* The media is cleared, and the objects deleted, with the flag up.
LEMMA MediaShown ==
    ASSUME IInv, FramesOrdered, Latest, ClearCurrentMedia \/ ReleaseBegins \/ ReleaseEnds
    PROVE  FramesOrdered' /\ Latest'
<1>. TypeOK
  BY DEF IInv
<1>. published \in Nat /\ swapped \in Nat
  BY DEF TypeOK
<1>1. CASE ClearCurrentMedia
  <2>1. /\ UNCHANGED << plan, vout, target, published, swapped, main >>
        /\ flags'.dirty /\ main.at = "idle"
    BY <1>1 DEF ClearCurrentMedia, frameVars, mainVars, TypeOK, FlagsType
  <2>. QED
    BY <2>1 DEF FramesOrdered, Latest
<1>2. CASE ReleaseBegins
  <2>1. /\ UNCHANGED << plan, vout, render, target, published, swapped, main, startup, exposed >>
        /\ flags'.dirty = flags.dirty /\ flags'.received = flags.received
    BY <1>2 DEF ReleaseBegins, voutVars, frameVars, mainVars, TypeOK, FlagsType
  <2>. QED
    BY <2>1 DEF FramesOrdered, Latest, ShowsLatest, Preparing
<1>3. CASE ReleaseEnds
  <2>1. /\ UNCHANGED << plan, vout, published, swapped, main >>
        /\ flags'.dirty /\ vout.at = "none" /\ main.at = "idle"
        /\ UNCHANGED target \/ (target'.size = 0 /\ target'.frame = 0)
    BY <1>3 DEF ReleaseEnds, mainVars, TypeOK, TargetType, IInv, ClosesAtRest
  <2>. QED
    BY <2>1, Fields DEF FramesOrdered, Latest
<1>. QED
  BY <1>1, <1>2, <1>3

\* Startup ends with the flag up, and a new texture is blank.
LEMMA StartupShown ==
    ASSUME IInv, FramesOrdered, Latest, NEW size \in Sizes,
           PrepareStartup(size) \/ StartupLooks \/ StartupReplaces
    PROVE  FramesOrdered' /\ Latest'
<1>. TypeOK
  BY DEF IInv
<1>. published \in Nat /\ swapped \in Nat
  BY DEF TypeOK
<1>1. CASE PrepareStartup(size)
  <2>1. /\ UNCHANGED << plan, vout, target, published, swapped, flags >>
        /\ main'.at = "preparing"
    BY <1>1 DEF PrepareStartup, frameVars, TypeOK, MainType
  <2>. QED
    BY <2>1 DEF FramesOrdered, Latest, Preparing
<1>2. CASE StartupLooks
  <2>1. /\ UNCHANGED << plan, vout, render, target, published, swapped >>
        /\ \/ main'.at = "replacing"
           \/ main' = AtRest /\ flags'.dirty
    BY <1>2, StartupEnded DEF StartupLooks, voutVars, frameVars, TypeOK, MainType
  <2>. QED
    BY <2>1 DEF FramesOrdered, Latest, Preparing, AtRest
<1>3. CASE StartupReplaces
  <2>1. /\ UNCHANGED << plan, vout, published, swapped >>
        /\ target'.frame = 0 /\ main' = AtRest /\ flags'.dirty
    BY <1>3, StartupEnded DEF StartupReplaces
  <2>. QED
    BY <2>1 DEF FramesOrdered, Latest, AtRest
<1>. QED
  BY <1>1, <1>2, <1>3

\* Every step keeps what is shown up to date, or the flag up.
LEMMA StepShown == IInv /\ IInv' /\ FramesOrdered /\ Latest /\ [Next]_vars => FramesOrdered' /\ Latest'
<1>. SUFFICES ASSUME IInv, IInv', FramesOrdered, Latest, [Next]_vars PROVE FramesOrdered' /\ Latest'
  OBVIOUS
<1>. \E size \in Sizes : TRUE
  BY VideoAssumption
<1>1. CASE Next
  BY <1>1, VoutShown, PublishShown, SwapReceivedShown, SwapDirtyShown, ResizeShown,
     MakeCurrentShown, ReadShown, RefreshShown, DrawCurrentFrameShown, MediaShown, StartupShown
  DEF Next
<1>2. CASE UNCHANGED vars
  BY <1>2 DEF vars, voutVars, frameVars, mainVars, FramesOrdered, Latest, ShowsLatest, Preparing
<1>. QED
  BY <1>1, <1>2

\* An application that shows getTexture() misses no frame: with the dirty flag down the
\* exposed texture is the last frame swapped, at its size (getTexture, videoSwap,
\* applyPendingVideoResize), though state and frame are read in two steps.
THEOREM LatestIsExposed == Spec => []ExposedIsLatest
<1>1. Init => FramesOrdered /\ Latest
  BY InitShown
<1>2. FramesOrdered /\ Latest => ExposedIsLatest
  BY DEF Latest, ShowsLatest, ExposedIsLatest
<1>. QED
  BY <1>1, <1>2, StepShown, Inductive, PTL DEF Spec

=============================================================================
