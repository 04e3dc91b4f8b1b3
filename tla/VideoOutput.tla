----------------------------- MODULE VideoOutput -----------------------------
(***************************************************************************)
(* The OpenGL texture output of VideoComponent: libVLC's video thread      *)
(* renders into one texture that the main thread draws, or copies into the *)
(* exposed texture.                                                        *)
(*                                                                         *)
(* What the two threads share is the texture, the fence of the frame last  *)
(* published, and flags.  videoMutex makes each of the video thread's      *)
(* make_current callbacks one step; the main thread holds it while it      *)
(* draws, but reads the sizes, and getTexture() the dirty flag, before.    *)
(* The GPU finishes frames in its own time.  Startup takes no lock, and in *)
(* a plan with `hung` neither it nor the clearing of the media nor the     *)
(* release finds the video thread gone: the code waits a bounded time.     *)
(*                                                                         *)
(* A size stands for a width and a height, 0 for none; a frame is the      *)
(* number of its publication, 0 is a blank texture.                        *)
(***************************************************************************)
EXTENDS Integers, FiniteSets

CONSTANTS
    Sizes,    \* sizes that VLC may ask for
    Formats,  \* GL pixel formats, one per bit depth
    Plans     \* a behaviour follows one: a subset of PlanType

\* user: what the application shows, the drawn frame, the drawn frame with shader
\* adjustments, or the texture of getTexture().
PlanType ==
    [user : {"draw", "shader", "texture"},
     frames : Nat, resizes : Nat, sessions : Nat,   \* bounds
     calm : BOOLEAN,    \* VLC renders between two changes of size
     fails : BOOLEAN,   \* a wait for a fence may fail
     hung : BOOLEAN]    \* the video outlives the waits for the player to stop

ASSUME VideoAssumption ==
    /\ Sizes # {} /\ Sizes \subseteq Nat \ {0}
    /\ Formats # {}
    /\ Plans # {} /\ Plans \subseteq PlanType

VARIABLES
    plan, resizes, sessions,
    vout,      \* the video thread: where it is, and what it last asked for
    resize,    \* resizeState, pendingRenderWidth and -Height, pendingGlPixelFormat
    render,    \* renderWidth and renderHeight
    target,    \* videoTexture: its size and format, and the frame it holds
    fence,     \* publishedVideoFrameFence: the frame it follows, or 0
    live,      \* the fences that exist
    published, swapped,  \* frames so far
    gpu,       \* frames the GPU has finished
    ordered,   \* the frame the main thread's commands are known to follow
    flags,     \* exposedTextureDirty, hasReceivedVideoFrame, shuttingDown
    exposed,   \* exposedTextureFbo: the frame and the size last copied into it
    main,      \* the main thread: where it is, and the VideoStateInfo it holds
    startup    \* what prepareStartupVideoResources() was asked for and has read

voutVars == << vout, resize, render, target >>
frameVars == << fence, live, published, swapped, gpu, ordered >>
mainVars == << main, startup >>
vars == << plan, resizes, sessions, voutVars, frameVars, flags, exposed, mainVars >>

NoState == [size |-> 0, received |-> FALSE]
AtRest == [at |-> "idle", state |-> NoState]

VoutType == [at : {"none", "idle", "resizing", "current", "released", "received", "cleaning"},
             size : Sizes \cup {0}, format : Formats]
ResizeType == [state : {"Idle", "Requested"}, size : Sizes \cup {0}, format : Formats]
TargetType == [size : Sizes \cup {0}, format : Formats, frame : Nat]
FlagsType == [dirty : BOOLEAN, received : BOOLEAN, closing : BOOLEAN]
ExposedType == [frame : Nat, size : Sizes \cup {0}]
StateType == [size : Sizes \cup {0}, received : BOOLEAN]
MainType == [at : {"idle", "exchanged", "refresh", "draw", "sampling", "preparing", "replacing"},
             state : StateType]
StartupType == [size : Sizes \cup {0}, format : Formats, fence : Nat]

TypeOK ==
    /\ plan \in Plans /\ resizes \in Nat /\ sessions \in Nat
    /\ vout \in VoutType /\ resize \in ResizeType /\ target \in TargetType
    /\ render \in Sizes \cup {0}
    /\ fence \in Nat /\ live \subseteq Nat
    /\ published \in Nat /\ swapped \in Nat /\ gpu \in Nat /\ ordered \in Nat
    /\ flags \in FlagsType /\ exposed \in ExposedType /\ main \in MainType
    /\ startup \in StartupType

Init ==
    /\ plan \in Plans /\ resizes = 0 /\ sessions = 0
    /\ \E f \in Formats :
          /\ vout = [at |-> "none", size |-> 0, format |-> f]
          /\ resize = [state |-> "Idle", size |-> 0, format |-> f]
          /\ target = [size |-> 0, format |-> f, frame |-> 0]
          /\ startup = [size |-> 0, format |-> f, fence |-> 0]
    /\ render = 0
    /\ fence = 0 /\ live = {} /\ published = 0 /\ swapped = 0 /\ gpu = 0 /\ ordered = 0
    /\ flags = [dirty |-> TRUE, received |-> FALSE, closing |-> FALSE]
    /\ exposed = [frame |-> 0, size |-> 0]
    /\ main = AtRest

\* The main thread is not inside videoMutex.
MutexFree == main.at # "sampling"

\* It is inside prepareStartupVideoResources(), without the mutex.
Preparing == main.at \in {"preparing", "replacing"}

\* No video of the media that was played before, or nobody waited long enough for its end.
VideoGone == plan.hung \/ vout.at = "none"

-----------------------------------------------------------------------------
(* The published fence *)

\* clearPublishedFrameFenceLocked(), on a thread with a GL context
FenceCleared(f) == live \ {f}

\* A plausible bug: the frame that timed out is drawn without the GPU's own wait.
FollowedAfterWait_NotOnTimeout(outcome) ==
    IF outcome = "signaled" /\ fence # 0 THEN fence ELSE ordered

\* waitForPublishedFrameFenceLocked(): three waits, and if all time out the GPU waits.
FollowedAfterWait(outcome) ==
    IF outcome # "failed" /\ fence # 0 THEN fence ELSE ordered

Outcomes ==
    {o \in {"signaled", "expired", "failed"} :
        /\ o = "signaled" => fence <= gpu
        /\ o = "expired" => fence > gpu
        /\ o = "failed" => plan.fails /\ fence # 0}

WaitForFence ==
    /\ \E outcome \in Outcomes : ordered' = FollowedAfterWait(outcome)
    /\ fence' = 0 /\ live' = FenceCleared(fence)
    /\ UNCHANGED << published, swapped, gpu >>

-----------------------------------------------------------------------------
(* The video thread *)

VoutStarts ==
    /\ vout.at = "none" /\ ~flags.closing /\ (Preparing => plan.hung)
    /\ vout' = [vout EXCEPT !.at = "idle", !.size = 0]
    /\ UNCHANGED << plan, resizes, sessions, resize, render, target, frameVars, flags, exposed, mainVars >>

VoutEnds ==
    /\ vout.at = "idle" /\ (plan.calm => resize.state = "Idle")
    /\ vout' = [vout EXCEPT !.at = "none"]
    /\ UNCHANGED << plan, resizes, sessions, resize, render, target, frameVars, flags, exposed, mainVars >>

\* A plausible bug: a change of the bit depth alone is not a change.
Differs_SizeOnly(size, format) == size # render
Differs(size, format) == size # render \/ format # resize.format

\* videoResize(): asked for while the video thread does not render.  The size is stored, ...
VideoResize(size, format) ==
    /\ vout.at = "idle" /\ ~flags.closing
    /\ resizes < plan.resizes /\ (plan.calm => resize.state = "Idle")
    /\ resizes' = resizes + 1
    /\ IF Differs(size, format)
       THEN /\ vout' = [at |-> "resizing", size |-> size, format |-> format]
            /\ resize' = [resize EXCEPT !.size = size, !.format = format]
       ELSE /\ vout' = [at |-> "idle", size |-> size, format |-> format]
            /\ UNCHANGED resize
    /\ UNCHANGED << plan, sessions, render, target, frameVars, flags, exposed, mainVars >>

\* ... then the request.
RequestResize ==
    /\ vout.at = "resizing"
    /\ vout' = [vout EXCEPT !.at = "idle"]
    /\ resize' = [resize EXCEPT !.state = "Requested"]
    /\ UNCHANGED << plan, resizes, sessions, render, target, frameVars, flags, exposed, mainVars >>

\* A plausible bug: the texture shrinks with the video, under a drawer that has read its size.
Capacity_AsRequired(size) == size
Capacity(size) == IF target.size > size THEN target.size ELSE size

TooSmall(size, format) == target.size = 0 \/ size > target.size \/ format # target.format

\* ensureVideoRenderTargetCapacity(): a new texture is blank, and its fence is gone.
EnsuredCapacity(size, format) ==
    IF flags.closing \/ ~TooSmall(size, format) THEN UNCHANGED << target, fence, live >>
    ELSE /\ target' = [size |-> Capacity(size), format |-> format, frame |-> 0]
         /\ fence' = 0 /\ live' = FenceCleared(fence)

\* applyPendingVideoResize()
AppliesResize ==
    /\ resize' = [resize EXCEPT !.state = "Idle"]
    /\ IF resize.state = "Requested" /\ resize.size > 0
       THEN /\ render' = resize.size
            /\ EnsuredCapacity(resize.size, resize.format)
            /\ flags' = [flags EXCEPT !.dirty = TRUE]
       ELSE UNCHANGED << render, target, fence, live, flags >>

\* make_current(true), to render a frame or, while the player is released, to clean up.
MakeCurrent ==
    /\ MutexFree /\ published < plan.frames
    /\ \/ vout.at = "idle" /\ vout.size # 0
          /\ vout' = [vout EXCEPT !.at = "current"]
       \/ vout.at = "none" /\ flags.closing
          /\ vout' = [vout EXCEPT !.at = "cleaning"]
    /\ AppliesResize
    /\ UNCHANGED << plan, resizes, sessions, published, swapped, gpu, ordered, exposed, mainVars >>

\* A plausible bug: the fence of a frame nobody drew is overwritten.
FencesAfterPublish_Leaks(frame) == live \cup {frame}
FencesAfterPublish(frame) == FenceCleared(fence) \cup {frame}

\* make_current(false): the frame is published under a new fence.
MakeNotCurrent ==
    /\ MutexFree /\ vout.at \in {"current", "cleaning"}
    /\ vout' = [vout EXCEPT !.at = IF @ = "current" THEN "released" ELSE "none"]
    /\ published' = published + 1
    /\ target' = [target EXCEPT !.frame = IF target.size = 0 THEN 0 ELSE published + 1]
    /\ fence' = published + 1
    /\ live' = FencesAfterPublish(published + 1)
    /\ UNCHANGED << plan, resizes, sessions, resize, render, swapped, gpu, ordered, flags, exposed, mainVars >>

\* videoSwap(): the first store, then the other.
SwapReceived ==
    /\ vout.at = "released" /\ ~flags.closing
    /\ vout' = [vout EXCEPT !.at = "received"]
    /\ flags' = [flags EXCEPT !.received = TRUE]
    /\ UNCHANGED << plan, resizes, sessions, resize, render, target, frameVars, exposed, mainVars >>

SwapDirty ==
    /\ vout.at = "received"
    /\ vout' = [vout EXCEPT !.at = "idle"]
    /\ flags' = [flags EXCEPT !.dirty = TRUE]
    /\ swapped' = published
    /\ UNCHANGED << plan, resizes, sessions, resize, render, target, fence, live, published, gpu, ordered, exposed, mainVars >>

\* videoSwap() returns early while the player is released.
SwapRefused ==
    /\ vout.at = "released" /\ flags.closing
    /\ vout' = [vout EXCEPT !.at = "idle"]
    /\ UNCHANGED << plan, resizes, sessions, resize, render, target, frameVars, flags, exposed, mainVars >>

GpuFinishes ==
    /\ gpu < published /\ gpu' = gpu + 1
    /\ UNCHANGED << plan, resizes, sessions, voutVars, fence, live, published, swapped, ordered, flags, exposed, mainVars >>

-----------------------------------------------------------------------------
(* The main thread *)

\* getVideoStateInfo(), as far as drawing needs it
StateInfo == [size |-> render, received |-> flags.received]

\* getTexture(): the flag is exchanged first; then refreshExposedTexture() reads the state.
GetTexture ==
    /\ plan.user = "texture" /\ main.at = "idle" /\ flags.dirty /\ ~flags.closing
    /\ flags' = [flags EXCEPT !.dirty = FALSE]
    /\ main' = [main EXCEPT !.at = "exchanged"]
    /\ UNCHANGED << plan, resizes, sessions, voutVars, frameVars, exposed, startup >>

ReadState ==
    /\ main.at = "exchanged"
    /\ main' = [at |-> "refresh", state |-> StateInfo]
    /\ UNCHANGED << plan, resizes, sessions, voutVars, frameVars, flags, exposed, startup >>

\* refreshExposedTextureLocked(), the copy still to be finished.
RefreshLocked ==
    LET s == main.state IN
    IF s.size > 0 /\ ~s.received
    THEN /\ exposed' = [frame |-> 0, size |-> s.size]
         /\ main' = AtRest /\ UNCHANGED frameVars
    ELSE IF target.size = 0 \/ s.size = 0
    THEN main' = AtRest /\ UNCHANGED << exposed, frameVars >>
    ELSE /\ WaitForFence
         /\ exposed' = [frame |-> target.frame, size |-> s.size]
         /\ main' = [main EXCEPT !.at = "sampling"]

Refresh ==
    /\ main.at = "refresh"
    /\ RefreshLocked
    /\ UNCHANGED << plan, resizes, sessions, voutVars, flags, startup >>

\* draw(): the state is read, then videoMutex locked.
Draw ==
    /\ plan.user # "texture" /\ main.at = "idle" /\ ~flags.closing
    /\ main' = [at |-> "draw", state |-> StateInfo]
    /\ UNCHANGED << plan, resizes, sessions, voutVars, frameVars, flags, exposed, startup >>

\* drawCurrentFrame()
DrawCurrentFrame ==
    /\ main.at = "draw"
    /\ IF ~main.state.received \/ target.size = 0 \/ main.state.size = 0
       THEN main' = AtRest /\ UNCHANGED << frameVars, flags, exposed >>
       ELSE IF plan.user = "draw"
       THEN /\ WaitForFence
            /\ main' = [main EXCEPT !.at = "sampling"]
            /\ UNCHANGED << flags, exposed >>
       ELSE /\ flags' = [flags EXCEPT !.dirty = FALSE]
            /\ IF flags.dirty THEN RefreshLocked ELSE main' = AtRest /\ UNCHANGED << frameVars, exposed >>
    /\ UNCHANGED << plan, resizes, sessions, voutVars, startup >>

\* A plausible bug: the flag is cleared when the copy is done.
Unlock_ClearsFlag ==
    /\ main.at = "sampling"
    /\ main' = AtRest /\ flags' = [flags EXCEPT !.dirty = FALSE]
    /\ UNCHANGED << plan, resizes, sessions, voutVars, frameVars, exposed, startup >>

\* The texture has been drawn or copied; videoMutex is released.
Unlock ==
    /\ main.at = "sampling"
    /\ main' = AtRest
    /\ UNCHANGED << plan, resizes, sessions, voutVars, frameVars, flags, exposed, startup >>

\* clearCurrentMedia()
ClearCurrentMedia ==
    /\ main.at = "idle" /\ VideoGone /\ ~flags.closing
    /\ render' = 0
    /\ resize' = [resize EXCEPT !.state = "Idle", !.size = 0]
    /\ flags' = [flags EXCEPT !.dirty = TRUE, !.received = FALSE]
    /\ exposed' = [exposed EXCEPT !.frame = 0]
    /\ UNCHANGED << plan, resizes, sessions, vout, target, frameVars, mainVars >>

\* prepareStartupVideoResources(), when the tracks of the media loaded are known: the size
\* to render at is stored, ...
PrepareStartup(size) ==
    /\ main.at = "idle" /\ ~flags.closing
    /\ VideoGone /\ (render = 0 \/ plan.hung)
    /\ render' = size
    /\ main' = [main EXCEPT !.at = "preparing"]
    /\ startup' = [size |-> size, format |-> resize.format, fence |-> 0]
    /\ UNCHANGED << plan, resizes, sessions, vout, resize, target, frameVars, flags, exposed >>

\* The exposed texture is made large enough.
StartupEnds ==
    /\ main' = AtRest /\ startup' = [startup EXCEPT !.size = 0, !.fence = 0]
    /\ exposed' = IF exposed.size >= startup.size THEN exposed
                  ELSE [frame |-> 0, size |-> startup.size]
    /\ flags' = [flags EXCEPT !.dirty = TRUE]

\* ... the texture and its fence are looked at, ...
StartupLooks ==
    /\ main.at = "preparing"
    /\ IF TooSmall(startup.size, startup.format)
       THEN /\ main' = [main EXCEPT !.at = "replacing"]
            /\ startup' = [startup EXCEPT !.fence = fence]
            /\ UNCHANGED << exposed, flags >>
       ELSE StartupEnds
    /\ UNCHANGED << plan, resizes, sessions, voutVars, frameVars >>

\* ... and replaced.
StartupReplaces ==
    /\ main.at = "replacing"
    /\ target' = [size |-> Capacity(startup.size), format |-> startup.format, frame |-> 0]
    /\ fence' = IF startup.fence = 0 THEN fence ELSE 0
    /\ live' = FenceCleared(startup.fence)
    /\ StartupEnds
    /\ UNCHANGED << plan, resizes, sessions, vout, resize, render, published, swapped, gpu, ordered >>

\* releaseVlcResources(): the player is released, during which VLC may clean up, ...
ReleaseBegins ==
    /\ main.at = "idle" /\ VideoGone /\ ~flags.closing
    /\ sessions < plan.sessions /\ sessions' = sessions + 1
    /\ flags' = [flags EXCEPT !.closing = TRUE]
    /\ UNCHANGED << plan, resizes, voutVars, frameVars, exposed, mainVars >>

\* ... then the media is cleared and, if there was anything to delete, the GL objects are;
\* init() follows.
ReleaseEnds ==
    /\ flags.closing /\ vout.at = "none"
    /\ render' = 0
    /\ resize' = [resize EXCEPT !.state = "Idle", !.size = 0]
    /\ IF target.size # 0 \/ exposed.size # 0
       THEN /\ target' = [target EXCEPT !.size = 0, !.frame = 0]
            /\ fence' = 0 /\ live' = FenceCleared(fence)
            /\ exposed' = [frame |-> 0, size |-> 0]
       ELSE UNCHANGED << target, fence, live, exposed >>
    /\ flags' = [dirty |-> TRUE, received |-> FALSE, closing |-> FALSE]
    /\ UNCHANGED << plan, resizes, sessions, vout, published, swapped, gpu, ordered, mainVars >>

Next ==
    \/ VoutStarts \/ VoutEnds \/ MakeCurrent \/ MakeNotCurrent \/ SwapReceived \/ SwapDirty
    \/ SwapRefused \/ RequestResize
    \/ \E size \in Sizes, format \in Formats : VideoResize(size, format)
    \/ GpuFinishes
    \/ GetTexture \/ ReadState \/ Refresh \/ Draw \/ DrawCurrentFrame \/ Unlock
    \/ ClearCurrentMedia \/ ReleaseBegins \/ ReleaseEnds
    \/ \E size \in Sizes : PrepareStartup(size)
    \/ StartupLooks \/ StartupReplaces

Spec == Init /\ [][Next]_vars

-----------------------------------------------------------------------------
(* Properties *)

\* A fence object is deleted exactly once: the only one alive is the published one, whichever
\* thread takes it, resizes it away, replaces it or tears it down (clearPublishedFrameFence,
\* waitForPublishedFrameFence, makeCurrent); beside a hung player startup's unlocked deletion
\* may hit a fence that is gone and lose the next one.
FencesDeletedOnce == ~plan.hung => live = IF fence = 0 THEN {} ELSE {fence}

\* The main thread samples the texture only with the GPU's work on its frame behind it,
\* also when the fence was waited for by an earlier draw, timed out, or went with a texture
\* that was reallocated (waitForPublishedFrameFenceLocked).
SamplesFinishedFrame ==
    main.at = "sampling" /\ ~plan.fails => target.frame <= ordered

\* The part of the texture that is sampled lies inside it, though its size was read before
\* the lock and the texture may have been replaced since (draw, getVideoStateInfo).
SamplesInsideTexture == main.at = "sampling" => main.state.size <= target.size

\* An application that shows getTexture() misses no frame: once the dirty flag is down, the
\* exposed texture holds what the render texture holds, at its present size, unless that
\* frame has not been swapped yet (getTexture, videoSwap, applyPendingVideoResize).
ExposedIsLatest ==
    plan.user = "texture" /\ main.at = "idle" /\ ~flags.dirty /\ flags.received /\ render > 0 =>
        \/ exposed = [frame |-> target.frame, size |-> render]
        \/ target.frame > swapped

\* VLC renders a frame into a texture that holds the size, in the format, it last asked for,
\* if it renders between two changes and ends before its media is cleared (videoResize,
\* applyPendingVideoResize).
RendersAsAsked ==
    plan.calm /\ ~plan.hung /\ vout.at = "current" =>
        render = vout.size /\ target.size >= render /\ target.format = vout.format
=============================================================================
