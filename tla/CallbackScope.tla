--------------------------- MODULE CallbackScope ---------------------------
(***************************************************************************)
(* How ofxVlc4 keeps libVLC's threads out of its components while the main *)
(* thread tears a session down.                                            *)
(*                                                                         *)
(* Every callback libVLC makes runs on one of its own threads.  It passes  *)
(* an entry test, then tryEnterCallbackScope(), which counts it in         *)
(* callbackDepth between two reads of shuttingDown; leaving the scope      *)
(* gives the count back and wakes the thread that drains.  close(), and    *)
(* init() on a live session, run releaseVlcResources() on the main thread: *)
(* it raises expired and then shuttingDown, drops the player, waits for    *)
(* callbackDepth to reach zero (for 2 s at most) and only then clears the  *)
(* media, the GL objects and the instance.                                 *)
(*                                                                         *)
(* Each atomic access of the code is one step here, so every interleaving  *)
(* of the callbacks with the teardown is explored.  A condition variable   *)
(* loses a notification sent while nobody sleeps; the code notifies        *)
(* without the mutex, so the window between the waiter's test and its      *)
(* sleep is a step of its own.                                             *)
(***************************************************************************)
EXTENDS Naturals, FiniteSets

CONSTANTS
    OutputCallbacks,   \* audio, video and log callbacks: data is a ControlBlock
    RouterCallbacks,   \* event and dialog callbacks: data is the VlcEventRouter
    MaxSessions        \* bound on the calls of init()

Callbacks == OutputCallbacks \cup RouterCallbacks

ASSUME CallbacksAssumption == IsFiniteSet(Callbacks)
ASSUME SessionsAssumption == MaxSessions \in Nat

VARIABLES
    shuttingDown,    \* lifecycleRuntime.shuttingDown
    expired,         \* m_controlBlock->expired
    closeRequested,  \* lifecycleRuntime.closeRequested
    callbackDepth,   \* lifecycleRuntime.callbackDepth
    instance,        \* the libVLC instance exists: it may make callbacks
    callback,        \* where each callback thread is
    main,            \* where the main thread is
    initAfter,       \* the teardown running was started by init()
    woken,           \* a notification has reached the sleeping drain waiter
    timedOut,        \* the last drain gave up with callbacks still inside
    sessions         \* calls of init() so far (for the bound)

vars == << shuttingDown, expired, closeRequested, callbackDepth, instance,
           callback, main, initAfter, woken, timedOut, sessions >>

flags == << shuttingDown, expired, closeRequested >>
mainVars == << main, initAfter, timedOut, sessions, instance >>

CallbackPlaces == {"idle", "arrived", "admitted", "tested", "counted",
                   "aborting", "inside", "notifying"}

MainPlaces == {"closed", "open", "stopping", "expiring", "flagging",
               "draining", "testing", "falling asleep", "asleep",
               "clearing", "resetting", "creating"}

FlagTypes ==
    /\ shuttingDown \in BOOLEAN
    /\ expired \in BOOLEAN
    /\ closeRequested \in BOOLEAN
    /\ instance \in BOOLEAN
    /\ initAfter \in BOOLEAN
    /\ woken \in BOOLEAN
    /\ timedOut \in BOOLEAN

ThreadTypes ==
    /\ callbackDepth \in Nat
    /\ callback \in [Callbacks -> CallbackPlaces]
    /\ main \in MainPlaces
    /\ sessions \in 0 .. MaxSessions

\* Every variable has its type; callbackDepth, a uint32_t, never wraps below 0.
TypeOK == FlagTypes /\ ThreadTypes

\* An object just constructed: no session yet.
Init ==
    /\ shuttingDown = FALSE
    /\ expired = FALSE
    /\ closeRequested = FALSE
    /\ callbackDepth = 0
    /\ instance = FALSE
    /\ callback = [c \in Callbacks |-> "idle"]
    /\ main = "closed"
    /\ initAfter = FALSE
    /\ woken = FALSE
    /\ timedOut = FALSE
    /\ sessions = 0

-----------------------------------------------------------------------------
(* Callback threads *)

CallbackGoes(c, from, to) ==
    /\ callback[c] = from
    /\ callback' = [callback EXCEPT ![c] = to]

\* libVLC calls back.  Only an instance that exists has threads to do so.
Deliver(c) ==
    /\ instance
    /\ CallbackGoes(c, "idle", "arrived")
    /\ UNCHANGED << flags, callbackDepth, woken, mainVars >>

\* What a callback tests before it dereferences the owner: an output callback
\* loads ControlBlock::expired, a router callback asks isOwnerShuttingDown().
DroppedAtEntry(c) == IF c \in OutputCallbacks THEN expired ELSE shuttingDown

EntryTest(c) ==
    /\ CallbackGoes(c, "arrived", IF DroppedAtEntry(c) THEN "idle" ELSE "admitted")
    /\ UNCHANGED << flags, callbackDepth, woken, mainVars >>

\* tryEnterCallbackScope(), one step per atomic access: the first test ...
FirstTest(c) ==
    /\ CallbackGoes(c, "admitted", IF shuttingDown THEN "idle" ELSE "tested")
    /\ UNCHANGED << flags, callbackDepth, woken, mainVars >>

\* ... fetch_add ...
Incremented(depth) == depth + 1

Count(c) ==
    /\ CallbackGoes(c, "tested", "counted")
    /\ callbackDepth' = Incremented(callbackDepth)
    /\ UNCHANGED << flags, woken, mainVars >>

\* ... the second test ...
RefusedAfterCount_Never == FALSE  \* mutant: the second test is dropped
RefusedAfterCount == shuttingDown

SecondTest(c) ==
    /\ CallbackGoes(c, "counted", IF RefusedAfterCount THEN "aborting" ELSE "inside")
    /\ UNCHANGED << flags, callbackDepth, woken, mainVars >>

\* ... and the fetch_sub of a callback refused there, which notifies nobody.
Abort(c) ==
    /\ CallbackGoes(c, "aborting", "idle")
    /\ callbackDepth' = callbackDepth - 1
    /\ UNCHANGED << flags, woken, mainVars >>

\* leaveCallbackScope(): the decrement never goes below zero, and the callback
\* that takes the counter from one to zero goes on to notify.
AfterLeave(prev) == IF prev = 1 THEN "notifying" ELSE "idle"
Decremented_Twice(depth) == IF depth < 2 THEN 0 ELSE depth - 2  \* mutant: the scope is given back twice
Decremented(depth) == IF depth = 0 THEN 0 ELSE depth - 1

Leave(c) ==
    /\ CallbackGoes(c, "inside", AfterLeave(callbackDepth))
    /\ callbackDepth' = Decremented(callbackDepth)
    /\ UNCHANGED << flags, woken, mainVars >>

\* notify_one() without the mutex: it is lost unless the waiter is asleep.
Notify(c) ==
    /\ CallbackGoes(c, "notifying", "idle")
    /\ woken' = (woken \/ main = "asleep")
    /\ UNCHANGED << flags, callbackDepth, mainVars >>

CallbackStep(c) ==
    \/ EntryTest(c)
    \/ FirstTest(c)
    \/ Count(c)
    \/ SecondTest(c)
    \/ Abort(c)
    \/ Leave(c)
    \/ Notify(c)

-----------------------------------------------------------------------------
(* The main thread *)

MainGoes(from, to) ==
    /\ main = from
    /\ main' = to

\* init(): a live session is torn down first.
CallInit ==
    /\ sessions < MaxSessions
    /\ main \in {"closed", "open"}
    /\ main' = IF instance THEN "stopping" ELSE "resetting"
    /\ initAfter' = instance
    /\ sessions' = sessions + 1
    /\ UNCHANGED << flags, callbackDepth, instance, callback, woken, timedOut >>

\* init() re-arms the callbacks.
ResetFlags ==
    /\ MainGoes("resetting", "creating")
    /\ closeRequested' = FALSE
    /\ shuttingDown' = FALSE
    /\ expired' = FALSE
    /\ initAfter' = FALSE
    /\ UNCHANGED << callbackDepth, instance, callback, woken, timedOut, sessions >>

\* libvlc_new, libvlc_media_player_new and the rest of init(): no instance,
\* an instance whose player or video output cannot be made (init() then
\* releases it again), or a session.
Create ==
    /\ main = "creating"
    /\ \/ main' = "open" /\ UNCHANGED instance
       \/ main' \in {"stopping", "open"} /\ instance' = TRUE
    /\ UNCHANGED << flags, callbackDepth, callback, initAfter, woken, timedOut, sessions >>

\* close(): only the first call after an init() goes on.
CallClose ==
    /\ main \in {"closed", "open"}
    /\ ~closeRequested
    /\ closeRequested' = TRUE
    /\ main' = "stopping"
    /\ UNCHANGED << shuttingDown, expired, callbackDepth, instance, callback,
                    initAfter, woken, timedOut, sessions >>

\* The player has stopped, or the wait for it is over: the rest of the release.
StopPlayer ==
    /\ MainGoes("stopping", "expiring")
    /\ UNCHANGED << flags, callbackDepth, instance, callback, initAfter, woken,
                    timedOut, sessions >>

SetExpired ==
    /\ MainGoes("expiring", "flagging")
    /\ expired' = TRUE
    /\ UNCHANGED << shuttingDown, closeRequested, callbackDepth, instance,
                    callback, initAfter, woken, timedOut, sessions >>

SetShuttingDown ==
    /\ MainGoes("flagging", "draining")
    /\ shuttingDown' = TRUE
    /\ UNCHANGED << expired, closeRequested, callbackDepth, instance, callback,
                    initAfter, woken, timedOut, sessions >>

\* waitForCallbackScopeDrain(): the fast path, without the lock.
DrainFastPath ==
    /\ main = "draining"
    /\ main' = IF callbackDepth = 0 THEN "clearing" ELSE "testing"
    /\ timedOut' = FALSE
    /\ UNCHANGED << flags, callbackDepth, instance, callback, initAfter, woken, sessions >>

\* wait_for(): the predicate holds, or the waiter is on its way to sleep ...
DrainPredicate ==
    /\ main = "testing"
    /\ main' = IF callbackDepth = 0 THEN "clearing" ELSE "falling asleep"
    /\ UNCHANGED << flags, callbackDepth, instance, callback, initAfter, woken,
                    timedOut, sessions >>

\* ... it sleeps, and a notification sent before this step is lost ...
DrainSleep ==
    /\ MainGoes("falling asleep", "asleep")
    /\ woken' = FALSE
    /\ UNCHANGED << flags, callbackDepth, instance, callback, initAfter,
                    timedOut, sessions >>

\* ... a notification wakes it to test again ...
DrainWake ==
    /\ woken
    /\ MainGoes("asleep", "testing")
    /\ woken' = FALSE
    /\ UNCHANGED << flags, callbackDepth, instance, callback, initAfter,
                    timedOut, sessions >>

\* ... or kCallbackDrainTimeoutMs passes: one last test, and the teardown goes
\* on whatever it finds.
DrainTimeoutEnds_Never == FALSE  \* mutant: wait() in the place of wait_for()
DrainTimeoutEnds == TRUE

DrainTimeout ==
    /\ DrainTimeoutEnds
    /\ MainGoes("asleep", "clearing")
    /\ woken' = FALSE
    /\ timedOut' = (callbackDepth # 0)
    /\ UNCHANGED << flags, callbackDepth, instance, callback, initAfter, sessions >>

\* The rest of releaseVlcResources(): media, GL objects, instance.
Clear ==
    /\ main = "clearing"
    /\ main' = IF initAfter THEN "resetting" ELSE "closed"
    /\ instance' = FALSE
    /\ UNCHANGED << flags, callbackDepth, callback, initAfter, woken, timedOut, sessions >>

MainStep ==
    \/ ResetFlags
    \/ Create
    \/ StopPlayer
    \/ SetExpired
    \/ SetShuttingDown
    \/ DrainFastPath
    \/ DrainPredicate
    \/ DrainSleep
    \/ DrainWake
    \/ DrainTimeout
    \/ Clear

Next ==
    \/ CallInit
    \/ CallClose
    \/ MainStep
    \/ \E c \in Callbacks : Deliver(c) \/ CallbackStep(c)

Spec == Init /\ [][Next]_vars

\* The main thread keeps running and its timed wait ends.  Nothing is assumed
\* of libVLC's threads: a callback may block inside the scope for ever.
FairSpec == Spec /\ WF_vars(MainStep)

-----------------------------------------------------------------------------
(* Properties *)

\* The callbacks callbackDepth stands for.
InScope == {c \in Callbacks : callback[c] \in {"counted", "aborting", "inside"}}

\* callbackDepth is the number of callbacks between their increment and their
\* decrement, at every moment and across sessions: the guard against underflow
\* in leaveCallbackScope() (line 333) is never what saves the counter.
DepthCountsScopes == callbackDepth = Cardinality(InScope)

\* While releaseVlcResources() clears the media, the GL objects and the
\* instance, and from then on until init() re-arms the callbacks, none is
\* inside a component -- unless the drain gave up after its 2 s.  What the two
\* tests of tryEnterCallbackScope() around the increment are for.
TornDown == main \in {"clearing", "resetting", "closed"} /\ shuttingDown

NoCallbackDuringTeardown ==
    (TornDown /\ ~timedOut) => \A c \in Callbacks : callback[c] # "inside"

\* shuttingDown is up from the moment the drain begins until init() re-arms the
\* callbacks, and down in a session: with DepthCountsScopes, what makes
\* NoCallbackDuringTeardown inductive.
ShuttingDownWhileReleasing ==
    /\ main \in {"draining", "testing", "falling asleep", "asleep", "clearing"}
          => shuttingDown
    /\ main \in {"creating", "open"} => ~shuttingDown

\* A teardown that has begun ends, though a callback may never return: the
\* drain is bounded by its timeout.
TeardownEnds == (main = "stopping") ~> (main \in {"closed", "open"})
=============================================================================
