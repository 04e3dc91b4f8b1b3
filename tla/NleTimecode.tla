----------------------------- MODULE NleTimecode -----------------------------
(***************************************************************************)
(* The SMPTE labels of frames (src/nle/NleTimecode.h).                     *)
(*                                                                         *)
(* At 29.97 and 59.94 frames per second the drop-frame label keeps pace    *)
(* with the clock by leaving labels out: the first ones of every minute    *)
(* whose number is not a multiple of ten.  The code computes labels from   *)
(* frames, frames from labels, and milliseconds from frames, each by a     *)
(* formula; the reference is a counter that goes from label to label.      *)
(***************************************************************************)
EXTENDS Integers

CONSTANT LabelledFrames   \* the frames whose labels are looked at

ASSUME LabelledFramesAssumption == LabelledFrames \subseteq Nat

(***************************************************************************)
(* The rates: the nominal one in which labels count, the frames that are   *)
(* dropped per minute, and the exact one, a fraction.                      *)
(***************************************************************************)
NominalFps(rate) ==
    IF rate \in {"Fps23_976", "Fps24"} THEN 24
    ELSE IF rate = "Fps25" THEN 25
    ELSE IF rate \in {"Fps29_97_DF", "Fps29_97_NDF", "Fps30"} THEN 30
    ELSE IF rate = "Fps50" THEN 50
    ELSE 60

FrameRates == {"Fps23_976", "Fps24", "Fps25", "Fps29_97_DF", "Fps29_97_NDF",
               "Fps30", "Fps50", "Fps59_94_DF", "Fps59_94_NDF", "Fps60"}

DroppedFramesPerMinute(rate) ==
    IF rate = "Fps29_97_DF" THEN 2 ELSE IF rate = "Fps59_94_DF" THEN 4 ELSE 0

NtscRates == {"Fps23_976", "Fps29_97_DF", "Fps29_97_NDF", "Fps59_94_DF", "Fps59_94_NDF"}

(***************************************************************************)
(* toSmpte() and fromSmpte().                                              *)
(***************************************************************************)
Label(hours, minutes, seconds, frames) ==
    [hours |-> hours, minutes |-> minutes, seconds |-> seconds, frames |-> frames]

PlainLabel(n, fps) ==
    LET seconds == n \div fps
        minutes == seconds \div 60
    IN Label(minutes \div 60, minutes % 60, seconds % 60, n % fps)

\* Ten minutes have one minute with all its labels and nine without the first ones.
FramesPerMinute(fps, dropped) == fps * 60 - dropped
FramesPerTenMinutes(fps, dropped) == fps * 60 + FramesPerMinute(fps, dropped) * 9

PastFirstMinute(inTen, fps) == inTen >= fps * 60

MinuteOf(n, fps, dropped) ==
    LET inTen == n % FramesPerTenMinutes(fps, dropped)
    IN 10 * (n \div FramesPerTenMinutes(fps, dropped))
       + IF PastFirstMinute(inTen, fps)
         THEN (inTen - fps * 60) \div FramesPerMinute(fps, dropped) + 1 ELSE 0

InMinute(n, fps, dropped) ==
    LET inTen == n % FramesPerTenMinutes(fps, dropped)
    IN IF PastFirstMinute(inTen, fps)
       THEN ((inTen - fps * 60) % FramesPerMinute(fps, dropped)) + dropped ELSE inTen

DropLabel(n, fps, dropped) ==
    LET minutes == MinuteOf(n, fps, dropped)
        inMinute == InMinute(n, fps, dropped)
    IN Label(minutes \div 60, minutes % 60, inMinute \div fps, inMinute % fps)

ToSmpte(n, rate) ==
    IF DroppedFramesPerMinute(rate) # 0
    THEN DropLabel(n, NominalFps(rate), DroppedFramesPerMinute(rate))
    ELSE PlainLabel(n, NominalFps(rate))

Clamped(value, limit) ==
    IF value < 0 THEN 0 ELSE IF value > limit THEN limit ELSE value

\* Hours have no upper limit.
FromSmpte(label, rate) ==
    LET fps == NominalFps(rate)
        hours == IF label.hours < 0 THEN 0 ELSE label.hours
        minutes == hours * 60 + Clamped(label.minutes, 59)
    IN (minutes * 60 + Clamped(label.seconds, 59)) * fps + Clamped(label.frames, fps - 1)
       - DroppedFramesPerMinute(rate) * (minutes - minutes \div 10)

(***************************************************************************)
(* toMilliseconds() and fromMilliseconds() round a double to the nearest   *)
(* integer; halfway between two, either may come out.                      *)
(***************************************************************************)
Distance(a, b) == IF a < b THEN b - a ELSE a - b

\* The length of a frame in milliseconds is Milli(rate) / (2 * NominalFps(rate)).
Milli(rate) == IF rate \in NtscRates THEN 2002 ELSE 2000

IsMilliseconds(ms, n, rate) ==
    Distance(2 * NominalFps(rate) * ms, Milli(rate) * n) <= NominalFps(rate)

IsFrames(n, ms, rate) ==
    2 * Distance(2 * NominalFps(rate) * ms, Milli(rate) * n) <= Milli(rate)

(***************************************************************************)
(* The reference: the label that follows a label.                          *)
(***************************************************************************)
MinuteAfter(label, rate) ==
    LET minute == (label.minutes + 1) % 60
    IN Label(label.hours + (label.minutes + 1) \div 60, minute, 0,
             IF minute % 10 = 0 THEN 0 ELSE DroppedFramesPerMinute(rate))

Following(label, rate) ==
    IF label.frames + 1 < NominalFps(rate)
    THEN Label(label.hours, label.minutes, label.seconds, label.frames + 1)
    ELSE IF label.seconds < 59
    THEN Label(label.hours, label.minutes, label.seconds + 1, 0)
    ELSE MinuteAfter(label, rate)

(***************************************************************************)
(* Properties.                                                             *)
(***************************************************************************)
CountsOn(n, rate) == ToSmpte(n + 1, rate) = Following(ToSmpte(n, rate), rate)

ReadsBack(n, rate) == FromSmpte(ToSmpte(n, rate), rate) = n

\* The two roundings that the code may make lie within one of the exact quotient.
SurvivesMilliseconds(n, rate) ==
    LET below == (Milli(rate) * n) \div (2 * NominalFps(rate))
    IN \A ms \in {below, below + 1} : IsMilliseconds(ms, n, rate) =>
        \A other \in n - 1 .. n + 1 : IsFrames(other, ms, rate) => other = n

\* The label of every frame is the one a counter has reached that starts at zero
\* and leaves the dropped labels out, toSmpte() and fromSmpte() are inverse to
\* each other, and a frame that goes through milliseconds comes back.
LabelsCountFrames ==
    \A rate \in FrameRates :
        /\ ToSmpte(0, rate) = Label(0, 0, 0, 0)
        /\ \A n \in LabelledFrames :
            CountsOn(n, rate) /\ ReadsBack(n, rate) /\ SurvivesMilliseconds(n, rate)
=============================================================================
