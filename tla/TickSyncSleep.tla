----------------------------- MODULE TickSyncSleep -----------------------------
(***************************************************************************)
(* ll::thread::ServerTickSyncSleep: a thread sleeps until a point of the    *)
(* game's clock or until it is interrupted.  A listener of the level's tick *)
(* looks at the point without the mutex, compares it with the clock and     *)
(* then interrupts under the mutex whatever sleep there is by then.         *)
(***************************************************************************)
EXTENDS Integers

CONSTANTS
    NoTime,       \* nullopt
    MaxTime,    \* bound: the last tick
    MaxSleeps   \* bound: how often the thread sleeps

ASSUME TickSyncSleepAssumption == MaxTime \in Nat /\ MaxSleeps \in Nat /\ NoTime \notin Nat

VARIABLES
    clock,          \* Clock::now()
    timepoint, interrupted,
    sleeping,       \* the thread is in cv.wait
    check,          \* how far the listener is
    sleeps          \* calls of sleepFor and sleep so far

sleepVars == <<clock, timepoint, interrupted, sleeping, check, sleeps>>

SleepTypeOK ==
    /\ clock \in 0 .. MaxTime /\ timepoint \in 0 .. MaxTime \cup {NoTime}
    /\ interrupted \in BOOLEAN /\ sleeping \in BOOLEAN
    /\ check \in {"idle", "looked", "due"} /\ sleeps \in 0 .. MaxSleeps

SleepInit ==
    /\ clock = 0 /\ timepoint = NoTime /\ interrupted = FALSE
    /\ sleeping = FALSE /\ check = "idle" /\ sleeps = 0

\* sleepFor, sleepUntil and sleep, up to the wait.
Sleep(until) ==
    /\ ~ sleeping /\ sleeps < MaxSleeps
    /\ timepoint' = until /\ sleeping' = TRUE /\ sleeps' = sleeps + 1
    /\ UNCHANGED <<clock, interrupted, check>>

\* The wait returns; it does so at once if an interrupt was left over.
Wake ==
    /\ sleeping /\ interrupted
    /\ sleeping' = FALSE /\ interrupted' = FALSE
    /\ UNCHANGED <<clock, timepoint, check, sleeps>>

\* (Mutant: it notifies, and the flag the thread waits for is not set.)
BugInterrupted == timepoint' = NoTime /\ UNCHANGED interrupted
\* What interrupt does under the mutex.
Interrupted == timepoint' = NoTime /\ interrupted' = TRUE

Interrupt == Interrupted /\ UNCHANGED <<clock, sleeping, check, sleeps>>

\* `if (!timepoint) return`.
Look ==
    /\ check = "idle" /\ timepoint # NoTime
    /\ check' = "looked"
    /\ UNCHANGED <<clock, timepoint, interrupted, sleeping, sleeps>>

\* `Clock::now() >= *timepoint`; what is read of a point that was cleared
\* meanwhile may be anything.
Compare ==
    /\ check = "looked"
    /\ \/ check' = "due" /\ (timepoint # NoTime => clock >= timepoint)
       \/ check' = "idle" /\ (timepoint # NoTime => clock < timepoint)
    /\ UNCHANGED <<clock, timepoint, interrupted, sleeping, sleeps>>

TimeIsUp ==
    /\ check = "due" /\ check' = "idle"
    /\ Interrupted
    /\ UNCHANGED <<clock, sleeping, sleeps>>

Tick ==
    /\ clock < MaxTime /\ clock' = clock + 1
    /\ UNCHANGED <<timepoint, interrupted, sleeping, check, sleeps>>

SleepNext ==
    \/ \E until \in clock .. MaxTime \cup {NoTime} : Sleep(until)
    \/ Wake \/ Interrupt \/ Look \/ Compare \/ TimeIsUp \/ Tick

\* The level goes on ticking, its tick calls the listener, and a notified
\* thread gets the mutex.
SleepSpec ==
    /\ SleepInit /\ [][SleepNext]_sleepVars
    /\ WF_sleepVars(Tick) /\ WF_sleepVars(Look) /\ WF_sleepVars(Compare)
    /\ WF_sleepVars(TimeIsUp) /\ WF_sleepVars(Wake)

-----------------------------------------------------------------------------
\* A sleep ends if it has an end or was interrupted, whichever check, of this
\* sleep or an earlier one, meets it at whichever point: none takes away the
\* point of a sleep without waking the thread.
EverySleepEnds == sleeping /\ (timepoint # NoTime \/ interrupted) ~> ~ sleeping
=============================================================================
