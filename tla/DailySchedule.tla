---------------------------- MODULE DailySchedule ----------------------------
(***************************************************************************)
(* DailyScheduler: which instant an attempt is for, which idempotency key  *)
(* it gets, and when the next attempt starts. Times are whole hours; the   *)
(* configured zone has the UTC offset before until the UTC hour change and *)
(* after from then on (a clock change; equal offsets are a fixed zone).    *)
(* What an attempt does is the subject of DailyPipeline.                   *)
(***************************************************************************)
EXTENDS Integers, FiniteSets

CONSTANTS
    Settings,   \* schedule_hour (local) and time zone the process may have
    StartHour,  \* the UTC hour the process starts at
    Horizon,    \* bound: the clock stops at this UTC hour
    MaxRun,     \* bound: hours an attempt lasts
    Drift       \* bound: hours a sleep may end early or late

ASSUME ScheduleAssumption ==
    /\ Settings \subseteq [hour: 0..23, before: -23..23, after: -23..23, change: Nat]
    /\ \A s \in Settings : s.after - s.before \in -1..1
    /\ StartHour \in Nat /\ Horizon \in Nat /\ StartHour > 48 /\ StartHour <= Horizon
    /\ MaxRun \in Nat /\ Drift \in 0..22

VARIABLES
    set,        \* the settings of the process, for good
    now,        \* the clock, in UTC hours
    mode,       \* "running", "sleeping", "backoff"
    due,        \* the scheduled instant of the current or last attempt
    target,     \* next_scheduled_for, while sleeping
    began,      \* when the current or last attempt began
    attempted,  \* history: the instants attempts were for
    overrun     \* history: the instants that passed during an attempt

scheduleVars == <<set, now, mode, due, target, began, attempted, overrun>>

-----------------------------------------------------------------------------
(* Zone arithmetic, as zoneinfo does it. Local times of the same zone are  *)
(* compared as wall times; a wall time that is ambiguous or does not exist *)
(* is resolved with fold = 0, by the offset before the change.             *)

Larger == IF set.before > set.after THEN set.before ELSE set.after
Wall(u) == u + IF u < set.change THEN set.before ELSE set.after
Resolve(wall) == wall - IF wall < set.change + Larger THEN set.before ELSE set.after

LocalTarget(u) == 24 * (Wall(u) \div 24) + set.hour

scheduled_for(u) ==
    Resolve(IF Wall(u) < LocalTarget(u) THEN LocalTarget(u) - 24 ELSE LocalTarget(u))

\* Mutant: always tomorrow's instant.
next_scheduled_for_Tomorrow(u) == Resolve(LocalTarget(u) + 24)

next_scheduled_for(u) ==
    Resolve(IF Wall(u) >= LocalTarget(u) THEN LocalTarget(u) + 24 ELSE LocalTarget(u))

\* Mutant: the key drops the day of the date.
idempotency_key_Month(u) == u \div (24 * 30)

\* The UTC date of the instant.
idempotency_key(u) == u \div 24

\* The instants of the schedule up to the present.
Instants == {u \in StartHour..now : u = Resolve(LocalTarget(u))}

-----------------------------------------------------------------------------
ScheduleTypeOK ==
    /\ set \in Settings
    /\ now \in StartHour..Horizon
    /\ mode \in {"running", "sleeping", "backoff"}
    /\ due \in Int /\ target \in Int /\ began \in Nat
    /\ attempted \subseteq Int /\ overrun \subseteq Int

ScheduleInit ==
    /\ set \in Settings
    /\ now = StartHour /\ began = StartHour
    /\ mode = "running"
    /\ due = scheduled_for(StartHour)
    /\ target = 0
    /\ attempted = {scheduled_for(StartHour)}
    /\ overrun = {}

\* run_once(self._clock()): the instant is the one due when the attempt begins.
Begin ==
    /\ mode' = "running"
    /\ due' = scheduled_for(now)
    /\ began' = now
    /\ attempted' = attempted \cup {scheduled_for(now)}
    /\ UNCHANGED <<set, now, target, overrun>>

Wake == mode = "sleeping" /\ now >= target - Drift /\ Begin
Retry == mode = "backoff" /\ Begin

Return ==
    /\ mode = "running"
    /\ mode' = "sleeping"
    /\ target' = next_scheduled_for(now)
    /\ UNCHANGED <<set, now, due, began, attempted, overrun>>

Raise ==
    /\ mode = "running"
    /\ mode' = "backoff"
    /\ UNCHANGED <<set, now, due, target, began, attempted, overrun>>

Tick ==
    /\ now < Horizon
    /\ CASE mode = "running"  -> now < began + MaxRun
         [] mode = "sleeping" -> now < target + Drift
         [] mode = "backoff"  -> FALSE
    /\ now' = now + 1
    /\ overrun' = IF mode = "running" /\ now + 1 = Resolve(LocalTarget(now + 1))
                  THEN overrun \cup {now + 1} ELSE overrun
    /\ UNCHANGED <<set, mode, due, target, began, attempted>>

ScheduleNext == Wake \/ Retry \/ Return \/ Raise \/ Tick

ScheduleSpec == ScheduleInit /\ [][ScheduleNext]_scheduleVars

-----------------------------------------------------------------------------
(* Properties.                                                             *)

\* An attempt is for an instant that has come, and no later instant has come
\* when the attempt begins.
AttemptsAreDue ==
    /\ due <= began
    /\ \A u \in Instants : u <= began => u <= due

\* A scheduled instant is lost only when an attempt was still running at it:
\* neither a clock change nor a sleep that ends a little early or late makes
\* the loop jump over a day.
NoInstantLost ==
    \A u \in Instants : u + Drift < now => u \in attempted \cup overrun

\* The schedule's local hour, of some day, and the instant that stands for it.
IsLocalTarget(wall) == wall = 24 * ((wall - set.hour) \div 24) + set.hour
IsScheduled(u, wall) == u = Resolve(wall) /\ IsLocalTarget(wall)

\* An attempt is for an instant of the schedule: the one due when it began.
AttemptsScheduled ==
    /\ due = scheduled_for(began) /\ due \in attempted /\ began <= now
    /\ \A u \in attempted : \E o \in {set.before, set.after} : IsScheduled(u, u + o)

\* The loop sleeps until the next instant, and no longer than that.
SleepsUntilNext ==
    mode = "sleeping" =>
        /\ now <= target + Drift
        /\ \E o \in {set.before, set.after} :
              IsScheduled(target, target + o) /\ Resolve((target + o) - 24) <= now

\* An instant that is neither attempted nor overrun is the one slept until.
PendingIsTarget ==
    \A u \in Instants \ (attempted \cup overrun) : mode = "sleeping" /\ target <= u

\* The loop attempts what is due and loses nothing, at every hour and through
\* both clock changes.
ScheduleInv ==
    /\ ScheduleTypeOK /\ AttemptsAreDue /\ NoInstantLost
    /\ AttemptsScheduled /\ SleepsUntilNext /\ PendingIsTarget

\* Setting the clock forward does not take the scheduled hour over midnight UTC,
\* back into the date of the day before.
NoCrossing ==
    \A s \in Settings : (s.hour - s.before) \div 24 <= (s.hour - s.after) \div 24

\* Two scheduled days never share a key, so the run of one is never taken for
\* a replay of the other.
KeysDistinguishDays ==
    \A u, v \in attempted : idempotency_key(u) = idempotency_key(v) => u = v
=============================================================================
