------------------------- MODULE DailyPipelineProofs -------------------------
(***************************************************************************)
(* Theorems about the loop that starts the daily collection, DailySchedule *)
(* (for every schedule hour, every zone whose clocks change by at most an  *)
(* hour, every start, attempts of any length and sleeps that are less than *)
(* a day late), and about the collection, DailyPipeline (for every set of  *)
(* workers, sources and contents).                                         *)
(***************************************************************************)
EXTENDS DailyPipeline, DailySchedule, FiniteSetTheorems, TLAPS

-----------------------------------------------------------------------------
(* The schedule. Everything rests on Galois: Wall and Resolve, one from    *)
(* UTC to local time and one back, agree about "not later than", also      *)
(* around a change, where neither is the inverse of the other.             *)

\* The settings are numbers, and the offsets at most an hour apart.
LEMMA SettingsAre ==
    ASSUME set \in Settings
    PROVE  /\ set.hour \in 0..23 /\ set.before \in -23..23 /\ set.after \in -23..23
           /\ set.change \in Nat /\ set.after - set.before \in -1..1
  BY ScheduleAssumption

\* Either offset of the zone is a number.
LEMMA OffsetsAre ==
    ASSUME set \in Settings, NEW o \in {set.before, set.after}
    PROVE  o \in Int
<1>1. set.before \in Int /\ set.after \in Int
  BY SettingsAre
<1> QED
  BY <1>1

\* A local time has come exactly when the instant that stands for it has.
LEMMA Galois ==
    ASSUME set \in Settings, NEW u \in Int, NEW wall \in Int
    PROVE  /\ Wall(u) \in Int /\ Resolve(wall) \in Int
           /\ wall <= Wall(u) <=> Resolve(wall) <= u
<1> DEFINE b == set.before
           a == set.after
           c == set.change
<1>1. b \in Int /\ a \in Int /\ c \in Int /\ a - b \in -1..1
  BY SettingsAre
<1>2. /\ Wall(u) = IF u < c THEN u + b ELSE u + a
      /\ Resolve(wall) = IF wall < c + (IF b > a THEN b ELSE a) THEN wall - b ELSE wall - a
  BY DEF Wall, Resolve, Larger
<1> HIDE DEF a, b, c
<1>3. Wall(u) \in Int /\ Resolve(wall) \in Int
  BY <1>1, <1>2
<1>4. CASE u < c
  BY <1>1, <1>2, <1>4
<1>5. CASE u >= c
  BY <1>1, <1>2, <1>5
<1>6. wall <= Wall(u) <=> Resolve(wall) <= u
  BY <1>1, <1>4, <1>5
<1> QED
  BY <1>3, <1>6

\* The instants of two local times a day or more apart are at least 23 hours apart.
LEMMA ResolveSpreads ==
    ASSUME set \in Settings, NEW v \in Int, NEW w \in Int, v + 24 <= w
    PROVE  Resolve(v) + 23 <= Resolve(w)
<1> DEFINE b == set.before
           a == set.after
           fold == set.change + (IF b > a THEN b ELSE a)
<1>1. b \in Int /\ a \in Int /\ fold \in Int /\ a - b \in -1..1
  BY SettingsAre
<1>2. \A x : Resolve(x) = IF x < fold THEN x - b ELSE x - a
  BY DEF Resolve, Larger
<1> HIDE DEF a, b, fold
<1> QED
  BY <1>1, <1>2

\* Two local targets are equal or a day apart.
LEMMA TargetsApart ==
    ASSUME set \in Settings, NEW v \in Int, NEW w \in Int, IsLocalTarget(v), IsLocalTarget(w), v < w
    PROVE  v + 24 <= w
  BY SettingsAre DEF IsLocalTarget

\* The target of a day is one, and the day before and after it has one.
LEMMA LocalTargetIs ==
    ASSUME set \in Settings, NEW u \in Int
    PROVE  /\ LocalTarget(u) \in Int /\ IsLocalTarget(LocalTarget(u))
           /\ IsLocalTarget(LocalTarget(u) - 24) /\ IsLocalTarget(LocalTarget(u) + 24)
           /\ Wall(u) - 24 < LocalTarget(u) /\ LocalTarget(u) < Wall(u) + 24
<1>1. Wall(u) \in Int
  BY Galois
<1> DEFINE d == Wall(u) \div 24
<1>2. d \in Int /\ 24 * d <= Wall(u) /\ Wall(u) < 24 * d + 24
  BY <1>1
<1>3. set.hour \in 0..23
  BY SettingsAre
<1> HIDE DEF d
<1>4. LocalTarget(u) = 24 * d + set.hour
  BY DEF LocalTarget, d
<1>5. \A k \in Int : ((24 * k + set.hour) - set.hour) \div 24 = k
  BY <1>3
<1>6. \A k \in Int : IsLocalTarget(24 * k + set.hour)
  BY <1>5 DEF IsLocalTarget
<1>7. /\ LocalTarget(u) - 24 = 24 * (d - 1) + set.hour
      /\ LocalTarget(u) + 24 = 24 * (d + 1) + set.hour
  BY <1>2, <1>3, <1>4
<1>8. /\ IsLocalTarget(LocalTarget(u)) /\ IsLocalTarget(LocalTarget(u) - 24)
      /\ IsLocalTarget(LocalTarget(u) + 24)
  <2>1. d - 1 \in Int /\ d + 1 \in Int
    BY <1>2
  <2> QED
    BY <1>2, <1>4, <1>6, <1>7, <2>1, Zenon
<1>9. /\ LocalTarget(u) \in Int
      /\ Wall(u) - 24 < LocalTarget(u) /\ LocalTarget(u) < Wall(u) + 24
  BY <1>1, <1>2, <1>3, <1>4
<1> QED
  BY <1>8, <1>9

\* The instant due at u is that of the last target that has come.
LEMMA ScheduledFor ==
    ASSUME set \in Settings, NEW u \in Int
    PROVE  \E w \in Int : /\ scheduled_for(u) = Resolve(w) /\ IsLocalTarget(w)
                          /\ w <= Wall(u) /\ Wall(u) < w + 24
<1>1. Wall(u) \in Int
  BY Galois
<1>2. CASE Wall(u) < LocalTarget(u)
  <2>1. LocalTarget(u) - 24 \in Int /\ IsLocalTarget(LocalTarget(u) - 24)
    BY LocalTargetIs
  <2>2. LocalTarget(u) - 24 <= Wall(u) /\ Wall(u) < (LocalTarget(u) - 24) + 24
    BY <1>1, <1>2, LocalTargetIs
  <2>3. scheduled_for(u) = Resolve(LocalTarget(u) - 24)
    BY <1>2 DEF scheduled_for
  <2> QED
    BY <2>1, <2>2, <2>3
<1>3. CASE ~(Wall(u) < LocalTarget(u))
  <2>1. LocalTarget(u) <= Wall(u) /\ Wall(u) < LocalTarget(u) + 24
    BY <1>1, <1>3, LocalTargetIs
  <2>2. scheduled_for(u) = Resolve(LocalTarget(u))
    BY <1>3 DEF scheduled_for
  <2> QED
    BY <2>1, <2>2, LocalTargetIs
<1> QED
  BY <1>2, <1>3

\* The next instant is that of the first target still to come.
LEMMA NextScheduledFor ==
    ASSUME set \in Settings, NEW u \in Int
    PROVE  \E w \in Int : /\ next_scheduled_for(u) = Resolve(w) /\ IsLocalTarget(w)
                          /\ w - 24 <= Wall(u) /\ Wall(u) < w
<1>1. Wall(u) \in Int
  BY Galois
<1>2. CASE Wall(u) >= LocalTarget(u)
  <2>1. LocalTarget(u) + 24 \in Int /\ IsLocalTarget(LocalTarget(u) + 24)
    BY LocalTargetIs
  <2>2. (LocalTarget(u) + 24) - 24 <= Wall(u) /\ Wall(u) < LocalTarget(u) + 24
    BY <1>1, <1>2, LocalTargetIs
  <2>3. next_scheduled_for(u) = Resolve(LocalTarget(u) + 24)
    BY <1>2 DEF next_scheduled_for
  <2> QED
    BY <2>1, <2>2, <2>3
<1>3. CASE ~(Wall(u) >= LocalTarget(u))
  <2>1. LocalTarget(u) - 24 <= Wall(u) /\ Wall(u) < LocalTarget(u)
    BY <1>1, <1>3, LocalTargetIs
  <2>2. next_scheduled_for(u) = Resolve(LocalTarget(u))
    BY <1>3 DEF next_scheduled_for
  <2> QED
    BY <2>1, <2>2, LocalTargetIs
<1> QED
  BY <1>2, <1>3

\* A local time is its instant plus one of the two offsets.
LEMMA WallOfInstant ==
    ASSUME set \in Settings, NEW w \in Int, IsLocalTarget(w)
    PROVE  \E o \in {set.before, set.after} : w = Resolve(w) + o /\ IsScheduled(Resolve(w), Resolve(w) + o)
<1>1. \E o \in {set.before, set.after} : w = Resolve(w) + o
  BY SettingsAre DEF Resolve
<1> QED
  BY <1>1 DEF IsScheduled

\* The instants of local times are in their order.
LEMMA ResolveMonotone ==
    ASSUME set \in Settings, NEW v \in Int, NEW w \in Int, v <= w
    PROVE  Resolve(v) <= Resolve(w)
<1>1. \A u \in Int : w <= Wall(u) <=> Resolve(w) <= u
  BY Galois
<1>2. Resolve(w) \in Int /\ Resolve(v) \in Int /\ Wall(Resolve(w)) \in Int
  BY Galois
<1>3. w <= Wall(Resolve(w))
  BY <1>1, <1>2
<1>4. v <= Wall(Resolve(w))
  BY <1>2, <1>3
<1> QED
  BY <1>2, <1>4, Galois

\* What is due at v has come, no later instant has, and it is the one of the last
\* 23 hours, if there is one.
LEMMA DueIsLast ==
    ASSUME set \in Settings, NEW v \in Int
    PROVE  /\ scheduled_for(v) \in Int /\ scheduled_for(v) <= v
           /\ \E o \in {set.before, set.after} : IsScheduled(scheduled_for(v), scheduled_for(v) + o)
           /\ \A u \in Int : u = Resolve(LocalTarget(u)) /\ u <= v =>
                u = scheduled_for(v) \/ u + 23 <= scheduled_for(v)
<1>1. PICK w \in Int : /\ scheduled_for(v) = Resolve(w) /\ IsLocalTarget(w)
                       /\ w <= Wall(v) /\ Wall(v) < w + 24
  BY ScheduledFor
<1>2. Resolve(w) \in Int /\ Resolve(w) <= v /\ Wall(v) \in Int
  BY <1>1, Galois
<1>3. ASSUME NEW u \in Int, u = Resolve(LocalTarget(u)), u <= v
      PROVE  u = Resolve(w) \/ u + 23 <= Resolve(w)
  <2> DEFINE t == LocalTarget(u)
  <2>1. t \in Int /\ IsLocalTarget(t) /\ Resolve(t) = u
    BY <1>3, LocalTargetIs
  <2> HIDE DEF t
  <2>2. t <= Wall(v)
    BY <1>3, <2>1, Galois
  <2>3. ~(w + 24 <= t)
    BY <1>1, <1>2, <2>1, <2>2
  <2>4. ~(w < t)
    BY <1>1, <2>1, <2>3, TargetsApart
  <2>5. CASE t = w
    BY <2>1, <2>5
  <2>6. CASE t < w
    <3>1. t + 24 <= w
      BY <1>1, <2>1, <2>6, TargetsApart
    <3> QED
      BY <2>1, <3>1, ResolveSpreads
  <2> QED
    BY <2>1, <2>4, <2>5, <2>6
<1>4. \E o \in {set.before, set.after} : IsScheduled(Resolve(w), Resolve(w) + o)
  BY <1>1, WallOfInstant
<1> QED
  BY <1>1, <1>2, <1>3, <1>4

\* The next instant is to come, and the one before it is not.
LEMMA NextIsFirst ==
    ASSUME set \in Settings, NEW v \in Int
    PROVE  /\ next_scheduled_for(v) \in Int /\ v < next_scheduled_for(v)
           /\ \E o \in {set.before, set.after} :
                /\ IsScheduled(next_scheduled_for(v), next_scheduled_for(v) + o)
                /\ Resolve((next_scheduled_for(v) + o) - 24) <= v
<1>1. PICK w \in Int : /\ next_scheduled_for(v) = Resolve(w) /\ IsLocalTarget(w)
                       /\ w - 24 <= Wall(v) /\ Wall(v) < w
  BY NextScheduledFor
<1>2. Resolve(w) \in Int /\ Wall(v) \in Int
  BY Galois
<1>3. ~(w <= Wall(v))
  BY <1>1, <1>2
<1>4. v < Resolve(w)
  BY <1>2, <1>3, Galois
<1>5. w - 24 \in Int /\ Resolve(w - 24) <= v
  BY <1>1, Galois
<1>6. PICK o \in {set.before, set.after} : w = Resolve(w) + o /\ IsScheduled(Resolve(w), Resolve(w) + o)
  BY <1>1, WallOfInstant
<1> DEFINE z == Resolve(w) + o
<1>7. z = w
  BY <1>6
<1> HIDE DEF z
<1>8. Resolve(z - 24) <= v
  BY <1>5, <1>7
<1> QED
  BY <1>1, <1>2, <1>4, <1>6, <1>8 DEF z

\* No instant lies between a moment and the target that follows it.
LEMMA NoneBetween ==
    ASSUME set \in Settings, NEW n \in Int, NEW w \in Int, IsLocalTarget(w), Resolve(w - 24) <= n,
           NEW u \in Int, u = Resolve(LocalTarget(u)), n < u
    PROVE  Resolve(w) <= u
<1> DEFINE t == LocalTarget(u)
<1>1. t \in Int /\ IsLocalTarget(t) /\ Resolve(t) = u
  BY LocalTargetIs
<1> HIDE DEF t
<1>2. ~(t < w)
  <2> SUFFICES ASSUME t < w PROVE FALSE
    OBVIOUS
  <2>1. t + 24 <= w
    BY <1>1, TargetsApart
  <2>2. t <= w - 24 /\ w - 24 \in Int
    BY <1>1, <2>1
  <2>3. Resolve(t) <= Resolve(w - 24) /\ Resolve(w - 24) \in Int
    BY <1>1, <2>2, ResolveMonotone, Galois
  <2> QED
    BY <1>1, <2>3
<1>3. w <= t
  BY <1>1, <1>2
<1> QED
  BY <1>1, <1>3, ResolveMonotone

-----------------------------------------------------------------------------
(* The loop.                                                               *)

\* An instant that was not lost so far is not lost when nothing is pending but
\* what the loop sleeps for.
LEMMA PendingIsNotLost ==
    ASSUME ScheduleTypeOK, SleepsUntilNext, PendingIsTarget
    PROVE  NoInstantLost
<1> SUFFICES ASSUME NEW u \in Instants, u + Drift < now, u \notin attempted \cup overrun PROVE FALSE
  BY DEF NoInstantLost
<1>1. mode = "sleeping" /\ target <= u /\ now <= target + Drift
  BY DEF PendingIsTarget, SleepsUntilNext
<1>2. u \in Int /\ now \in Int /\ target \in Int /\ Drift \in Int
  BY ScheduleAssumption DEF ScheduleTypeOK, Instants
<1> QED
  BY <1>1, <1>2

\* The attempt at hand is for what was due when it began.
LEMMA DueIsDue ==
    ASSUME ScheduleTypeOK, AttemptsScheduled
    PROVE  AttemptsAreDue
<1>1. set \in Settings /\ began \in Int /\ due = scheduled_for(began)
  BY DEF ScheduleTypeOK, AttemptsScheduled
<1>2. due \in Int /\ due <= began
  BY <1>1, DueIsLast
<1>3. ASSUME NEW u \in Instants, u <= began PROVE u <= due
  <2>1. u \in Int /\ u = Resolve(LocalTarget(u))
    BY ScheduleAssumption DEF Instants
  <2>2. u = due \/ u + 23 <= due
    BY <1>1, <1>3, <2>1, DueIsLast
  <2> QED
    BY <1>2, <2>1, <2>2
<1> QED
  BY <1>2, <1>3 DEF AttemptsAreDue

\* The parts that the others follow from.
Kept == ScheduleTypeOK /\ AttemptsScheduled /\ SleepsUntilNext /\ PendingIsTarget

\* The four parts imply that attempts are due and that no instant is lost.
LEMMA KeptSuffices == Kept => ScheduleInv
  BY PendingIsNotLost, DueIsDue DEF Kept, ScheduleInv

\* The first attempt is for the instant due at the start.
LEMMA KeptInit == ScheduleInit => Kept
<1> SUFFICES ASSUME ScheduleInit PROVE Kept
  OBVIOUS
<1>1. /\ set \in Settings /\ now = StartHour /\ began = StartHour /\ mode = "running" /\ target = 0
      /\ due = scheduled_for(StartHour) /\ attempted = {scheduled_for(StartHour)} /\ overrun = {}
  BY DEF ScheduleInit
<1>2. StartHour \in Nat /\ Horizon \in Nat /\ StartHour <= Horizon
  BY ScheduleAssumption
<1>3. scheduled_for(StartHour) \in Int
  BY <1>1, <1>2, DueIsLast
<1>4. ScheduleTypeOK
  BY <1>1, <1>2, <1>3 DEF ScheduleTypeOK
<1>5. AttemptsScheduled
  <2>1. \E o \in {set.before, set.after} : IsScheduled(scheduled_for(StartHour), scheduled_for(StartHour) + o)
    BY <1>1, <1>2, DueIsLast
  <2> QED
    BY <1>1, <1>2, <2>1 DEF AttemptsScheduled
<1>6. PendingIsTarget
  <2> SUFFICES ASSUME NEW u \in Instants PROVE u \in attempted
    BY DEF PendingIsTarget
  <2>1. u \in Int /\ u = StartHour /\ u = Resolve(LocalTarget(u))
    BY <1>1, <1>2 DEF Instants
  <2>2. scheduled_for(StartHour) <= StartHour
    BY <1>1, <1>2, DueIsLast
  <2>3. u = scheduled_for(StartHour) \/ u + 23 <= scheduled_for(StartHour)
    BY <1>1, <1>2, <2>1, DueIsLast
  <2> QED
    BY <1>1, <1>2, <1>3, <2>1, <2>2, <2>3
<1>7. SleepsUntilNext
  BY <1>1 DEF SleepsUntilNext
<1> QED
  BY <1>4, <1>5, <1>6, <1>7 DEF Kept

\* An attempt begins: it is for the one instant that may be pending.
LEMMA BeginStep ==
    ASSUME Kept, Begin, mode = "sleeping" \/ mode = "backoff" PROVE Kept'
<1>1. ScheduleTypeOK /\ AttemptsScheduled /\ SleepsUntilNext /\ PendingIsTarget
  BY DEF Kept
<1>2. /\ mode' = "running" /\ due' = scheduled_for(now) /\ began' = now
      /\ attempted' = attempted \cup {scheduled_for(now)}
      /\ UNCHANGED <<set, now, target, overrun>>
  BY DEF Begin
<1>3. set \in Settings /\ now \in Nat /\ target \in Int /\ Drift \in 0..22
  BY <1>1, ScheduleAssumption DEF ScheduleTypeOK
<1>4. scheduled_for(now) \in Int /\ scheduled_for(now) <= now
  BY <1>3, DueIsLast
<1>5. ScheduleTypeOK'
  BY <1>1, <1>2, <1>3, <1>4 DEF ScheduleTypeOK
<1>6. ASSUME NEW u \in Instants PROVE u \in attempted' \cup overrun
  <2> SUFFICES ASSUME u \notin attempted \cup overrun PROVE u = scheduled_for(now)
    BY <1>2
  <2>1. mode = "sleeping" /\ target <= u /\ now <= target + Drift
    BY <1>1 DEF PendingIsTarget, SleepsUntilNext
  <2>2. u \in Int /\ u <= now /\ u = Resolve(LocalTarget(u))
    BY <1>3, ScheduleAssumption DEF Instants
  <2>3. u = scheduled_for(now) \/ u + 23 <= scheduled_for(now)
    BY <1>3, <2>2, DueIsLast
  <2> QED
    BY <1>3, <1>4, <2>1, <2>2, <2>3
<1>7. Instants' = Instants
  BY <1>2 DEF Instants, Resolve, Larger, Wall, LocalTarget
<1>8. PendingIsTarget'
  BY <1>2, <1>6, <1>7 DEF PendingIsTarget
<1>9. SleepsUntilNext'
  BY <1>2 DEF SleepsUntilNext
<1>10. AttemptsScheduled'
  <2>1. \E o \in {set.before, set.after} : IsScheduled(scheduled_for(now), scheduled_for(now) + o)
    BY <1>3, DueIsLast
  <2>2. \A u \in attempted' : \E o \in {set.before, set.after} : IsScheduled(u, u + o)
    BY <1>1, <1>2, <2>1 DEF AttemptsScheduled
  <2>3. (\A u \in attempted : \E o \in {set.before, set.after} : IsScheduled(u, u + o))'
    BY <1>2, <2>2 DEF IsScheduled, IsLocalTarget, Resolve, Larger
  <2>4. (due = scheduled_for(began))'
    BY <1>2 DEF scheduled_for, Resolve, Larger, LocalTarget, Wall
  <2>5. due' \in attempted' /\ began' <= now'
    BY <1>2, <1>3
  <2> QED
    BY <2>3, <2>4, <2>5 DEF AttemptsScheduled
<1> QED
  BY <1>5, <1>8, <1>9, <1>10 DEF Kept

\* The attempts made stay scheduled ones while the setting stays and none begins.
LEMMA AttemptsKept ==
    ASSUME AttemptsScheduled, UNCHANGED <<set, due, began, attempted>>, began <= now'
    PROVE  AttemptsScheduled'
<1>1. (\A u \in attempted : \E o \in {set.before, set.after} : IsScheduled(u, u + o))'
  BY DEF AttemptsScheduled, IsScheduled, IsLocalTarget, Resolve, Larger
<1>2. (due = scheduled_for(began))'
  BY DEF AttemptsScheduled, scheduled_for, Resolve, Larger, LocalTarget, Wall
<1>3. (due \in attempted /\ began <= now)'
  BY DEF AttemptsScheduled
<1> QED
  BY <1>1, <1>2, <1>3 DEF AttemptsScheduled

\* The steps that move neither the clock nor the target, and begin nothing.
LEMMA StayStep ==
    ASSUME Kept, UNCHANGED <<set, now, due, target, began, attempted, overrun>>,
           mode' = mode \/ (mode = "running" /\ mode' = "backoff")
    PROVE  Kept'
<1>1. ScheduleTypeOK /\ AttemptsScheduled /\ SleepsUntilNext /\ PendingIsTarget
  BY DEF Kept
<1>2. ScheduleTypeOK'
  BY <1>1 DEF ScheduleTypeOK
<1>3. AttemptsScheduled'
  <2>1. began <= now'
    BY <1>1 DEF AttemptsScheduled
  <2> QED
    BY <1>1, <2>1, AttemptsKept
<1>4. SleepsUntilNext'
  BY <1>1 DEF SleepsUntilNext, IsScheduled, IsLocalTarget, Resolve, Larger
<1>5. Instants' = Instants
  BY DEF Instants, Resolve, Larger, Wall, LocalTarget
<1>6. PendingIsTarget'
  BY <1>1, <1>5 DEF PendingIsTarget
<1> QED
  BY <1>2, <1>3, <1>4, <1>6 DEF Kept

\* An attempt returns: the loop will sleep until the next instant.
LEMMA ReturnStep == ASSUME Kept, Return PROVE Kept'
<1>1. ScheduleTypeOK /\ AttemptsScheduled /\ PendingIsTarget
  BY DEF Kept
<1>2. /\ mode = "running" /\ mode' = "sleeping" /\ target' = next_scheduled_for(now)
      /\ UNCHANGED <<set, now, due, began, attempted, overrun>>
  BY DEF Return
<1>3. set \in Settings /\ now \in Nat /\ Drift \in Nat
  BY <1>1, ScheduleAssumption DEF ScheduleTypeOK
<1>4. target' \in Int /\ now < target'
  BY <1>2, <1>3, NextIsFirst
<1>5. ScheduleTypeOK'
  BY <1>1, <1>2, <1>4 DEF ScheduleTypeOK
<1>6. AttemptsScheduled'
  <2>1. began <= now'
    BY <1>1, <1>2 DEF AttemptsScheduled
  <2> QED
    BY <1>1, <1>2, <2>1, AttemptsKept
<1>7. SleepsUntilNext'
  <2>1. now' <= target' + Drift
    BY <1>2, <1>3, <1>4
  <2>2. \E o \in {set.before, set.after} :
          IsScheduled(target', target' + o) /\ Resolve((target' + o) - 24) <= now
    BY <1>2, <1>3, NextIsFirst
  <2>3. (\E o \in {set.before, set.after} :
          IsScheduled(target, target + o) /\ Resolve((target + o) - 24) <= now)'
    BY <1>2, <2>2 DEF IsScheduled, IsLocalTarget, Resolve, Larger
  <2> QED
    BY <2>1, <2>3 DEF SleepsUntilNext
<1>8. Instants' = Instants
  BY <1>2 DEF Instants, Resolve, Larger, Wall, LocalTarget
<1>9. PendingIsTarget'
  BY <1>1, <1>2, <1>8 DEF PendingIsTarget
<1> QED
  BY <1>5, <1>6, <1>7, <1>9 DEF Kept

\* The clock moves: an instant that comes is overrun, or it is the target.
LEMMA TickStep == ASSUME Kept, Tick PROVE Kept'
<1>1. ScheduleTypeOK /\ AttemptsScheduled /\ SleepsUntilNext /\ PendingIsTarget
  BY DEF Kept
<1>2. /\ now < Horizon /\ now' = now + 1
      /\ overrun' = IF mode = "running" /\ now + 1 = Resolve(LocalTarget(now + 1))
                    THEN overrun \cup {now + 1} ELSE overrun
      /\ UNCHANGED <<set, mode, due, target, began, attempted>>
  BY DEF Tick
<1>3. /\ mode \in {"running", "sleeping"} /\ (mode = "sleeping" => now < target + Drift)
  BY <1>1 DEF Tick, ScheduleTypeOK
<1>4. /\ set \in Settings /\ now \in Nat /\ now \in StartHour..Horizon /\ target \in Int
      /\ Drift \in Nat /\ StartHour \in Nat /\ Horizon \in Nat /\ began \in Nat
  BY <1>1, ScheduleAssumption DEF ScheduleTypeOK
<1>5. ScheduleTypeOK'
  <2>1. now' \in StartHour..Horizon
    BY <1>2, <1>4
  <2> QED
    BY <1>1, <1>2, <1>4, <2>1 DEF ScheduleTypeOK
<1>6. AttemptsScheduled'
  <2>1. began <= now'
    BY <1>1, <1>2, <1>4 DEF AttemptsScheduled
  <2> QED
    BY <1>1, <1>2, <2>1, AttemptsKept
<1>7. SleepsUntilNext'
  <2> SUFFICES ASSUME mode = "sleeping" PROVE SleepsUntilNext'
    BY <1>2 DEF SleepsUntilNext
  <2>1. PICK o \in {set.before, set.after} :
          IsScheduled(target, target + o) /\ Resolve((target + o) - 24) <= now
    BY <1>1 DEF SleepsUntilNext
  <2>2. (target + o) - 24 \in Int /\ Resolve((target + o) - 24) \in Int
    <3>1. o \in Int
      BY <1>4, OffsetsAre
    <3>2. (target + o) - 24 \in Int
      BY <1>4, <3>1
    <3> QED
      BY <1>4, <3>2, Galois
  <2>3. now' <= target + Drift /\ Resolve((target + o) - 24) <= now'
    BY <1>2, <1>3, <1>4, <2>1, <2>2
  <2>4. (\E x \in {set.before, set.after} :
          IsScheduled(target, target + x) /\ Resolve((target + x) - 24) <= now)'
    BY <1>2, <2>1, <2>3 DEF IsScheduled, IsLocalTarget, Resolve, Larger
  <2> QED
    BY <1>2, <2>3, <2>4 DEF SleepsUntilNext
<1>8. Instants' = Instants \cup (IF now + 1 = Resolve(LocalTarget(now + 1)) THEN {now + 1} ELSE {})
  <2>1. StartHour..now' = (StartHour..now) \cup {now + 1}
    BY <1>2, <1>4
  <2>2. Instants' = {u \in StartHour..now' : u = Resolve(LocalTarget(u))}
    BY <1>2 DEF Instants, Resolve, Larger, Wall, LocalTarget
  <2> QED
    BY <2>1, <2>2 DEF Instants
<1>9. PendingIsTarget'
  <2> SUFFICES ASSUME NEW u \in Instants', u \notin attempted' \cup overrun'
               PROVE  mode = "sleeping" /\ target <= u
    BY <1>2 DEF PendingIsTarget
  <2>1. u \notin attempted \cup overrun
    BY <1>2
  <2>2. CASE u \in Instants
    BY <1>1, <2>1, <2>2 DEF PendingIsTarget
  <2>3. CASE u \notin Instants
    <3>1. u = now + 1 /\ u = Resolve(LocalTarget(u)) /\ u \in Int
      BY <1>4, <1>8, <2>3
    <3>2. mode = "sleeping"
      BY <1>2, <1>3, <3>1
    <3>3. PICK o \in {set.before, set.after} :
            IsScheduled(target, target + o) /\ Resolve((target + o) - 24) <= now
      BY <1>1, <3>2 DEF SleepsUntilNext
    <3>4. target + o \in Int /\ IsLocalTarget(target + o) /\ Resolve(target + o) = target
      BY <1>4, <3>3, SettingsAre DEF IsScheduled
    <3> DEFINE w == target + o
    <3>5. w \in Int /\ IsLocalTarget(w) /\ Resolve(w - 24) <= now
      BY <3>3, <3>4
    <3>6. now < u /\ now \in Int
      BY <1>4, <3>1
    <3> HIDE DEF w
    <3>7. Resolve(w) <= u
      BY <1>4, <3>1, <3>5, <3>6, NoneBetween
    <3> QED
      BY <3>2, <3>4, <3>7 DEF w
  <2> QED
    BY <2>2, <2>3
<1> QED
  BY <1>5, <1>6, <1>7, <1>9 DEF Kept

\* Every step of the loop and of the clock keeps the four parts.
LEMMA KeptStep == Kept /\ [ScheduleNext]_scheduleVars => Kept'
<1> SUFFICES ASSUME Kept, [ScheduleNext]_scheduleVars PROVE Kept'
  OBVIOUS
<1>1. CASE Wake \/ Retry
  BY <1>1, BeginStep DEF Wake, Retry
<1>2. CASE Return
  BY <1>2, ReturnStep
<1>3. CASE Raise
  BY <1>3, StayStep DEF Raise
<1>4. CASE Tick
  BY <1>4, TickStep
<1>5. CASE UNCHANGED scheduleVars
  BY <1>5, StayStep DEF scheduleVars
<1> QED
  BY <1>1, <1>2, <1>3, <1>4, <1>5 DEF ScheduleNext

\* The four parts hold at all times.
LEMMA KeptAlways == ScheduleSpec => []Kept
  BY KeptInit, KeptStep, PTL DEF ScheduleSpec

\* DailyScheduler attempts the instant that is due and skips none: an instant that
\* is not attempted fell into a running attempt, at every hour, in every zone and
\* on both sides of a clock change.
THEOREM ScheduleInvariant == ScheduleSpec => []ScheduleInv
  BY KeptAlways, KeptSuffices, PTL

-----------------------------------------------------------------------------
(* Idempotency keys.                                                       *)

\* The key of an instant is the number of its local day, shifted by a day or not.
LEMMA KeyIsDay ==
    ASSUME set \in Settings, NEW k \in Int, NEW o \in {set.before, set.after}
    PROVE  idempotency_key(24 * k + (set.hour - o)) = k + ((set.hour - o) \div 24)
<1>0. set.hour \in Int /\ o \in Int
  BY SettingsAre, OffsetsAre
<1>1. set.hour - o \in Int
  BY <1>0
<1>3. \A x \in Int : (24 * k + x) \div 24 = k + (x \div 24)
  OBVIOUS
<1> QED
  BY <1>1, <1>3 DEF idempotency_key

\* Later days have later keys.
LEMMA KeysGrow ==
    ASSUME NoCrossing, set \in Settings, NEW v \in Int, NEW w \in Int,
           IsLocalTarget(v), IsLocalTarget(w), v < w
    PROVE  idempotency_key(Resolve(v)) < idempotency_key(Resolve(w))
<1> DEFINE j == (v - set.hour) \div 24
           k == (w - set.hour) \div 24
           b == (set.hour - set.before) \div 24
           a == (set.hour - set.after) \div 24
<1>0. set.hour \in Int /\ set.before \in Int /\ set.after \in Int /\ set.change \in Int
  BY SettingsAre
<1>1. j \in Int /\ k \in Int /\ b \in Int /\ a \in Int
  BY <1>0
<1>2. v = 24 * j + set.hour /\ w = 24 * k + set.hour
  BY DEF IsLocalTarget
<1>3. b <= a
  BY DEF NoCrossing
<1>4. /\ idempotency_key(24 * j + (set.hour - set.before)) = j + b
      /\ idempotency_key(24 * j + (set.hour - set.after)) = j + a
      /\ idempotency_key(24 * k + (set.hour - set.before)) = k + b
      /\ idempotency_key(24 * k + (set.hour - set.after)) = k + a
  BY <1>1, KeyIsDay
<1> DEFINE edge == set.change + Larger
<1>5. edge \in Int
  BY <1>0 DEF Larger
<1>6. /\ Resolve(v) = IF v < edge THEN v - set.before ELSE v - set.after
      /\ Resolve(w) = IF w < edge THEN w - set.before ELSE w - set.after
  BY DEF Resolve
<1> HIDE DEF j, k, a, b, edge
<1>7. j < k
  BY <1>0, <1>1, <1>2
<1>x. /\ \A x, y, z \in Int : (24 * x + y) - z = 24 * x + (y - z)
  OBVIOUS
<1>v. /\ idempotency_key(v - set.before) = j + b /\ idempotency_key(v - set.after) = j + a
  BY <1>0, <1>1, <1>2, <1>4, <1>x
<1>w. /\ idempotency_key(w - set.before) = k + b /\ idempotency_key(w - set.after) = k + a
  BY <1>0, <1>1, <1>2, <1>4, <1>x
<1>8. idempotency_key(Resolve(v)) = IF v < edge THEN j + b ELSE j + a
  BY <1>v, <1>6
<1>9. idempotency_key(Resolve(w)) = IF w < edge THEN k + b ELSE k + a
  BY <1>w, <1>6
<1>10. w < edge => v < edge
  BY <1>5
<1> QED
  BY <1>1, <1>3, <1>7, <1>8, <1>9, <1>10

\* Two scheduled days never share an idempotency key, unless setting the clock
\* forward takes the scheduled hour back over midnight UTC.
THEOREM KeysAreDistinct ==
    ASSUME NoCrossing PROVE ScheduleSpec => []KeysDistinguishDays
<1>1. Kept => KeysDistinguishDays
  <2> SUFFICES ASSUME Kept, NEW x \in attempted, NEW y \in attempted,
                      idempotency_key(x) = idempotency_key(y)
               PROVE  x = y
    BY DEF KeysDistinguishDays
  <2>1. set \in Settings /\ x \in Int /\ y \in Int
    BY DEF Kept, ScheduleTypeOK
  <2>2. PICK o \in {set.before, set.after} : IsScheduled(x, x + o)
    BY DEF Kept, AttemptsScheduled
  <2>3. PICK p \in {set.before, set.after} : IsScheduled(y, y + p)
    BY DEF Kept, AttemptsScheduled
  <2>4. /\ x + o \in Int /\ IsLocalTarget(x + o) /\ x = Resolve(x + o)
        /\ y + p \in Int /\ IsLocalTarget(y + p) /\ y = Resolve(y + p)
    BY <2>1, <2>2, <2>3, SettingsAre DEF IsScheduled
  <2>5. idempotency_key(x) \in Int
    BY <2>1 DEF idempotency_key
  <2>6. ~(x + o < y + p)
    BY <2>1, <2>4, <2>5, KeysGrow
  <2>7. ~(y + p < x + o)
    BY <2>1, <2>4, <2>5, KeysGrow
  <2>8. x + o = y + p
    BY <2>4, <2>6, <2>7
  <2> QED
    BY <2>4, <2>8
<1> QED
  BY <1>1, KeptAlways, PTL

-----------------------------------------------------------------------------
(* The collection. *)

USE PipelineAssumption

\* A commit writes a well-typed row whatever row it found.
LEMMA NewRowType ==
    ASSUME TypeOK, NEW w \in Worker, NEW row \in Row \cup {NoRow}
    PROVE  NewRow(w, row) \in Row
<1>1. job[w].scope \subseteq Source
  <2>1. job[w] \in Job
    BY DEF TypeOK
  <2> QED
    BY <2>1 DEF Job, NoJob
<1>2. IsFiniteSet(job[w].scope)
  BY <1>1, FS_Subset
<1>3. \A st : WithStatus(w, st) \subseteq job[w].scope
  BY DEF WithStatus
<1>4. /\ Cardinality(job[w].scope) \in Nat
      /\ Cardinality(WithStatus(w, "completed")) \in Nat
      /\ Cardinality(WithStatus(w, "failed")) \in Nat
  BY <1>2, <1>3, FS_Subset, FS_CardinalityType
<1>5. CollectionStatus(w) \in {"completed", "failed"}
  BY DEF CollectionStatus
<1>6. \A s \in Source : StatusOf(w, s) \in SourceStatus
  BY DEF StatusOf, SourceStatus
<1>7. /\ row.total \in Nat
      /\ row.found \in BOOLEAN
      /\ \A s \in Source : row.src[s] \in SourceStatus
  <2>1. CASE row \in Row
    <3>1. row.found \in BOOLEAN
      BY <2>1, Zenon DEF Row
    <3> QED
      BY <2>1, <3>1 DEF Row
  <2>2. CASE row = NoRow
    BY <2>2 DEF NoRow, SourceStatus
  <2> QED
    BY <2>1, <2>2
<1>8. (IF Documents(w) = {} THEN row.found
       ELSE \E s \in Documents(w) : outcome[w][s] \in Bearing) \in BOOLEAN
  BY <1>7
<1>9. [s \in Source |-> IF s \in job[w].scope THEN StatusOf(w, s) ELSE row.src[s]]
        \in [Source -> SourceStatus]
  BY <1>6, <1>7
<1>10. (IF row = NoRow THEN Cardinality(job[w].scope) ELSE row.total) \in Nat
  BY <1>4, <1>7
<1> HIDE DEF NoRow
<1> QED
  BY <1>4, <1>5, <1>8, <1>9, <1>10 DEF NewRow, Row

\* A commit writes well-typed chains and failure counts.
LEMMA CommitTypes ==
    ASSUME TypeOK, NEW w \in Worker
    PROVE  /\ [s \in Source |-> NewChain(w, s)] \in [Source -> Seq(Content)]
           /\ [s \in Source |-> NewFailures(w, s)] \in [Source -> Nat]
<1>1. ASSUME NEW s \in Source PROVE NewChain(w, s) \in Seq(Content)
  BY DEF NewChain, Documents, TypeOK
<1>2. ASSUME NEW s \in Source PROVE NewFailures(w, s) \in Nat
  BY DEF NewFailures, TypeOK
<1> QED
  BY <1>1, <1>2

\* The states of the workers are well typed after every step, and so is the
\* database.
LEMMA TypeStep == TypeOK /\ [Next]_vars => TypeOK'
<1> SUFFICES ASSUME TypeOK, [Next]_vars PROVE TypeOK'
  OBVIOUS
<1> USE DEF TypeOK, dbVars, envVars
<1>1. CASE NewDay
  BY <1>1 DEF NewDay, Day
<1>2. ASSUME NEW s \in Source, RemoteChange(s) PROVE TypeOK'
  BY <1>2 DEF RemoteChange
<1>3. ASSUME NEW w \in Worker, Start(w) PROVE TypeOK'
  <2>1. ASSUME NEW j \in Job, StartWith(w, j) PROVE TypeOK'
    BY <2>1 DEF StartWith, Pc, NoValidators
  <2>2. /\ \A d \in Day : <<"daily", d>> \in Key
        /\ \A k \in FirstKey : <<"retry", k>> \in Key
    BY DEF Key, FirstKey
  <2>3. CASE SchedulerStart(w)
    BY <2>1, <2>2, <2>3 DEF SchedulerStart, DailyKey, Job
  <2>4. CASE CliRunDaily(w)
    BY <2>1, <2>2, <2>4 DEF CliRunDaily, DailyKey, Job
  <2>5. CASE CliRetryFailed(w)
    <3>1. PICK k \in FirstKey : StartWith(w, [key |-> <<"retry", k>>,
                                              scope |-> FailedSources(k)])
      BY <2>5 DEF CliRetryFailed
    <3>2. FailedSources(k) \subseteq Source
      BY DEF FailedSources
    <3>3. [key |-> <<"retry", k>>, scope |-> FailedSources(k)] \in Job
      BY <2>2, <3>2 DEF Job
    <3> QED
      BY <2>1, <3>1, <3>3
  <2>6. CASE TriggerSubmit(w)
    <3>1. <<"manual", w>> \in Key
      BY <2>6 DEF TriggerSubmit, Key, FirstKey
    <3> QED
      BY <2>1, <2>6, <3>1 DEF TriggerSubmit, Job
  <2> QED
    BY <1>3, <2>3, <2>4, <2>5, <2>6 DEF Start
<1>4. ASSUME NEW w \in Worker, Proceed(w) PROVE TypeOK'
  <2>1. CASE LockBusy(w)
    BY <2>1 DEF LockBusy, AfterReturn, Sleep, Report, Pc, Job, Day
  <2>10. CASE LockRaises(w)
    BY <2>10 DEF LockRaises, AfterReturn, AfterRaise, Sleep, Report, Pc, Job, Day
  <2>2. CASE LockAcquired(w)
    BY <2>2 DEF LockAcquired, Pc, Outcome
  <2>3. ASSUME NEW s \in Source, CollectSource(w, s) PROVE TypeOK'
    <3>1. ASSUME NEW o \in Outcome, Collected(w, s, o),
                 validators' \in [Worker -> [Source -> Content \cup {NoContent}]]
          PROVE  TypeOK'
      <4>1. outcome' \in [Worker -> [Source -> Outcome]]
        BY <3>1 DEF Collected
      <4> QED
        BY <3>1, <4>1 DEF Collected
    <3>2. CASE SkipDisabled(w, s)
      BY <3>1, <3>2 DEF SkipDisabled, Outcome
    <3>3. CASE FetchNotModified(w, s)
      BY <3>1, <3>3 DEF FetchNotModified, Outcome
    <3>4. CASE FetchBody(w, s)
      BY <3>1, <3>4 DEF FetchBody, Outcome
    <3>5. CASE FetchFailed(w, s)
      BY <3>1, <3>5 DEF FetchFailed, Outcome
    <3> QED
      BY <2>3, <3>2, <3>3, <3>4, <3>5 DEF CollectSource
  <2>4. CASE PersistReplay(w)
    <3>1. runs[job[w].key].status = "completed"
      BY <2>4 DEF PersistReplay, RunFinished
    <3> QED
      BY <2>4, <3>1 DEF PersistReplay, Pc
  <2>5. CASE PersistCollection(w)
    <3>1. runs' \in [Key -> Row \cup {NoRow}]
      <4>1. CASE job[w].key \in Key
        <5>1. runs[job[w].key] \in Row \cup {NoRow}
          BY <4>1
        <5>2. NewRow(w, runs[job[w].key]) \in Row
          BY <5>1, NewRowType
        <5> QED
          BY <2>5, <4>1, <5>2 DEF PersistCollection
      <4>2. CASE job[w].key \notin Key
        BY <2>5, <4>2 DEF PersistCollection
      <4> QED
        BY <4>1, <4>2
    <3>2. docs' \in [Source -> Seq(Content)] /\ failures' \in [Source -> Nat]
      BY <2>5, CommitTypes DEF PersistCollection
    <3> QED
      BY <2>5, <3>1, <3>2 DEF PersistCollection, CollectionStatus, Pc
  <2>6. CASE PersistFails(w)
    BY <2>6 DEF PersistFails, Pc
  <2>7. CASE EnrichRunCves(w)
    BY <2>7 DEF EnrichRunCves, Pc
  <2>8. CASE EnrichRaises(w)
    BY <2>8 DEF EnrichRaises, Pc
  <2>9. CASE Release(w)
    BY <2>9 DEF Release, AfterReturn, AfterRaise, Sleep, Report, Pc, Job,
                NoOutcome, Outcome, Day
  <2> QED
    BY <1>4, <2>1, <2>2, <2>3, <2>4, <2>5, <2>6, <2>7, <2>8, <2>9, <2>10 DEF Proceed
<1>5. ASSUME NEW w \in Worker, ConnectionLost(w) PROVE TypeOK'
  BY <1>5 DEF ConnectionLost
<1>6. ASSUME NEW w \in Worker, Crash(w) PROVE TypeOK'
  BY <1>6 DEF Crash, Pc, Job, NoValidators, NoOutcome, Outcome
<1>7. CASE UNCHANGED vars
  BY <1>7 DEF vars
<1> QED
  BY <1>1, <1>2, <1>3, <1>4, <1>5, <1>6, <1>7 DEF Next

\* The initial state is well typed.
LEMMA TypeInit == Init => TypeOK
  BY DEF Init, TypeOK, Pc, Job, NoOutcome, Outcome, NoValidators, Day

\* Every variable of the pipeline keeps its type, for every registry and every
\* set of processes.
THEOREM TypeCorrect == Spec => []TypeOK
<1> QED
  BY TypeInit, TypeStep, PTL DEF Spec

\* The lock, the lock connections and the attempts under way stay in step.
LEMMA SectionStep ==
    TypeOK /\ SectionBookkeeping /\ LockHeldInSection /\ [Next]_vars
        => SectionBookkeeping' /\ LockHeldInSection'
<1> SUFFICES ASSUME TypeOK, SectionBookkeeping, LockHeldInSection, [Next]_vars
             PROVE  SectionBookkeeping' /\ LockHeldInSection'
  OBVIOUS
<1> USE DEF TypeOK, SectionBookkeeping, LockHeldInSection, InSection, dbVars, envVars
<1>1. CASE NewDay
  BY <1>1 DEF NewDay
<1>2. ASSUME NEW s \in Source, RemoteChange(s)
      PROVE  SectionBookkeeping' /\ LockHeldInSection'
  BY <1>2 DEF RemoteChange
<1>3. ASSUME NEW w \in Worker, Start(w)
      PROVE  SectionBookkeeping' /\ LockHeldInSection'
  <2>1. PICK j : j.key \in Key /\ StartWith(w, j)
    <3>1. CASE SchedulerStart(w)
      BY <3>1 DEF SchedulerStart, DailyKey, Key, FirstKey
    <3>2. CASE CliRunDaily(w)
      BY <3>2 DEF CliRunDaily, DailyKey, Key, FirstKey
    <3>3. CASE CliRetryFailed(w)
      BY <3>3 DEF CliRetryFailed, Key, FirstKey
    <3>4. CASE TriggerSubmit(w)
      BY <3>4 DEF TriggerSubmit, Key, FirstKey
    <3> QED
      BY <1>3, <3>1, <3>2, <3>3, <3>4 DEF Start
  <2>2. pc[w] \notin InSection
    BY <1>3 DEF Start, SchedulerStart, CliRunDaily, CliRetryFailed, TriggerSubmit
  <2> QED
    BY <2>1, <2>2 DEF StartWith
<1>4. ASSUME NEW w \in Worker, Proceed(w)
      PROVE  SectionBookkeeping' /\ LockHeldInSection'
  <2>1. CASE LockBusy(w)
    BY <2>1 DEF LockBusy, AfterReturn
  <2>10. CASE LockRaises(w)
    BY <2>10 DEF LockRaises, AfterReturn, AfterRaise
  <2>2. CASE LockAcquired(w)
    BY <2>2 DEF LockAcquired
  <2>3. ASSUME NEW s \in Source, CollectSource(w, s)
        PROVE  SectionBookkeeping' /\ LockHeldInSection'
    BY <2>3 DEF CollectSource, SkipDisabled, FetchNotModified, FetchBody,
                FetchFailed, Collected
  <2>4. CASE PersistReplay(w)
    BY <2>4 DEF PersistReplay, Gathered
  <2>5. CASE PersistCollection(w)
    BY <2>5 DEF PersistCollection, Gathered
  <2>6. CASE PersistFails(w)
    BY <2>6 DEF PersistFails, Gathered
  <2>7. CASE EnrichRunCves(w)
    BY <2>7 DEF EnrichRunCves
  <2>8. CASE EnrichRaises(w)
    BY <2>8 DEF EnrichRaises
  <2>9. CASE Release(w)
    BY <2>9 DEF Release, AfterReturn, AfterRaise
  <2> QED
    BY <1>4, <2>1, <2>2, <2>3, <2>4, <2>5, <2>6, <2>7, <2>8, <2>9, <2>10 DEF Proceed
<1>5. ASSUME NEW w \in Worker, ConnectionLost(w)
      PROVE  SectionBookkeeping' /\ LockHeldInSection'
  BY <1>5 DEF ConnectionLost
<1>6. ASSUME NEW w \in Worker, Crash(w)
      PROVE  SectionBookkeeping' /\ LockHeldInSection'
  BY <1>6 DEF Crash
<1>7. CASE UNCHANGED vars
  BY <1>7 DEF vars
<1> QED
  BY <1>1, <1>2, <1>3, <1>4, <1>5, <1>6, <1>7 DEF Next

\* Only the persistence transaction writes the database.
LEMMA DbStep == [Next]_vars => UNCHANGED dbVars \/ \E w \in Worker : PersistCollection(w)
<1> USE DEF dbVars
<1>1. NewDay => UNCHANGED dbVars
  BY DEF NewDay
<1>2. ASSUME NEW s \in Source PROVE RemoteChange(s) => UNCHANGED dbVars
  BY DEF RemoteChange
<1>3. ASSUME NEW w \in Worker PROVE Start(w) => UNCHANGED dbVars
  BY DEF Start, SchedulerStart, CliRunDaily, CliRetryFailed, TriggerSubmit, StartWith
<1>4. ASSUME NEW w \in Worker PROVE Proceed(w) => UNCHANGED dbVars \/ PersistCollection(w)
  BY DEF Proceed, LockBusy, LockRaises, LockAcquired, CollectSource, SkipDisabled,
         FetchNotModified, FetchBody, FetchFailed, Collected, PersistReplay,
         PersistFails, EnrichRunCves, EnrichRaises, Release
<1>5. ASSUME NEW w \in Worker PROVE ConnectionLost(w) \/ Crash(w) => UNCHANGED dbVars
  BY DEF ConnectionLost, Crash
<1> QED
  BY <1>1, <1>2, <1>3, <1>4, <1>5 DEF Next, vars

\* The worker that commits holds the lock.
LEMMA CommitterHolds ==
    ASSUME TypeOK, LockHeldInSection, NEW w \in Worker, PersistCollection(w)
    PROVE  lock = w /\ pc[w] = "collecting" /\ lock' = lock
  BY DEF LockHeldInSection, InSection, PersistCollection, Gathered, CanCommit

\* What an attempt is about to report stays what its row says, because the
\* rows cannot change under a worker whose lock connection is alive.
LEMMA ReportStep ==
    TypeOK /\ SectionBookkeeping /\ LockHeldInSection /\ ReportMatchesRow /\ [Next]_vars
        => ReportMatchesRow'
<1> SUFFICES ASSUME TypeOK, SectionBookkeeping, LockHeldInSection, ReportMatchesRow,
                    [Next]_vars,
                    NEW v \in Worker,
                    pc'[v] \in {"enriching", "releasing"}, conn'[v] = "open",
                    result'[v] # "error"
             PROVE  result'[v] = runs'[job'[v].key].status
  BY DEF ReportMatchesRow
<1> USE DEF TypeOK, dbVars, envVars
<1>1. CASE NewDay
  BY <1>1 DEF NewDay, ReportMatchesRow
<1>2. ASSUME NEW s \in Source, RemoteChange(s)
      PROVE  result'[v] = runs'[job'[v].key].status
  BY <1>2 DEF RemoteChange, ReportMatchesRow
<1>3. ASSUME NEW w \in Worker, Start(w)
      PROVE  result'[v] = runs'[job'[v].key].status
  <2>1. PICK j : StartWith(w, j)
    BY <1>3 DEF Start, SchedulerStart, CliRunDaily, CliRetryFailed, TriggerSubmit
  <2> QED
    BY <2>1 DEF StartWith, ReportMatchesRow
<1>4. ASSUME NEW w \in Worker, Proceed(w)
      PROVE  result'[v] = runs'[job'[v].key].status
  <2>1. CASE LockBusy(w)
    BY <2>1 DEF LockBusy, AfterReturn, ReportMatchesRow
  <2>10. CASE LockRaises(w)
    BY <2>10 DEF LockRaises, AfterReturn, AfterRaise, ReportMatchesRow
  <2>2. CASE LockAcquired(w)
    BY <2>2 DEF LockAcquired, ReportMatchesRow
  <2>3. ASSUME NEW s \in Source, CollectSource(w, s)
        PROVE  result'[v] = runs'[job'[v].key].status
    BY <2>3 DEF CollectSource, SkipDisabled, FetchNotModified, FetchBody,
                FetchFailed, Collected, ReportMatchesRow
  <2>4. CASE PersistReplay(w)
    BY <2>4 DEF PersistReplay, ReportMatchesRow
  <2>5. CASE PersistCollection(w)
    <3>1. CASE v = w
      <4>1. job[w].key \in Key
        BY <2>5 DEF PersistCollection, Gathered, SectionBookkeeping, InSection
      <4>2. runs'[job[w].key] = NewRow(w, runs[job[w].key])
        BY <2>5, <4>1 DEF PersistCollection
      <4>3. runs'[job[w].key].status = CollectionStatus(w)
        BY <4>2 DEF NewRow
      <4> QED
        BY <2>5, <3>1, <4>3 DEF PersistCollection
    <3>2. CASE v # w
      <4>1. pc[v] \in InSection /\ conn[v] = "open"
        BY <2>5, <3>2 DEF PersistCollection, InSection
      <4>2. lock = v
        BY <4>1 DEF LockHeldInSection
      <4> QED
        BY <2>5, <3>2, <4>2, CommitterHolds
    <3> QED
      BY <3>1, <3>2
  <2>6. CASE PersistFails(w)
    BY <2>6 DEF PersistFails, ReportMatchesRow
  <2>7. CASE EnrichRunCves(w)
    BY <2>7 DEF EnrichRunCves, ReportMatchesRow
  <2>8. CASE EnrichRaises(w)
    BY <2>8 DEF EnrichRaises, ReportMatchesRow
  <2>9. CASE Release(w)
    BY <2>9 DEF Release, AfterReturn, AfterRaise, ReportMatchesRow
  <2> QED
    BY <1>4, <2>1, <2>2, <2>3, <2>4, <2>5, <2>6, <2>7, <2>8, <2>9, <2>10 DEF Proceed
<1>5. ASSUME NEW w \in Worker, ConnectionLost(w)
      PROVE  result'[v] = runs'[job'[v].key].status
  BY <1>5 DEF ConnectionLost, ReportMatchesRow
<1>6. ASSUME NEW w \in Worker, Crash(w)
      PROVE  result'[v] = runs'[job'[v].key].status
  BY <1>6 DEF Crash, ReportMatchesRow
<1>7. CASE UNCHANGED vars
  BY <1>7 DEF vars, ReportMatchesRow
<1> QED
  BY <1>1, <1>2, <1>3, <1>4, <1>5, <1>6, <1>7 DEF Next

\* Keys of manual triggers are only ever given to the trigger they name.
LEMMA TriggerKeysStep ==
    TypeOK /\ SectionBookkeeping /\ TriggerKeys /\ [Next]_vars => TriggerKeys'
<1> SUFFICES ASSUME TypeOK, SectionBookkeeping, TriggerKeys, [Next]_vars PROVE TriggerKeys'
  OBVIOUS
<1>0. Trigger \subseteq Worker /\ \A w \in Worker : w \in Scheduler \cup Cli => w \notin Trigger
  BY DEF Worker
<1> USE <1>0 DEF TypeOK, InSection, dbVars, envVars
<1>1. CASE NewDay
  BY <1>1 DEF NewDay, TriggerKeys
<1>2. ASSUME NEW s \in Source, RemoteChange(s) PROVE TriggerKeys'
  BY <1>2 DEF RemoteChange, TriggerKeys
<1>3. ASSUME NEW w \in Worker, Start(w) PROVE TriggerKeys'
  <2>1. PICK j : /\ StartWith(w, j)
                 /\ \A t \in Trigger : j.key = <<"manual", t>> => w = t
                 /\ w \in Trigger => j.key = <<"manual", w>>
    <3>1. CASE SchedulerStart(w)
      BY <3>1 DEF SchedulerStart, DailyKey
    <3>2. CASE CliRunDaily(w)
      BY <3>2 DEF CliRunDaily, DailyKey
    <3>3. CASE CliRetryFailed(w)
      BY <3>3 DEF CliRetryFailed
    <3>4. CASE TriggerSubmit(w)
      <4> DEFINE j == [key |-> <<"manual", w>>, scope |-> Source]
      <4>1. StartWith(w, j)
        BY <3>4, Zenon DEF TriggerSubmit
      <4>2. j.key = <<"manual", w>> /\ \A t \in Trigger : <<"manual", w>> = <<"manual", t>> => w = t
        OBVIOUS
      <4> HIDE DEF j
      <4> QED
        BY <4>1, <4>2
    <3> QED
      BY <1>3, <3>1, <3>2, <3>3, <3>4 DEF Start
  <2> QED
    BY <2>1 DEF StartWith, TriggerKeys
<1>4. \A t \in Trigger : NoJob.key # <<"manual", t>>
  BY DEF NoJob
\* A worker whose run is over forgets its job: it keeps no key and needs none.
<1>S. ASSUME NEW w \in Worker, NEW p \in {"idle", "sleeping", "backoff", "done"},
             job' = [job EXCEPT ![w] = NoJob], pc' = [pc EXCEPT ![w] = p]
      PROVE  TriggerKeys'
  <2>1. job'[w] = NoJob /\ \A v \in Worker \ {w} : job'[v] = job[v]
    BY <1>S
  <2>2. pc'[w] = p /\ \A v \in Worker \ {w} : pc'[v] = pc[v]
    BY <1>S
  <2>3. p \notin InSection \cup {"ready"}
    OBVIOUS
  <2>4. \A v \in Worker, t \in Trigger : job'[v].key = <<"manual", t>> => v = t
    BY <1>4, <2>1 DEF TriggerKeys
  <2>5. \A t \in Trigger : pc'[t] \in InSection \cup {"ready"} => job'[t].key = <<"manual", t>>
    BY <2>1, <2>2, <2>3 DEF TriggerKeys
  <2> QED
    BY <2>4, <2>5 DEF TriggerKeys
\* A worker that goes on in the try block keeps its job.
<1>G. ASSUME NEW w \in Worker, NEW p, pc[w] \in InSection \cup {"ready"},
             job' = job, pc' = [pc EXCEPT ![w] = p]
      PROVE  TriggerKeys'
  <2>1. \A v \in Worker \ {w} : pc'[v] = pc[v]
    BY <1>G
  <2>2. \A t \in Trigger : pc'[t] \in InSection \cup {"ready"} => pc[t] \in InSection \cup {"ready"}
    BY <1>G, <2>1
  <2> QED
    BY <1>G, <2>2 DEF TriggerKeys
<1>5. ASSUME NEW w \in Worker, Proceed(w) PROVE TriggerKeys'
  <2>1. AfterReturn(w) \in {"idle", "sleeping", "done"}
        /\ AfterRaise(w) \in {"idle", "sleeping", "backoff", "done"}
    BY DEF AfterReturn, AfterRaise
  <2>2. CASE LockBusy(w)
    BY <1>S, <2>1, <2>2 DEF LockBusy
  <2>3. CASE LockRaises(w)
    BY <1>S, <2>1, <2>3 DEF LockRaises
  <2>4. CASE LockAcquired(w)
    BY <1>G, <2>4 DEF LockAcquired
  <2>5. ASSUME NEW s \in Source, CollectSource(w, s) PROVE TriggerKeys'
    BY <2>5 DEF CollectSource, SkipDisabled, FetchNotModified, FetchBody, FetchFailed, Collected,
                TriggerKeys
  <2>6. CASE PersistReplay(w)
    BY <1>G, <2>6 DEF PersistReplay, Gathered
  <2>7. CASE PersistCollection(w)
    BY <1>G, <2>7 DEF PersistCollection, Gathered
  <2>8. CASE PersistFails(w)
    BY <1>G, <2>8 DEF PersistFails, Gathered
  <2>9. CASE EnrichRunCves(w)
    BY <1>G, <2>9 DEF EnrichRunCves
  <2>10. CASE EnrichRaises(w)
    BY <1>G, <2>10 DEF EnrichRaises
  <2>11. CASE Release(w)
    BY <1>S, <2>1, <2>11 DEF Release
  <2> QED
    BY <1>5, <2>2, <2>3, <2>4, <2>5, <2>6, <2>7, <2>8, <2>9, <2>10, <2>11 DEF Proceed
<1>6. ASSUME NEW w \in Worker, ConnectionLost(w) PROVE TriggerKeys'
  BY <1>6 DEF ConnectionLost, TriggerKeys
<1>7. ASSUME NEW w \in Worker, Crash(w) PROVE TriggerKeys'
  BY <1>4, <1>7 DEF Crash, TriggerKeys
<1>8. CASE UNCHANGED vars
  BY <1>8 DEF vars, TriggerKeys
<1> QED
  BY <1>1, <1>2, <1>3, <1>5, <1>6, <1>7, <1>8 DEF Next

\* Initially no worker is in the try block and no connection is open.
LEMMA PipelineInvInit == Init => PipelineInv
<1> SUFFICES ASSUME Init PROVE PipelineInv
  OBVIOUS
<1>1. SectionBookkeeping /\ LockHeldInSection /\ ReportMatchesRow /\ TriggerKeys
  BY DEF Init, SectionBookkeeping, LockHeldInSection, ReportMatchesRow, TriggerKeys, InSection, NoJob,
         Worker
<1> QED
  BY <1>1, TypeInit DEF PipelineInv

\* Every step preserves the inductive invariant.
LEMMA PipelineInvStep == PipelineInv /\ [Next]_vars => PipelineInv'
  BY TypeStep, SectionStep, ReportStep, TriggerKeysStep DEF PipelineInv

\* The inductive invariant holds in every reachable state.
THEOREM PipelineInvariant == Spec => []PipelineInv
<1> QED
  BY PipelineInvInit, PipelineInvStep, PTL DEF Spec

\* Mutual exclusion of run_once: a worker in the try block with a live lock
\* connection is the one holder of the advisory lock.
THEOREM MutualExclusion == Spec => []LockHeldInSection
<1>1. PipelineInv => LockHeldInSection
  BY DEF PipelineInv
<1> QED
  BY <1>1, PipelineInvariant, PTL

\* The status run_once reports is the status in the run's row.
THEOREM ReportsAreTrue == Spec => []ReportMatchesRow
<1>1. PipelineInv => ReportMatchesRow
  BY DEF PipelineInv
<1> QED
  BY <1>1, PipelineInvariant, PTL

\* The final status of a trigger is what its row says: it was true when the
\* trigger ended, and no later run writes that row.
LEMMA DurableStep ==
    PipelineInv /\ TriggerReportIsDurable /\ [Next]_vars => TriggerReportIsDurable'
<1> SUFFICES ASSUME PipelineInv, TriggerReportIsDurable, [Next]_vars, NEW t \in Trigger,
                    pc'[t] = "done", result'[t] \in {"completed", "failed"}
             PROVE  runs'[<<"manual", t>>].status = result'[t]
  BY DEF TriggerReportIsDurable
<1>t. t \in Worker /\ <<"manual", t>> \in Key /\ TypeOK
  BY DEF Worker, Key, FirstKey, PipelineInv
<1>1. ASSUME pc[t] = "done", result'[t] = result[t]
      PROVE  runs'[<<"manual", t>>].status = result'[t]
  <2>1. CASE UNCHANGED dbVars
    BY <1>1, <2>1 DEF dbVars, TriggerReportIsDurable
  <2>2. ASSUME NEW w \in Worker, PersistCollection(w) PROVE runs'[<<"manual", t>>] = runs[<<"manual", t>>]
    <3>1. w # t
      BY <1>1, <2>2 DEF PersistCollection, Gathered
    <3>2. job[w].key # <<"manual", t>>
      BY <2>2, <3>1 DEF PipelineInv, TriggerKeys
    <3> QED
      BY <1>t, <2>2, <3>2 DEF PersistCollection, TypeOK
  <2> QED
    BY <1>1, <2>1, <2>2, DbStep DEF TriggerReportIsDurable
<1>2. ASSUME NEW w \in Worker, w # t, Start(w) \/ Proceed(w) \/ ConnectionLost(w) \/ Crash(w)
      PROVE  pc'[t] = pc[t] /\ result'[t] = result[t]
  BY <1>2, <1>t DEF TypeOK, Start, SchedulerStart, CliRunDaily, CliRetryFailed, TriggerSubmit, StartWith,
      Proceed, LockBusy, LockRaises, LockAcquired, CollectSource, SkipDisabled, FetchNotModified,
      FetchBody, FetchFailed, Collected, PersistReplay, PersistCollection, PersistFails,
      EnrichRunCves, EnrichRaises, Release, ConnectionLost, Crash
<1>3. CASE (\E s \in Source : RemoteChange(s)) \/ NewDay \/ UNCHANGED vars
  BY <1>1, <1>3 DEF RemoteChange, NewDay, vars
<1>4. ASSUME Start(t) \/ Proceed(t) \/ ConnectionLost(t) \/ Crash(t)
      PROVE  runs'[<<"manual", t>>].status = result'[t]
  <2>1. CASE Start(t)
    <3>1. PICK j : StartWith(t, j)
      BY <2>1 DEF Start, SchedulerStart, CliRunDaily, CliRetryFailed, TriggerSubmit
    <3> QED
      BY <1>t, <3>1 DEF StartWith, TypeOK
  <2>2. CASE LockBusy(t) \/ LockRaises(t)
    BY <1>t, <2>2 DEF LockBusy, LockRaises, Report, TypeOK
  <2>3. CASE Release(t)
    <3>1. conn[t] # "closed" /\ job[t].key = <<"manual", t>>
      BY <1>t, <2>3 DEF Release, PipelineInv, SectionBookkeeping, TriggerKeys, InSection
    <3>2. result[t] # "error" /\ conn[t] # "lost" /\ result'[t] = result[t] /\ UNCHANGED runs
      BY <1>t, <2>3 DEF Release, Report, TypeOK, dbVars
    <3>3. conn[t] = "open"
      BY <1>t, <3>1, <3>2 DEF TypeOK
    <3> QED
      BY <1>t, <2>3, <3>1, <3>2, <3>3 DEF Release, PipelineInv, ReportMatchesRow
  <2>4. ASSUME NEW s \in Source, CollectSource(t, s) PROVE FALSE
    BY <1>t, <2>4 DEF CollectSource, SkipDisabled, FetchNotModified, FetchBody, FetchFailed,
        Collected, Awaiting, TypeOK
  <2>5. ~(LockAcquired(t) \/ PersistReplay(t) \/ PersistCollection(t) \/ PersistFails(t)
          \/ EnrichRunCves(t) \/ EnrichRaises(t))
    BY <1>t DEF LockAcquired, PersistReplay, PersistCollection, PersistFails, EnrichRunCves,
        EnrichRaises, TypeOK
  <2>6. CASE ConnectionLost(t)
    BY <1>1, <2>6 DEF ConnectionLost
  <2>7. CASE Crash(t)
    BY <1>t, <2>7 DEF Crash, TypeOK
  <2> QED
    BY <1>4, <2>1, <2>2, <2>3, <2>4, <2>5, <2>6, <2>7 DEF Proceed
<1> QED
  BY <1>1, <1>2, <1>3, <1>4 DEF Next

\* A manual trigger that ended as completed or failed keeps a row that says the
\* same, whatever other processes run, lose or retry afterwards.
THEOREM TriggerReportsLast == Spec => []TriggerReportIsDurable
<1>1. Init => TriggerReportIsDurable
  BY DEF Init, TriggerReportIsDurable, Worker
<1> QED
  BY <1>1, PipelineInvariant, DurableStep, PTL DEF Spec

\* No step writes rows, chains or freshness counters except a commit of the
\* worker that holds the lock.
THEOREM WritesAreFenced == Spec => OnlyHolderWrites
<1>1. ASSUME PipelineInv, [Next]_vars
      PROVE  [dbVars' # dbVars => lock # NoWorker /\ pc[lock] = "collecting" /\ lock' = lock]_vars
  <2>1. CASE UNCHANGED dbVars
    BY <2>1
  <2>2. ASSUME NEW w \in Worker, PersistCollection(w)
        PROVE  lock # NoWorker /\ pc[lock] = "collecting" /\ lock' = lock
    BY <1>1, <2>2, CommitterHolds DEF PipelineInv
  <2> QED
    BY <1>1, <2>1, <2>2, DbStep
<1> QED
  BY <1>1, PipelineInvariant, PTL DEF Spec, OnlyHolderWrites

\* A step appends to a chain only a content the chain does not have.
LEMMA ChainsStep == TypeOK /\ ChainsDistinct /\ [Next]_vars => ChainsDistinct'
<1> SUFFICES ASSUME TypeOK, ChainsDistinct, [Next]_vars,
                    NEW s \in Source, NEW i \in DOMAIN docs'[s], NEW j \in DOMAIN docs'[s],
                    docs'[s][i] = docs'[s][j]
             PROVE  i = j
  BY DEF ChainsDistinct
<1>1. CASE UNCHANGED dbVars
  BY <1>1 DEF dbVars, ChainsDistinct
<1>2. ASSUME NEW w \in Worker, PersistCollection(w) PROVE i = j
  <2>1. docs'[s] = NewChain(w, s)
    BY <1>2 DEF PersistCollection
  <2>2. docs[s] \in Seq(Content)
    BY DEF TypeOK
  <2>3. CASE docs'[s] = docs[s]
    BY <2>3 DEF ChainsDistinct
  <2>4. CASE docs'[s] = Append(docs[s], outcome[w][s]) /\ outcome[w][s] \notin Stored(s)
    <3>1. \A m \in 1..Len(docs[s]) : docs'[s][m] = docs[s][m] /\ docs[s][m] # outcome[w][s]
      BY <2>2, <2>4 DEF Stored
    <3>2. docs'[s][Len(docs[s]) + 1] = outcome[w][s]
      BY <2>2, <2>4
    <3>3. i \in 1..(Len(docs[s]) + 1) /\ j \in 1..(Len(docs[s]) + 1)
      BY <2>2, <2>4
    <3>4. \A m, n \in 1..Len(docs[s]) : docs[s][m] = docs[s][n] => m = n
      BY <2>2 DEF ChainsDistinct
    <3> QED
      BY <2>2, <3>1, <3>2, <3>3, <3>4
  <2> QED
    BY <2>1, <2>3, <2>4 DEF NewChain
<1> QED
  BY <1>1, <1>2, DbStep

\* No content is stored twice in a version chain.
THEOREM ChainsHaveNoDuplicates == Spec => []ChainsDistinct
<1>1. Init => ChainsDistinct
  BY DEF Init, ChainsDistinct
<1> QED
  BY <1>1, ChainsStep, TypeCorrect, PTL DEF Spec

\* A commit counts a disabled source neither as completed nor as failed.
LEMMA DisabledUncounted ==
    ASSUME TypeOK, SkipsAreDisabled, NEW w \in Worker, NEW s \in Disabled
    PROVE  NewFailures(w, s) = 0
<1>1. outcome[w][s] \in {"pending", "skipped"} /\ failures[s] = 0
  BY DEF SkipsAreDisabled
<1>2. StatusOf(w, s) \notin {"completed", "failed"}
  BY <1>1 DEF StatusOf
<1> QED
  BY <1>1, <1>2 DEF NewFailures, WithStatus

\* Only _collect_source decides an outcome, and it skips only disabled sources.
LEMMA SkipsStep == TypeOK /\ SkipsAreDisabled /\ [Next]_vars => SkipsAreDisabled'
<1> SUFFICES ASSUME TypeOK, SkipsAreDisabled, [Next]_vars PROVE SkipsAreDisabled'
  OBVIOUS
<1>1. \A s \in Disabled : failures'[s] = 0
  <2>1. CASE UNCHANGED dbVars
    BY <2>1 DEF dbVars, SkipsAreDisabled
  <2>2. ASSUME NEW w \in Worker, PersistCollection(w)
        PROVE  \A s \in Disabled : failures'[s] = 0
    BY <2>2, DisabledUncounted DEF PersistCollection
  <2> QED
    BY <2>1, <2>2, DbStep
<1>2. ASSUME NEW v \in Worker
      PROVE  /\ \A s \in Disabled : outcome'[v][s] \in {"pending", "skipped"}
             /\ pc'[v] = "collecting" =>
                   \A s \in job'[v].scope : outcome'[v][s] = "skipped" => s \in Disabled
  <2> USE DEF TypeOK, dbVars, envVars
  <2> DEFINE Goal == /\ \A s \in Disabled : outcome'[v][s] \in {"pending", "skipped"}
                     /\ pc'[v] = "collecting" =>
                           \A s \in job'[v].scope : outcome'[v][s] = "skipped" => s \in Disabled
  <2>1. ASSUME NewDay \/ (\E s \in Source : RemoteChange(s)) \/ UNCHANGED vars PROVE Goal
    BY <2>1 DEF NewDay, RemoteChange, vars, SkipsAreDisabled
  <2>2. ASSUME NEW w \in Worker, Start(w) PROVE Goal
    <3>1. PICK j : StartWith(w, j)
      BY <2>2 DEF Start, SchedulerStart, CliRunDaily, CliRetryFailed, TriggerSubmit
    <3> QED
      BY <3>1 DEF StartWith, SkipsAreDisabled
  <2>3. ASSUME NEW w \in Worker, LockAcquired(w) PROVE Goal
    <3>1. CASE v = w
      <4>1. job' = job /\ \A s \in Source :
              outcome'[v][s] = IF s \in job[v].scope THEN "pending" ELSE "skipped"
        BY <2>3, <3>1 DEF LockAcquired
      <4>2. job[v].scope \subseteq Source
        <5>1. job[v] \in Job
          OBVIOUS
        <5> QED
          BY <5>1 DEF Job, NoJob
      <4> QED
        BY <4>1, <4>2
    <3>2. CASE v # w
      BY <2>3, <3>2 DEF LockAcquired, SkipsAreDisabled
    <3> QED
      BY <3>1, <3>2
  <2>4. ASSUME NEW w \in Worker, NEW s \in Source, CollectSource(w, s) PROVE Goal
    <3>1. CASE SkipDisabled(w, s)
      BY <3>1 DEF SkipDisabled, Collected, SkipsAreDisabled
    <3>2. CASE FetchNotModified(w, s)
      BY <3>2 DEF FetchNotModified, Collected, SkipsAreDisabled
    <3>3. CASE FetchBody(w, s)
      BY <3>3 DEF FetchBody, Collected, SkipsAreDisabled
    <3>4. CASE FetchFailed(w, s)
      BY <3>4 DEF FetchFailed, Collected, SkipsAreDisabled
    <3> QED
      BY <2>4, <3>1, <3>2, <3>3, <3>4 DEF CollectSource
  <2>5. ASSUME NEW w \in Worker,
               LockBusy(w) \/ LockRaises(w) \/ PersistReplay(w) \/ PersistFails(w)
                 \/ PersistCollection(w) \/ EnrichRunCves(w) \/ EnrichRaises(w)
        PROVE  Goal
    <3>1. pc'[v] = "collecting" => pc[v] = "collecting" /\ v # w
      BY <2>5 DEF LockBusy, LockRaises, PersistReplay, PersistFails, PersistCollection,
                  EnrichRunCves, EnrichRaises, AfterReturn, AfterRaise
    <3>2. outcome' = outcome /\ (v # w => job'[v] = job[v])
      BY <2>5 DEF LockBusy, LockRaises, PersistReplay, PersistFails, PersistCollection,
                  EnrichRunCves, EnrichRaises
    <3> QED
      BY <3>1, <3>2 DEF SkipsAreDisabled
  <2>6. ASSUME NEW w \in Worker, Release(w) \/ Crash(w) PROVE Goal
    <3>1. pc'[v] = "collecting" => pc[v] = "collecting" /\ v # w
      BY <2>6 DEF Release, Crash, AfterReturn, AfterRaise
    <3>2. /\ outcome'[v] = IF v = w THEN NoOutcome ELSE outcome[v]
          /\ v # w => job'[v] = job[v]
      BY <2>6 DEF Release, Crash
    <3> QED
      BY <3>1, <3>2 DEF SkipsAreDisabled, NoOutcome
  <2>7. ASSUME NEW w \in Worker, ConnectionLost(w) PROVE Goal
    BY <2>7 DEF ConnectionLost, SkipsAreDisabled
  <2> QED
    BY <2>1, <2>2, <2>3, <2>4, <2>5, <2>6, <2>7 DEF Next, Proceed
<1> QED
  BY <1>1, <1>2 DEF SkipsAreDisabled

\* A commit that leaves a count positive leaves a failed source_run behind.
LEMMA EvidenceStep ==
    PipelineInv /\ SkipsAreDisabled /\ FailureHasEvidence /\ [Next]_vars
        => FailureHasEvidence'
<1> SUFFICES ASSUME PipelineInv, SkipsAreDisabled, FailureHasEvidence, [Next]_vars,
                    NEW s \in Source, failures'[s] > 0
             PROVE  \E k \in Key : runs'[k].src[s] = "failed"
  BY DEF FailureHasEvidence
<1>1. CASE UNCHANGED dbVars
  BY <1>1 DEF dbVars, FailureHasEvidence
<1>2. ASSUME NEW w \in Worker, PersistCollection(w)
      PROVE  \E k \in Key : runs'[k].src[s] = "failed"
  <2> DEFINE key == job[w].key
             new == NewRow(w, runs[key])
  <2>1. key \in Key
    BY <1>2 DEF PipelineInv, SectionBookkeeping, InSection, PersistCollection, Gathered
  <2>2. /\ runs' = [runs EXCEPT ![key] = new]
        /\ runs \in [Key -> Row \cup {NoRow}]
        /\ failures'[s] = NewFailures(w, s)
        /\ failures[s] \in Nat
    BY <1>2 DEF PersistCollection, PipelineInv, TypeOK
  <2>3. new.src[s] = IF s \in job[w].scope THEN StatusOf(w, s) ELSE runs[key].src[s]
    BY DEF NewRow
  <2>4. s \in job[w].scope => StatusOf(w, s) # "completed"
    BY <2>2 DEF NewFailures, WithStatus
  <2>5. CASE s \in job[w].scope /\ StatusOf(w, s) = "failed"
    BY <2>1, <2>2, <2>3, <2>5
  <2>6. CASE ~(s \in job[w].scope /\ StatusOf(w, s) = "failed")
    <3>1. failures[s] > 0
      BY <2>2, <2>4, <2>6 DEF NewFailures, WithStatus
    <3>2. PICK k \in Key : runs[k].src[s] = "failed"
      BY <3>1 DEF FailureHasEvidence
    <3>3. s \notin Disabled
      BY <3>1 DEF SkipsAreDisabled
    <3>4. s \notin job[w].scope
      <4>1. outcome[w][s] \in Outcome \ {"pending"} /\ pc[w] = "collecting"
        BY <1>2 DEF PipelineInv, TypeOK, PersistCollection, Gathered
      <4>2. s \in job[w].scope => outcome[w][s] # "skipped"
        BY <3>3, <4>1 DEF SkipsAreDisabled
      <4> QED
        BY <2>4, <2>6, <4>1, <4>2 DEF StatusOf, Outcome
    <3>5. CASE k = key
      BY <2>1, <2>2, <2>3, <3>2, <3>4, <3>5
    <3>6. CASE k # key
      BY <2>2, <3>2, <3>6
    <3> QED
      BY <3>5, <3>6
  <2> QED
    BY <2>5, <2>6
<1> QED
  BY <1>1, <1>2, DbStep

\* A source with a positive failure count has a source_run that says failed, so
\* `db retry-failed` and the freshness view agree about it.
THEOREM FailuresHaveEvidence == Spec => []FailureHasEvidence
<1>1. Init => SkipsAreDisabled /\ FailureHasEvidence
  BY DEF Init, SkipsAreDisabled, FailureHasEvidence, NoOutcome
<1> QED
  BY <1>1, SkipsStep, EvidenceStep, PipelineInvariant, TypeCorrect, PTL DEF Spec

-----------------------------------------------------------------------------
(* Refinement of RunLedger. *)

\* A commit is a commit of the ledger.
LEMMA CommitRefines ==
    ASSUME PipelineInv, NEW w \in Worker, PersistCollection(w)
    PROVE  Ledger!Commit
<1> USE DEF PipelineInv
<1>1. lock = w /\ lock' = lock
  BY CommitterHolds
<1>2. job[w].key \in Key
  BY DEF PersistCollection, Gathered, SectionBookkeeping, InSection
<1>3. runs[job[w].key] \in Row \cup {NoRow} /\ runs \in [Key -> Row \cup {NoRow}]
  BY <1>2 DEF TypeOK
<1>4. NewRow(w, runs[job[w].key]) \in Row
  BY <1>3, NewRowType
<1>5. runs' = [runs EXCEPT ![job[w].key] = NewRow(w, runs[job[w].key])]
  BY DEF PersistCollection
<1>6. runs'[job[w].key] = NewRow(w, runs[job[w].key])
  BY <1>2, <1>3, <1>5
<1>7. ~Ledger!Finished(runs[job[w].key])
  BY DEF PersistCollection, RunFinished, Ledger!Finished
<1>8. ASSUME NEW s \in Source PROVE Ledger!Extends(docs[s], docs'[s])
  <2>1. docs'[s] = NewChain(w, s)
    BY DEF PersistCollection
  <2>2. CASE docs'[s] = docs[s]
    BY <2>2 DEF Ledger!Extends
  <2>3. CASE /\ docs'[s] = Append(docs[s], outcome[w][s])
             /\ outcome[w][s] \notin Stored(s)
             /\ outcome[w][s] \in Content
    BY <2>3 DEF Ledger!Extends, Stored
  <2> QED
    BY <2>1, <2>2, <2>3 DEF NewChain, Documents
<1>9. DOMAIN docs' = Source
  BY DEF PersistCollection
<1>10. lock # NoWorker
  BY <1>1
<1>11. \E k \in Key : /\ ~Ledger!Finished(runs[k])
                      /\ runs'[k] \in Row
                      /\ runs' = [runs EXCEPT ![k] = runs'[k]]
  BY <1>2, <1>4, <1>5, <1>6, <1>7
<1> QED
  BY <1>1, <1>8, <1>9, <1>10, <1>11 DEF Ledger!Commit

\* The lock changes hands only through NoWorker.
LEMMA LockStep ==
    ASSUME TypeOK, [Next]_vars
    PROVE  \/ lock' = lock
           \/ lock = NoWorker /\ lock' \in Worker
           \/ lock # NoWorker /\ lock' = NoWorker
<1> USE DEF dbVars, envVars
<1>1. CASE NewDay
  BY <1>1 DEF NewDay
<1>2. CASE \E s \in Source : RemoteChange(s)
  BY <1>2 DEF RemoteChange
<1>3. ASSUME NEW w \in Worker, Start(w) PROVE lock' = lock
  BY <1>3 DEF Start, SchedulerStart, CliRunDaily, CliRetryFailed, TriggerSubmit, StartWith
<1>4. ASSUME NEW w \in Worker, Proceed(w)
      PROVE  \/ lock' = lock
             \/ lock = NoWorker /\ lock' \in Worker
             \/ lock # NoWorker /\ lock' = NoWorker
  BY <1>4 DEF Proceed, LockBusy, LockRaises, LockAcquired, CollectSource, SkipDisabled,
              FetchNotModified, FetchBody, FetchFailed, Collected, PersistReplay,
              PersistCollection, PersistFails, EnrichRunCves, EnrichRaises, Release
<1>5. ASSUME NEW w \in Worker, ConnectionLost(w) \/ Crash(w)
      PROVE  lock' = lock \/ (lock # NoWorker /\ lock' = NoWorker)
  BY <1>5 DEF ConnectionLost, Crash
<1>6. CASE UNCHANGED vars
  BY <1>6 DEF vars
<1> QED
  BY <1>1, <1>2, <1>3, <1>4, <1>5, <1>6 DEF Next

\* DailyPipeline implements RunLedger.
THEOREM PipelineImplementsLedger == Spec => ImplementsLedger
<1>1. Init => Ledger!LedgerInit
  BY DEF Init, Ledger!LedgerInit
<1>2. ASSUME PipelineInv, [Next]_vars
      PROVE  [Ledger!LedgerNext]_(Ledger!ledgerVars)
  <2>1. CASE UNCHANGED dbVars
    BY <1>2, <2>1, LockStep
       DEF dbVars, PipelineInv, Ledger!LedgerNext, Ledger!Take, Ledger!Drop, Ledger!ledgerVars
  <2>2. ASSUME NEW w \in Worker, PersistCollection(w)
        PROVE  Ledger!LedgerNext
    BY <1>2, <2>2, CommitRefines DEF Ledger!LedgerNext
  <2> QED
    BY <1>2, <2>1, <2>2, DbStep
<1> QED
  BY <1>1, <1>2, PipelineInvariant, PTL DEF Spec, ImplementsLedger, Ledger!LedgerSpec
=============================================================================
