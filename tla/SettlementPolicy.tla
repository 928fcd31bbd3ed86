-------------------------- MODULE SettlementPolicy --------------------------
(***************************************************************************)
(* apps/settlement/src/policy: the terms a merchant is settled on and the  *)
(* moments they name.                                                      *)
(*                                                                         *)
(* Two readings of the same terms have to agree: settlementReleaseAt, when *)
(* is this payment released, and the pair mostRecentDueAt and              *)
(* settlementCutoff, when is this merchant due and what is ripe.  A cutoff *)
(* that is behind the releases delays a merchant, one that is ahead of     *)
(* them sends money that cannot be recovered.                              *)
(*                                                                         *)
(* A moment is a number of ticks, a tick being the least step of a clock   *)
(* and a day having Day of them: the last tick of a day is endOf('day').   *)
(* Moments are counted in Jakarta time; another zone is so many ticks      *)
(* ahead of it.                                                            *)
(***************************************************************************)
EXTENDS Integers, FiniteSets, FiniteSetsExt

CONSTANTS
    Day,            \* ticks of a day
    Slot,           \* INSTANT_SLOT_MINUTES; divides Day
    Null            \* no value

ASSUME ClockAssumption ==
    /\ Day \in Nat \ {0}
    /\ Slot \in 1 .. Day /\ Day % Slot = 0
    /\ Null \notin Int

\* An upstream's notice for one method; no stated time is Null.
Window == [offset : Nat, time : (0 .. Day - 1) \cup {Null}, zone : 0 .. Day - 1]

\* A policy row's terms, as the column matrix of the policy document asks.
Policy ==
    {policy \in [mode  : {"INSTANT", "FOLLOW_UPSTREAM", "FIXED_DELAY", "SCHEDULED"},
                 delay : Nat,
                 times : SUBSET (0 .. Day - 1),
                 businessDaysOnly : BOOLEAN] :
        /\ policy.mode = "FIXED_DELAY" => Cardinality(policy.times) = 1
        /\ policy.mode = "SCHEDULED" => policy.times # {}}

-----------------------------------------------------------------------------
(* policy.time.ts                                                          *)

Jakarta == 0

StartOfDay(t, zone) == t - ((t + zone) % Day)

AtTimesOnDay(day, times) == {day + h : h \in times}

-----------------------------------------------------------------------------
(* policy.eligibility.ts: when is this payment released?                   *)

\* No published time means the last moment of the day.
UpstreamTime(window) == IF window.time = Null THEN Day - 1 ELSE window.time

FixedDelayRelease(paidAt, policy) ==
    StartOfDay(paidAt, Jakarta) + policy.delay * Day + Min(policy.times)

\* The first release time at or after the payment, else tomorrow's first.
ScheduledRelease(paidAt, policy) ==
    LET today == StartOfDay(paidAt, Jakarta)
        next == {b \in AtTimesOnDay(today, policy.times) : b >= paidAt}
    IN  IF next # {} THEN Min(next) ELSE today + Day + Min(policy.times)

FollowUpstreamRelease(paidAt, window) ==
    StartOfDay(paidAt, window.zone) + window.offset * Day + UpstreamTime(window)

SettlementReleaseAt(paidAt, policy, window) ==
    CASE policy.mode = "INSTANT" -> paidAt
      [] policy.mode = "FIXED_DELAY" -> FixedDelayRelease(paidAt, policy)
      [] policy.mode = "SCHEDULED" -> ScheduledRelease(paidAt, policy)
      [] policy.mode = "FOLLOW_UPSTREAM" -> FollowUpstreamRelease(paidAt, window)

\* settlementReleaseAt throws: no release moment, nothing is eligible.
HasRelease(policy, window) ==
    /\ ~policy.businessDaysOnly
    /\ policy.mode = "FOLLOW_UPSTREAM" => window # Null

IsEligible(paidAt, policy, window, t) ==
    HasRelease(policy, window) /\ t >= SettlementReleaseAt(paidAt, policy, window)

-----------------------------------------------------------------------------
(* policy.due-at.ts: when is this merchant due, and what is ripe?          *)

\* Today's last boundary that has passed, else yesterday's last.
BoundaryAtOrBefore(times, zone, t) ==
    LET today == StartOfDay(t, zone)
        passed == {b \in AtTimesOnDay(today, times) : b <= t}
    IN  IF passed # {} THEN Max(passed) ELSE Max(AtTimesOnDay(today - Day, times))

UpstreamBoundary(window, t) ==
    BoundaryAtOrBefore({UpstreamTime(window)}, window.zone, t)

CurrentSlot(t) == t - (t % Slot)

MostRecentDueAt(policy, t, window) ==
    CASE policy.mode \in {"SCHEDULED", "FIXED_DELAY"} ->
           BoundaryAtOrBefore(policy.times, Jakarta, t)
      [] policy.mode = "FOLLOW_UPSTREAM" ->
           IF window = Null THEN Null ELSE UpstreamBoundary(window, t)
      [] policy.mode = "INSTANT" -> CurrentSlot(t)

\* Mutant: the start of the last day that is ripe, not of the first that is not.
ShiftDays(boundary, zone, days) == StartOfDay(boundary, zone) - days * Day

ShiftWholeDays(boundary, zone, days) ==
    StartOfDay(boundary, zone) - (days - 1) * Day

\* The exclusive end of what is ripe.
SettlementCutoff(policy, t, window) ==
    CASE policy.mode = "INSTANT" -> t + 1
      [] policy.mode = "SCHEDULED" ->
           BoundaryAtOrBefore(policy.times, Jakarta, t) + 1
      [] policy.mode = "FIXED_DELAY" ->
           ShiftWholeDays(BoundaryAtOrBefore(policy.times, Jakarta, t),
                          Jakarta, policy.delay)
      [] policy.mode = "FOLLOW_UPSTREAM" ->
           IF window = Null THEN Null
           ELSE ShiftWholeDays(UpstreamBoundary(window, t), window.zone, window.offset)

=============================================================================
