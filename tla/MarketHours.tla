---------------------------- MODULE MarketHours ----------------------------
(***************************************************************************)
(* checkMarketStatus (src/financial/utils/stockMarketChecker.ts): whether  *)
(* a stock market is open, from the time of the exchange's own zone.       *)
(*                                                                         *)
(* A time is a minute of the week, counted from Sunday 00:00; a zone is    *)
(* its distance to UTC, which changes twice a year in New York.            *)
(***************************************************************************)
EXTENDS Integers

Minutes == 0 .. 7 * 1440 - 1

\* timestamp.tz(zone): the minute of the week there.
InZone(utc, zone) == (utc + zone) % (7 * 1440)

DayOfWeek(local) == local \div 1440
TimeOfDay(local) == local % 1440

\* createTimeInZone: 'HH:MM' of the same day.
Time(hour, minute) == 60 * hour + minute

Weekend == {0, 6}
Statuses == {"REGULAR", "PRE", "AFTER", "CLOSE"}

\* The closing minute belongs to the Korean session.
KoreanStatus(time) ==
    IF Time(9, 0) <= time /\ time <= Time(15, 30) THEN "REGULAR" ELSE "CLOSE"

\* Each session of the US has its first minute and not its last.  Holidays are
\* not considered.
USStatus(time) ==
    CASE Time(9, 30) <= time /\ time < Time(16, 0) -> "REGULAR"
      [] Time(4, 0) <= time /\ time < Time(9, 30) -> "PRE"
      [] Time(16, 0) <= time /\ time < Time(20, 0) -> "AFTER"
      [] OTHER -> "CLOSE"

\* The status of a market at a minute of the week in UTC, for the zone that its
\* exchange is in.
CheckMarketStatus(marketCode, utc, zone) ==
    LET local == InZone(utc, zone) IN
    IF DayOfWeek(local) \in Weekend THEN "CLOSE"
    ELSE CASE marketCode = "KR" -> KoreanStatus(TimeOfDay(local))
           [] marketCode = "US" -> USStatus(TimeOfDay(local))
           [] OTHER -> "CLOSE"

=============================================================================
