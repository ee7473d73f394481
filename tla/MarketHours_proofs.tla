------------------------- MODULE MarketHours_proofs -------------------------
(***************************************************************************)
(* Facts about the hours of the two markets, for every minute of a week.   *)
(***************************************************************************)
EXTENDS MarketHours, TLAPS

Seoul == 540
NewYork == {-240, -300}   \* with and without daylight saving

\* The time of day in a zone, from that in UTC.
LEMMA TimeInZone ==
    ASSUME NEW utc \in Minutes, NEW zone \in -1440 .. 1440
    PROVE  \E days \in Int :
             TimeOfDay(InZone(utc, zone)) = (utc % 1440) + zone + 1440 * days
<1> DEFINE local == InZone(utc, zone)
<1>1. utc \in Int /\ zone \in Int /\ local \in Int
  BY DEF Minutes, InZone
<1>2. utc = 1440 * (utc \div 1440) + (utc % 1440) /\ utc \div 1440 \in Int
  BY <1>1
<1>3. utc + zone = 10080 * ((utc + zone) \div 10080) + local /\ (utc + zone) \div 10080 \in Int
  BY <1>1 DEF InZone
<1>4. local = 1440 * (local \div 1440) + (local % 1440) /\ local \div 1440 \in Int
  BY <1>1
<1> DEFINE days == utc \div 1440 - 7 * ((utc + zone) \div 10080) - local \div 1440
<1>5. days \in Int /\ local % 1440 \in Int /\ utc % 1440 \in Int
  BY <1>1, <1>2, <1>3, <1>4
<1>6. local % 1440 = (utc % 1440) + zone + 1440 * days
  BY <1>1, <1>2, <1>3, <1>4, <1>5
<1> QED BY <1>5, <1>6 DEF TimeOfDay

LEMMA KoreanHours ==
    ASSUME NEW utc \in Minutes, CheckMarketStatus("KR", utc, Seoul) = "REGULAR"
    PROVE  utc % 1440 <= 390
<1> DEFINE time == TimeOfDay(InZone(utc, Seoul))
           minute == utc % 1440
<1>1. time \in Int /\ minute \in 0 .. 1439
  BY DEF TimeOfDay, InZone, Minutes, Seoul
<1>2. 540 <= time /\ time <= 930
  <2>1. KoreanStatus(time) = "REGULAR"
    BY DEF CheckMarketStatus
  <2> QED BY <1>1, <2>1 DEF KoreanStatus, Time
<1>3. PICK days \in Int : time = minute + 540 + 1440 * days
  BY TimeInZone DEF Seoul
<1> HIDE DEF time, minute
<1>4. minute <= 390
  BY <1>1, <1>2, <1>3
<1> QED BY <1>4 DEF minute

LEMMA USHours ==
    ASSUME NEW utc \in Minutes, NEW zone \in NewYork,
           CheckMarketStatus("US", utc, zone) = "REGULAR"
    PROVE  utc % 1440 >= 810
<1> DEFINE time == TimeOfDay(InZone(utc, zone))
           minute == utc % 1440
<1>1. time \in Int /\ minute \in 0 .. 1439
  BY DEF TimeOfDay, InZone, Minutes, NewYork
<1>2. 570 <= time /\ time < 960
  <2>1. USStatus(time) = "REGULAR"
    BY DEF CheckMarketStatus
  <2> QED BY <1>1, <2>1 DEF USStatus, Time
<1>3. PICK days \in Int : time = minute + zone + 1440 * days
  BY TimeInZone DEF NewYork
<1> HIDE DEF time, minute
<1>4. minute >= 810
  BY <1>1, <1>2, <1>3 DEF NewYork
<1> QED BY <1>4 DEF minute

\* A Korean session ends before the US one of the same day begins, by the clock
\* of UTC, summer and winter: checkMarketStatus never has both markets open.
THEOREM SessionsDoNotOverlap ==
    ASSUME NEW utc \in Minutes, NEW zone \in NewYork,
           CheckMarketStatus("KR", utc, Seoul) = "REGULAR"
    PROVE  CheckMarketStatus("US", utc, zone) # "REGULAR"
<1>1. utc % 1440 \in Int BY DEF Minutes
<1> QED BY <1>1, KoreanHours, USHours

=============================================================================
