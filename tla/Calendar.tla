------------------------------ MODULE Calendar ------------------------------
(***************************************************************************)
(* The trading hours of a scheduled instrument: market_calendar.py, and    *)
(* the daily valuations of backtest/sampling.py and the coverage figures   *)
(* that rest on it.  Times are UTC, in units finer than any session; a     *)
(* zone has one change of its offset in the span explored.                 *)
(***************************************************************************)
EXTENDS Integers, Sequences, FiniteSets, SequencesExt

CONSTANTS
    DayLen,  \* length of a day
    Week,    \* days of a week
    Candle   \* the timeframe

ASSUME CalendarAssumption ==
    /\ DayLen \in Nat \ {0} /\ Week \in Nat \ {0}
    /\ Candle \in Nat \ {0} /\ DayLen % Candle = 0

Floor(t, unit) == (t \div unit) * unit
Ceil(t, unit)  == -Floor(-t, unit)
Day(t)         == t \div DayLen
Bucket(t)      == Floor(t, Candle)

\* The local time of an instant.
Local(zone, u) == u + (IF u < zone.at THEN zone.before ELSE zone.after)

\* A repeated local time opens at its first occurrence and closes at its last;
\* one the change of offset skips moves forward by the gap.
Boundary(zone, local, closing) ==
    LET readings == {local - zone.before, local - zone.after}
        valid    == {u \in readings : Local(zone, u) = local}
    IN  IF valid = {} THEN Max(readings)
        ELSE IF closing THEN Max(valid) ELSE Min(valid)

\* An override replaces its date's sessions.
SessionsOf(s, day) ==
    IF day \in DOMAIN s.overrides THEN s.overrides[day] ELSE s.week[day % Week]

\* A session of a local day as UTC, expanded to whole candles.
Opening(s, day, session, unit) ==
    [from |-> Floor(Boundary(s.zone, day * DayLen + session.start, FALSE), unit),
     to   |-> Ceil(Boundary(s.zone, day * DayLen + session.end, TRUE), unit)]

\* The openings of the local dates that start to end touches, in order, with
\* the padding that lets a neighbour's session share a candle.
Openings(s, start, end, unit) ==
    LET pad   == IF unit = 1 THEN 0 ELSE unit
        first == Day(Local(s.zone, start - pad))
        last  == Day(Local(s.zone, end + pad))
        of(d) == [i \in DOMAIN SessionsOf(s, d) |-> Opening(s, d, SessionsOf(s, d)[i], unit)]
    IN  FlattenSeq([i \in 1..(last - first + 1) |-> of(first + i - 1)])

\* Mutant of OpenElapsed: a candle two sessions share is counted twice.
OpenElapsedTwice(s, start, end, unit) ==
    FoldLeft(LAMBDA sum, open : sum + Max({0, Min({end, open.to}) - Max({start, open.from})}),
             0, Openings(s, start, end, unit))

\* UTC time in open intervals; what openings share is counted once.
OpenElapsed(s, start, end, unit) ==
    FoldLeft(LAMBDA sum, open :
                 [elapsed |-> sum.elapsed + Max({0, Min({end, open.to}) - Max({sum.until, open.from})}),
                  until   |-> Max({sum.until, open.to})],
             [elapsed |-> 0, until |-> start],
             IF end <= start THEN <<>> ELSE Openings(s, start, end, unit)).elapsed

\* Whether the successor of the candle at "baseline" should have arrived.
CandleDue(s, baseline, t, slack) ==
    OpenElapsed(s, baseline, t - slack, Candle) >= 2 * Candle

\* The buckets that overlap an open session, of those from start on.
Expected(s, start, end) ==
    {b \in start..(end - 1) : b % Candle = 0 /\ OpenElapsed(s, b, b + Candle, 1) > 0}

Coverage(s, observed, start, end) ==
    LET expected == Expected(s, start, end)
    IN  IF observed \ expected # {} THEN "schedule_mismatch"
        ELSE IF expected \ observed # {} THEN "missing"
        ELSE IF expected = {} THEN "scheduled_closed" ELSE "complete"

-----------------------------------------------------------------------------
(* daily_equity: the value at every midnight, from snapshots at the opening *)
(* times of their candles.  Its points are in order, aligned to candles and *)
(* of a positive value, as the snapshots of a run are; those it refuses for *)
(* that (a zone missing, a value not above zero) are left out.              *)

NoValues == [t \in {} |-> 0]

\* The opening time of the next snapshot, or the last midnight if that is first.
NextAfter(known, p, last) == Min({last} \cup {q \in known : q > p})

\* Mutant: what follows the last snapshot is not looked at.
CoveredOpenEnded(s, known, last) ==
    \A p \in known \ {Max(known)} : OpenElapsed(s, p + Candle, NextAfter(known, p, last), Candle) = 0

\* No open time lies between a close and the next candle.
Covered(s, known, last) ==
    \A p \in known : OpenElapsed(s, p + Candle, NextAfter(known, p, last), Candle) = 0

\* A midnight has the value of the last candle closed by it; a curve with a
\* missing bar, or without a midnight, has no values.
DailyEquity(s, points, valuationEnd) ==
    LET known == {p \in points : p + Candle <= valuationEnd}
        first == Ceil(Min(known) + Candle, DayLen)
        last  == Floor(valuationEnd, DayLen)
    IN  IF known = {} \/ first > last \/ ~Covered(s, known, last) THEN NoValues
        ELSE [m \in {t \in first..last : t % DayLen = 0} |-> Max({p \in known : p + Candle <= m})]

=============================================================================
