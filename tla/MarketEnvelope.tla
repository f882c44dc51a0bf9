--------------------------- MODULE MarketEnvelope ---------------------------
(***************************************************************************)
(* The envelope of a market record in Redis and the Lua script that guards  *)
(* it.  Redis' numbers are doubles, so the script works on the decimal      *)
(* digits of a nanosecond time stamp; it trusts the stamp of the envelope   *)
(* it finds only when it agrees with the envelope's RFC 3339 time.          *)
(*                                                                          *)
(* A text is abstracted to what its parser looks at: an integer to its sign *)
(* and digits, a time to its fields, an envelope to the fields the two      *)
(* validations read.                                                        *)
(***************************************************************************)
EXTENDS Integers, Sequences

Zeros(n) == [i \in 1..n |-> 0]

StripLeadingZeros(s) ==
  LET first == {i \in 1..Len(s) : s[i] # 0 /\ \A j \in 1..(i - 1) : s[j] = 0}
  IN IF first = {} THEN <<0>> ELSE SubSeq(s, CHOOSE i \in first : TRUE, Len(s))

IntegerString(value) ==
  LET digits[v \in Nat] == IF v < 10 THEN <<v>> ELSE Append(digits[v \div 10], v % 10)
  IN digits[value]

\* The digit that stands for 10^i.
Place(s, i) == IF i < Len(s) THEN s[Len(s) - i] ELSE 0

AddUnsigned(left, right) ==
  LET n == 1 + IF Len(left) > Len(right) THEN Len(left) ELSE Len(right)
      carry[i \in 0..n] ==
        IF i = 0 THEN 0 ELSE (Place(left, i - 1) + Place(right, i - 1) + carry[i - 1]) \div 10
  IN StripLeadingZeros(
       [i \in 1..n |-> (Place(left, n - i) + Place(right, n - i) + carry[n - i]) % 10])

SubtractUnsigned(left, right) ==
  LET n == Len(left)
      borrow[i \in 0..n] ==
        IF i = 0 THEN 0
        ELSE IF Place(left, i - 1) - borrow[i - 1] < Place(right, i - 1) THEN 1 ELSE 0
  IN StripLeadingZeros(
       [i \in 1..n |-> (Place(left, n - i) - borrow[n - i] - Place(right, n - i)) % 10])

\* The multiplier is always 10^9.
MultiplyUnsigned(value) == StripLeadingZeros(value \o Zeros(9))

\* -1, 0 or 1: the shorter number is smaller, equally long ones are compared
\* digit by digit.
CompareUnsigned(left, right) ==
  IF left = right THEN 0
  ELSE IF Len(left) # Len(right) THEN IF Len(left) < Len(right) THEN -1 ELSE 1
  ELSE LET i == CHOOSE k \in 1..Len(left) :
                  left[k] # right[k] /\ \A j \in 1..(k - 1) : left[j] = right[j]
       IN IF left[i] < right[i] THEN -1 ELSE 1

Int64Limit(negative) ==
  <<9, 2, 2, 3, 3, 7, 2, 0, 3, 6, 8, 5, 4, 7, 7, 5, 8, 0>> \o <<IF negative THEN 8 ELSE 7>>

CanonicalInt64(text) ==
  LET digits == text.digits
  IN /\ digits # <<>>
     /\ digits[1] = 0 => digits = <<0>> /\ ~text.negative
     /\ Len(digits) < 19 \/ (Len(digits) = 19 /\ CompareUnsigned(digits, Int64Limit(text.negative)) # 1)

\* No sign on zero, no leading zeros.
DecimalParts(text) ==
  LET digits == StripLeadingZeros(text.digits)
  IN [negative |-> text.negative /\ digits # <<0>>, digits |-> digits]

CompareDecimals(left, right) ==
  LET l == DecimalParts(left)  r == DecimalParts(right)
  IN IF l.negative # r.negative THEN IF l.negative THEN -1 ELSE 1
     ELSE IF l.negative THEN CompareUnsigned(r.digits, l.digits)
     ELSE CompareUnsigned(l.digits, r.digits)
-----------------------------------------------------------------------------
LeapYear(year) == year % 4 = 0 /\ (year % 100 # 0 \/ year % 400 = 0)

MonthDays(year, month) ==
  IF month = 2 /\ LeapYear(year) THEN 29
  ELSE <<31, 28, 31, 30, 31, 30, 31, 31, 30, 31, 30, 31>>[month]

NoTime == [negative |-> FALSE, digits |-> <<>>]

\* The fields the script accepts; an offset is given in minutes.
ReadableTime(t) ==
  /\ t.month \in 1..12 /\ t.hour \in 0..23 /\ t.minute \in 0..59 /\ t.second \in 0..59
  /\ t.day \in 1..MonthDays(t.year, t.month)
  /\ Len(t.fraction) <= 9
  /\ t.offset \in -1439..1439

\* Days since 1970-01-01, the years counted from March.
CivilDays(year, month, day) ==
  LET adjusted   == IF month <= 2 THEN year - 1 ELSE year
      era        == adjusted \div 400
      yearOfEra  == adjusted % 400
      dayOfYear  == (153 * (IF month > 2 THEN month - 3 ELSE month + 9) + 2) \div 5 + day - 1
      dayOfEra   == yearOfEra * 365 + yearOfEra \div 4 - yearOfEra \div 100 + dayOfYear
  IN era * 146097 + dayOfEra - 719468

\* Seconds count down before 1970, fractions always up.
Magnitude(seconds, nanos) ==
  IF seconds < 0 THEN SubtractUnsigned(MultiplyUnsigned(IntegerString(-seconds)), nanos)
  ELSE AddUnsigned(MultiplyUnsigned(IntegerString(seconds)), nanos)

TimestampUnixNano(t) ==
  IF ~ReadableTime(t) THEN NoTime
  ELSE LET seconds   == CivilDays(t.year, t.month, t.day) * 86400
                        + t.hour * 3600 + t.minute * 60 + t.second - t.offset * 60
           nanos     == StripLeadingZeros(t.fraction \o Zeros(9 - Len(t.fraction)))
           magnitude == Magnitude(seconds, nanos)
       IN [negative |-> seconds < 0 /\ magnitude # <<0>>, digits |-> magnitude]

\* A record of the key, with an ID, whose two times agree.
ValidEnvelope(e, key) ==
  /\ e.key = key /\ e.hasID
  /\ CanonicalInt64(e.unixNano)
  /\ TimestampUnixNano(e.fetchedAt) # NoTime
  /\ TimestampUnixNano(e.fetchedAt) = e.unixNano

\* Mutation of Script: any envelope with a time stamp is trusted.
ScriptTrusting(current, none, envelope, key) ==
  IF current # none /\ CompareDecimals(envelope.unixNano, current.unixNano) = -1
  THEN current ELSE envelope

\* The script: what the key holds afterwards.
Script(current, none, envelope, key) ==
  IF current # none /\ ValidEnvelope(current, key)
     /\ CompareDecimals(envelope.unixNano, current.unixNano) = -1
  THEN current ELSE envelope
-----------------------------------------------------------------------------
(***************************************************************************)
(* The Go side: a time is an instant, the days, the second of the day and   *)
(* the nanoseconds since 1970-01-01T00:00:00Z, shown at some offset.  These *)
(* count the calendar day by day, independently of the script.              *)
(***************************************************************************)
YearDays(year) == IF LeapYear(year) THEN 366 ELSE 365

DaysBeforeYear(year) ==
  LET up[y \in Nat]   == IF y <= 1970 THEN 0 ELSE up[y - 1] + YearDays(y - 1)
      down[y \in Nat] == IF y >= 1970 THEN 0 ELSE down[y + 1] - YearDays(y)
  IN IF year >= 1970 THEN up[year] ELSE down[year]

DaysBeforeMonth(year, month) ==
  LET before[m \in 1..12] == IF m = 1 THEN 0 ELSE before[m - 1] + MonthDays(year, m - 1)
  IN before[month]

YearOf(days) ==
  CHOOSE y \in (1968 + days \div 365)..(1972 + days \div 365) :
    DaysBeforeYear(y) <= days /\ days < DaysBeforeYear(y + 1)

NineDigits(n) == LET s == IntegerString(n) IN Zeros(9 - Len(s)) \o s

TrimTrailingZeros(s) ==
  SubSeq(s, 1, CHOOSE n \in 0..Len(s) : /\ \A i \in (n + 1)..Len(s) : s[i] = 0
                                        /\ n > 0 => s[n] # 0)

\* time.Time's RFC 3339 form, with no more digits than it needs.
FormatTime(i, offset) ==
  LET second == i.second + offset * 60
      days   == i.day + second \div 86400
      year   == YearOf(days)
      within == days - DaysBeforeYear(year)
      month  == CHOOSE m \in 1..12 : /\ DaysBeforeMonth(year, m) <= within
                                     /\ within < DaysBeforeMonth(year, m) + MonthDays(year, m)
      clock  == second % 86400
  IN [year |-> year, month |-> month, day |-> within - DaysBeforeMonth(year, month) + 1,
      hour |-> clock \div 3600, minute |-> (clock \div 60) % 60, second |-> clock % 60,
      fraction |-> TrimTrailingZeros(NineDigits(i.nano)), offset |-> offset]

\* time.Time.UnixNano, in decimal.
UnixNano(i) ==
  LET seconds == i.day * 86400 + i.second
      digits  == IF seconds >= 0 THEN IntegerString(seconds) \o NineDigits(i.nano)
                 ELSE IF i.nano = 0 THEN IntegerString(-seconds) \o Zeros(9)
                 ELSE IntegerString(-seconds - 1) \o NineDigits(1000000000 - i.nano)
  IN [negative |-> seconds < 0, digits |-> StripLeadingZeros(digits)]

\* The order of instants.
NotBefore(i, j) ==
  \/ i.day > j.day
  \/ i.day = j.day /\ i.second > j.second
  \/ i.day = j.day /\ i.second = j.second /\ i.nano >= j.nano

\* What SaveMarketData sends.
Envelope(key, i, offset) ==
  [key |-> key, hasID |-> TRUE, fetchedAt |-> FormatTime(i, offset), unixNano |-> UnixNano(i)]
=============================================================================
