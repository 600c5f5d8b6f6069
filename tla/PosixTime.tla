------------------------------ MODULE PosixTime -----------------------------
(***************************************************************************)
(* posixtime of posixtm.c (meta/recipes-extended/at/files), the times of   *)
(* at -t: MMDDhhmm with a year before or after and seconds.  A string      *)
(* comes as its pairs of digits, the last after the dot apart; one that is *)
(* not made so is refused.  mktime and localtime are external, in UTC; a   *)
(* time is a day, counted from January 1, 0000, and a second of it.        *)
(***************************************************************************)
EXTENDS Integers, Sequences

CONSTANTS
  ThisYear,                (* tm_year of the current time                    *)
  Dates                    (* what is given to posixtime                     *)

NoSeconds == -1            (* no dot                                          *)

(* The three formats as the comment in front of the code has them: where    *)
(* the year is, how long it may be, and the years of two digits.            *)
Formats == { { "LEADING_YEAR", "CENTURY", "SECONDS" }, { "TRAILING_YEAR", "PRE_2000" },
             { "TRAILING_YEAR", "CENTURY" } }

Digits == [ pairs : Seq(0 .. 99), sec : 0 .. 99 \cup { NoSeconds } ]

ASSUME DatesAssumption ==
  /\ ThisYear \in Int
  /\ \A d \in Dates : d.s \in Digits /\ d.bits \in Formats

VARIABLES
  date,                    (* the string, and the format it is taken for      *)
  answer                   (* of posixtime, and nothing before it ran          *)

dvars == <<date, answer>>

NotRead == [ read |-> FALSE ]

-----------------------------------------------------------------------------
(* The calendar: months count from 0, as in struct tm, years from 1900.     *)
Leap(y) == y % 4 = 0 /\ (y % 100 # 0 \/ y % 400 = 0)
DaysIn(y, mon) == IF mon = 1 THEN (IF Leap(y) THEN 29 ELSE 28)
                  ELSE IF mon \in { 3, 5, 8, 10 } THEN 30 ELSE 31

YearStart(y) == 365 * y + (y + 3) \div 4 - (y + 99) \div 100 + (y + 399) \div 400
MonthStart(y, mon) ==
  LET Passed(m) == IF m < mon THEN DaysIn(y, m) ELSE 0
  IN YearStart(y) + Passed(0) + Passed(1) + Passed(2) + Passed(3) + Passed(4) + Passed(5)
                  + Passed(6) + Passed(7) + Passed(8) + Passed(9) + Passed(10)

mktime(tm) ==
  LET secs == tm.tm_sec + 60 * (tm.tm_min + 60 * tm.tm_hour)
      mons == tm.tm_mon + 12 * (tm.tm_year + 1900)
  IN [ day |-> MonthStart(mons \div 12, mons % 12) + tm.tm_mday - 1 + secs \div 86400,
       sec |-> secs % 86400 ]

(* Guess is a year no later than that of t, and no more than ten before.    *)
localtime(t, guess) ==
  LET y   == CHOOSE y \in guess .. guess + 10 : t.day \in YearStart(y) .. YearStart(y + 1) - 1
      mon == CHOOSE m \in 0 .. 11 : t.day \in MonthStart(y, m) .. MonthStart(y, m) + DaysIn(y, m) - 1
  IN [ tm_year |-> y - 1900, tm_mon |-> mon, tm_mday |-> t.day - MonthStart(y, mon) + 1,
       tm_hour |-> t.sec \div 3600, tm_min |-> (t.sec \div 60) % 60, tm_sec |-> t.sec % 60 ]

-----------------------------------------------------------------------------
Bad == [ ok |-> FALSE, tm_year |-> 0 ]
Year(y) == [ ok |-> TRUE, tm_year |-> y ]

year_Pivot(pairs, bits) ==
  CASE Len(pairs) = 1 -> IF pairs[1] > 69 THEN Year(pairs[1])
                         ELSE IF "PRE_2000" \in bits THEN Bad ELSE Year(pairs[1] + 100)
    [] Len(pairs) = 2 -> IF "CENTURY" \in bits THEN Year(pairs[1] * 100 + pairs[2] - 1900) ELSE Bad
    [] Len(pairs) = 0 -> Year(ThisYear)

year(pairs, bits) ==
  CASE Len(pairs) = 1 -> IF pairs[1] > 68 THEN Year(pairs[1])
                         ELSE IF "PRE_2000" \in bits THEN Bad ELSE Year(pairs[1] + 100)
    [] Len(pairs) = 2 -> IF "CENTURY" \in bits THEN Year(pairs[1] * 100 + pairs[2] - 1900) ELSE Bad
    [] Len(pairs) = 0 -> Year(ThisYear)

(* A dot is looked for only when seconds may be given; elsewhere it is one  *)
(* more character that is no digit.                                         *)
posix_time_parse(s, bits) ==
  LET n       == Len(s.pairs) - 4
      leading == "LEADING_YEAR" \in bits
      y       == year(IF leading THEN SubSeq(s.pairs, 1, n) ELSE SubSeq(s.pairs, 5, 4 + n), bits)
      p       == IF leading THEN SubSeq(s.pairs, n + 1, n + 4) ELSE SubSeq(s.pairs, 1, 4)
  IN IF \/ Len(s.pairs) \notin 4 .. 6
        \/ s.sec # NoSeconds /\ "SECONDS" \notin bits
        \/ ~y.ok
     THEN [ ok |-> FALSE ]
     ELSE [ ok |-> TRUE,
            tm |-> [ tm_year |-> y.tm_year, tm_mon |-> p[1] - 1, tm_mday |-> p[2], tm_hour |-> p[3],
                     tm_min |-> p[4], tm_sec |-> IF s.sec = NoSeconds THEN 0 ELSE s.sec ] ]

(* What mktime made of the fields must be what it was given.                *)
posixtime(s, bits) ==
  LET parsed == posix_time_parse(s, bits)
      t      == mktime(parsed.tm)
      tm     == localtime(t, parsed.tm.tm_year + 1899)
  IN IF parsed.ok /\ tm = parsed.tm THEN [ ok |-> TRUE, t |-> t ] ELSE [ ok |-> FALSE ]

-----------------------------------------------------------------------------
ShortYears == 1969 .. 2068
GivenYear(yy) ==
  IF yy = <<>> THEN ThisYear + 1900
  ELSE IF Len(yy) = 2 THEN 100 * yy[1] + yy[2]
  ELSE CHOOSE y \in ShortYears : y % 100 = yy[1]

Meant(s, bits) ==
  LET n    == Len(s.pairs) - 4
      yy   == IF "LEADING_YEAR" \in bits THEN SubSeq(s.pairs, 1, n) ELSE SubSeq(s.pairs, 5, 4 + n)
      p(k) == s.pairs[k + IF "LEADING_YEAR" \in bits THEN n ELSE 0]
      y    == GivenYear(yy)
  IN IF n \in 0 .. (IF "CENTURY" \in bits THEN 2 ELSE 1)
     THEN { m \in [ year : {y}, month : {p(1)} \cap 1 .. 12, day : {p(2)}, hour : {p(3)} \cap 0 .. 23,
                    min : {p(4)} \cap 0 .. 59,
                    sec : IF s.sec = NoSeconds THEN {0}
                          ELSE IF "SECONDS" \in bits THEN {s.sec} \cap 0 .. 59 ELSE {} ] :
              /\ m.day \in 1 .. DaysIn(m.year, m.month - 1)
              /\ ("PRE_2000" \in bits /\ n = 1) => m.year < 2000 }
     ELSE {}

(* The number of the day by counting, century by century, the leap years.   *)
DayNumber(m) ==
  LET Leaps(y) == y \div 4 - y \div 100 + y \div 400
      before   == << 0, 31, 59, 90, 120, 151, 181, 212, 243, 273, 304, 334 >>
      passed   == IF m.month > 2 THEN m.year ELSE m.year - 1
  IN 365 * m.year + 1 + Leaps(passed) + before[m.month] + m.day - 1

-----------------------------------------------------------------------------
Posixtime ==
  /\ answer = NotRead
  /\ answer' = posixtime(date.s, date.bits)
  /\ UNCHANGED date

DateInit == date \in Dates /\ answer = NotRead
DateNext == Posixtime
DateSpec == DateInit /\ [][DateNext]_dvars

(* What is a time in one of the formats is read as that time, and nothing   *)
(* else is: neither a day the month does not have nor a 24th hour.          *)
ReadAsMeant(meant) ==
  IF meant = {} THEN ~answer.ok
  ELSE \A m \in meant :
         answer = [ ok |-> TRUE, t |-> [ day |-> DayNumber(m), sec |-> 3600 * m.hour + 60 * m.min + m.sec ] ]

DatesReadAsMeant == answer # NotRead => ReadAsMeant(Meant(date.s, date.bits))
=============================================================================
