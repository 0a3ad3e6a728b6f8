------------------------------ MODULE Calendar -------------------------------
(***************************************************************************)
(* sodamem/memory/ingest/calendar_resolve.py: what a phrase such as "last  *)
(* Tuesday", "end of next month", "two weeks ago" or a holiday's name      *)
(* means on the day of a session, the anchor.  Days are counted as by      *)
(* date.toordinal().  A result is the span of days it stands for: a day, a *)
(* month or a year, since the code answers YYYY-MM-DD, YYYY-MM or YYYY.    *)
(*                                                                         *)
(* The words are left out.  English and Chinese phrases that mean the same *)
(* are one operator ("last Tuesday" and its Chinese counterpart both       *)
(* WeekdayOf(-1, 1)), and which phrase is found first in a longer text is  *)
(* not modelled.                                                           *)
(***************************************************************************)
EXTENDS Integers, Sequences, FiniteSetsExt, Functions

CONSTANT Anchors    \* the days of sessions

AnchorAssumption == Anchors \subseteq Nat

VARIABLE anchor

None == [first |-> 0, last |-> 0]
Day(n) == [first |-> n, last |-> n]

-----------------------------------------------------------------------------
(***************************************************************************)
(* datetime and dateutil.                                                  *)
(***************************************************************************)
Leap(y) == y % 4 = 0 /\ (y % 100 # 0 \/ y % 400 = 0)
MonthDays(y, m) ==
    IF m = 2 THEN (IF Leap(y) THEN 29 ELSE 28) ELSE IF m \in {4, 6, 9, 11} THEN 30 ELSE 31
YearStart(y) == 365 * (y - 1) + ((y - 1) \div 4) - ((y - 1) \div 100) + ((y - 1) \div 400) + 1
MonthStart(y, m) ==
    YearStart(y) + <<0, 31, 59, 90, 120, 151, 181, 212, 243, 273, 304, 334>>[m]
                 + (IF m > 2 /\ Leap(y) THEN 1 ELSE 0)
Date(y, m, d) == MonthStart(y, m) + d - 1
Valid(y, m, d) == m \in 1..12 /\ d >= 1 /\ d <= MonthDays(y, m)
DateOrNone(y, m, d) == IF Valid(y, m, d) THEN Day(Date(y, m, d)) ELSE None

YearOf(n) ==
    LET near == (400 * n) \div 146097 IN
    CHOOSE y \in near..(near + 2) : YearStart(y) <= n /\ n < YearStart(y + 1)
MonthOf(n) == Max({m \in 1..12 : MonthStart(YearOf(n), m) <= n})
DayOf(n) == n - MonthStart(YearOf(n), MonthOf(n)) + 1
Weekday(n) == (n + 6) % 7

Month(y, m) == [first |-> MonthStart(y, m), last |-> MonthStart(y, m) + MonthDays(y, m) - 1]
Year(y) == [first |-> YearStart(y), last |-> YearStart(y + 1) - 1]

(* n + relativedelta(months=k): the day is cut to the length of the month. *)
PlusMonths(n, k) ==
    LET t == 12 * YearOf(n) + MonthOf(n) - 1 + k
        y == t \div 12
        m == (t % 12) + 1
    IN  Date(y, m, Min({DayOf(n), MonthDays(y, m)}))

(* relativedelta(weekday=wd(-1)) and (+1): a day that is one already stays.*)
OnOrBefore(n, wd) == n - ((Weekday(n) - wd) % 7)
OnOrAfter(n, wd) == n + ((wd - Weekday(n)) % 7)

-----------------------------------------------------------------------------
(***************************************************************************)
(* The tables of the Chinese calendar, and the holidays.                   *)
(***************************************************************************)
YearCode == <<
    19416, 19168, 42352, 21717, 53856, 55632, 91476, 22176, 39632, 21970,
    19168, 42422, 42192, 53840, 119381, 46400, 54944, 44450, 38320, 84343,
    18800, 42160, 46261, 27216, 27968, 109396, 11104, 38256, 21234, 18800,
    25958, 54432, 59984, 92821, 23248, 11104, 100067, 37600, 116951, 51536,
    54432, 120998, 46416, 22176, 107956, 9680, 37584, 53938, 43344, 46423,
    27808, 46416, 86869, 19872, 42416, 83315, 21168, 43432, 59728, 27296,
    44710, 43856, 19296, 43748, 42352, 21088, 62051, 55632, 23383, 22176,
    38608, 19925, 19152, 42192, 54484, 53840, 54616, 46400, 46752, 103846,
    38320, 18864, 43380, 42160, 45690, 27216, 27968, 44870, 43872, 38256,
    19189, 18800, 25776, 29859, 59984, 27480, 23232, 43872, 38613, 37600,
    51552, 55636, 54432, 55888, 30034, 22176, 43959, 9680, 37584, 51893,
    43344, 46240, 47780, 44368, 21977, 19360, 42416, 86390, 21168, 43312,
    31060, 27296, 44368, 23378, 19296, 42726, 42208, 53856, 60005, 54576,
    23200, 30371, 38608, 19195, 19152, 42192, 118966, 53840, 54560, 56645,
    46496, 22224, 21938, 18864, 42359, 42160, 43600, 111189, 27936, 44448,
    84835, 37744, 18936, 18800, 25776, 92326, 59984, 27296, 108228, 43744,
    37600, 53987, 51552, 54615, 54432, 55888, 23893, 22176, 42704, 21972,
    21200, 43448, 43344, 46240, 46758, 44368, 21920, 43940, 42416, 21168,
    45683, 26928, 29495, 27296, 44368, 84821, 19296, 42352, 21732, 53600,
    59752, 54560, 55968, 92838, 22224, 19168, 43476, 41680, 53584, 62034,
    54560 >>

NewYearTable == <<
    19000131, 19010219, 19020208, 19030129, 19040216, 19050204, 19060125,
    19070213, 19080202, 19090122, 19100210, 19110130, 19120218, 19130206,
    19140126, 19150214, 19160203, 19170123, 19180211, 19190201, 19200220,
    19210208, 19220128, 19230216, 19240205, 19250124, 19260213, 19270202,
    19280123, 19290210, 19300130, 19310217, 19320206, 19330126, 19340214,
    19350204, 19360124, 19370211, 19380131, 19390219, 19400208, 19410127,
    19420215, 19430205, 19440125, 19450213, 19460202, 19470122, 19480210,
    19490129, 19500217, 19510206, 19520127, 19530214, 19540203, 19550124,
    19560212, 19570131, 19580218, 19590208, 19600128, 19610215, 19620205,
    19630125, 19640213, 19650202, 19660121, 19670209, 19680130, 19690217,
    19700206, 19710127, 19720215, 19730203, 19740123, 19750211, 19760131,
    19770218, 19780207, 19790128, 19800216, 19810205, 19820125, 19830213,
    19840202, 19850220, 19860209, 19870129, 19880217, 19890206, 19900127,
    19910215, 19920204, 19930123, 19940210, 19950131, 19960219, 19970207,
    19980128, 19990216, 20000205, 20010124, 20020212, 20030201, 20040122,
    20050209, 20060129, 20070218, 20080207, 20090126, 20100214, 20110203,
    20120123, 20130210, 20140131, 20150219, 20160208, 20170128, 20180216,
    20190205, 20200125, 20210212, 20220201, 20230122, 20240210, 20250129,
    20260217, 20270206, 20280126, 20290213, 20300203, 20310123, 20320211,
    20330131, 20340219, 20350208, 20360128, 20370215, 20380204, 20390124,
    20400212, 20410201, 20420122, 20430210, 20440130, 20450217, 20460206,
    20470126, 20480214, 20490202, 20500123, 20510211, 20520201, 20530219,
    20540208, 20550128, 20560215, 20570204, 20580124, 20590212, 20600202,
    20610121, 20620209, 20630129, 20640217, 20650205, 20660126, 20670214,
    20680203, 20690123, 20700211, 20710131, 20720219, 20730207, 20740127,
    20750215, 20760205, 20770124, 20780212, 20790202, 20800122, 20810209,
    20820129, 20830217, 20840206, 20850126, 20860214, 20870203, 20880124,
    20890210, 20900130, 20910218, 20920207, 20930127, 20940215, 20950205,
    20960125, 20970212, 20980201, 20990121, 21000209 >>

LunarYears == 1900..2100
NewYear(y) ==
    LET t == NewYearTable[y - 1899] IN Date(t \div 10000, (t \div 100) % 100, t % 100)

LengthOf(c, m) == IF (c \div 2 ^ (16 - m)) % 2 = 1 THEN 30 ELSE 29
LeapMonth(y) == YearCode[y - 1899] % 16

(* _cn_lunar_month_days: the leap month, when there is one, follows the    *)
(* month it is named after.                                                *)
LunarMonths(y) ==
    LET c == YearCode[y - 1899]
        regular == [m \in 1..12 |-> LengthOf(c, m)]
        leap == LeapMonth(y)
    IN  IF leap = 0 THEN regular
        ELSE SubSeq(regular, 1, leap) \o <<IF c \div 65536 > 0 THEN 30 ELSE 29>>
                                      \o SubSeq(regular, leap + 1, 12)

MonthsBefore(y, m) == m - 1 + (IF LeapMonth(y) # 0 /\ LeapMonth(y) < m THEN 1 ELSE 0)

(* _lunar_to_gregorian                                                     *)
Lunar(y, m, d) ==
    NewYear(y) + SumFunctionOnSet(LunarMonths(y), 1..MonthsBefore(y, m)) + d - 1

FixedHolidays ==
    {<<12, 25>>, <<1, 1>>, <<12, 31>>, <<10, 31>>, <<7, 4>>, <<2, 14>>,
     <<5, 1>>, <<10, 1>>, <<5, 4>>, <<6, 1>>, <<9, 10>>, <<8, 1>>}
(* Weekday, which one of the month (-1 the last), month.                   *)
RuleHolidays == {<<3, 4, 11>>, <<6, 2, 5>>, <<6, 3, 6>>, <<0, 1, 9>>, <<0, -1, 5>>, <<0, 3, 1>>}
LunarHolidays == {<<1, 1>>, <<1, 15>>, <<5, 5>>, <<8, 15>>, <<9, 9>>, <<12, 8>>}
Laba == <<"lunar", <<12, 8>>>>

Holidays ==
    ({"fixed"} \X FixedHolidays) \cup ({"rule"} \X RuleHolidays)
        \cup ({"lunar"} \X LunarHolidays) \cup {<<"eve", <<>>>>}

(* _HOLIDAY_DATE and _CN_HOLIDAY_DATE: the holiday h of the year y.        *)
HolidayDate(h, y) ==
    LET is == h[2] IN
    CASE h[1] = "fixed" -> Date(y, is[1], is[2])
      [] h[1] = "rule" ->
            IF is[2] > 0 THEN OnOrAfter(Date(y, is[3], 1), is[1]) + 7 * (is[2] - 1)
            ELSE OnOrBefore(Date(y, is[3], MonthDays(y, is[3])), is[1])
      [] h[1] = "lunar" -> Lunar(y, is[1], is[2])
      [] h[1] = "eve" -> NewYear(y) - 1

-----------------------------------------------------------------------------
(***************************************************************************)
(* resolve_date.  Last, this and next are the offsets -1, 0 and 1; a       *)
(* repeated Chinese modifier counts further.                               *)
(***************************************************************************)
Prefers == {"past", "past_event", "future"}
ThisYear == YearOf(anchor)
ThisMonday == anchor - Weekday(anchor)
Units == {"day", "week", "month", "year"}

Plus(unit, k) ==
    CASE unit = "day" -> anchor + k
      [] unit = "week" -> anchor + 7 * k
      [] unit = "month" -> PlusMonths(anchor, k)
      [] unit = "year" -> PlusMonths(anchor, 12 * k)

(* "yesterday", "in three days", "two months ago".                         *)
Shift(unit, k) == Day(Plus(unit, k))

EndOfMonth(base) == Month(YearOf(base), MonthOf(base)).last

(* "start of last month", "end of the year".                               *)
Edge(which, k, unit) ==
    LET base == Plus(unit, k) IN
    CASE unit = "month" -> IF which = "end" THEN EndOfMonth(base)
                           ELSE MonthStart(YearOf(base), MonthOf(base))
      [] unit = "year" -> IF which = "end" THEN Date(YearOf(base), 12, 31)
                          ELSE Date(YearOf(base), 1, 1)
      [] unit = "week" -> IF which = "end" THEN OnOrAfter(base, 6) ELSE OnOrBefore(base, 0)

(* "last Tuesday"; a weekend is its Saturday.                              *)
WeekdayOf(k, wd) == Day(ThisMonday + 7 * k + wd)

(* "on Tuesday", "Tuesday".                                                *)
BareWeekday(wd, prefer) ==
    Day(IF prefer = "future" THEN OnOrAfter(anchor, wd) ELSE OnOrBefore(anchor, wd))

(* "March 15" without a year: a plan is not behind the anchor, an event not*)
(* ahead of it; the 29th of February stays where it cannot be moved.       *)
MonthDay(m, d, prefer) ==
    LET here == DateOrNone(ThisYear, m, d)
        year == CASE prefer = "future" /\ here.first < anchor -> ThisYear + 1
                  [] prefer = "past_event" /\ here.first > anchor -> ThisYear - 1
                  [] OTHER -> ThisYear
    IN  IF here # None /\ Valid(year, m, d) THEN DateOrNone(year, m, d) ELSE here

(* "March 15" of last, this or next year, and with k = 0 in Chinese.       *)
MonthDayOf(k, m, d) == DateOrNone(ThisYear + k, m, d)

(* "last March"                                                            *)
NamedMonth(k, m) ==
    LET here == MonthStart(ThisYear, m)
        year == CASE k = -1 /\ here > anchor -> ThisYear - 1
                  [] k = 1 /\ here <= anchor -> ThisYear + 1
                  [] OTHER -> ThisYear
    IN  Month(year, m)

(* "March"                                                                 *)
BareMonth(m) == Month(IF m <= MonthOf(anchor) THEN ThisYear ELSE ThisYear - 1, m)

(* "last month", "next year"                                               *)
Relative(k, unit) ==
    LET target == Plus(unit, k) IN
    IF unit = "year" THEN Year(YearOf(target)) ELSE Month(YearOf(target), MonthOf(target))

MutLastIncludesToday(k, h) ==
    LET here == HolidayDate(h, ThisYear) IN
    Day(IF k = -1 /\ here > anchor THEN HolidayDate(h, ThisYear - 1)
        ELSE IF k = 1 /\ here < anchor THEN HolidayDate(h, ThisYear + 1) ELSE here)

(* "last Thanksgiving"                                                     *)
Holiday(k, h) ==
    LET here == HolidayDate(h, ThisYear) IN
    Day(IF k = -1 /\ here >= anchor THEN HolidayDate(h, ThisYear - 1)
        ELSE IF k = 1 /\ here <= anchor THEN HolidayDate(h, ThisYear + 1) ELSE here)

(* "Thanksgiving"                                                          *)
BareHoliday(h) ==
    LET here == HolidayDate(h, ThisYear) IN
    Day(IF here <= anchor THEN here ELSE HolidayDate(h, ThisYear - 1))

(* "the 15th"                                                              *)
OrdinalDay(d) == DateOrNone(ThisYear, MonthOf(anchor), d)

(* "3/14": a first number that can be no month is the day.                 *)
Numeric(a, b) ==
    IF a > 12 /\ b <= 12 THEN DateOrNone(ThisYear, b, a) ELSE DateOrNone(ThisYear, a, b)

(***************************************************************************)
(* resolve_range                                                           *)
(***************************************************************************)
(* "last week"                                                             *)
Week(k) == [first |-> ThisMonday + 7 * k, last |-> ThisMonday + 7 * k + 6]

(* "the past three weeks"                                                  *)
Past(n, unit) == [first |-> Plus(unit, -n), last |-> anchor]

-----------------------------------------------------------------------------
Init == anchor \in {n \in Anchors : n - 1 \notin Anchors}

(* The next session is a few days later.                                   *)
Later == \E n \in 1..7 : anchor + n \in Anchors /\ anchor' = anchor + n

Spec == Init /\ [][Later]_anchor

-----------------------------------------------------------------------------
Within(s, t) == t.first <= s.first /\ s.last <= t.last
Offsets == {-1, 0, 1}
YearsAround == (ThisYear - 2)..(ThisYear + 2)
Around == {DayOf(anchor) - 1, DayOf(anchor), DayOf(anchor) + 1} \cap (1..31)
Dates(h) == {HolidayDate(h, y) : y \in YearsAround}
Starts(m) == {MonthStart(y, m) : y \in YearsAround}

(* "the two can no longer disagree about what last/this/next week means"   *)
(* (resolve_date and resolve_range): "last Tuesday" is a Tuesday of "last  *)
(* week", which runs from "start of last week" to "end of last week", and  *)
(* the bare weekday is the nearest one on its side.                        *)
WeeksAgree ==
    /\ \A k \in Offsets :
          Week(k) = [first |-> Edge("start", k, "week"), last |-> Edge("end", k, "week")]
    /\ \A k \in -10..10, wd \in 0..6 :
          Within(WeekdayOf(k, wd), Week(k)) /\ Weekday(WeekdayOf(k, wd).first) = wd
    /\ \A wd \in 0..6 :
          /\ BareWeekday(wd, "past") \in {Day(n) : n \in (anchor - 6)..anchor}
          /\ BareWeekday(wd, "future") \in {Day(n) : n \in anchor..(anchor + 6)}
          /\ \A prefer \in Prefers : Weekday(BareWeekday(wd, prefer).first) = wd

(* The two tables of the Chinese calendar fit: the months of a lunar year, *)
(* the leap month in its place, lead from its new year to the next, whose  *)
(* eve is their last day.                                                  *)
LunarYearsMeet ==
    ThisYear + 1 \in LunarYears =>
        /\ \A m \in 1..11 :
              Lunar(ThisYear, m + 1, 1) - Lunar(ThisYear, m, 1)
                  \in IF m = LeapMonth(ThisYear) THEN {58, 59, 60} ELSE {29, 30}
        /\ Lunar(ThisYear, 12, 1) + LunarMonths(ThisYear)[Len(LunarMonths(ThisYear))]
              = HolidayDate(<<"eve", <<>>>>, ThisYear + 1) + 1

(* The periods a phrase names meet without a gap or an overlap, on         *)
(* whatever day they are named: last, this and next month, year and week   *)
(* from "start of" to "end of", "last month" as a whole, and the anchor is *)
(* in "this"; "N units ago" reaches further back with every N, and the     *)
(* month it falls in is N months back also on the 31st; weekdays are those *)
(* of the week, and lunar months fill the lunar year.                      *)
PeriodsMeet ==
    /\ \A unit \in Units \ {"day"}, k \in {-1, 0} :
          Edge("end", k, unit) + 1 = Edge("start", k + 1, unit)
    /\ \A unit \in {"month", "year"}, k \in Offsets :
          Relative(k, unit) = [first |-> Edge("start", k, unit), last |-> Edge("end", k, unit)]
    /\ \A unit \in Units \ {"day"} :
          Edge("start", 0, unit) <= anchor /\ anchor <= Edge("end", 0, unit)
    /\ \A unit \in Units, n \in 0..12 : Within(Past(n, unit), Past(n + 1, unit))
    /\ \A n \in 1..12 : Within(Shift("month", -n), Relative(-n, "month"))
    /\ WeeksAgree
    /\ LunarYearsMeet

(* The days and months a name without a year could mean.                   *)
HolidaysAreNearest ==
    \A h \in Holidays \ {Laba} :
        LET dates == Dates(h) IN
        /\ Holiday(-1, h) = Day(Max({n \in dates : n < anchor}))
        /\ Holiday(1, h) = Day(Min({n \in dates : n > anchor}))
        /\ BareHoliday(h) = Day(Max({n \in dates : n <= anchor}))

MonthsAreNearest ==
    \A m \in 1..12 :
        LET starts == Starts(m) IN
        /\ BareMonth(m).first = Max({n \in starts : n <= anchor})
        /\ NamedMonth(-1, m) = BareMonth(m)
        /\ NamedMonth(1, m).first = Min({n \in starts : n > anchor})

(* "March 15" keeps its month and day; only the 29th of February may be on *)
(* the wrong side, or be nothing.                                          *)
MonthDaysAreNearest ==
    \A m \in 1..12, d \in {1, 28, 29, 30, 31} \cup Around, prefer \in Prefers :
        LET found == MonthDay(m, d, prefer)
            all == {Date(y, m, d) : y \in {x \in YearsAround : Valid(x, m, d)}}
        IN  IF <<m, d>> = <<2, 29>>
            THEN found \in {Day(n) : n \in all} \cup {None}
            ELSE CASE all = {} -> found = None
                   [] all # {} /\ prefer = "past" -> found = MonthDayOf(0, m, d)
                   [] all # {} /\ prefer = "past_event" -> found = Day(Max({n \in all : n <= anchor}))
                   [] all # {} /\ prefer = "future" -> found = Day(Min({n \in all : n >= anchor}))

(* A name without a year means the nearest of its kind on the side the     *)
(* words or the kind of the fact say: "last" is the latest before the      *)
(* anchor, "next" the first after it, a bare name the latest that is not   *)
(* ahead, and the first not behind it for a plan; for holidays fixed,      *)
(* rule-based and lunar, for months by their first day, and for days of a  *)
(* month.  Laba is left out: the Laba of a lunar year falls in the January *)
(* after it, the code takes it for the one of the civil year, and early in *)
(* January the bare name is a day ahead.                                   *)
NearestOccurrence == HolidaysAreNearest /\ MonthsAreNearest /\ MonthDaysAreNearest
=============================================================================
