------------------------------- MODULE KFormat -------------------------------
(***************************************************************************)
(* Durations, sizes, dates and distances as text (kformatprivate.cpp).  A  *)
(* text is the sequence of its parts, [unit, n] each; words, punctuation   *)
(* and padding are left out.                                               *)
(*                                                                         *)
(* The integers of the model are too narrow for milliseconds of years: a   *)
(* duration is days and the milliseconds of the day.  A size is m units of *)
(* the multiplier to the power e.                                          *)
(***************************************************************************)
EXTENDS Integers, SequencesExt

MSecsInDay == 86400000
MSecsIn == [hours |-> 3600000, minutes |-> 60000, seconds |-> 1000, ms |-> 1]

Part(unit, n) == [unit |-> unit, n |-> n]

(* qRound64() of a duration in steps of so many milliseconds. *)
RoundedTo(t, step) ==
    LET ms == ((t.ms + step \div 2) \div step) * step
    IN [day |-> t.day + ms \div MSecsInDay, ms |-> ms % MSecsInDay]

Rounded(t, options) ==
    CASE "HideSeconds" \in options -> RoundedTo(t, MSecsIn.minutes)
      [] options \cap {"HideSeconds", "ShowMilliseconds"} = {} -> RoundedTo(t, MSecsIn.seconds)
      [] OTHER -> t

Hours(t) == t.ms \div MSecsIn.hours
Minutes(t) == (t.ms % MSecsIn.hours) \div MSecsIn.minutes
Seconds(t) == (t.ms % MSecsIn.minutes) \div MSecsIn.seconds

(* 1:23:45 and 1h23m45s. *)
ClockParts(t, options) ==
    LET hours == Part("hours", 24 * t.day + Hours(t))
        folded == Part("minutes", 60 * hours.n + Minutes(t))
        minutes == Part("minutes", Minutes(t))
        seconds == Part("seconds", Seconds(t))
        ms == Part("ms", t.ms % MSecsIn.seconds)
    IN CASE {"FoldHours", "ShowMilliseconds"} \subseteq options -> <<folded, seconds, ms>>
         [] "FoldHours" \in options /\ "ShowMilliseconds" \notin options -> <<folded, seconds>>
         [] "FoldHours" \notin options /\ "HideSeconds" \in options -> <<hours, minutes>>
         [] options \cap {"FoldHours", "HideSeconds"} = {} /\ "ShowMilliseconds" \in options ->
              <<hours, minutes, seconds, ms>>
         [] OTHER -> <<hours, minutes, seconds>>

(* 1 hr 23 min.  Whole years are taken for no time at all. *)
AbbreviatedParts(t, options) ==
    LET fold == "FoldHours" \in options
        years == Part("years", IF fold THEN 0 ELSE t.day \div 365)
        days == Part("days", IF fold THEN 0 ELSE t.day % 365)
        hours == Part("hours", IF fold THEN 0 ELSE Hours(t))
        minutes == Part("minutes", IF fold THEN 60 * (24 * t.day + Hours(t)) + Minutes(t)
                                   ELSE Minutes(t))
        seconds == Part("seconds", Seconds(t))
    IN CASE days.n = 0 /\ hours.n = 0 /\ minutes.n = 0 ->
              IF "HideSeconds" \in options THEN <<minutes>> ELSE <<seconds>>
         [] OTHER ->
              IF years.n # 0 THEN IF days.n = 0 THEN <<years>> ELSE <<years, days>>
              ELSE IF days.n # 0 THEN IF hours.n = 0 THEN <<days>> ELSE <<days, hours>>
              ELSE IF hours.n # 0 THEN <<hours, minutes>>
              ELSE IF "HideSeconds" \in options THEN <<minutes>> ELSE <<minutes, seconds>>

formatDuration(t, options) ==
    IF "AbbreviatedDuration" \in options /\ "InitialDuration" \notin options
    THEN AbbreviatedParts(Rounded(t, options), options)
    ELSE ClockParts(Rounded(t, options), options)

(* Mutant: sixty seconds are not carried. *)
formatSpelloutDuration_Sixty(t) ==
    LET seconds == Part("seconds", ((t.ms % MSecsIn.minutes) + 500) \div 1000)
        parts == <<Part("days", t.day), Part("hours", Hours(t)), Part("minutes", Minutes(t)), seconds>>
        shown == SelectSeq(parts, LAMBDA p : p.n # 0)
    IN IF shown = <<>> THEN <<seconds>> ELSE SubSeq(shown, 1, 2)

(* The two largest parts that lie next to each other. *)
Spelled(parts) ==
    CASE \E i \in 1 .. 3 : parts[i].n # 0 ->
           LET i == CHOOSE i \in 1 .. 3 : parts[i].n # 0 /\ \A j \in 1 .. i - 1 : parts[j].n = 0
           IN IF parts[i + 1].n # 0 THEN <<parts[i], parts[i + 1]>> ELSE <<parts[i]>>
      [] OTHER -> <<parts[4]>>

(* Seconds are rounded, and sixty of them are a minute more. *)
formatSpelloutDuration(t) ==
    LET seconds == ((t.ms % MSecsIn.minutes) + 500) \div 1000
        full == t.ms - (t.ms % MSecsIn.minutes) + MSecsIn.minutes
        r == IF seconds < 60 THEN t
             ELSE [day |-> t.day + full \div MSecsInDay, ms |-> full % MSecsInDay]
    IN Spelled(<<Part("days", r.day), Part("hours", Hours(r)), Part("minutes", Minutes(r)),
                 Part("seconds", IF seconds < 60 THEN seconds ELSE 0)>>)

(* With decimals: how many of the last digit of the largest unit there are, and *)
(* how many milliseconds one of them is.                                   *)
formatDecimalDuration(t, decimalPlaces) ==
    LET unit == CASE t.day > 0 -> MSecsInDay
                  [] t.day = 0 /\ Hours(t) > 0 -> MSecsIn.hours
                  [] t.day = 0 /\ Hours(t) = 0 /\ Minutes(t) > 0 -> MSecsIn.minutes
                  [] OTHER -> MSecsIn.seconds
        step == unit \div 10 ^ decimalPlaces
    IN IF t.day = 0 /\ t.ms < MSecsIn.seconds THEN [step |-> 1, shown |-> t]
       ELSE [step |-> step, shown |-> RoundedTo(t, step)]

-----------------------------------------------------------------------------
Multiplier(dialect) == IF dialect = "Metric" THEN 1000 ELSE 1024
Yotta == 8

(* How often a size is divided until it is below the multiplier. *)
Power(size, dialect) ==
    LET k == Multiplier(dialect)
    IN IF size.m = 0 THEN 0
       ELSE size.e + (IF size.m < k THEN 0 ELSE IF size.m < k * k THEN 1 ELSE 2)

Letter == <<"k", "M", "G", "T", "P", "E", "Z", "Y">>

(* The number shown is size * multiplier^-unit; bytes have no digits after  *)
(* the point.                                                              *)
Shown(size, unit, prefix, precision) ==
    [m |-> size.m, e |-> size.e - unit, prefix |-> prefix,
     precision |-> IF unit = 0 THEN 0 ELSE precision]

formatByteSize(size, precision, dialect) ==
    LET unit == IF Power(size, dialect) > Yotta THEN Yotta ELSE Power(size, dialect)
        prefix == CASE unit = 0 -> <<>>
                    [] unit = 1 /\ dialect = "Metric" -> <<"k">>
                    [] unit = 1 /\ dialect = "JEDEC" -> <<"K">>
                    [] unit = 1 /\ dialect = "IEC" -> <<"K", "i">>
                    [] OTHER -> IF dialect = "IEC" THEN <<Letter[unit], "i">> ELSE <<Letter[unit]>>
    IN Shown(size, unit, prefix, precision)

(* formatValue() of a number of bytes. *)
formatValue(size, precision, dialect) ==
    LET power == IF Power(size, dialect) > Yotta THEN Yotta ELSE Power(size, dialect)
        Upper(c) == IF c = "k" THEN "K" ELSE c
        prefix == CASE power = 0 -> <<>>
                    [] power > 0 /\ dialect = "Metric" -> <<Letter[power]>>
                    [] power > 0 /\ dialect = "JEDEC" -> <<Upper(Letter[power])>>
                    [] OTHER -> <<Upper(Letter[power]), "i">>
    IN Shown(size, power, prefix, precision)

-----------------------------------------------------------------------------
(* A distance in decimetres; the kilometers have tenths below ten. *)
formatMetricDistance(dm) ==
    IF dm < 10000 THEN Part("m", (dm + 5) \div 10)
    ELSE IF dm < 100000 THEN Part("100 m", (dm + 500) \div 1000)
    ELSE Part("km", (dm + 5000) \div 10000)

(* The same in feet, of 3048 tenths of a millimetre, and miles, of 5280 feet. *)
formatImperialDistance(dm) ==
    LET Nearest(unit) == (2000 * dm + unit) \div (2 * unit)
        foot == 3048
        mile == 5280 * foot
    IN IF 1000 * dm < 500 * foot THEN Part("ft", Nearest(foot))
       ELSE IF 1000 * dm < 10 * mile THEN Part("0.1 mi", Nearest(mile \div 10))
       ELSE Part("mi", Nearest(mile))

(* Imperial where the locale is that of the United States, if metric units are  *)
(* not asked for.                                                          *)
formatDistance(dm, options, system) ==
    IF "MetricDistanceUnits" \notin options /\ system = "ImperialUSSystem"
    THEN formatImperialDistance(dm) ELSE formatMetricDistance(dm)

(* Days from today. *)
formatRelativeDate(daysTo) ==
    IF daysTo \in -2 .. 2 THEN Part("word", daysTo) ELSE Part("date", daysTo)

(* Seconds from now to a time, and days from today to its date. *)
formatRelativeDateTime(secs, days) ==
    CASE secs \in -3599 .. 0 ->
           IF -secs \div 60 <= 1 THEN Part("just now", 0) ELSE Part("minutes ago", -secs \div 60)
      [] secs \in 1 .. 3599 ->
           IF secs \div 60 < 1 THEN Part("now", 0) ELSE Part("in minutes", secs \div 60)
      [] OTHER -> IF days \in -1 .. 1 THEN formatRelativeDate(days) ELSE Part("date", days)

-----------------------------------------------------------------------------
(* Properties. *)

Of(part) ==
    CASE part.unit = "years" -> [day |-> 365 * part.n, ms |-> 0]
      [] part.unit = "days" -> [day |-> part.n, ms |-> 0]
      [] OTHER -> LET inDay == MSecsInDay \div MSecsIn[part.unit]
                  IN [day |-> part.n \div inDay, ms |-> (part.n % inDay) * MSecsIn[part.unit]]

Plus(t, u) ==
    [day |-> t.day + u.day + (t.ms + u.ms) \div MSecsInDay, ms |-> (t.ms + u.ms) % MSecsInDay]

Less(t, u) == t.day < u.day \/ (t.day = u.day /\ t.ms < u.ms)

(* How much of a unit there may be after a part of a larger one. *)
Limit == [days |-> 365, hours |-> 24, minutes |-> 60, seconds |-> 60, ms |-> 1000]

(* The parts are what is left of the duration without what is less than one   *)
(* of the last, and no part has what would be one of the part before it:   *)
(* rounding never shows 1:59:60.                                           *)
Tells(parts, t) ==
    LET sum == FoldLeft(LAMBDA s, p : Plus(s, Of(p)), [day |-> 0, ms |-> 0], parts)
    IN /\ ~Less(t, sum) /\ Less(t, Plus(sum, Of(Part(Last(parts).unit, 1))))
       /\ \A i \in 2 .. Len(parts) : parts[i].n < Limit[parts[i].unit]

WholeYears(t) == t.day > 0 /\ t.day % 365 = 0 /\ t.ms < MSecsIn.minutes

(* Every form of a duration tells the duration rounded to what the form can   *)
(* show; abbreviated, a number of whole years is the exception, and told as *)
(* no minutes or seconds.                                                  *)
DurationTold(t, options) ==
    /\ \/ Tells(formatDuration(t, options), Rounded(t, options))
       \/ "AbbreviatedDuration" \in options /\ WholeYears(Rounded(t, options))
    /\ Tells(formatSpelloutDuration(t), RoundedTo(t, MSecsIn.seconds))

(* The two functions that format a number of bytes agree. *)
SizesAgree(size, precision, dialect) ==
    formatByteSize(size, precision, dialect) = formatValue(size, precision, dialect)

(* A place in time for every text about a time. *)
Rank(part) ==
    CASE part.unit \in {"just now", "now"} -> 0
      [] part.unit = "minutes ago" -> -part.n
      [] part.unit = "in minutes" -> part.n
      [] OTHER -> 1440 * part.n

(* Of two times that far from now, the later one is not told as the earlier,   *)
(* and of two distances the longer not as the shorter, whatever their units. *)
(* Nothing is compared with a time of today that is an hour away or more.    *)
OrderTold(secs, later, today) ==
    LET Days(s) == (today + s) \div 86400
        early == formatRelativeDateTime(secs, Days(secs))
        late == formatRelativeDateTime(later, Days(later))
        Length(p) == p.n * CASE p.unit = "m" -> 1 [] p.unit = "100 m" -> 100 [] p.unit = "km" -> 1000
                             [] p.unit = "ft" -> 1 [] p.unit = "0.1 mi" -> 528 [] p.unit = "mi" -> 5280
    IN /\ secs <= later /\ Part("word", 0) \notin {early, late} => Rank(early) <= Rank(late)
       /\ secs \in 0 .. later => \A options \in SUBSET {"MetricDistanceUnits"}, system \in {"MetricSystem", "ImperialUSSystem"} :
            Length(formatDistance(secs, options, system)) <= Length(formatDistance(later, options, system))

(* A duration with decimals is no further from what it is than half of its last *)
(* digit, and of two durations the longer is not told as the shorter, though *)
(* it may be told in another unit.                                          *)
DecimalsTold(t, u, decimalPlaces) ==
    LET told == formatDecimalDuration(t, decimalPlaces)
        other == formatDecimalDuration(u, decimalPlaces)
        half == [day |-> 0, ms |-> (told.step + 1) \div 2]
    IN /\ ~Less(Plus(told.shown, half), t) /\ ~Less(Plus(t, half), told.shown)
       /\ ~Less(u, t) => ~Less(other.shown, told.shown)

-----------------------------------------------------------------------------
(* A time of the day in a zone, or a local one.  A zone has two offsets,       *)
(* and two abbreviations that may be empty; a zone without daylight time has   *)
(* the same for both.  daylight says in which of the two the time is.        *)
ZoneOf(time, system) == IF time.local THEN system ELSE time.zone

Offset(zone, daylight) == IF daylight THEN zone.daylight.offset ELSE zone.standard.offset

needsTimeZone(time, system) ==
    ~time.local /\ Offset(time.zone, time.daylight) # Offset(system, time.daylight)

(* formatTime(): the time, and the abbreviation of its zone where it has one. *)
formatTime(time, options, system) ==
    LET zone == ZoneOf(time, system)
        abbreviation == IF time.daylight THEN zone.daylight.name ELSE zone.standard.name
    IN IF \/ options = {} \/ time.local \/ abbreviation = ""
          \/ "AddTimezoneAbbreviationIfNeeded" \in options /\ ~needsTimeZone(time, system)
       THEN <<time.hours>> ELSE <<time.hours, abbreviation>>

(* Who is told two times in the same words, and that zones are named if need   *)
(* be, is told of the same moment, if zones with the same name have the same   *)
(* offset and none is without a name.  The zone is left out exactly when the   *)
(* clock of the system shows the same time.                                  *)
TimesTold(time, other, options, system) ==
    LET Moment(t) == t.hours - Offset(ZoneOf(t, system), t.daylight)
        Name(t) == IF t.daylight THEN t.zone.daylight.name ELSE t.zone.standard.name
        Named(t) == ~t.local => Name(t) # ""
        clear ==
            /\ Named(time) /\ Named(other)
            /\ ~time.local /\ ~other.local /\ Name(time) = Name(other) =>
                 Offset(time.zone, time.daylight) = Offset(other.zone, other.daylight)
        told == formatTime(time, options, system)
    IN /\ options # {} /\ time.daylight = other.daylight /\ clear /\ told = formatTime(other, options, system) =>
            Moment(time) = Moment(other)
       /\ "AddTimezoneAbbreviationIfNeeded" \in options /\ Named(time) =>
            (Len(told) = 1) = (Moment(time) = time.hours - Offset(system, time.daylight))
=============================================================================
