----------------------------- MODULE QuickParse -----------------------------
(***************************************************************************)
(* One line of quick add taken apart (web/src/lib/nlp.ts): every rule looks *)
(* for its phrase in what is left of the line, takes it out and notes what  *)
(* it means; what no rule takes is the title.  The line is a sequence of    *)
(* tokens, kind and value.  One step is one group of rules.                 *)
(***************************************************************************)
EXTENDS CalendarDays, FiniteSetsExt

CONSTANTS
  Sentences,    \* lines, [toks |-> tokens, means |-> what the user means by them]
  Today,        \* the day it is
  Nows,         \* minutes of the day it may be
  ListNames,    \* names of lists there are
  January,      \* month of the stretch this year begins with
  Nothing

VARIABLES line, now, src, out, step

parseVars == <<line, now, src, out, step>>

Tok(k, v) == <<k, v>>
Gap       == Tok("gap", 0)
Space     == {"gap", "sp"}
Kind(i)   == src[i][1]
Blank     == [tags |-> {}, list |-> Nothing, marks |-> {}, priority |-> Nothing,
              repeat |-> Nothing, due |-> Nothing, time |-> Nothing, title |-> <<>>]

\* A written day may be one no month has.
Exists(w)   == w[2] \in 1 .. DaysIn(w[1])
Before(v, w) == v[1] < w[1] \/ (v[1] = w[1] /\ v[2] < w[2])
NextMonth   == MonthOf(AddMonths(Today, 1))

ParseInit ==
  /\ line \in Sentences /\ now \in Nows
  /\ src = line.toks /\ out = Blank /\ step = "tags"

-----------------------------------------------------------------------------
\* A rule: its name, the kinds its phrase is made of (the longest form first), whether it
\* wants a space before, and what must not follow.
Rule(name, pats) == [name |-> name, pats |-> pats, bound |-> FALSE, never |-> {}]
Bound(r)         == [r EXCEPT !.bound = TRUE]
Unless(r, ks)    == [r EXCEPT !.never = ks]

Fits(r, p, i) ==
  /\ i + Len(p) - 1 <= Len(src)
  /\ \A j \in 1 .. Len(p) : Kind(i + j - 1) = p[j]
  /\ r.bound => i = 1 \/ Kind(i - 1) \in Space
  /\ i + Len(p) <= Len(src) => Kind(i + Len(p)) \notin r.never
Places(r) == {i \in DOMAIN src : \E k \in DOMAIN r.pats : Fits(r, r.pats[k], i)}

\* The leftmost place where a rule finds its phrase, and how many tokens that has.
Place(r)  == Min(Places(r))
Size(r)   == Len(r.pats[Min({k \in DOMAIN r.pats : Fits(r, r.pats[k], Place(r))})])
Values(r) ==
  LET found == SubSeq(src, Place(r), Place(r) + Size(r) - 1)
      said  == SelectSeq(found, LAMBDA t : t[1] \in {"num", "yr", "wd", "shift", "period", "half"})
  IN  [i \in DOMAIN said |-> said[i][2]]
Without(i, n) == SubSeq(src, 1, i - 1) \o <<Gap>> \o SubSeq(src, i + n, Len(src))

\* The first rule of a table that finds something that has a meaning.
Firsts(table, Means(_, _)) ==
  {k \in DOMAIN table : Places(table[k]) # {} /\ Means(table[k].name, Values(table[k])) # Nothing}

-----------------------------------------------------------------------------
\* A tag goes on to the next space or sign.
Tags ==
  LET i    == Min({j \in DOMAIN src : Kind(j) = "hash"})
      stop == Min({j \in i + 1 .. Len(src) : Kind(j) \in Space \cup {"hash", "at", "bang"}} \cup {Len(src) + 1})
  IN  /\ step = "tags"
      /\ IF \E j \in DOMAIN src : Kind(j) = "hash"
         THEN /\ out' = [out EXCEPT !.tags = @ \cup {src[i][2]}]
              /\ src' = Without(i, stop - i)
              /\ UNCHANGED step
         ELSE step' = "list" /\ UNCHANGED <<src, out>>
      /\ UNCHANGED <<line, now>>

\* A list only when there is one of that name: a slash of the text stays.
ListName ==
  LET r == Bound(Rule("list", <<<<"slash">>>>))
  IN  /\ step = "list" /\ step' = "marks"
      /\ IF Places(r) # {} /\ src[Place(r)][2] \in ListNames
         THEN out' = [out EXCEPT !.list = src[Place(r)][2]] /\ src' = Without(Place(r), 1)
         ELSE UNCHANGED <<src, out>>
      /\ UNCHANGED <<line, now>>

Marks ==
  LET ms == {j \in DOMAIN src : Kind(j) = "at"}
  IN  /\ step = "marks"
      /\ IF ms # {} THEN /\ out' = [out EXCEPT !.marks = @ \cup {src[Min(ms)][2]}]
                         /\ src' = Without(Min(ms), 1)
                         /\ UNCHANGED step
         ELSE step' = "priority" /\ UNCHANGED <<src, out>>
      /\ UNCHANGED <<line, now>>

\* The last of several signs counts.
Priority ==
  LET r == Bound(Unless(Rule("priority", <<<<"bang">>>>), {"word", "num"}))
  IN  /\ step = "priority"
      /\ IF Places(r) # {} THEN /\ out' = [out EXCEPT !.priority = src[Place(r)][2]]
                                /\ src' = Without(Place(r), 1)
                                /\ UNCHANGED step
         ELSE step' = "repeat" /\ UNCHANGED <<src, out>>
      /\ UNCHANGED <<line, now>>

-----------------------------------------------------------------------------
\* repeatPatterns: the more a phrase says the earlier it stands.
Repeats ==
  << Rule("ebbinghaus",   <<<<"curve">>>>),
     Rule("lunarmonth",   <<<<"lunar", "every", "each", "month">>, <<"lunar", "every", "month">>>>),
     Rule("lunaryear",    <<<<"lunar", "every", "each", "year">>, <<"lunar", "every", "year">>>>),
     Rule("legalworkday", <<<<"legal", "workday">>>>),
     Rule("legalholiday", <<<<"legal", "holiday">>, <<"every", "each", "holiday">>, <<"every", "holiday">>>>),
     Rule("weekends",     <<<<"every", "each", "weekend">>, <<"every", "weekend">>>>),
     Rule("weekdays",     <<<<"every", "each", "workday">>, <<"every", "workday">>>>),
     Rule("lastworkday",  <<<<"every", "month", "last", "workday">>>>),
     Rule("nth",          <<<<"every", "month", "nth", "num", "wd">>>>),
     Rule("lastday",      <<<<"every", "month", "last", "day">>, <<"every", "month", "end">>>>),
     Rule("monthday",     <<<<"every", "month", "num", "dayof">>>>),
     Rule("weekly",       <<<<"every", "wd", "wd">>, <<"every", "wd">>>>),
     Rule("everydays",    <<<<"every", "num", "day">>>>),
     Unless(Rule("everyweeks", <<<<"every", "num", "week">>>>), {"wd"}),
     Rule("daily",        <<<<"every", "each", "day">>, <<"every", "day">>>>),
     Unless(Rule("week",  <<<<"every", "each", "week">>, <<"every", "week">>>>), {"word"}),
     Rule("month",        <<<<"every", "each", "month">>, <<"every", "month">>>>),
     Rule("year",         <<<<"every", "each", "year">>, <<"every", "year">>>>) >>

\* What a phrase of the table means; one with a number nothing has is not read at all.
RepeatOf(name, ns) ==
  CASE name = "nth"        -> IF ns[1] \in 1 .. 5 THEN <<"nth", ns>> ELSE Nothing
    [] name = "monthday"   -> IF ns[1] \in 1 .. 31 THEN <<"monthly", ns>> ELSE <<"monthly", <<>>>>
    [] name = "everydays"  -> IF ns[1] > 1 THEN <<"everydays", ns>> ELSE <<"daily", <<>>>>
    [] name = "everyweeks" -> IF ns[1] > 1 THEN <<"everyweeks", ns>> ELSE <<"weekly", <<>>>>
    [] name = "weekly"     -> <<"weekly", ns>>
    [] name = "week"       -> <<"weekly", <<>>>>
    [] name = "month"      -> <<"monthly", <<>>>>
    [] OTHER               -> <<name, <<>>>>

\* Mutant: of the rules that find something the last of the table is taken.
Chosen_Last(firsts) == Max(firsts)

\* Of the rules that find something the first of the table is taken.
Chosen(firsts) == Min(firsts)

Repeat ==
  LET ks == Firsts(Repeats, RepeatOf)
      r  == Repeats[Chosen(ks)]
  IN  /\ step = "repeat" /\ step' = "date"
      /\ IF ks = {} THEN UNCHANGED <<src, out>>
         ELSE /\ out' = [out EXCEPT !.repeat = RepeatOf(r.name, Values(r))]
              /\ src' = Without(Place(r), Size(r))
      /\ UNCHANGED <<line, now>>

-----------------------------------------------------------------------------
\* Its other word for today wants no space before it; a year is counted from this one.
Dates ==
  << Bound(Rule("today",     <<<<"today">>>>)),
     Rule("today",     <<<<"thisday">>>>),
     Bound(Rule("tomorrow",  <<<<"tomorrow">>>>)),
     Bound(Rule("indays3",   <<<<"big", "dayafter">>>>)),
     Bound(Rule("indays2",   <<<<"dayafter">>>>)),
     Bound(Rule("yesterday", <<<<"yesterday">>>>)),
     Rule("indays",    <<<<"num", "day", "later">>>>),
     Rule("inweeks",   <<<<"num", "week", "later">>>>),
     Rule("inamonth",  <<<<"amonth", "later">>>>),
     Rule("nextmonth", <<<<"nextmonth", "num", "dayof">>, <<"nextmonth", "num">>, <<"nextmonth">>>>),
     Rule("monthend",  <<<<"monthend">>>>),
     Rule("ofweek",    <<<<"shift", "wd">>>>),
     Rule("weekday",   <<<<"wd">>>>),
     Rule("fulldate",  <<<<"yr", "year", "num", "month", "num", "dayof">>, <<"yr", "year", "num", "month", "num">>,
                         <<"yr", "dash", "num", "dash", "num", "dayof">>, <<"yr", "dash", "num", "dash", "num">>>>),
     Rule("date",      <<<<"num", "month", "num", "dayof">>, <<"num", "month", "num">>>>),
     Bound(Rule("dayofmonth", <<<<"num", "dayof">>>>)) >>

\* Weeks begin with Monday: how far off a weekday of this week is.
OfThisWeek(wd) == ((wd + 6) % 7) - ((Weekday(Today) + 6) % 7)

DateOf(name, ns) ==
  CASE name = "today"     -> Written(Today)
    [] name = "tomorrow"  -> Written(Today + 1)
    [] name = "indays2"   -> Written(Today + 2)
    [] name = "indays3"   -> Written(Today + 3)
    [] name = "yesterday" -> Written(Today - 1)
    [] name = "indays"    -> Written(Today + ns[1])
    [] name = "inweeks"   -> Written(Today + 7 * ns[1])
    [] name = "inamonth"  -> Written(AddMonths(Today, 1))
    [] name = "nextmonth" -> Written(Clamped(NextMonth, IF ns = <<>> THEN 1 ELSE ns[1]))
    [] name = "monthend"  -> Written(Clamped(MonthOf(Today), 31))
    [] name = "ofweek"    -> IF ns[1] = 0 THEN Written(Today + ((OfThisWeek(ns[2]) + 7) % 7))
                             ELSE Written(Today + OfThisWeek(ns[2]) + 7 * ns[1])
    [] name = "weekday"   -> Written(Today + ((OfThisWeek(ns[1]) + 7) % 7))
    [] name = "fulldate"  -> IF ns[2] \in 1 .. 12 /\ ns[3] \in 1 .. 31
                             THEN <<January + 12 * ns[1] + ns[2] - 1, ns[3]>> ELSE Nothing
    [] name = "date"      -> IF ns[1] \in 1 .. 12 /\ ns[2] \in 1 .. 31
                             THEN LET w == <<January + ns[1] - 1, ns[2]>>
                                  IN  IF Before(w, Written(Today)) THEN <<w[1] + 12, w[2]>> ELSE w
                             ELSE Nothing
    [] name = "dayofmonth" ->
         IF ns[1] \notin 1 .. 31 THEN Nothing
         ELSE LET w == <<MonthOf(Today), ns[1]>>
              IN  IF Exists(w) /\ ~Before(w, Written(Today)) THEN w
                  ELSE Written(Clamped(NextMonth, ns[1]))

Date ==
  LET ks == Firsts(Dates, DateOf)
      r  == Dates[Min(ks)]
  IN  /\ step = "date" /\ step' = "time"
      /\ IF ks = {} THEN UNCHANGED <<src, out>>
         ELSE /\ out' = [out EXCEPT !.due = DateOf(r.name, Values(r))]
              /\ src' = Without(Place(r), Size(r))
      /\ UNCHANGED <<line, now>>

-----------------------------------------------------------------------------
\* A time of day; the value of a period is the hour it stands for alone.
Clock ==
  Rule("clock", <<<<"period", "num", "oclock", "half">>, <<"period", "num", "oclock", "num">>,
                  <<"period", "num", "oclock">>, <<"num", "oclock", "half">>,
                  <<"num", "oclock", "num">>, <<"num", "oclock">>>>)
Period == Unless(Rule("period", <<<<"period">>>>), {"meal"})

Hour(p, h) ==
  LET up == IF p >= 12 /\ h \in 1 .. 11 THEN h + 12 ELSE h
  IN  IF up = 24 \/ (p \in {5, 20, 21} /\ up = 12) THEN 0 ELSE up

\* Minutes of the day the found tokens say, Nothing when there is no such time.
ClockOf(ns, spoken) ==
  LET p == IF spoken THEN ns[1] ELSE 0
      t == IF spoken THEN Tail(ns) ELSE ns
      h == Hour(p, t[1])
      m == IF Len(t) = 1 THEN 0 ELSE t[2]
  IN  IF h \in 0 .. 23 /\ m \in 0 .. 59 THEN 60 * h + m ELSE Nothing

TimeFound ==
  LET clock == IF Places(Clock) = {} THEN Nothing
               ELSE ClockOf(Values(Clock), Kind(Place(Clock)) = "period")
  IN  IF clock # Nothing THEN [time |-> clock, at |-> Place(Clock), size |-> Size(Clock)]
      ELSE IF Places(Period) # {}
           THEN [time |-> 60 * Values(Period)[1], at |-> Place(Period), size |-> 1]
           ELSE [time |-> Nothing, at |-> 0, size |-> 0]

Time ==
  /\ step = "time" /\ step' = "anchor"
  /\ IF TimeFound.time = Nothing THEN UNCHANGED <<src, out>>
     ELSE /\ out' = [out EXCEPT !.time = TimeFound.time]
          /\ src' = Without(TimeFound.at, TimeFound.size)
  /\ UNCHANGED <<line, now>>

\* Days a repeat falls on, as far as the calendar alone tells.
FallsOn(repeat, d) ==
  CASE repeat[1] = "weekly"   -> repeat[2] = <<>> \/ Weekday(d) \in Range(repeat[2])
    [] repeat[1] = "weekdays" -> Weekday(d) \in 1 .. 5
    [] repeat[1] = "weekends" -> Weekday(d) \in {0, 6}
    [] repeat[1] = "monthly" /\ repeat[2] # <<>> -> d = Clamped(MonthOf(d), repeat[2][1])
    [] OTHER -> TRUE

\* Mutant: the repeat is not asked for the day.
FirstDay_Any(from) == from

\* The first day of the repeat, today and its like at the earliest.
FirstDay(from) ==
  IF out.repeat = Nothing THEN from
  ELSE CHOOSE d \in from .. from + 62 :
         FallsOn(out.repeat, d) /\ \A e \in from .. d - 1 : ~FallsOn(out.repeat, e)

\* A time without a date: the day it next is that time on.
Anchor ==
  /\ step = "anchor" /\ step' = "done"
  /\ LET from == IF out.time <= now THEN Today + 1 ELSE Today
         due  == IF out.time # Nothing /\ out.due = Nothing THEN Written(FirstDay(from)) ELSE out.due
     IN  out' = [out EXCEPT !.due = due,
                            !.title = SelectSeq(src, LAMBDA t : t[1] \notin Space)]
  /\ UNCHANGED <<line, now, src>>

ParseNext == Tags \/ ListName \/ Marks \/ Priority \/ Repeat \/ Date \/ Time \/ Anchor

-----------------------------------------------------------------------------
ParseTypeOK ==
  /\ step \in {"tags", "list", "marks", "priority", "repeat", "date", "time", "anchor", "done"}
  /\ out.time \in 0 .. 1439 \cup {Nothing}
  /\ out.due # Nothing => out.due[1] \in 0 .. Len(MonthDays) - 1 /\ out.due[2] \in 1 .. 31

\* In whatever order the phrases of a line stand, each is read as the user means it, none is
\* read as part of another or left in the title, and no word of the title is lost.
MeansWhatItSays ==
  step = "done" =>
    /\ out.repeat = line.means.repeat /\ out.time = line.means.time
    /\ out.tags = line.means.tags /\ out.list = line.means.list
    /\ out.marks = line.means.marks /\ out.priority = line.means.priority
    /\ (line.means.due # Nothing \/ line.means.time = Nothing) => out.due = line.means.due
    /\ out.title = SelectSeq(line.toks, LAMBDA t : t[1] = "word")

\* A time written without a date is one that is still to come, on a day of its repeat; and
\* the day of a task is one there is.
DueToCome ==
  step = "done" /\ out.due # Nothing =>
    /\ Exists(out.due)
    /\ line.means.due = Nothing =>
         LET d == FirstOf(out.due[1]) + out.due[2] - 1
         IN  /\ d > Today \/ (d = Today /\ out.time > now)
             /\ out.repeat # Nothing => FallsOn(out.repeat, d)
=============================================================================
