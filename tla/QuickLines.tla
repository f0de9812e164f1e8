----------------------------- MODULE QuickLines ------------------------------
(* Lines for QuickParse, each with what the user means by it: a phrase between  *)
(* two words, or two phrases about different things and a word.                 *)
EXTENDS CalendarDays

CONSTANTS Today, Nothing

\* Tokens: a word of the grammar, a number, a weekday, a word of the title; a year, from this one.
Tok(k, v) == <<k, v>>
K(k)      == Tok(k, 0)
N(v)      == Tok("num", v)
W(v)      == Tok("wd", v)
Word(i)   == Tok("word", i)

Says(ts, field, m) == [toks |-> ts, field |-> field, means |-> m]

\* Today is a Tuesday, the 30th of January.
RepeatPhrases == {
  Says(<<K("every"), K("month"), N(15), K("dayof")>>, "repeat", <<"monthly", <<15>>>>),
  Says(<<K("every"), K("month"), N(31), K("dayof")>>, "repeat", <<"monthly", <<31>>>>),
  Says(<<K("every"), K("month"), K("last"), K("workday")>>, "repeat", <<"lastworkday", <<>>>>),
  Says(<<K("every"), K("month"), K("last"), K("day")>>, "repeat", <<"lastday", <<>>>>),
  Says(<<K("every"), K("month"), K("nth"), N(3), W(0)>>, "repeat", <<"nth", <<3, 0>>>>),
  Says(<<K("lunar"), K("every"), K("month")>>, "repeat", <<"lunarmonth", <<>>>>),
  Says(<<K("every"), K("each"), K("month")>>, "repeat", <<"monthly", <<>>>>),
  Says(<<K("legal"), K("workday")>>, "repeat", <<"legalworkday", <<>>>>),
  Says(<<K("every"), K("each"), K("workday")>>, "repeat", <<"weekdays", <<>>>>),
  Says(<<K("every"), K("weekend")>>, "repeat", <<"weekends", <<>>>>),
  Says(<<K("every"), W(1), W(5)>>, "repeat", <<"weekly", <<1, 5>>>>),
  Says(<<K("every"), K("week")>>, "repeat", <<"weekly", <<>>>>),
  Says(<<K("every"), N(2), K("day")>>, "repeat", <<"everydays", <<2>>>>),
  Says(<<K("every"), N(2), K("week")>>, "repeat", <<"everyweeks", <<2>>>>),
  Says(<<K("every"), K("day")>>, "repeat", <<"daily", <<>>>>) }

DatePhrases == {
  Says(<<K("thisday")>>, "due", Written(Today)),
  Says(<<Tok("yr", 1), K("year"), N(2), K("month"), N(9), K("dayof")>>, "due", <<14, 9>>),
  Says(<<Tok("yr", 0), K("year"), N(1), K("month"), N(9), K("dayof")>>, "due", <<1, 9>>),
  Says(<<Tok("yr", 0), K("dash"), N(9), K("dash"), N(30)>>, "due", <<9, 30>>),
  Says(<<K("tomorrow")>>, "due", Written(Today + 1)),
  Says(<<K("big"), K("dayafter")>>, "due", Written(Today + 3)),
  Says(<<N(3), K("day"), K("later")>>, "due", Written(Today + 3)),
  Says(<<N(2), K("week"), K("later")>>, "due", Written(Today + 14)),
  Says(<<K("amonth"), K("later")>>, "due", <<2, 29>>),
  Says(<<K("nextmonth"), N(30), K("dayof")>>, "due", <<2, 29>>),
  Says(<<K("monthend")>>, "due", <<1, 31>>),
  Says(<<Tok("shift", 1), W(3)>>, "due", Written(Today + 8)),
  Says(<<W(5)>>, "due", Written(Today + 3)),
  Says(<<N(1), K("month"), N(9), K("dayof")>>, "due", <<13, 9>>),
  Says(<<N(9), K("month"), N(30), K("dayof")>>, "due", <<9, 30>>),
  Says(<<N(15), K("dayof")>>, "due", <<2, 15>>),
  Says(<<N(31), K("dayof")>>, "due", <<1, 31>>) }

P(v) == Tok("period", v)

TimePhrases == {
  Says(<<P(14), N(3), K("oclock"), Tok("half", 30)>>, "time", 930),
  Says(<<P(5), N(12), K("oclock")>>, "time", 0),
  Says(<<N(9), K("oclock"), N(30)>>, "time", 570),
  Says(<<P(14)>>, "time", 840),
  Says(<<P(12), N(1), K("oclock")>>, "time", 780) }

SignPhrases == {
  Says(<<Tok("hash", 1)>>, "tags", {1}), Says(<<Tok("slash", 1)>>, "list", 1),
  Says(<<Tok("bang", 3)>>, "priority", 3), Says(<<Tok("at", 1)>>, "marks", {1}) }

Phrases == RepeatPhrases \cup DatePhrases \cup TimePhrases \cup SignPhrases

None       == [tags |-> {}, list |-> Nothing, marks |-> {}, priority |-> Nothing, repeat |-> Nothing,
               due |-> Nothing, time |-> Nothing]
With(m, p) == [m EXCEPT ![p.field] = p.means]
Sp         == <<K("sp")>>

Lines ==
  {[toks  |-> <<Word(1)>> \o Sp \o p.toks \o Sp \o <<Word(2)>>,
    means |-> With(None, p)] : p \in Phrases} \cup
  {[toks  |-> pq[1].toks \o Sp \o <<Word(1)>> \o Sp \o pq[2].toks,
    means |-> With(With(None, pq[1]), pq[2])] :
     pq \in {x \in Phrases \X Phrases : x[1].field # x[2].field}}
=============================================================================
