----------------------------- MODULE QueryChips -----------------------------
(***************************************************************************)
(* The search box and how a query is read, on the page to show its          *)
(* conditions (web/src/lib/query.ts, SearchBar of TaskViews.tsx) and on the *)
(* server to search (ParseQuery of internal/store/query.go).  A query is a  *)
(* sequence of pieces: quote, blank, the signs hash, at and minus, letters, *)
(* and a few values that are words of their own.                            *)
(***************************************************************************)
EXTENDS Integers, Sequences, FiniteSets, SequencesExt

CONSTANTS
  Pieces,       \* what the user types
  Rare,         \* of {"inner_quote", "twice", "odd_value"}
  MaxLen        \* bound: pieces of a query

VARIABLES
  query,        \* the text of the box
  removed       \* history: words the last removal should have left, or what is typed

chipVars == <<query, removed>>

Priorities == {"p_high", "p_low"}
Dues       == {"due_today"}
\* Values only one of the two takes: a name every object has, a day no month has, three parts.
OddValues  == {"p_inherited", "due_no_such_day", "due_three_parts"}

\* Mutant: every quote marks its word.
QuoteMarks_Any(has) == TRUE

\* A quote marks its word only at the beginning of it.
QuoteMarks(has) == ~has

\* splitQueryTokens: blanks part words, not inside quotes; a word that has no piece left
\* is none.
Words(q) ==
  LET start == [out |-> <<>>, cur |-> <<>>, has |-> FALSE, quoted |-> FALSE, was |-> FALSE]
      Trim(w)  == LET from == SelectInSeq(w, LAMBDA x : x # "blank")
                      to   == SelectLastInSeq(w, LAMBDA x : x # "blank")
                  IN  IF from = 0 THEN <<>> ELSE SubSeq(w, from, to)
      Flush(s) == [start EXCEPT !.out = IF s.has /\ Trim(s.cur) # <<>>
                                        THEN Append(s.out, [text |-> Trim(s.cur), quoted |-> s.was])
                                        ELSE s.out]
      Read(s, x) ==
        IF x = "quote" THEN [s EXCEPT !.quoted = ~@, !.has = TRUE,
                                      !.was = @ \/ QuoteMarks(s.has)]
        ELSE IF x = "blank" /\ ~s.quoted THEN Flush(s)
        ELSE [s EXCEPT !.cur = Append(@, x), !.has = TRUE]
      f[i \in 0 .. Len(q)] == IF i = 0 THEN start ELSE Read(f[i - 1], q[i])
  IN  Flush(f[Len(q)]).out

\* isQueryOperator of the page.
Sign(w)     == IF w[1] = "minus" /\ Len(w) > 1 THEN w[2] ELSE w[1]
SignLen(w)  == IF w[1] = "minus" THEN 2 ELSE 1
Signed(w)   == Sign(w) \in {"hash", "at"} /\ Len(w) > SignLen(w)
IsOperator(w) ==
  ~w.quoted /\ (Signed(w.text) \/ (Len(w.text) = 1 /\ w.text[1] \in Priorities \cup Dues \cup OddValues))

\* ParseQuery of the server: only the first priority is one.
FirstPriority(ws, i) ==
  \A j \in 1 .. i - 1 : ~(~ws[j].quoted /\ Len(ws[j].text) = 1 /\ ws[j].text[1] \in Priorities)
Filters(ws, i) ==
  /\ ~ws[i].quoted
  /\ \/ Signed(ws[i].text)
     \/ Len(ws[i].text) = 1 /\ ws[i].text[1] \in Dues
     \/ Len(ws[i].text) = 1 /\ ws[i].text[1] \in Priorities /\ FirstPriority(ws, i)

\* Mutant: the words are joined as they are.
Unsplit_Bare(w) == w.text

\* A word as it is written back.
Unsplit(w) == IF w.quoted THEN <<"quote">> \o w.text \o <<"quote">> ELSE w.text

Joined(ws) ==
  LET f[i \in 0 .. Len(ws)] ==
        IF i = 0 THEN <<>>
        ELSE IF i = 1 THEN Unsplit(ws[1]) ELSE f[i - 1] \o <<"blank">> \o Unsplit(ws[i])
  IN  f[Len(ws)]

-----------------------------------------------------------------------------
ChipInit == query = <<>> /\ removed = <<>>

\* Queries the two are known to read differently are not typed without "twice" and "odd_value".
Usual(q) ==
  LET ws == Words(q) IN
  /\ "twice" \notin Rare => Cardinality({i \in DOMAIN q : q[i] \in Priorities}) < 2
  /\ "odd_value" \notin Rare => ToSet(q) \cap OddValues = {}
  /\ "inner_quote" \notin Rare => \A i \in DOMAIN ws : ~ws[i].quoted => "blank" \notin ToSet(ws[i].text)

TypePiece(x) ==
  /\ Len(query) < MaxLen
  /\ query' = Append(query, x)
  /\ Usual(query')
  /\ removed' = Words(query')

\* The cross of a condition takes its word out, by its place among the words.
RemoveToken(i) ==
  /\ IsOperator(Words(query)[i])
  /\ removed' = RemoveAt(Words(query), i)
  /\ query' = Joined(removed')

\* Escape, or the cross of the box.
ClearQuery == query # <<>> /\ query' = <<>> /\ removed' = <<>>

ChipNext ==
  \/ \E x \in Pieces : TypePiece(x)
  \/ \E i \in DOMAIN Words(query) : RemoveToken(i)
  \/ ClearQuery

-----------------------------------------------------------------------------
ChipTypeOK == query \in Seq(Pieces) /\ Len(query) <= MaxLen + 2

\* What the page shows as a condition is one for the server, and nothing else is.
ChipsAgree ==
  LET ws == Words(query) IN \A i \in DOMAIN ws : IsOperator(ws[i]) <=> Filters(ws, i)

\* Taking a condition out leaves the other words what they are.
RemovalKeeps == Words(query) = removed
=============================================================================
