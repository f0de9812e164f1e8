----------------------------- MODULE DailyReview -----------------------------
(***************************************************************************)
(* The review of a day (DailyReview in web/src/components/Overlays.tsx) and *)
(* the row the server keeps for each date (internal/store/stats.go).  The   *)
(* form stays while the date above it changes: what is read for the new     *)
(* date replaces it, what is saved goes to the date that is shown.  Its     *)
(* four fields are one text here.                                           *)
(***************************************************************************)
EXTENDS Naturals, Sequences

CONSTANTS
  Dates, Today,
  Hurry,       \* of {"unread", "busy", "read_fails"}
  MaxTexts,    \* bound: texts written
  MaxReads     \* bound: openings and changes of the date

VARIABLES
  isOpen, date,
  form,        \* the text in the form, Blank when there is none
  reads,       \* getReview under way, by number: its date, whether it is alive, its answer
  saving,      \* the submission under way
  reviews,     \* the server: the text of each date
  meant,       \* for each text: the date it was written for
  nReads

reviewVars == <<isOpen, date, form, reads, saving, reviews, meant, nReads>>

Blank     == 0
NoReview  == [stage |-> "none", date |-> Today, text |-> Blank]
Texts     == 0 .. MaxTexts
Unread    == MaxTexts + 1     \* the server has not answered yet

Init ==
  /\ isOpen = FALSE /\ date = Today /\ form = Blank
  /\ reads = {} /\ saving = NoReview
  /\ reviews = [d \in Dates |-> Blank]
  /\ meant = <<>> /\ nReads = 0

\* Mutant: the read of the date that is left stays alive.
Overtaken_Lives(rs) == rs

\* The clean-up of the effect when the date changes or the dialog closes.
Overtaken(rs) == {[r EXCEPT !.alive = FALSE] : r \in rs}

GetReview(d) ==
  /\ nReads < MaxReads /\ nReads' = nReads + 1
  /\ reads' = Overtaken(reads) \cup {[no |-> nReads, date |-> d, alive |-> TRUE, text |-> Unread]}

\* A user who does not hurry waits for the text of the date and for the answer to
\* his submission.
Reading  == \E r \in reads : r.alive
Patient  == (Reading => "unread" \in Hurry) /\ (saving.stage # "none" => "busy" \in Hurry)

\* The component stays mounted while it is closed, with its form.
OpenReview ==
  /\ ~isOpen /\ isOpen' = TRUE
  /\ date' = Today
  /\ GetReview(Today)
  /\ UNCHANGED <<form, saving, reviews, meant>>

Shut ==
  /\ isOpen' = FALSE
  /\ reads' = Overtaken(reads)

CloseReview ==
  /\ isOpen /\ Shut
  /\ UNCHANGED <<date, form, saving, reviews, meant, nReads>>

\* The date field and "back to today".
SetDate(d) ==
  /\ isOpen /\ d # date /\ date' = d
  /\ saving.stage # "none" => "busy" \in Hurry
  /\ GetReview(d)
  /\ UNCHANGED <<isOpen, form, saving, reviews, meant>>

Write ==
  /\ isOpen /\ Patient
  /\ Len(meant) < MaxTexts
  /\ meant' = Append(meant, date)
  /\ form' = Len(meant')
  /\ UNCHANGED <<isOpen, date, reads, saving, reviews, nReads>>

\* The server reads one row; none is an empty review.
ServerReads(r) ==
  /\ r.text = Unread
  /\ reads' = (reads \ {r}) \cup {[r EXCEPT !.text = reviews[r.date]]}
  /\ UNCHANGED <<isOpen, date, form, saving, reviews, meant, nReads>>

ReadLands(r) ==
  /\ r.text # Unread
  /\ reads' = reads \ {r}
  /\ form' = IF r.alive THEN r.text ELSE form
  /\ UNCHANGED <<isOpen, date, saving, reviews, meant, nReads>>

\* A failed read is ignored and leaves the form as it is.
ReadFails(r) ==
  /\ r.alive => "read_fails" \in Hurry
  /\ reads' = reads \ {r}
  /\ UNCHANGED <<isOpen, date, form, saving, reviews, meant, nReads>>

Submit ==
  /\ isOpen /\ saving.stage = "none" /\ Patient
  /\ saving' = [stage |-> "review", date |-> date, text |-> form]
  /\ UNCHANGED <<isOpen, date, form, reads, reviews, meant, nReads>>

UpsertReview ==
  /\ saving.stage = "review"
  /\ reviews' = [reviews EXCEPT ![saving.date] = saving.text]
  /\ saving' = [saving EXCEPT !.stage = "settings"]
  /\ UNCHANGED <<isOpen, date, form, reads, meant, nReads>>

\* The user is told, and the dialog stays open with what he has written.
SaveFails ==
  /\ saving.stage = "review" /\ saving' = NoReview
  /\ UNCHANGED <<isOpen, date, form, reads, reviews, meant, nReads>>

\* saveSettings reports its own failure, so the dialog closes after it either way.
Saved ==
  /\ saving.stage = "settings" /\ saving' = NoReview
  /\ Shut
  /\ UNCHANGED <<date, form, reviews, meant, nReads>>

ReviewNext ==
  \/ OpenReview \/ CloseReview \/ Write \/ Submit \/ UpsertReview \/ SaveFails \/ Saved
  \/ \E d \in Dates : SetDate(d)
  \/ \E r \in reads : ServerReads(r) \/ ReadLands(r) \/ ReadFails(r)

ReviewSpec == Init /\ [][ReviewNext]_reviewVars

-----------------------------------------------------------------------------
ReviewTypeOK ==
  /\ isOpen \in BOOLEAN /\ date \in Dates /\ form \in Texts
  /\ reads \subseteq [no : Nat, date : Dates, alive : BOOLEAN, text : Texts \cup {Unread}]
  /\ saving \in [stage : {"none", "review", "settings"}, date : Dates, text : Texts]
  /\ reviews \in [Dates -> Texts]
  /\ meant \in Seq(Dates)

\* A day never gets what was written for another day, and the form shows none that
\* could be saved there, in whatever order the days are looked at and their texts
\* arrive; the dialog does not close by itself over a text that is not saved.
ReviewsTrue ==
  /\ \A d \in Dates : reviews[d] # Blank => meant[reviews[d]] = d
  /\ isOpen /\ ~Reading /\ form # Blank => meant[form] = date
  /\ saving.stage = "settings" /\ isOpen /\ form > saving.text => reviews[date] = form
=============================================================================
