------------------------------ MODULE WriteLog ------------------------------
(***************************************************************************)
(* What the outbox promises about the writes it has accepted, whatever the *)
(* pages, rounds, crashes and connections behind it do: each is kept until  *)
(* it is settled, it is settled once, and no attempt is made for it while   *)
(* an earlier one still waits.  Outbox implements this specification.       *)
(***************************************************************************)
EXTENDS Naturals, Sequences

VARIABLES
  status,   \* what became of each write, in the order they were accepted
  kept,     \* the numbers of the writes in the store
  reached   \* the number of the write the server applied last, or 0

logVars == <<status, kept, reached>>

Settled == {"delivered", "rejected", "exhausted"}
Waiting == {s \in DOMAIN status : status[s] = "queued"}

Init == status = <<>> /\ kept = {} /\ reached = 0

Accept ==
  /\ status' = Append(status, "queued")
  /\ kept' = kept \cup {Len(status) + 1}
  /\ UNCHANGED reached

\* An attempt may reach the server and may settle the write; it may be repeated
\* after that, for instance by another page, and then settles nothing.
Attempt(s) ==
  /\ \A t \in Waiting : s <= t
  /\ reached' \in {reached, s}
  /\ \/ UNCHANGED status
     \/ s \in Waiting /\ \E f \in Settled : status' = [status EXCEPT ![s] = f]
  /\ UNCHANGED kept

\* Settled writes are removed, and may come back for a while; no other is.
Tidy ==
  /\ Waiting \subseteq kept' /\ kept' \subseteq DOMAIN status
  /\ UNCHANGED <<status, reached>>

Next == Accept \/ Tidy \/ \E s \in DOMAIN status : Attempt(s)

Spec == Init /\ [][Next]_logVars
=============================================================================
