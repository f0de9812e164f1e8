------------------------------ MODULE MCOutbox ------------------------------
(* Model values and instances for Outbox: the open pages and the contents.  *)
EXTENDS Outbox, TLC
CONSTANTS t1, t2
OneTab    == {t1}
TwoTabs   == {t1, t2}
Letters   == {"a", "b"}
OneLetter == {"a"}
TabSymmetry == Permutations(TwoTabs)
=============================================================================
