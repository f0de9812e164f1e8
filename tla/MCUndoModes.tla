----------------------------- MODULE MCUndoModes -----------------------------
(* UndoSlot in two ways, chosen at the start: requests at the same time, a slot  *)
(* that expires at once and restarts, or one request after the other and none.   *)
EXTENDS UndoSlot, TLC, TLAPS

CONSTANTS r1, r2      \* the places for requests in flight

VARIABLE alone

TwoReqs     == {r1, r2}
TwoSymmetry == Permutations(TwoReqs)

Race  == INSTANCE UndoSlot WITH TTL <- 0, MaxTime <- 1, MaxReqs <- 4, Serial <- FALSE
Alone == INSTANCE UndoSlotProofs WITH MaxCrashes <- 0, Serial <- TRUE

ModesInit == alone \in BOOLEAN /\ IF alone THEN Alone!Init ELSE Race!Init
ModesNext == UNCHANGED alone /\ IF alone THEN Alone!Next ELSE Race!Next
ModesSpec == ModesInit /\ [][ModesNext]_<<alone, vars>>

\* One way only, with the constants of the configuration.
PlainSpec == alone = FALSE /\ Init /\ [][UNCHANGED alone /\ Next]_<<alone, vars>>

\* With one request at a time: NoDeadLinks, NoLeak and RestoredOnce.
UndoSoundAlone == alone => Alone!NoDeadLinks /\ Alone!NoLeak /\ Alone!RestoredOnce

\* With one request at a time: UndoIsComplete.
UndoCompleteAlone == [][alone => RestoresAll]_<<alone, vars>>

-----------------------------------------------------------------------------
(* The behaviours of ModesSpec in which requests come one after the other are those    *)
(* of Alone, whose invariants are those of UndoSlotProofs.                             *)

OneAtATime == alone => Alone!IInv /\ Alone!Sound

LEMMA AloneKinds == Kinds \subseteq Alone!AllKinds
  BY ConstantsAssumption DEF AllKinds, Alone!AllKinds

LEMMA OneAtATimeInit == ModesInit => OneAtATime
  <1> SUFFICES ASSUME Alone!Init PROVE Alone!IInv /\ Alone!Sound
    BY DEF ModesInit, OneAtATime
  <1> QED BY AloneKinds, ConstantsAssumption, Alone!InitIInv, Alone!SoundInit

LEMMA OneAtATimeStep == OneAtATime /\ [ModesNext]_<<alone, vars>> => OneAtATime'
  <1> SUFFICES ASSUME alone, Alone!IInv, Alone!Sound, [Alone!Next]_Alone!vars
               PROVE  Alone!IInv' /\ Alone!Sound'
    BY DEF ModesNext, OneAtATime, vars, Alone!vars
  <1>1. Alone!IInv'
    BY AloneKinds, ConstantsAssumption, Alone!StepIInv
  <1>2. Alone!Sound'
    BY AloneKinds, ConstantsAssumption, Alone!SoundStep
  <1> QED BY <1>1, <1>2

\* With one request at a time the attachments have their files and the directory holds no
\* others, and a deleted task has one copy (undo.go, extras.go).
THEOREM AloneUndoSound == ModesSpec => []UndoSoundAlone
  <1>1. OneAtATime => UndoSoundAlone
    BY AloneKinds, ConstantsAssumption, Alone!SoundMeans DEF OneAtATime, UndoSoundAlone
  <1> QED BY <1>1, OneAtATimeInit, OneAtATimeStep, PTL DEF ModesSpec

\* With one request at a time Undo brings back every task of the slot with every file it had.
THEOREM AloneUndoComplete == ModesSpec => UndoCompleteAlone
  <1>1. OneAtATime /\ [ModesNext]_<<alone, vars>> => [alone => RestoresAll]_<<alone, vars>>
    <2> SUFFICES ASSUME alone, Alone!IInv, Alone!Sound, [Alone!Next]_Alone!vars
                 PROVE  RestoresAll
      BY DEF ModesNext, OneAtATime, vars, Alone!vars
    <2>1. Alone!RestoresAll
      BY AloneKinds, ConstantsAssumption, Alone!RestoreComplete
    <2> QED BY <2>1 DEF Alone!RestoresAll, RestoresAll
  <1> QED BY <1>1, OneAtATimeInit, OneAtATimeStep, PTL DEF ModesSpec, UndoCompleteAlone
=============================================================================
