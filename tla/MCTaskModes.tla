----------------------------- MODULE MCTaskModes -----------------------------
(* TaskCompletion in two ways, chosen at the start: requests at the same time   *)
(* and restarts, or one request after the other and none.                       *)
EXTENDS TaskCompletion, TLC, TLAPS

CONSTANTS r1, r2      \* the places for requests in flight

VARIABLE alone

TwoReqs     == {r1, r2}
TwoSymmetry == Permutations(TwoReqs)

\* The kinds of requests that arrive one after the other.
Calm == {"toggle", "complete", "reopen", "edit", "delete", "purge", "create"}

Race  == INSTANCE TaskCompletion WITH MaxReqs <- 3, Serial <- FALSE
Alone == INSTANCE TaskCompletionProofs WITH MaxCrashes <- 0, Serial <- TRUE, Kinds <- Calm

ModesInit == alone \in BOOLEAN /\ IF alone THEN Alone!Init ELSE Race!Init
ModesNext == UNCHANGED alone /\ IF alone THEN Alone!Next ELSE Race!Next
ModesSpec == ModesInit /\ [][ModesNext]_<<alone, vars>>

\* One way only, with the constants of the configuration.
PlainSpec == alone = FALSE /\ Init /\ [][UNCHANGED alone /\ Next]_<<alone, vars>>

\* With one request at a time the chain of a repeating task goes on, and what is announced
\* and written to the history is what happened.
ChainToldAlone == alone => Alone!ChainGoesOn /\ Alone!CompletionsTold /\ Alone!ToldAsItWas

\* With one request at a time: NoSilentOverwrite.
NoOverwriteAlone == [][alone => EditsWhatItSaw]_<<alone, vars>>

-----------------------------------------------------------------------------
(* The behaviours of ModesSpec in which requests come one after the other are those    *)
(* of Alone, whose invariants are those of TaskCompletionProofs.                       *)

OneAtATime == alone => Alone!IInv /\ Alone!SInv /\ Alone!NoneBegun /\ Alone!Shown

LEMMA CalmKinds == Calm \subseteq Alone!AllKinds /\ "patch" \notin Calm /\ Calm \intersect {"move", "skip"} = {}
  BY DEF Calm, Alone!AllKinds

LEMMA OneAtATimeInit == ModesInit => OneAtATime
  <1> SUFFICES ASSUME Alone!Init PROVE Alone!IInv /\ Alone!SInv /\ Alone!NoneBegun /\ Alone!Shown
    BY DEF ModesInit, OneAtATime
  <1> QED BY CalmKinds, ConstantsAssumption, Alone!TicketsInit, Alone!SerialInit, Alone!BegunInit, Alone!ShownInit

LEMMA OneAtATimeStep == OneAtATime /\ [ModesNext]_<<alone, vars>> => OneAtATime'
  <1> SUFFICES ASSUME alone, Alone!IInv, Alone!SInv, Alone!NoneBegun, Alone!Shown, [Alone!Next]_Alone!vars
               PROVE  Alone!IInv' /\ Alone!SInv' /\ Alone!NoneBegun' /\ Alone!Shown'
    BY DEF ModesNext, OneAtATime, vars, Alone!vars
  <1>1. Alone!IInv'
    BY CalmKinds, ConstantsAssumption, Alone!TicketsStep
  <1>2. Alone!SInv'
    BY CalmKinds, ConstantsAssumption, Alone!SerialStep
  <1>3. Alone!NoneBegun'
    BY CalmKinds, ConstantsAssumption, Alone!BegunStep
  <1>4. Alone!Shown'
    BY CalmKinds, ConstantsAssumption, Alone!ShownStep
  <1> QED BY <1>1, <1>2, <1>3, <1>4

\* With one request at a time the chain of a repeating task goes on, every completion has its
\* event and its entry in the history, and each says what happened (ToggleTask, UpdateTask).
THEOREM AloneChainTold == ModesSpec => []ChainToldAlone
  <1>1. OneAtATime => ChainToldAlone
    BY CalmKinds, ConstantsAssumption, Alone!NothingCarried DEF OneAtATime, ChainToldAlone, Alone!NoneBegun
  <1> QED BY <1>1, OneAtATimeInit, OneAtATimeStep, PTL DEF ModesSpec

\* With one request at a time an edit with If-Match replaces only what its page has seen
\* (updateTask, handlers_tasks.go).
THEOREM AloneEditsWhatItSaw == ModesSpec => NoOverwriteAlone
  <1>1. OneAtATime => (alone => Alone!EditsWhatItSaw)
    BY CalmKinds, ConstantsAssumption, Alone!ShownReplaces DEF OneAtATime
  <1>2. OneAtATime /\ [ModesNext]_<<alone, vars>> => [alone => EditsWhatItSaw]_<<alone, vars>>
    BY <1>1 DEF Alone!EditsWhatItSaw, EditsWhatItSaw, Alone!Id, Id
  <1> QED BY <1>2, OneAtATimeInit, OneAtATimeStep, PTL DEF ModesSpec, NoOverwriteAlone
=============================================================================
