---------------------------- MODULE MCSessionLoops ----------------------------
(* Instances of SessionLoops for TLC.                                      *)
EXTENDS SessionLoops

(* A detached intent from the start; one that comes later asks, under the  *)
(* same authorisation, for an area that includes the first one, and may    *)
(* ask for a part of it on its own.                                        *)
MCInitial   == << "i" >>
MCInterests == [i \in Intents |-> IF i = "i" THEN {<< "A", {1} >>} ELSE {<< "A", {1, 2} >>}]
MCExtra     == [i \in Intents |-> IF i = "i" THEN {} ELSE {<< "A", {1} >>, << "A", {2} >>}]
MCTheirs    == {{1, 2}}

(* Initial intents, each under an authorisation of its own: all of them    *)
(* feed the PAI finder while it reports what it has found.                 *)
MCManyInitial   == CHOOSE s \in SetToSeqs(Intents) : TRUE
MCManyInterests == [i \in Intents |-> {<< i, {i} >>}]
MCNoExtra       == [i \in Intents |-> {}]
MCNoneOfTheirs  == {}

=============================================================================
