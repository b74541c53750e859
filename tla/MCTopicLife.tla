------------------------------ MODULE MCTopicLife ---------------------------
(***************************************************************************)
(* A topic's life: its configuration is loaded, its categories are sorted  *)
(* and compiled, and it makes rows.  The three models, each with its own   *)
(* inputs, are checked in one run.  A behaviour is one of one of them; the *)
(* variables of the other two stay as they are before their first step.    *)
(***************************************************************************)
EXTENDS MCTopicLoad, MCCategorize, MCTopicRows

VARIABLE partRun   \* "load", "categorize" or "rows"

topicsVars == <<partRun, loadVars, vars, topicVars>>

OneOf(S) == CHOOSE x \in S : TRUE

LoadRests       == conf = Bare /\ LoadInit
CategorizeRests == file = OneOf(Files) /\ LoadFile /\ tree = <<>> /\ asked = {}
RowsRest        == topic = AllNodes /\ queue = OneOf(Inputs) /\ RowsInit

TopicsInit ==
    \/ partRun = "load" /\ CategorizeRests /\ RowsRest /\ LoadInit
    \/ partRun = "categorize" /\ LoadRests /\ RowsRest /\ Init
    \/ partRun = "rows" /\ LoadRests /\ CategorizeRests /\ RowsInit

Loading      == partRun = "load" /\ UNCHANGED <<partRun, vars, topicVars>>
Categorizing == partRun = "categorize" /\ UNCHANGED <<partRun, loadVars, topicVars>>
MakingRows   == partRun = "rows" /\ UNCHANGED <<partRun, loadVars, vars>>

\* A file that is refused has no tree to ask, and a tree is asked once.
TopicsNext ==
    \/ Loading /\ LoadSanitizers
    \/ Loading /\ ResolveMacros
    \/ Loading /\ LoadMacros
    \/ Loading /\ LoadTopicJson
    \/ Loading /\ LoadLibrary
    \/ Loading /\ LoadCategories
    \/ Loading /\ LoadTransforms
    \/ Loading /\ LoadTopicProducers
    \/ Loading /\ Cascade
    \/ Loading /\ CheckIds
    \/ Loading /\ Terminated
    \/ Categorizing /\ Sort
    \/ Categorizing /\ Compile
    \/ Categorizing /\ BuildNode /\ UNCHANGED orderVars
    \/ Categorizing /\ Ask /\ UNCHANGED orderVars
    \/ Categorizing /\ (outcome = "refused" \/ asked # {}) /\ UNCHANGED vars
    \/ MakingRows /\ \E k \in probes : Probe(k)
    \/ MakingRows /\ FinishProbe
    \/ MakingRows /\ Read
    \/ MakingRows /\ Apply
    \/ MakingRows /\ StartClone
    \/ MakingRows /\ KeepClone
    \/ MakingRows /\ EndPipeline
    \/ MakingRows /\ Emit
    \/ MakingRows /\ FinishElement
    \/ MakingRows /\ EndOfInput

TopicsSpec == TopicsInit /\ [][TopicsNext]_topicsVars
=============================================================================
