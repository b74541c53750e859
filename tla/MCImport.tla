------------------------------ MODULE MCImport ------------------------------
(***************************************************************************)
(* The select phase, the stores it leaves behind and the materialize       *)
(* phase, each with its own inputs, checked in one run.  A behaviour is one *)
(* of one of the three; the variables of the other two stay as they are    *)
(* before their first step.                                                *)
(***************************************************************************)
EXTENDS MCSelect, MCStores, MCMaterialize

VARIABLE phaseRun   \* "select", "stores" or "materialize"

importVars == <<phaseRun, vars, storesVars, materializeVars>>

OneOf(S) == CHOOSE x \in S : TRUE

SelectRests      == file = OneOf(Files) /\ mode = OneOf(Modes) /\ Init
StoresRest       == load = OneOf(Loads) /\ ways = OneOf(WayLists) /\ rels = OneOf(Relations) /\ StoresInit
MaterializeRests == ctx = OneOf(Contexts) /\ MaterializeInit

ImportInit ==
    \/ phaseRun = "select" /\ StoresRest /\ MaterializeRests /\ HonestInit
    \/ phaseRun = "stores" /\ SelectRests /\ MaterializeRests /\ StoresInit
    \/ phaseRun = "materialize" /\ SelectRests /\ StoresRest /\ MaterializeInit

Selecting     == phaseRun = "select" /\ UNCHANGED <<phaseRun, storesVars, materializeVars>>
UsingStores   == phaseRun = "stores" /\ UNCHANGED <<phaseRun, vars, materializeVars>>
Materializing == phaseRun = "materialize" /\ UNCHANGED <<phaseRun, vars, storesVars>>

\* A build that panicked goes no further.
ImportNext ==
    \/ Selecting /\ \E b \in DOMAIN file : Classify(b)
    \/ Selecting /\ FoldRelations
    \/ Selecting /\ FoldWays
    \/ Selecting /\ FoldNodes
    \/ Selecting /\ NextPass
    \/ Selecting /\ ScanRelations
    \/ Selecting /\ EndOfWays
    \/ Selecting /\ EndOfNodes
    \/ Selecting /\ \E w \in Kind("way") : ScanWay(w)
    \/ Selecting /\ \E n \in Kind("node") : ScanNode(n)
    \/ Selecting /\ Done
    \/ UsingStores /\ BuildCoords
    \/ UsingStores /\ LayOut
    \/ UsingStores /\ Open
    \/ UsingStores /\ ReadRef
    \/ UsingStores /\ CloseWay
    \/ UsingStores /\ phase = "panicked" /\ UNCHANGED storesVars
    \/ Materializing /\ AssignIds
    \/ Materializing /\ \E w \in DOMAIN ctx.refs : RouteWay(w)
    \/ Materializing /\ EndOfKeptWays
    \/ Materializing /\ \E r \in DOMAIN ctx.members : BuildRelation(r)
    \/ Materializing /\ Finish
    \/ Materializing /\ Stopped

ImportSpec == ImportInit /\ [][ImportNext]_importVars
=============================================================================
