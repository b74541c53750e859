----------------------------- MODULE MacroTable -----------------------------
(***************************************************************************)
(* `resolve_macros` and `inline_macro_refs` (topic/load.rs): every macro of *)
(* a topic is expanded against the raw table, the macros it names first,   *)
(* and they against theirs.  The names being expanded are kept on a stack, *)
(* which a name that comes round again is found on.                        *)
(*                                                                         *)
(* A macro's body is a JSON document; here it is the sequence of its       *)
(* leaves, in the order the expansion meets them: objects and arrays only  *)
(* hand the expansion on.                                                  *)
(***************************************************************************)
EXTENDS Naturals, Sequences

CONSTANTS
    Name,
    Tables   \* the raw tables: macro name -> sequence of leaves [do, name]

Leaf == [do : STRING, name : Name]

ASSUME TablesAssumption ==
    \A t \in Tables : \A n \in DOMAIN t : t[n] \in Seq(Leaf)

VARIABLES
    raw,       \* the table being resolved
    table,     \* the macros resolved so far, and what they expand to
    opened,    \* the expansions going on: [name, at], `at` the next leaf
    expanded,  \* what the outermost expansion has given so far
    verdict    \* "resolving", "resolved" or "refused"

macroVars == <<raw, table, opened, expanded, verdict>>

Innermost == opened[Len(opened)]
Coming    == raw[Innermost.name][Innermost.at]
AtEnd     == Innermost.at > Len(raw[Innermost.name])
OnStack   == {opened[i].name : i \in DOMAIN opened}

\* The expansions, with the innermost gone on to its next leaf.
GoneOn == [opened EXCEPT ![Len(opened)].at = @ + 1]

MacroStart ==
    /\ table = <<>>
    /\ opened = <<>>
    /\ expanded = <<>>
    /\ verdict = "resolving"

\* The loop takes the macros in alphabetical order; the result is a map, so
\* any order is allowed here.
Begin ==
    /\ verdict = "resolving"
    /\ opened = <<>>
    /\ \E n \in DOMAIN raw \ DOMAIN table : opened' = <<[name |-> n, at |-> 1]>>
    /\ UNCHANGED <<raw, table, expanded, verdict>>

Expanding ==
    /\ verdict = "resolving"
    /\ opened # <<>>
    /\ ~AtEnd

\* Seeded fault: a name nobody defines is left where it is.
CopyUnknown ==
    /\ Expanding
    /\ Coming.do # "macro" \/ Coming.name \notin DOMAIN raw
    /\ expanded' = Append(expanded, Coming)
    /\ opened' = GoneOn
    /\ UNCHANGED <<raw, table, verdict>>

\* Anything that is not a macro stays, a sanitizer's name too.
Copy ==
    /\ Expanding
    /\ Coming.do # "macro"
    /\ expanded' = Append(expanded, Coming)
    /\ opened' = GoneOn
    /\ UNCHANGED <<raw, table, verdict>>

Enter ==
    /\ Expanding
    /\ Coming.do = "macro"
    /\ Coming.name \notin OnStack
    /\ Coming.name \in DOMAIN raw
    /\ opened' = Append(GoneOn, [name |-> Coming.name, at |-> 1])
    /\ UNCHANGED <<raw, table, expanded, verdict>>

\* A name that is being expanded already, or one nobody defines.
Refuse ==
    /\ Expanding
    /\ Coming.do = "macro"
    /\ Coming.name \in OnStack \/ Coming.name \notin DOMAIN raw
    /\ verdict' = "refused"
    /\ UNCHANGED <<raw, table, opened, expanded>>

Leave ==
    /\ verdict = "resolving"
    /\ Len(opened) > 1
    /\ AtEnd
    /\ opened' = SubSeq(opened, 1, Len(opened) - 1)
    /\ UNCHANGED <<raw, table, expanded, verdict>>

Store ==
    /\ verdict = "resolving"
    /\ Len(opened) = 1
    /\ AtEnd
    /\ table' = [n \in DOMAIN table \cup {Innermost.name} |->
                    IF n = Innermost.name THEN expanded ELSE table[n]]
    /\ opened' = <<>>
    /\ expanded' = <<>>
    /\ UNCHANGED <<raw, verdict>>

\* Every macro has been expanded, the ones nothing uses too.
AllResolved ==
    /\ verdict = "resolving"
    /\ opened = <<>>
    /\ DOMAIN raw = DOMAIN table
    /\ verdict' = "resolved"
    /\ UNCHANGED <<raw, table, opened, expanded>>

MacroStep == Begin \/ Copy \/ Enter \/ Refuse \/ Leave \/ Store \/ AllResolved

MacroInit == raw \in Tables /\ MacroStart
MacroSpec == MacroInit /\ [][MacroStep]_macroVars

(***************************************************************************)
(* Properties.                                                             *)
(***************************************************************************)
Calls(n) == {raw[n][i].name : i \in {j \in DOMAIN raw[n] : raw[n][j].do = "macro"}}

\* Macros each of which names another of them: to expand one never ends.
Circular(C) == C # {} /\ \A c \in C : Calls(c) \cap C # {}

Broken ==
    \/ \E n \in DOMAIN raw : ~(Calls(n) \subseteq DOMAIN raw)
    \/ \E C \in SUBSET DOMAIN raw : Circular(C)

\* A table is refused exactly when one of its macros, used or not, names
\* something unknown or can never be expanded.
RefusedIffBroken ==
    /\ verdict = "refused" => Broken
    /\ verdict = "resolved" => ~Broken

\* The names on the stack are a path through the table without a repetition,
\* so no expansion is deeper than the table has macros.
StackIsPath ==
    /\ \A i, j \in DOMAIN opened : opened[i].name = opened[j].name => i = j
    /\ \A i \in DOMAIN opened : i # Len(opened) => opened[i + 1].name \in Calls(opened[i].name)
=============================================================================
