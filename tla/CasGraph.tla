------------------------------- MODULE CasGraph -------------------------------
(***************************************************************************)
(* The graph of feature structures that the serializers of a CAS write and *)
(* their readers build: a heap, the index of every view, and what both     *)
(* sides ask of types and features; the binary formats, which copy heaps   *)
(* cell by cell, have CASes of their own.  Addresses are positions in the  *)
(* heap.                                                                   *)
(* A string is a number, 0 when there is none and 1 when it is empty.      *)
(* Arrays of Boolean, short and long elements are read and written like    *)
(* the array of integers, those of float like the one of double elements,  *)
(* lists of primitive values like the list of feature structures.          *)
(***************************************************************************)
EXTENDS Integers, Sequences, FiniteSets, SequencesExt, TLC

CONSTANTS
    Features,  \* Features[t]: the features of type t, none for an array
    RangeOf,   \* RangeOf[f]: the type of its values
    Multi,     \* features that allow multiple references
    Foreign,   \* types and features that the receiver does not have
    Senders    \* CASes that are sent, each with
               \* heap: its feature structures; index: the members of each view, 0 is the base

VARIABLES
    format,    \* "XMI", "XCAS" or "Binary"
    sender,    \* the CAS that is sent
    lenient,   \* unknown types and features are let through
    sent,      \* the document
    todo,      \* the elements of it that are still to be read
    phase,     \* "sending", "sized", "changed", "refused"; "heaps", "reading", "read", "failed";
               \* "returned", "replied"
    rd,        \* the receiving CAS and the state of its reader
    reply      \* the document the receiver sends back

vars == <<format, sender, lenient, sent, todo, phase, rd, reply>>

Null == 0
BaseView == 0
InitialView == 1
EmptyText == 1

ArrayTypes == {"FSArray", "IntArray", "StringArray", "ByteArray", "DoubleArray"}
ListNodes == {"NEList", "EList"}
IsNumber(t) == t \in {"Integer", "Long", "Double"}
IsPrimitive(t) == IsNumber(t) \/ t = "String"
IsFSType(t) == ~IsPrimitive(t) /\ t \notin ArrayTypes \cup {"FSList"}

\* A feature structure as createFS() and createArrayFS() leave it.
NewFS(t, features) == [type |-> t, val |-> [f \in features |-> Null], elems |-> <<>>]
NewArray(t, elems) == [type |-> t, val |-> [f \in {} |-> Null], elems |-> elems]

\* The texts of an array of strings: one that is missing is written as an empty one.
AsTexts(elems) == [i \in DOMAIN elems |-> IF elems[i] = Null THEN EmptyText ELSE elems[i]]

\* A stream prints as many digits of a float or double value as it does by default, here all but the last.
Printed(t, x) == IF t \in {"Double", "DoubleArray"} THEN x - (x % 10) ELSE x
PrintedElements(t, elems) == [i \in DOMAIN elems |-> Printed(t, elems[i])]

Set(heap, a, f, v) == [heap EXCEPT ![a].val[f] = v]

\* The nodes of a list that is followed to its end or to the first node that comes again.
Chain(heap, a) ==
    LET at[i \in 0 .. Len(heap)] ==
            IF i = 0 THEN a
            ELSE LET n == at[i - 1]
                 IN  IF n # Null /\ heap[n].type = "NEList" THEN heap[n].val["tail"] ELSE Null
        nodes == {n \in 0 .. Len(heap) : \A i \in 1 .. n :
                      /\ at[i - 1] # Null /\ heap[at[i - 1]].type = "NEList"
                      /\ \A j \in 1 .. i - 1 : at[j - 1] # at[i - 1]}
    IN  [i \in 1 .. Max(nodes) |-> at[i - 1]]

\* What is reached from a set of feature structures when those of "final" are not followed further.
Reached(heap, from, refs, final) ==
    LET within[n \in 0 .. Len(heap)] ==
            IF n = 0 THEN from
            ELSE LET found == within[n - 1] IN found \cup UNION {refs[a] : a \in found \ final}
    IN  within[Len(heap)]

Indexed(cas) == UNION {cas.index[v] : v \in DOMAIN cas.index}
SofasOf(cas, n) == {a \in DOMAIN cas.heap : cas.heap[a].type = "Sofa" /\ cas.heap[a].val["sofaNum"] = n}
Ascending(S) == [k \in 1 .. Cardinality(S) |-> CHOOSE x \in S : Cardinality({y \in S : y <= x}) = k]
=============================================================================
