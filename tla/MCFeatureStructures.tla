------------------------ MODULE MCFeatureStructures ------------------------
(***************************************************************************)
(* Instance of FeatureStructures and what reads of it must show.  Three    *)
(* types of an application: a token (a number, a name), a word (a token    *)
(* with a 64-bit value and a feature of the top type) and a note (a flag   *)
(* and a list), which has nothing in common with them.                     *)
(***************************************************************************)
EXTENDS FeatureStructures, IndexIterators

CONSTANTS h1, h2,
          MaxWritten,       \* bound: slots with a value at a time
          MaxObjectCells    \* bound: cells used of the main heap with objects in it

Token == 14
Word == 15
Note == 16

MCTypes == 1 .. 16
MCFeatures == 1 .. 8
MCSupertypes ==
  [t \in MCTypes |-> {Top, t} \cup (IF t = Word THEN {Token} ELSE {})
                              \cup (IF t \in {EIntList, NEIntList} THEN {IntList} ELSE {})]
MCFeaturesOf ==
  [t \in MCTypes |-> CASE t = NEIntList -> <<HeadFeature, TailFeature>>
                       [] t = Token -> <<3, 4>>
                       [] t = Word -> <<3, 4, 5, 6>>
                       [] t = Note -> <<7, 8>>
                       [] OTHER -> << >>]
MCRange == <<Integer, IntList, Integer, String, Long, Top, Boolean, IntList>>
MCStrings == {<<1>>, <<2, 1>>}
MCHandles == {h1, h2}
Symmetric == Permutations(MCHandles)

----------------------------------------------------------------------------
(* Indexes of one, two and three types below each other, with two structures
   of equal keys and two of the same type; iterators over all of them, over
   some types or through a filter.  As annotations, the first covers the others, two
   have the same span, and the last begins in that. *)
MCFS == {10, 20, 30, 40}
MCSubsumed == [t \in {"top", "mid", "leaf"} |-> CASE t = "top" -> {"top", "mid", "leaf"} [] t = "mid" -> {"mid", "leaf"} [] t = "leaf" -> {"leaf"}]
MCFSType == (10 :> "leaf") @@ (20 :> "top") @@ (30 :> "mid") @@ (40 :> "leaf")
MCKey == (10 :> 2) @@ (20 :> 2) @@ (30 :> 1) @@ (40 :> 3)
MCBeginPosition == (10 :> 0) @@ (20 :> 0) @@ (30 :> 0) @@ (40 :> 3)
MCEndPosition == (10 :> 3) @@ (20 :> 3) @@ (30 :> 6) @@ (40 :> 5)
MCNumber == (10 :> 1) @@ (20 :> 2) @@ (30 :> 3) @@ (40 :> 2)
MCLink == (10 :> 30) @@ (20 :> 0) @@ (30 :> 0) @@ (40 :> 10)
MCIndexes == {<<"leaf">>, <<"mid", "leaf">>, <<"top", "mid", "leaf">>}
MCTypeSets == {{"leaf"}, {"top", "leaf"}, {"mid"}}
MCFilters == {TypeFilter("mid", TRUE), NOTFilter(TypeFilter("mid", FALSE)),
   IntFeatureFilter(0, "LESS", 2), MatchFilter(1, IntFeatureFilter(0, "GREATER", 1)),
   ANDFilter(TypeFilter("leaf", FALSE), IntFeatureFilter(1, "EQUALS", 3)), ORFilter(TypeFilter("top", FALSE), IntFeatureFilter(0, "EQUALS", 1))}

\* Iterators wait in one of their states while a behaviour is about something else.
IteratorsWait ==
  /\ kind = "bag" /\ types = <<"leaf">> /\ single = [t \in {"leaf"} |-> << >>]
  /\ seq = << >> /\ filtered = FALSE /\ shown = [fs \in FS |-> "yes"] /\ pos = 0

----------------------------------------------------------------------------
(* A behaviour is about features, about arrays or about lists, which meet
   only in the main heap, or about iterators.  It is short: two objects and a clone, two arrays,
   two chains. *)
VARIABLE about

Written == Cardinality({<<a, i>> \in Objects \X (0 .. 8) :
                          /\ i \in DOMAIN stored[a].slots
                          /\ stored[a].slots[i].kind # "unset"})

MCInit ==
  /\ Init /\ SubInit
  /\ \/ about \in {"features", "arrays", "lists"} /\ IteratorsWait
     \/ about = "iterators" /\ IteratorInit

OnHeap ==
  /\ \/ about = "features" /\ OnFeatures
     \/ about = "arrays" /\ OnArrays
     \/ about = "lists" /\ (OnChains \/ (stored = << >> /\ Create(Note)))
     \/ Reset
  /\ Written' <= MaxWritten
  /\ stored' = << >> \/ heap'.top <= MaxObjectCells
  /\ \A a \in DOMAIN stored' : stored'[a].type # Top     \* nothing to write to

MCNext ==
  /\ UNCHANGED about
  /\ \/ about # "iterators" /\ OnHeap /\ UNCHANGED <<iteratorVars, subVars>>
     \/ about = "iterators" /\ (PlainNext \/ SubIteratorNext) /\ UNCHANGED vars

TypeOK ==
  /\ \A h \in {heap, refs, chars, longs, bytes} : h.top \in 1 .. Capacity(h)
  /\ list \in [Handles -> Nat]
  /\ resets \in 0 .. MaxResets

----------------------------------------------------------------------------

(* A clone of another type shows the features both types have and nothing
   else: those of the new type alone are untouched (featurestructure.hpp,
   clone(Type const &)). *)
ClonesCopyCommonOnly ==
  \A a \in Objects : TypeOf(heap, a) \notin Arrays =>
    \A f \in DOMAIN stored[a].slots :
      stored[a].slots[f].kind = "unset" => Cell(a, f) = 0
============================================================================
