---------------------------- MODULE CasLifetime ----------------------------
(***************************************************************************)
(* How a CAS and its views are made and deleted (cas.cpp, constructors and *)
(* destructor).  A base CAS has the heap, the filter builder and perhaps   *)
(* the CAS definition that its views use; every CAS has an index           *)
(* repository and a document of its own.  Whoever has any of them may      *)
(* delete it, and all are deleted with it: the destructors call each       *)
(* other, which the stack shows.                                           *)
(***************************************************************************)
EXTENDS Integers, Sequences

CONSTANTS
    MaxViews,      \* bound: the views of a base CAS
    MaxFamilies    \* bound: the base CASes made, one after another

ASSUME LifetimeAssumption == MaxViews \in Nat /\ MaxFamilies \in Nat

VARIABLES
    lFamily,       \* the number of the base CAS that is looked at, 0 before the first
    lOwns,         \* bOwnsCASDefinition
    lViews,        \* the views that were made: the numbers of their sofas
    lMap,          \* iv_sofa2tcasMap: the views it still has
    lDeleting,     \* isDeletingViews
    lStack,        \* the destructors that run, the latest first: [cas, at]
    lTodo,         \* the views that the loop of the base's destructor has not come to
    lFreed,        \* history: how often everything was deleted
    lDangling      \* history: a destructor used what was deleted already

lVars == <<lFamily, lOwns, lViews, lMap, lDeleting, lStack, lTodo, lFreed, lDangling>>

BaseCas == 0
CasObjects == BaseCas .. MaxViews
\* What is deleted: a CAS itself, its index repository, and what the views share.
OwnParts == {"cas", "indexes"} \X CasObjects
Shared == {<<"heap", BaseCas>>, <<"filterBuilder", BaseCas>>, <<"casDefinition", BaseCas>>}
Unfreed == [p \in OwnParts \cup Shared |-> 0]

LInit ==
    /\ lFamily = 0 /\ lOwns = FALSE /\ lViews = {} /\ lMap = {} /\ lDeleting = FALSE
    /\ lStack = <<>> /\ lTodo = {} /\ lFreed = Unfreed /\ lDangling = FALSE

Calling == lStack # <<>>
Living(c) == lFamily > 0 /\ c \in lViews \cup {BaseCas} /\ lFreed[<<"cas", c>>] = 0

\* CAS::CAS() of a base: with the definition it is given to own, or one that an engine keeps.
NewCas ==
    /\ ~Calling /\ lFamily < MaxFamilies /\ (lFamily = 0 \/ ~Living(BaseCas))
    /\ lFamily' = lFamily + 1 /\ lOwns' \in BOOLEAN
    /\ lViews' = {} /\ lMap' = {} /\ lDeleting' = FALSE /\ lFreed' = Unfreed
    /\ UNCHANGED <<lStack, lTodo, lDangling>>

\* CAS::CAS() of a view: the map gets it from whoever asks for the view of its sofa.
NewView ==
    /\ ~Calling /\ Living(BaseCas)
    /\ \E n \in (CasObjects \ {BaseCas}) \ lMap :
          lViews' = lViews \cup {n} /\ lMap' = lMap \cup {n}
    /\ UNCHANGED <<lFamily, lOwns, lDeleting, lStack, lTodo, lFreed, lDangling>>

\* delete, of a base CAS or of any view.
DeleteCas ==
    /\ ~Calling
    /\ \E c \in CasObjects : Living(c) /\ lStack' = <<[cas |-> c, at |-> "own"]>>
    /\ UNCHANGED <<lFamily, lOwns, lViews, lMap, lDeleting, lTodo, lFreed, lDangling>>

Running(at) == Calling /\ Head(lStack).at = at
ThisCas == Head(lStack).cas
Onward(at) == <<[Head(lStack) EXCEPT !.at = at]>> \o Tail(lStack)
Free(parts) == lFreed' = [p \in DOMAIN lFreed |-> IF p \in parts THEN lFreed[p] + 1 ELSE lFreed[p]]
\* A destructor of a view looks at the flag of its base.
Dangles == ThisCas # BaseCas /\ lFreed[<<"cas", BaseCas>>] > 0

\* Every CAS deletes its index repository and its document.
DestroyOwn ==
    /\ Running("own")
    /\ Free({<<"indexes", ThisCas>>})
    /\ lStack' = Onward(IF ThisCas = BaseCas THEN "shared" ELSE IF lDeleting THEN "end" ELSE "family")
    /\ lDangling' = (lDangling \/ Dangles)
    /\ UNCHANGED <<lFamily, lOwns, lViews, lMap, lDeleting, lTodo>>

\* dropView()
Dropped(map, v) == map \ {v}

\* A view that is the first to be deleted leaves the map and has its base deleted.
DestroyFamily ==
    /\ Running("family")
    /\ lMap' = Dropped(lMap, ThisCas)
    /\ lDeleting' = TRUE
    /\ lStack' = <<[cas |-> BaseCas, at |-> "own"]>> \o Onward("end")
    /\ UNCHANGED <<lFamily, lOwns, lViews, lTodo, lFreed, lDangling>>

\* The base deletes what is shared and goes through a copy of its map.
DestroyShared ==
    /\ Running("shared")
    /\ lDeleting' = TRUE
    /\ Free({<<"heap", BaseCas>>, <<"filterBuilder", BaseCas>>}
            \cup (IF lOwns THEN {<<"casDefinition", BaseCas>>} ELSE {}))
    /\ lTodo' = lMap
    /\ lStack' = Onward("views")
    /\ UNCHANGED <<lFamily, lOwns, lViews, lMap, lDangling>>

DestroyNextView ==
    /\ Running("views") /\ lTodo # {}
    /\ \E v \in lTodo :
          /\ \A m \in lTodo : v <= m
          /\ lTodo' = lTodo \ {v}
          /\ lStack' = <<[cas |-> v, at |-> "own"]>> \o lStack
          /\ lDangling' = (lDangling \/ lFreed[<<"cas", v>>] > 0)
    /\ UNCHANGED <<lFamily, lOwns, lViews, lMap, lDeleting, lFreed>>

DestructorEnds ==
    /\ Running("end") \/ (Running("views") /\ lTodo = {})
    /\ Free({<<"cas", ThisCas>>})
    /\ lStack' = Tail(lStack)
    /\ UNCHANGED <<lFamily, lOwns, lViews, lMap, lDeleting, lTodo, lDangling>>

LNext ==
    \/ NewCas \/ NewView \/ DeleteCas
    \/ DestroyOwn \/ DestroyFamily \/ DestroyShared \/ DestroyNextView \/ DestructorEnds

-----------------------------------------------------------------------------
(* Properties *)

\* Whichever CAS of a family is deleted, all of them are, each part of each once, and the CAS
\* definition only when the base owns it; no destructor comes back to what is gone (CAS::~CAS()).
DeletedOnce ==
    /\ ~lDangling
    /\ \A p \in DOMAIN lFreed : lFreed[p] <= 1
    /\ lFreed[<<"casDefinition", BaseCas>>] = 1 => lOwns
    /\ ~Calling /\ lFamily > 0 /\ ~Living(BaseCas) =>
          \A p \in DOMAIN lFreed :
              lFreed[p] = 1 <=> IF p[1] = "casDefinition" THEN lOwns ELSE p[2] \in lViews \cup {BaseCas}
    /\ ~Calling /\ Living(BaseCas) => lFreed = Unfreed
=============================================================================
