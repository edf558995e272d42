-------------------------- MODULE MCIndexRepository --------------------------
(* A type with a subtype that has a subtype, and a type without an index;   *)
(* an ordered index on the root, a bag and a set on the leaf.               *)
EXTENDS IndexRepository

MCTypes == {"top", "mid", "leaf", "other"}
MCSubsumed == [t \in MCTypes |->
    CASE t = "top"   -> {"top", "mid", "leaf"}
      [] t = "mid"   -> {"mid", "leaf"}
      [] t = "leaf"  -> {"leaf"}
      [] t = "other" -> {"other"}]
MCIndexes == {"annotations", "tokens", "lemmas"}
MCIndexType == [i \in MCIndexes |->
    CASE i = "annotations" -> "top" [] i = "tokens" -> "leaf" [] i = "lemmas" -> "leaf"]
MCKind == [i \in MCIndexes |->
    CASE i = "annotations" -> "ordered" [] i = "tokens" -> "bag" [] i = "lemmas" -> "set"]
\* The rank of a feature structure is not the order of the addresses.
MCFS == {10, 20, 30, 40}
MCTypeOf == [f \in MCFS |->
    CASE f \in {10, 20} -> "leaf" [] f = 30 -> "mid" [] f = 40 -> "other"]
MCKey == [f \in MCFS |-> IF f = 20 THEN 1 ELSE 2]
=============================================================================
