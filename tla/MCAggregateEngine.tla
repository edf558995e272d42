-------------------------- MODULE MCAggregateEngine --------------------------
(* A primitive, an engine known by its contract and a primitive that takes  *)
(* the base CAS.  The outputs of the first two overlap; for one language    *)
(* the last one has no output.                                              *)
EXTENDS AggregateEngine

MCPrimitive == {1, 3}
MCSofaAware == {3}
MCTofs == {"Token", "Name"}
MCLanguages == {"en", "fr"}
MCOutput == [d \in 1 .. 3 |->
    CASE d = 1 -> [l \in MCLanguages |-> IF l = "en" THEN {"Token"} ELSE {"Token", "Name"}]
      [] d = 2 -> [l \in MCLanguages |-> {"Token", "Name"}]
      [] d = 3 -> [l \in MCLanguages |-> IF l = "en" THEN {"Name"} ELSE {}]]
=============================================================================
