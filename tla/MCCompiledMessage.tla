-------------------------- MODULE MCCompiledMessage --------------------------
(* Messages of a few bytes.                                                *)
EXTENDS CompiledMessage

Text(n, u) == [k \in 1..n |-> u + k]

MCOrigin      == {Text(n, 64) : n \in 1..2}
MCDestination == {Text(n, 96) : n \in 0..2}
MCPayload     == {Text(1, 48), <<0, 255, 7>>}
MCForeign     == {{2, 4, 5, 9, 12}}
==============================================================================
