------------------------- MODULE MCInterceptorConfig -------------------------
(* Instances of InterceptorConfig for TLC. *)
EXTENDS InterceptorConfig, TLC

Symmetry == Permutations(Memory) \union Permutations(Configurers) \union Permutations(RPCs)
=============================================================================
