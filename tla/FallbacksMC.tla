---------------------------- MODULE FallbacksMC ----------------------------
(* Instances of Fallbacks for TLC: a provider has three keys, so that a    *)
(* pool can lose one key for good and rotate among the others.  A caller   *)
(* that names a key names k1; keys differ in nothing else.                 *)
EXTENDS Fallbacks, TLC

CONSTANTS k1, k2, k3

ThreeKeys == {k1, k2, k3}
FirstKey == {k1}
=============================================================================
