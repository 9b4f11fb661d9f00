----------------------------- MODULE MCVersions -----------------------------
(* Instances of Versions for TLC: see the cfg files. *)
EXTENDS Versions

Everything == {<<1, MaxKey>>}
OneKey     == {1}
NoKey      == {}
=============================================================================
