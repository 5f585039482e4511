-------------------------- MODULE MC_FeatureManager --------------------------
(* Four plugins: a plain one between lifecycle plugins of ABI 1 and 2.      *)
EXTENDS FeatureManager

Abis == <<1, 2, 0, 2>>
=============================================================================
