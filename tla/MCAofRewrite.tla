---------------------------- MODULE MCAofRewrite ----------------------------
(* AofRewrite for TLC: the bounds are in the configurations.               *)
EXTENDS AofRewrite
=============================================================================
