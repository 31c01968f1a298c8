---------------------------- MODULE MCAofRewrite ----------------------------
(* Two connections and two rewrites beside them. *)
EXTENDS AofRewrite

CONSTANTS p1, p2
=============================================================================
