----------------------------- MODULE MCNumbering -----------------------------
(* The bounded instance of Numbering: a prefix that saving rewrites to     *)
(* another one.                                                            *)
EXTENDS Numbering

CONSTANTS farm, spaced

Rewritten == [p \in Prefixes |-> IF p = spaced THEN farm ELSE p]
=============================================================================
