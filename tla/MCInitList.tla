----------------------------- MODULE MCInitList -----------------------------
(* Lists of hosts with one-character names for TLC.                        *)
EXTENDS InitList

CONSTANTS a, b, sep, MaxLen, h1, h2, h3, h4, h5

(* All strings up to a length.                                             *)
MCStrings == UNION {[1..n -> Char] : n \in 0..MaxLen}

MCLocals == {<<a>>, <<a, b>>}

(* The list in init.cpp: five different hosts, each followed by `;`.       *)
LiteralList == {<<h1, sep, h2, sep, h3, sep, h4, sep, h5, sep>>}
OneOfThem   == {<<h1>>, <<h2>>, <<h3>>, <<h4>>, <<h5>>}
=============================================================================
