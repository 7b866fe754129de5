------------------------------- MODULE MCFold -------------------------------
(***************************************************************************)
(* Fold on one home with two processes, and four cuts of one root, of      *)
(* which two (2a, 2b) were made by two copies of it at one number.         *)
(***************************************************************************)
EXTENDS Fold, TLC

CONSTANTS own, k1, o1, o3, i2, serve, command

MCKey == {own, k1}
MCId == {o1, o3, i2}
MCHolder == (o1 :> own) @@ (o3 :> own) @@ (i2 :> k1)
MCEnds == (o1 :> 1) @@ (o3 :> 3) @@ (i2 :> 2)

Cut(n, standings, ids, keys) == [number |-> n, standings |-> standings, ids |-> ids, keys |-> keys, rest |-> 0]

\* 1 lists both machines.  2a revokes k1 by its standing and renews this machine; 2b, from the other copy,
\* revokes this machine's own key; 3 follows 2a, so it carries a kept
\* 2a and not a kept 2b.
cut1  == Cut(1, {o1, i2}, {}, {})
cut2a == Cut(2, {o3}, {i2}, {})
cut2b == Cut(2, {i2}, {o1}, {own})
cut3  == Cut(3, {o3}, {i2}, {k1})

MCSigned == {cut1, cut2a, cut2b, cut3}
MCProc == {serve, command}
=============================================================================
