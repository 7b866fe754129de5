------------------------------ MODULE MCRootAct ------------------------------
(***************************************************************************)
(* Two or three machines for TLC.  "kept" keeps the root; the others are   *)
(* given the copy of it in one directory.  The list they start from names  *)
(* the machine "other", whose standing is due to renew, and one device     *)
(* whose key came in its invite; the machine that keeps the root is not on *)
(* it (its row lapsed, or a restore is bringing it back), so its first act *)
(* adds it under a fresh name.                                             *)
(***************************************************************************)
EXTENDS RootAct

CONSTANTS k1, k2, k3, k4, k5, k6    \* device keys; the first two and the last are the machines' own

MCRank == [k \in Key |-> CASE k = k1 -> 1 [] k = k2 -> 4 [] k = k3 -> 3 [] k = k4 -> 2 [] k = k5 -> 5 [] k = k6 -> 6]

MCOwn == [h \in Home |-> CASE h = "kept" -> k1 [] h = "other" -> k2 [] h = "third" -> k6]

\* Those asked for, and a name for every row that may need a fresh one.
MCName == {"kept", "other", "phone", "spare", "tablet", "laptop", "n1", "n2", "n3", "n4", "n5", "n6", "n7"}

\* Where each act runs when the copy stays at one machine, and when it is carried to a third.
MCRuns == [a \in Act |-> IF a \in {"a1", "a4"} THEN "kept" ELSE "other"]
MCRunsCarried == [MCRuns EXCEPT !["a3"] = "third"]
MCFrom == [a \in Act |-> CASE a = "bare" -> NoRoot [] MCRuns[a] = "kept" -> None [] OTHER -> "copy"]

Old(key, ends) == [key |-> key, ends |-> ends, by |-> "before"]
OldRow(key, name, ends, seeded) ==
    [node |-> key, label |-> name, standing |-> Old(key, ends), ids |-> {Old(key, ends)}, seeded |-> seeded]

MCStart == [number |-> 2, rows |-> {OldRow(k2, "other", 2, FALSE), OldRow(k3, "phone", 3, TRUE)}, ids |-> {}, keys |-> {}]

AskFor(verb, name, key) == [verb |-> verb, name |-> name, key |-> key]

MCAsks ==
    [a \in Act |->
        CASE a = "a1" -> {AskFor("add", "spare", k4), AskFor("renew", "phone", k3), AskFor("revoke", "phone", k3)}
          [] a = "a2" -> {AskFor("new key", "phone", k5), AskFor("add", "kept", k4)}
          [] a = "a3" -> {AskFor("renew", "phone", k3)}
          [] a = "bare" -> {AskFor("revoke", "phone", k3)}]

\* Fewer, for more machines and acts.
MCAsksFew ==
    [a \in Act |->
        CASE a = "a1" -> {AskFor("add", "spare", k4)}
          [] a = "a2" -> {AskFor("revoke", "phone", k3), AskFor("new key", "phone", k5)}
          [] a = "a3" -> {AskFor("renew", "phone", k3)}
          [] a = "a4" -> {AskFor("renew", "phone", k3)}]
=============================================================================
