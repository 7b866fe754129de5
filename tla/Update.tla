------------------------------- MODULE Update -------------------------------
(***************************************************************************)
(* The update (src/roster.rs): the list of its live devices and of its     *)
(* revocations that a root signs and any device may carry.  This module is *)
(* data only: what the rest of the development tells apart about one       *)
(* update, and the two questions the code asks of a pair of them.          *)
(*                                                                         *)
(* A standing is the root's signature that admits one key until one date;  *)
(* it is named here by its revocation id, and Holder and Ends give the key *)
(* it is bound to and its date.  The fold verifies every update against    *)
(* the pinned root before it looks at anything else, so the model speaks   *)
(* only of Signed, the updates that root signed.                           *)
(***************************************************************************)
EXTENDS Integers, FiniteSets

CONSTANTS
    Key,      \* device keys
    Id,       \* revocation ids of standings
    Holder,   \* the key a standing is bound to
    Ends,     \* the second a standing ends
    None,     \* no update
    Signed    \* every update the pinned root has signed

Entry == Key \cup Id

\* A row of an update is reduced to its newest standing: the key is Holder of it and the end is Ends of
\* it.  The field rest stands for what no rule below reads (names, lengths, older ids), so that two
\* updates with the same number and the same revocations can still be different bytes.
UpdateShape == [number : Nat, standings : SUBSET Id, ids : SUBSET Id, keys : SUBSET Key, rest : Nat]

\* Epoch::UNVERSIONED is 0 and a cut is numbered one past what its records have seen, so no signed update
\* has number 0; Book::follow_keys takes the row of a revoked key out before the cut.
ASSUME SignedAssumption ==
    /\ Signed \subseteq UpdateShape
    /\ None \notin Signed
    /\ \A u \in Signed : u.number > 0 /\ \A s \in u.standings : Holder[s] \notin u.keys
ASSUME NamesAssumption ==
    /\ Key \cap Id = {}
    /\ Holder \in [Id -> Key]
    /\ Ends \in [Id -> Nat]

\* The number of the update a home holds, or UNVERSIONED when it holds none.
Number(held) == IF held = None THEN 0 ELSE held.number

\* What an update obliges a machine to refuse at time t: the revoked ids that have not ended, and every
\* revoked key for good.
Owed(u, t) == {i \in u.ids : Ends[i] > t} \cup u.keys

\* Whether doc carries every revocation of fork that still matters at time t.
Carries(doc, fork, t) == Owed(fork, t) \subseteq doc.ids \cup doc.keys

\* What the machine whose key is own adds to <home>/revoked for an update: never its own key, which would
\* close every link it has signed.
RefusedAt(own, u, t) == Owed(u, t) \ {own}
=============================================================================
