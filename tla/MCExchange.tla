----------------------------- MODULE MCExchange -----------------------------
(***************************************************************************)
(* Exchange on small instances: two devices that both cut and both dial,   *)
(* beside a machine that is no device; and three devices, one of which     *)
(* only answers.                                                           *)
(***************************************************************************)
EXTENDS Exchange, TLC

CONSTANTS a, b, c, out, lost, ia, ib, ic, io, il, sa, sb

MCKey == {a, b, c, out, lost}
MCId == {ia, ib, ic, io, il}
MCHolder == (ia :> a) @@ (ib :> b) @@ (ic :> c) @@ (io :> out) @@ (il :> lost)
MCEnds == [i \in MCId |-> 1]

Row(n, standings, ids, keys, rest) ==
    [number |-> n, standings |-> standings, ids |-> ids, keys |-> keys, rest |-> rest]

\* a and b each keep a copy of the root.  2a and 2b are made without sight of each other, and revoke one
\* device each.  3b and 3r follow 2b: 3b renews a device, 3r revokes device a.
cut1  == Row(1, {ia, ib, ic, io, il}, {}, {}, 0)
cut2a == Row(2, {ia, ib, ic, il}, {io}, {out}, 0)
cut2b == Row(2, {ia, ib, ic, io}, {il}, {lost}, 0)
cut3b == Row(3, {ia, ib, ic, io}, {il}, {lost}, 1)
cut3r == Row(3, {ib, ic, io}, {il, ia}, {lost, a}, 0)

TwoDevices == {a, b}
ThreeDevices == {a, b, c}
MCOutsider == {out}
NoOutsider == {}

Fork == {cut1, cut2a, cut2b}
Overtaken == {cut1, cut2a, cut2b, cut3b}
Revoked == {cut1, cut2a, cut2b, cut3r}
ForkCutter == [u \in {cut1, cut2a} |-> a] @@ [u \in {cut2b} |-> b]
OvertakenCutter == ForkCutter @@ [u \in {cut3b} |-> b]
RevokedCutter == ForkCutter @@ [u \in {cut3r} |-> b]

TwoDialers == {sa, sb}
OneDialer == {sb}
MCMachine == (sa :> a) @@ (sb :> b)
MCMachineB == sb :> b
=============================================================================
