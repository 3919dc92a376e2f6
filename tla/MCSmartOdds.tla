---------------------------- MODULE MCSmartOdds ----------------------------
(* Instances of SmartOdds for TLC.                                         *)
EXTENDS SmartOdds, TLC
CONSTANTS c1, c2, c3, k1, k2

Req(k, expected, informational, maxAge, network) ==
  [key |-> k, expected |-> expected, informational |-> informational,
   maxAge |-> maxAge, network |-> network]

Calls2 == {c1, c2}
Calls3 == {c1, c2, c3}
OneKey == {k1}
TwoKeys == {k1, k2}
CallSymmetry == Permutations(Call)

(* One key and few credits: an essential call, an informational one, and one
   that may only read the cache. *)
LifeInputs == {Req(k1, 1, FALSE, 2, TRUE), Req(k1, 1, TRUE, 0, TRUE), Req(k1, 1, TRUE, 2, FALSE)}
(* Paid requests and a free quota probe across a month boundary. *)
RolloverInputs == {Req(k1, 2, FALSE, 0, TRUE), Req(k2, 0, FALSE, 0, TRUE)}

AllHeaders == {Header}
SomeHeaders == {Header, {"remaining", "last"}}
NoHeaders == {{}}
=============================================================================
