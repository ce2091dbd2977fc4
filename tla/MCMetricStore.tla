--------------------------- MODULE MCMetricStore ---------------------------
(* Readings and requests for MetricStore: bins of two minutes. *)
EXTENDS MetricQueries, TLC

Request(from, to, threshold, strategy) ==
    [from |-> from, to |-> to, freq |-> 2, strategy |-> strategy, threshold |-> threshold]

(* Two windows side by side, one over both with another configuration, and  *)
(* one that starts within a bin.                                            *)
SomeRequests ==
    {Request(0, 2, 500, "drop"), Request(2, 4, 500, "drop"),
     Request(0, 4, 0, "fill"), Request(3, 5, 500, "drop")}
OneRequest == {Request(0, 4, 500, "fill")}

At(device, ts) == [device |-> device, ts |-> ts]

(* The second device is in the later window only, and misses a value there; *)
(* what device "a" reads at 1 is filled when it has been read at 0, and 2   *)
(* is where two windows meet.                                               *)
TwoDevices == {At("a", 0), At("a", 1), At("a", 2), At("b", 3)}
Broken == {At("a", 1)}
Partial == Broken \cup {At("b", 3)}
OneDevice == {At("a", 0), At("a", 2)}
NoneBroken == {}

RunSymmetry == Permutations(Runs)
=============================================================================
