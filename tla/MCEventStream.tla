---------------------------- MODULE MCEventStream ----------------------------
(* Values for the constants of EventStream that a cfg file cannot write.    *)
EXTENDS EventStream

(* Two rows at the same time and one later: one batch, then a gap. *)
ThreeRows == <<1, 1, 2>>
TwoRows == <<1, 2>>
OneRow == <<1>>

NoMessages == {}

(* Two ids; the first also comes with a payload that cannot be mapped. *)
Duplicates == {[id |-> 101, kind |-> "reading", ts |-> 1],
               [id |-> 101, kind |-> "overflow", ts |-> 2],
               [id |-> 102, kind |-> "reading", ts |-> 2]}

(* Every way handling can end, each id delivered in two forms. *)
Mixed == {[id |-> 101, kind |-> "reading", ts |-> 2],
          [id |-> 101, kind |-> "overflow", ts |-> 1],
          [id |-> 102, kind |-> "no_value", ts |-> 1],
          [id |-> 102, kind |-> "malformed", ts |-> 2]}
=============================================================================
