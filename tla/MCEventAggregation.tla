------------------------- MODULE MCEventAggregation -------------------------
(* Events for EventAggregation: an hour is 2 ticks and a day 4.             *)
EXTENDS EventAggregation

TwoMetrics == <<"pressure", "flow">>
InRange == -1..3
QueryBounds == -2..8

Event(device, ts, offset, pressure, flow) ==
    [device |-> device, ts |-> ts, offset |-> offset,
     values |-> [pressure |-> pressure, flow |-> flow]]

(* Two devices over two days, with late events, values in and out of range  *)
(* and missing, and one device on clocks half an hour and an hour apart.    *)
Arrivals ==
    {Event("a", 1, 0, 3, NoValue), Event("a", 3, 0, -1, 2), Event("a", 6, 0, 2, 9),
     Event("b", 2, 0, 1, 1), Event("a", 3, 1, 1, NoValue), Event("a", 4, 2, 1, 3)}
=============================================================================
