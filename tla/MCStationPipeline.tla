------------------------- MODULE MCStationPipeline -------------------------
(* Tables for StationPipeline.  Every value is 0, N or a multiple of N, and *)
(* N divides evenly in every mean and interpolation of these tables.        *)
EXTENDS StationPipeline

CONSTANTS d1, d2, Absent

Signals == {"motor_speed", "air_flow_rate", "discharge_pressure", "power_consumption"}
N == 10080

Reading(speed, flow, pressure, power) ==
    [c \in Signals |-> CASE c = "motor_speed" -> speed
                         [] c = "air_flow_rate" -> flow
                         [] c = "discharge_pressure" -> pressure
                         [] c = "power_consumption" -> power]

Lows == [c \in Signals |-> 0]
Highs == [c \in Signals |-> IF c = "power_consumption" THEN 2 * N ELSE N]

On == Reading(N, N, N, 2 * N)
Off == Reading(0, 0, 0, 0)
Empty == Reading(Null, Null, Null, Null)
Odd == Reading(Bad, N, 3 * N, Null)

(* All tables that have one of some readings, or none, in every slot.       *)
Tables(slots, readings) ==
    {{[device |-> s[1], ts |-> s[2], v |-> f[s]] : s \in {q \in slots : f[q] # Absent}} :
        f \in [slots -> readings \cup {Absent}]}

(* One device over six minutes. *)
LongTables == Tables({d1} \X (0..5), {On, Off, Empty})

(* Two devices side by side, one of them with an unreadable timestamp.      *)
WideTables ==
    Tables(({d1} \X {0, 1, Unreadable}) \cup ({d2} \X {0, 2}), {On, Off, Empty, Odd})

AllTables == LongTables \cup WideTables

(* One device, always running, with some minutes missing. *)
RunningTables == Tables({d1} \X (0..6), {On})

(* No threshold for one column, and those of the schema for the others.     *)
Thresholds == [c \in Signals |-> IF c = "air_flow_rate" THEN Null ELSE 2]
=============================================================================
