--------------------------- MODULE MCSimTelemetry ---------------------------
(* Small instance of the telemetry: two motors; a host that sends nothing,  *)
(* one at rest on USB power, and two in flight with different packs.        *)
EXTENDS SimTelemetry

All(x) == [m \in Motors |-> x]
Silent  == [voltage |-> 0, current |-> -1, rpm |-> All(-1), temperature |-> All(0)]
OnUsb   == [voltage |-> 1, current |-> 0, rpm |-> All(0), temperature |-> All(25)]
Flying  == [voltage |-> 4, current |-> 2, rpm |-> [m \in Motors |-> m + 2],
            temperature |-> All(300)]
OneStops == [voltage |-> 3, current |-> 1, rpm |-> [m \in Motors |-> IF m = 0 THEN 0 ELSE 3],
             temperature |-> All(0)]
HostPackets == {Silent, OnUsb, Flying, OneStops}
=============================================================================
