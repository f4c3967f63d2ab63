---------------------------- MODULE MCFlightReports ----------------------------
(* FlightReports with one aircraft that climbs and descends between two       *)
(* altitudes, and memory for one round of prepareData and one more packet.    *)
EXTENDS FlightReports
===============================================================================
