--------------------------- MODULE MCRoutingTool ---------------------------
(* Two chats. In the first scenarios one of them asks for too many text points  *)
(* and is turned away, so that the other runs alone through every path; in the  *)
(* last both compete for the geocoder and for OSRM's walking server.            *)
EXTENDS RoutingTool

Ask(mode, transport, traffic, forecast, optimize, texts, size) ==
  [mode |-> mode, transport |-> transport, traffic |-> traffic, forecast |-> forecast,
   optimize |-> optimize, texts |-> texts, size |-> size]

MCCalls == {"main", "other"}
MCConfigured == {"twogis", "graphhopper", "osrm"}

Alone(r) == [main |-> r, other |-> Ask("route", "driving", TRUE, FALSE, FALSE, 3, 1)]

MCScenarios ==
  {Alone(Ask("route", "driving", TRUE,  FALSE, FALSE, 2, 2)),
   Alone(Ask("route", "driving", TRUE,  FALSE, FALSE, 0, 3)),
   Alone(Ask("route", "driving", FALSE, FALSE, FALSE, 0, 1)),
   Alone(Ask("route", "driving", TRUE,  TRUE,  FALSE, 0, 1)),
   Alone(Ask("route", "driving", TRUE,  FALSE, TRUE,  0, 1)),
   Alone(Ask("rank",  "driving", TRUE,  FALSE, FALSE, 1, 2)),
   Alone(Ask("rank",  "transit", TRUE,  FALSE, FALSE, 0, 3)),
   [main  |-> Ask("rank", "transit", TRUE, FALSE, FALSE, 1, 1),
    other |-> Ask("rank", "transit", TRUE, FALSE, FALSE, 1, 1)],
   [main  |-> Ask("rank", "walking", TRUE, FALSE, FALSE, 0, 1),
    other |-> Ask("route", "walking", TRUE, FALSE, FALSE, 0, 1)]}
=============================================================================
