------------------------------ MODULE MCPortal ------------------------------
(* Small deployments: a process with Kafka and a single request, and ones  *)
(* without, whose clients log in, use an API key, or ask for the topology. *)
EXTENDS Portal

Route(name, limited, authorize) ==
  [name |-> name, limited |-> limited, authorize |-> authorize]

Deployment(kafka, route, credential, requests, time) ==
  [kafka |-> kafka, routes |-> {route}, credentials |-> {credential},
   requests |-> requests, time |-> time]

MCDeployments ==
  { Deployment(TRUE, Route("portal", FALSE, TRUE), "token", 1, 0),
    Deployment(FALSE, Route("login", TRUE, FALSE), "token", 4, 3),
    Deployment(FALSE, Route("portal", FALSE, TRUE), "key", 2, 3),
    Deployment(FALSE, Route("topology", FALSE, TRUE), "token", 1, 0) }

Board(place, clients, edges, historical) ==
  [venue |-> place, edges |-> edges, historical |-> historical,
   nodes |-> {[serial |-> d, clients |-> clients[d]] : d \in DOMAIN clients}]

\* At home a gateway and a mesh node, and a device of a neighbour linked to
\* both; the gateway may also be seen elsewhere.
MCBoards ==
  { Board("home", [gw |-> {}, mesh |-> Stations], {<<"gw", "mesh">>}, {}),
    Board("home", [gw |-> {}, mesh |-> {}, other |-> Stations],
          {<<"mesh", "gw">>, <<"mesh", "other">>}, Stations),
    Board("away", [gw |-> {}, other |-> {}], {<<"other", "gw">>}, Stations) }
=============================================================================
