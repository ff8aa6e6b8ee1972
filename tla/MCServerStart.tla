--------------------------- MODULE MCServerStart ---------------------------
(***************************************************************************)
(* Instances of the server program for TLC.                                *)
(***************************************************************************)
EXTENDS ServerStart

\* Values on both sides of every limit, and the port of the other listener.
MCChoices ==
  [wsBind |-> {"ip4", "ip6", "name"},
   wsPort |-> {0, 1, 3478, 65535, 65536},
   turnPort |-> {-1, 0, 1, 8080, 65535, 65536},
   relayMin |-> {0, 1, 65535, 65536},
   relayMax |-> {0, 49151, 49152, 65536},
   maxRoomSize |-> {1, 2, 16, 17},
   credentialTTL |-> {59, 60, 3600, 3601},
   perUserQuota |-> {0, 1, 10, 11},
   totalQuota |-> {0, 1, 2, 10000, 10001},
   maxConnections |-> {0, 1, 1000, 1001},
   maxTotalConnections |-> {0, 19, 20, 199, 200, 10001},
   maxRooms |-> {0, 1, 1000, 1001},
   messageRate |-> {0, 1, 1000, 1001, NaN},
   messageBurst |-> {0, 1, 2000, 2001},
   allowPrivatePeers |-> {0, 1},
   publicIP |-> GlobalUnicast \cup {"none", "unspecified", "loopback",
                                    "linklocal", "multicast"},
   turnSecret |-> {"diverse", "short", "uniform"},
   allowedOrigins |-> {"valid", "invalid"}]

=============================================================================
