----------------------- MODULE MCProviderRegistration -----------------------
(* Small instances of ProviderRegistration for TLC.                        *)
EXTENDS ProviderRegistration

CONSTANTS Http

\* Sensor 1 sends UDP packets, sensor 2 POSTs to the HTTPS server.
OneRouteEach == {<<Udp, 1>>, <<Https, 2>>}

\* The packets of sensor 1 also arrive as POSTs.
TwoRoutes == {<<Udp, 1>>, <<Http, 1>>}

=============================================================================
