------------------------- MODULE MCServiceClients -------------------------
(* A small instance of ServiceClients for TLC: c1 is any of the clients,   *)
(* c2 a basic provider, which may announce the same service entry.         *)
EXTENDS ServiceClients, TLC

CONSTANTS c1, c2, s1, s2, s3, a1, v1, v2

Config(kind, daemon, plan) == [kind |-> kind, daemon |-> daemon, plan |-> plan]

MCProfiles ==
  c1 :> {Config("basic", TRUE, <<s1>>), Config("full", FALSE, <<s2, a1>>), Config("full", TRUE, <<s2>>),
         Config("test", FALSE, <<s3, s2>>), Config("test", TRUE, <<s3, s2>>),
         Config("subscriber", FALSE, <<v1, v2>>), Config("publisher", TRUE, <<v1>>),
         Config("example", FALSE, <<s2>>)}
  @@ c2 :> {Config("basic", FALSE, <<s1>>)}

=============================================================================
