---------------------------- MODULE MCHttpServers ----------------------------
(* HttpServers for TLC: credentials in order, and others that differ from    *)
(* them in what one check of the callback looks at.                          *)
EXTENDS HttpServers

CONSTANTS h1, s1, alice, bob, carol, temperature, humidity

\* alice may read the temperature until 1, bob both for ever.
MCGrants == {[consumer |-> alice, service |-> temperature, until |-> 1],
             [consumer |-> bob, service |-> humidity, until |-> 0],
             [consumer |-> bob, service |-> temperature, until |-> 0]}

ForAlice == [verified |-> TRUE, text |-> "json", fields |-> {"s", "c", "e"},
             s |-> temperature, c |-> alice, e |-> 1]

ForBob == [ForAlice EXCEPT !.c = bob, !.e = 0]

\* carol's name has one part.
MCCredentials ==
  {[token |-> ForAlice, consumer |-> name] : name \in {alice, carol, NoOne}}
  \cup [token : {ForBob}, consumer : {alice, bob}]
  \cup [token : {[ForBob EXCEPT !.s = humidity],
                 [ForBob EXCEPT !.verified = FALSE],
                 [ForBob EXCEPT !.text = "error"],
                 [ForBob EXCEPT !.fields = {"s", "e"}]},
         consumer : {bob}]
==============================================================================
