------------------------------ MODULE MCFanOut ------------------------------
(* Instances of FanOut for TLC. *)
EXTENDS FanOut

CONSTANTS a, b, c,  \* names; a and b are keys
          incoming, other  \* requests

ToAuth(k, s) == [key |-> k, service |-> "auth-service", source |-> s]

\* No part; a shared body and a key used twice; an unknown service.
MCLists == {<<>>,
            <<ToAuth(a, incoming), ToAuth(b, incoming), ToAuth(b, other)>>,
            <<ToAuth(a, incoming), ToAuth(b, incoming)>>,
            <<ToAuth(a, incoming), [ToAuth(b, incoming) EXCEPT !.service = "other"]>>}
=============================================================================
