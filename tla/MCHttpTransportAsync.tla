------------------------ MODULE MCHttpTransportAsync ------------------------
(* Finite instances of HttpTransportAsync for TLC.                         *)
EXTENDS HttpTransportAsync

CONSTANTS p1, p2, p3, x1, x2, x3, e1, e2

\* x1 and x2 together fill a queue of 3 bytes; x3 fits with x1 only.
MCSize == [x \in Payloads |-> IF x = x1 THEN 1 ELSE 2]

\* The payload x3 is for an endpoint that may never be added.
MCEndpointOf == [x \in Payloads |-> IF x = x3 THEN e2 ELSE e1]

=============================================================================
