--------------------------- MODULE MCOpampHandler ---------------------------
(* An instance of OpampHandler for TLC.                                    *)
EXTENDS OpampHandler, TLC

CONSTANTS a, b, c1, c2

\* A gateway relays both agents; one of them also polls by itself.
mcTransport == c1 :> "ws" @@ c2 :> "http"
mcRelayed == c1 :> {a, b} @@ c2 :> {a}
=============================================================================
