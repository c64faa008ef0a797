------------------------------ MODULE MCResponses ------------------------------
EXTENDS Responses, TLC

CONSTANTS r1, r2

Shape(kind, keep, tools, calls) ==
  [kind |-> kind, keep |-> keep, tools |-> tools, calls |-> calls]

\* Every kind, with each set of tools that makes a difference to it.
EveryShape ==
  {Shape("create", TRUE, "plain", 1), Shape("create", TRUE, "forced", 0),
   Shape("stream", TRUE, "plain", 2), Shape("stream", FALSE, "unknown", 0),
   Shape("stream", TRUE, "choice", 0), Shape("compact", TRUE, "plain", 0)}

\* The second request meets the first in the store.
ShapesOf ==
  r1 :> EveryShape
  @@ r2 :> {Shape("compact", TRUE, "plain", 0)}
================================================================================
