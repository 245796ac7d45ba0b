--------------------------- MODULE MCQueryRuntime ---------------------------
(* Constants for model checking the runtime's primitives.                  *)
EXTENDS QueryRuntime

\* Nothing, a size two of which fit, and one that fits only alone.
MCAmounts == {0, 1, 2}
=============================================================================
