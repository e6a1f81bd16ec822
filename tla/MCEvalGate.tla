----------------------------- MODULE MCEvalGate -----------------------------
(* Instance of EvalGate for TLC.                                           *)
EXTENDS EvalGate

\* Nothing; the answer on top, in the middle, below the cut of five; only another
\* part of an expected document.
SomeHits ==
  {[retrieved |-> FALSE, anchor |-> 0, source |-> 0],
   [retrieved |-> TRUE, anchor |-> 1, source |-> 1],
   [retrieved |-> TRUE, anchor |-> 6, source |-> 2]}
=============================================================================
