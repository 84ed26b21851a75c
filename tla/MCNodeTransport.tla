---------------------------- MODULE MCNodeTransport ----------------------------
(* Sorts of dispatch and symmetry for model-checking NodeTransport.          *)
EXTENDS NodeTransport, TLC

(* A buffered GET, a buffered POST, an upload and a stream. *)
FourKinds ==
  {[buffered |-> TRUE,  streaming |-> FALSE, repeatable |-> TRUE],
   [buffered |-> TRUE,  streaming |-> FALSE, repeatable |-> FALSE],
   [buffered |-> FALSE, streaming |-> FALSE, repeatable |-> TRUE],
   [buffered |-> TRUE,  streaming |-> TRUE,  repeatable |-> FALSE]}

(* Buffered POSTs, which may be joining the connection attempt of another. *)
Posts == {k \in FourKinds : k.buffered /\ ~k.repeatable /\ ~k.streaming}

Symmetry == Permutations(Calls) \cup Permutations(Conns)
=============================================================================
