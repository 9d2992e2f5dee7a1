-------------------------------- MODULE MCGrpcWeb --------------------------------
(* Values for the model checker's run of GrpcWeb. *)
EXTENDS GrpcWeb

\* Up to three fields of every kind the decoders distinguish.
MCFields == [num : {0, 1, 2, 6}, value : Values] \cup [num : {1, 6}, value : {Empty}]
MCMessages == UNION {[1 .. n -> MCFields] : n \in 0 .. 3}

=============================================================================
