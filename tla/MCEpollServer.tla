--------------------------- MODULE MCEpollServer ---------------------------
(* EpollServer with two clients and room for both or, in a batch and in    *)
(* the table of descriptors, for one.                                      *)
EXTENDS EpollServer

MCVariants == {"et", "lt", "c"}
MCRecvMax == [v \in MCVariants |-> IF v = "c" THEN 2 ELSE 1]
=============================================================================
