--------------------------- MODULE MCShmExchange ---------------------------
(* ShmExchange with one producer, two consumers and batches of up to two     *)
(* elements; the user also enters -1 and 3, which is one too many.           *)
EXTENDS ShmExchange

MCLengths == {-1, 1, 2, 3}
=============================================================================
