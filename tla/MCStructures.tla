---------------------------- MODULE MCStructures ----------------------------
(* Structures with values for its constants that a cfg cannot express.     *)
EXTENDS Structures

(* Three keys of one chain, among them a negative one, and one of another. *)
MCHashKeys == {-1, 0, 3, 1}

(* One region is not aligned to its size, and one is of an order past the  *)
(* last list, as the code allows.                                          *)
MCRegions == {<<3, 0>>, <<2, 9>>, <<4, 13>>}

(* A handles requests below 10, B those below 100. *)
MCLimit == [b \in Boxes |-> IF b = CHOOSE c \in Boxes : TRUE THEN 10 ELSE 100]

MCHosts == {[ip |-> 1, port |-> 10000, mac |-> 1], [ip |-> 2, port |-> 10001, mac |-> 2]}

(* Nothing, a word that takes the sum over its 16 bits, an odd number of   *)
(* bytes, and five bytes where send has room for four.                     *)
MCData == {<<>>, <<255, 255>>, <<1, 0, 255>>, <<1, 0, 255, 255>>, <<1, 2, 3, 4, 5>>}
=============================================================================
