------------------------------ MODULE MCDevice ------------------------------
(***************************************************************************)
(* Device with samples of two bytes, a FIFO of five, and four things       *)
(* config.ini may hold, one of which gives a coefficient twice, and one    *)
(* names a coefficient there is not.                                       *)
(***************************************************************************)
EXTENDS Device

CONSTANT NoValue

MCFiles ==
    {[window |-> 1, lines |-> <<<<2, 11>>, <<1, 10>>>>],
     [window |-> 4, lines |-> <<<<1, 20>>>>],
     [window |-> NoValue, lines |-> <<<<2, 20>>, <<2, 21>>>>],
     [window |-> 2, lines |-> <<<<2, 30>>, <<3, 31>>>>]}
=============================================================================
