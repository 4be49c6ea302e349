--------------------------- MODULE AddressSpaces ---------------------------
(***************************************************************************)
(* What board_init of exercise 5 promises about memory (01_cuat/tp_01_05): *)
(* mapping a page changes the translation of that page in the table being  *)
(* built and nothing else, and once the MMU is on every table is the       *)
(* intended one, for good.                                                 *)
(***************************************************************************)
CONSTANTS
    Tables,     \* the kernel's table and the tasks'
    Pages,      \* pages of either address space that may be mapped
    Intended    \* the translation each table is to have

VARIABLES
    space,      \* the translation each table gives: pages to pages
    sealed      \* is the MMU on

SpacesInit ==
    /\ space = [t \in Tables |-> [v \in {} |-> v]]
    /\ sealed = FALSE

\* Virtual page v of table t now is physical page p, whatever it was.
MapPage(t, v, p) ==
    /\ ~sealed
    /\ space' = [space EXCEPT ![t] =
                    [w \in DOMAIN @ \cup {v} |-> IF w = v THEN p ELSE @[w]]]
    /\ UNCHANGED sealed

Seal ==
    /\ ~sealed
    /\ space = Intended
    /\ sealed' = TRUE
    /\ UNCHANGED space

SpacesNext ==
    \/ \E t \in Tables, v \in Pages, p \in Pages : MapPage(t, v, p)
    \/ Seal

SpacesSpec == SpacesInit /\ [][SpacesNext]_<<space, sealed>>
=============================================================================
