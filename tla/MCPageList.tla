------------------------------ MODULE MCPageList ------------------------------
(***************************************************************************)
(* Small instances of PageList.                                            *)
(***************************************************************************)
EXTENDS PageList, TLC

CONSTANTS t1, t2, p1, p2, p3, end

===============================================================================
