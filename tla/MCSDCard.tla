------------------------------ MODULE MCSDCard ------------------------------
(***************************************************************************)
(* Cards for SDCard.  A sector is two bytes and an address has three bits, *)
(* so that block 4 wraps to address 0 on a standard capacity card as block *)
(* 2^23 does.  Standard capacity cards have three sectors and high         *)
(* capacity cards two; 2 is a sector of one and beyond the other.          *)
(***************************************************************************)
EXTENDS SDCard

Sizes == [k \in Kinds |-> IF k = "HC" THEN 2 ELSE 3]
=============================================================================
