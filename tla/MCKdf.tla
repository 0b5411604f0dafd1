------------------------------- MODULE MCKdf --------------------------------
(* Calls around every boundary of the code, with blocks of 8 bytes, digests *)
(* of 2 and words of 7 bits: a key longer than a block, salts that end just *)
(* before and after the place of the length, a count that carries into the  *)
(* high word, keys that end inside a block of the output.                   *)
EXTENDS Kdf

MCCalls ==
    [passwdLen : {0, 1, 8, 9}, saltLen : {0, 4, 5, 6, 7, 8, 9, 23, 24},
     c : {1}, dkLen : {1, 2, 5}]
    \union
    [passwdLen : {3, 9}, saltLen : {0, 6, 8}, c : {2, 3}, dkLen : {3}]
=============================================================================
