----------------------------- MODULE MCEfrisQueue -----------------------------
(* Two rows in creation order.  Documents and codes are interchangeable, so    *)
(* the first registration may be fixed; the second is of the same document    *)
(* under the same code, of it under another code, or of another document.     *)
EXTENDS EfrisQueue, TLC

CONSTANTS d1, d2, c1, c2

MCRows == 1..2
MCBodies == <<{<<d1, c1>>}, {<<d1, c1>>, <<d1, c2>>, <<d2, c1>>}>>
=============================================================================
