--------------------------- MODULE MCCiValidation ---------------------------
(* Two cases of one family: the target b of the second imports that of the *)
(* first, which imports a module that nobody lists.  The second versions   *)
(* of a and b import nothing.                                              *)
EXTENDS CiValidation, TLC

CONSTANTS c1, c2, a, b, common, fam

MCFamilyOf == [c \in Case |-> fam]

MCTarget == c1 :> a @@ c2 :> b

MCLists == c1 :> << {a}, {a, common} >> @@ c2 :> << {a, b}, {b} >>

MCImports == a :> << {common}, {} >> @@ b :> << {a}, {} >> @@ common :> << {}, {} >>
=============================================================================
