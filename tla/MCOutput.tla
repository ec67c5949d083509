------------------------------ MODULE MCOutput ------------------------------
(* A screen of two by two characters, with pixels to spare.  One font lists   *)
(* a character twice, and one in an entry that does not end; one has no table. *)
EXTENDS Output

CONSTANTS c1, c2

TwoFonts == {<<1, END, 2, END, 1, END, 2>>, NoTable}
Short == [serial |-> {<<1, NL>>}, screen |-> {<<1, NL>>, <<2, 1, 2>>}]
Letter == <<1>>
=============================================================================
