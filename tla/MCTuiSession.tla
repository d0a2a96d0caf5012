---------------------------- MODULE MCTuiSession ----------------------------
(* A list of two rows: a library and an image of it. *)
EXTENDS TuiSession, TLC

CONSTANTS lib, img

TwoUnits == {lib, img}
ImageOfLib == (lib :> {} @@ img :> {lib})

=============================================================================
