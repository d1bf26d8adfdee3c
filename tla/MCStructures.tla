---------------------------- MODULE MCStructures ----------------------------
(***************************************************************************)
(* The three pieces of the kernel that share no state with anything else:  *)
(* the lists, the bitmaps and the keyboard's decoder.  One run explores    *)
(* them, each on its own while the other two are in their initial states,  *)
(* so that it visits the sum of their states and not the product.          *)
(*                                                                         *)
(* Two lists exchange three elements.  The bitmap's bytes have a few bits, *)
(* so that runs cross them.  The keyboard has one key of each modifier,    *)
(* the extended ones among them, an extended key the handler does not      *)
(* know, and three character keys.                                         *)
(***************************************************************************)
EXTENDS List, Bitmap, KeyDecode

CONSTANTS e1, e2, e3, l1, l2

Plain(code) == [ext |-> FALSE, code |-> code]
Ext(code) == [ext |-> TRUE, code |-> code]

OneOfEach == {Plain(shift_l_make), Ext(ctrl_l_make), Ext(alt_l_make),
              Plain(caps_lock_make), Ext(72), Plain(30), Plain(38), Plain(2)}

ASSUME OneKeyEachAssumption == OneKeyEach

AllInit == Init /\ BitmapInit /\ DecodeInit

AllNext ==
  \/ /\ BitmapInit /\ DecodeInit
     /\ Next
     /\ UNCHANGED <<bitmap_vars, decode_vars>>
  \/ /\ Init /\ DecodeInit
     /\ BitmapNext
     /\ UNCHANGED <<vars, decode_vars>>
  \/ /\ Init /\ BitmapInit
     /\ DecodeNext
     /\ UNCHANGED <<vars, bitmap_vars>>

AllSpec == AllInit /\ [][AllNext]_<<vars, bitmap_vars, decode_vars>>
=============================================================================
