--------------------------- MODULE MCLocalReceivers ---------------------------
(* The bounds callers give receive_batch: exactly two, or two and the rest; *)
(* with the minimum above the maximum the call is refused.                  *)
EXTENDS LocalReceivers

MCBounds == {<<2, 2>>, <<2, MaxMessages + 1>>, <<2, 1>>}
==============================================================================
