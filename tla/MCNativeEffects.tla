--------------------------- MODULE MCNativeEffects ---------------------------
(* One effect, two attempts at it, two route generations, two epochs.        *)
EXTENDS NativeEffects
=============================================================================
