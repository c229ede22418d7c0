----------------------------- MODULE MCBtRunner -----------------------------
(* The model-checked instance of BtRunner: every run of at most MaxMotions. *)
EXTENDS BtRunner

=============================================================================
