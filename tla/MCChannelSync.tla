--------------------------- MODULE MCChannelSync ---------------------------
(* Model-checking entry point for ChannelSync.                              *)
EXTENDS ChannelSync
=============================================================================
