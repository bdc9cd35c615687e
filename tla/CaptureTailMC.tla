---------------------------- MODULE CaptureTailMC ----------------------------
(* Values of the constants of CaptureTail for TLC: 10 is a space, 11, 12   *)
(* and 13 are letters, 1 is the only digit.                                *)
EXTENDS CaptureTail

MCOpenAIKey == <<11, 12>>
MCAnthropicKey == <<13, 12>>

==============================================================================
