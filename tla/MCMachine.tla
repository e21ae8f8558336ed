----------------------------- MODULE MCMachine -----------------------------
(* Machine for TLC.  DefaultConfig has the components of client.cfg that matter *)
(* here in the order they have there; LastConfig has fewer, the computer last, so   *)
(* that a pass survives the removal of a keyboard Lua has added behind it;         *)
(* KeyboardFirst lists a keyboard before its screen.                            *)
EXTENDS Machine, TLC

CONSTANTS screen, computer, kb, modem, kb2

DefaultConfig == <<screen, computer, kb, modem>>
LastConfig    == <<screen, kb, computer>>
KeyboardFirst == <<kb, screen, computer>>
=============================================================================
