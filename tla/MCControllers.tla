---------------------------- MODULE MCControllers ----------------------------
(* Values for the constants of Controllers.tla that a configuration cannot write. *)
EXTENDS Controllers

MCScanCodes == {<<1, 0>>}
MCBreak == <<1, 1>>
MCSendEnd == <<0, 1>>
\* Nothing, both pairs of opposites, and one button of each.
MCPresses == {{}, 0 .. 3, {1, 2}}
=============================================================================
