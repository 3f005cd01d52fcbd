---------------------------- MODULE MCMediaDevices ----------------------------
(* Instances of MediaDevices for TLC. *)
EXTENDS MediaDevices

CONSTANTS usb1, usb10, x, y

MCRank == (usb1 :> 1) @@ (usb10 :> 2)
MCFiles == (usb1 :> {x}) @@ (usb10 :> {y})
MCPrefixOf == {<<usb1, usb10>>}
MCQueues == {<<y, x>>}
==============================================================================
