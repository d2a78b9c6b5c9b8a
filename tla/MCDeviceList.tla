---------------------------- MODULE MCDeviceList ----------------------------
(***************************************************************************)
(* Small instances of DeviceList for TLC: keys of two characters.          *)
(***************************************************************************)
EXTENDS DeviceList

CONSTANTS a, b

\* The keys a fresh UUID may give this device.
MCOwnKey == {<<a, a>>, <<a, b>>}
\* A key cut short, this device's own and two others.
MCTyped == {<<a>>, <<a, a>>, <<b, a>>, <<b, b>>}
=============================================================================
