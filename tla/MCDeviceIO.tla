----------------------------- MODULE MCDeviceIO -----------------------------
(***************************************************************************)
(* Three tasks of one resource group, a device with a subunit, two         *)
(* descriptors and two requests.                                           *)
(***************************************************************************)
EXTENDS TKDeviceIO

\* Two modes that exclude each other.
TwoModes == {{"READ", "WRITE"}, {"READ", "WEXCL"}}

=============================================================================
