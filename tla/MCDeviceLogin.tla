---------------------------- MODULE MCDeviceLogin ---------------------------
(* TLC instances of DeviceLogin.                                           *)
EXTENDS DeviceLogin, TLC
=============================================================================
