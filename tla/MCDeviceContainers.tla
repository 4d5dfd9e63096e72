------------------------- MODULE MCDeviceContainers -------------------------
(* Two processes, one bundle, two files: one to upload, one to leave alone.  *)
EXTENDS DeviceContainers, TLC
=============================================================================
