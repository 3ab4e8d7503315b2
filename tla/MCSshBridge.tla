------------------------------ MODULE MCSshBridge ------------------------------
(* Constants and symmetry for checking SshBridge.                          *)
EXTENDS SshBridge, TLC

CONSTANTS s1, s2, s3, d1, d2

TwoSessions   == {s1, s2}
ThreeSessions == {s1, s2, s3}

OneDevice  == {d1}
TwoDevices == {d1, d2}

Interchangeable == Permutations(Session) \cup Permutations(Device)
===============================================================================
