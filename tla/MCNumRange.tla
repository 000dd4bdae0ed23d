----------------------------- MODULE MCNumRange -----------------------------
(* Values of the constants of NumRange for TLC. *)
EXTENDS NumRange

CONSTANTS s1, s2, s3

ThreeServers == {s1, s2, s3}
FirstNumbers == {1, 3, 5}

=============================================================================
