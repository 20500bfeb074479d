----------------------------- MODULE MCReadTest -----------------------------
(***************************************************************************)
(* The starts of the read test for TLC: a configuration file cannot hold a *)
(* negative number, which start_lba accepts.                               *)
(***************************************************************************)
EXTENDS ReadTestProps

MCScanStarts == {-2, 0, 3}
=============================================================================
