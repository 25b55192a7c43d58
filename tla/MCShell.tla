------------------------------ MODULE MCShell -------------------------------
(* A small instance of Shell for TLC: three names for a registry of two. *)
EXTENDS Shell

ThreeNames == << <<"a">>, <<"a", "b">>, <<"b">> >>
=============================================================================
