-------------------------- MODULE MCAddressConfig --------------------------
(***************************************************************************)
(* Two AutoIP stations whose hardware addresses differ in a byte that does *)
(* not go into the first address: they try the same addresses in turn.     *)
(***************************************************************************)
EXTENDS AddressConfig

SameSeed == <<0, 0>>
OtherRand == <<0, 1>>
=============================================================================
