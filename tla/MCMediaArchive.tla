--------------------------- MODULE MCMediaArchive ---------------------------
(***************************************************************************)
(* Three media of one name: i1 and i2 have one content under two media     *)
(* identities, i2 and i3 are one media in two qualities.                   *)
(***************************************************************************)
EXTENDS MediaArchive, TLC

CONSTANTS i1, i2, i3, u1, u2, u3, n1, m1, m2, c1, c2

MCUrlOf == i1 :> u1 @@ i2 :> u2 @@ i3 :> u3
MCNameOf == i1 :> n1 @@ i2 :> n1 @@ i3 :> n1
MCKeyOf == u1 :> m1 @@ u2 :> m2 @@ u3 :> m2
MCContentOf == u1 :> c1 @@ u2 :> c1 @@ u3 :> c2
=============================================================================
