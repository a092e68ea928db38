--------------------------- MODULE MCServerSleep ---------------------------
(***************************************************************************)
(* The instances of ServerSleep for TLC: one to three HTTP threads, and a  *)
(* signal which another thread than the main one takes.                    *)
(***************************************************************************)
EXTENDS ServerSleep

CONSTANTS c1, c2, c3

ThreeClients == {c1, c2, c3}
TwoClients   == {c1, c2}
OnOther      == {"other"}
=============================================================================
