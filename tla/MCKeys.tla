-------------------------------- MODULE MCKeys --------------------------------
(* Two addresses; the handle at one was opened before the sessions.          *)
EXTENDS Keys
MCRoots == {<<"S">>}
MCRel == <<"x">>
MCBefore == 1 :> <<"R">>
=============================================================================
