---------------------------- MODULE MCRemoteTape ----------------------------
(* The remote tape with a device name of 14 letters: longer than two       *)
(* buffers of six, so that rmt performs its last four as commands: S, s    *)
(* with the letter after it, and V.                                        *)
EXTENDS RemoteTape

MCNameText ==
    <<"name", "name", "name", "name", "name", "name", "name", "name", "name", "name",
      "S", "s", "name", "V">>
=============================================================================
