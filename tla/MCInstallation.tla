---------------------------- MODULE MCInstallation ----------------------------
(***************************************************************************)
(* A tree in somebody's home, changed up to twice, and up to three         *)
(* scripts: enough for an old installation, a cut one over it, and the     *)
(* one that must put things right, or two kinds of installation and an     *)
(* uninstallation.                                                         *)
(***************************************************************************)
EXTENDS Installation

MCTree == <<"home", "root_lang">>
===============================================================================
