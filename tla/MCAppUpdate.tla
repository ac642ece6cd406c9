----------------------------- MODULE MCAppUpdate -----------------------------
(***************************************************************************)
(* Values of AppUpdate's constants for TLC.  "good" confirms itself,       *)
(* "crashy" passes verification but never confirms itself, "corrupt" has   *)
(* the magic byte only, and "text" not even that.                          *)
(***************************************************************************)
EXTENDS AppUpdate

AllImages == {"good", "crashy", "corrupt", "text"}
AllMagic  == {"good", "crashy", "corrupt"}
Apps      == {"good", "crashy"}
Good      == {"good"}
=============================================================================
