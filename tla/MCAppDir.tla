------------------------------ MODULE MCAppDir ------------------------------
(***************************************************************************)
(* One process and its directory, killed once, the power cut once, one     *)
(* fault of the disk, in any order: a kill may meet the launch that        *)
(* repairs what the cut left, and a second launch whatever both left.      *)
(***************************************************************************)
EXTENDS AppDir

MCFriend == {"friend"}
MCBlob == {"photo"}
=============================================================================
