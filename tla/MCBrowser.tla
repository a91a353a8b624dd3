------------------------------ MODULE MCBrowser ------------------------------
(***************************************************************************)
(* One browser window for TLC: two questions, so that one is still being   *)
(* answered on a page that was left while the next is asked, two sessions, *)
(* so that an answer can come late into the second or be gone by it, and   *)
(* one source to upload.                                                   *)
(***************************************************************************)
EXTENDS Browser

CONSTANTS u1

OneUpload == {u1}
=============================================================================
