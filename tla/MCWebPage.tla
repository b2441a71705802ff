------------------------------ MODULE MCWebPage ------------------------------
(* Model of WebPage for TLC. *)
EXTENDS WebPage
=============================================================================
