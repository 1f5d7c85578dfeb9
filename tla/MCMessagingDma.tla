---------------------------- MODULE MCMessagingDma ----------------------------
(* Two pages of four words, so that every offset in a page and the wrap are met. *)
EXTENDS MessagingDma
=============================================================================
