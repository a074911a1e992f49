----------------------------- MODULE MCTypeset -----------------------------
(* A window with its preview and its print, and two windows whose previews  *)
(* make the same file.                                                      *)
EXTENDS Typeset, TLC

CONSTANTS preview, print

OwnFiles == preview :> "preview.pdf" @@ print :> "print.svg"
OneFile == preview :> "preview.pdf" @@ print :> "preview.pdf"
=============================================================================
