----------------------------- MODULE MCServing ------------------------------
(* Headers for files of up to three bytes: numbers inside, at the end of   *)
(* and past the file.                                                      *)
EXTENDS Serving

Numbers == {0, 1, 2, 4, Blank, Bad}
Headers == [from : Numbers, to : Numbers] \cup {NoHeader}
=============================================================================
