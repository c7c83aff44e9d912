------------------------------- MODULE Ranges -------------------------------
(***************************************************************************)
(* The byte ranges of http.rs: parse_range turns a Range header and the    *)
(* size of a file into the first and last byte to serve, or into nothing,  *)
(* and then the whole file is served.                                      *)
(*                                                                         *)
(* Abstracted: the text of the header.  It is the two numbers around the   *)
(* dash of its first range; a header that is missing, in another unit or   *)
(* without a dash is NoHeader.                                             *)
(***************************************************************************)
EXTENDS Integers

CONSTANTS
    Blank,      \* a number that is not there
    Bad,        \* a text that is not a number
    NoHeader,   \* no range that could be read
    Whole       \* no range to serve

ASSUME RangesAssumption == /\ Blank \notin Nat /\ Bad \notin Nat /\ Blank # Bad
                           /\ NoHeader \notin [from : Nat \cup {Blank, Bad}, to : Nat \cup {Blank, Bad}]
                           /\ Whole \notin [first : Nat, last : Nat]

Header == [from : Nat \cup {Blank, Bad}, to : Nat \cup {Blank, Bad}]

Smaller(a, b) == IF a < b THEN a ELSE b

(* "-n" needs a number other than 0, "a-b" and "a-" a first number. *)
Readable(h) == IF h.from = Blank THEN h.to \in Nat \ {0}
               ELSE h.from \in Nat /\ h.to \in Nat \cup {Blank}

First(h, total) == IF h.from = Blank THEN total - Smaller(h.to, total) ELSE h.from

Last_Unclamped(h, total) == IF Blank \in {h.from, h.to} THEN total - 1 ELSE h.to

Last(h, total) == IF Blank \in {h.from, h.to} THEN total - 1 ELSE Smaller(h.to, total - 1)

ParseRange(h, total) ==
    IF /\ total > 0 /\ h # NoHeader /\ Readable(h)
       /\ First(h, total) <= Last(h, total) /\ First(h, total) < total
    THEN [first |-> First(h, total), last |-> Last(h, total)]
    ELSE Whole

(* What `ranged` sends: it seeks to the first byte and takes `len` bytes. *)
ContentLength(range, total) == IF range = Whole THEN total ELSE range.last - range.first + 1

Start(range) == IF range = Whole THEN 0 ELSE range.first

Part(range, total) == Start(range) .. (Start(range) + ContentLength(range, total) - 1)

-----------------------------------------------------------------------------
(* The reference: what a header asks for, byte by byte, and what is to be  *)
(* served: that, or the whole file when it asks for none of its bytes.     *)

Wants(h, byte, total) ==
    /\ h # NoHeader /\ Readable(h)
    /\ \/ h.from = Blank /\ byte >= total - h.to
       \/ h.from # Blank /\ byte >= h.from /\ (h.to = Blank \/ byte <= h.to)

AskedPart(h, total) ==
    LET wanted == {byte \in 0 .. (total - 1) : Wants(h, byte, total)}
    IN  IF wanted = {} THEN 0 .. (total - 1) ELSE wanted
=============================================================================
