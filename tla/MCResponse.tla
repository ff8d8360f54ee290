-------------------------------- MODULE MCResponse ------------------------------
(* Instance of Response and Listing for TLC: "." and two entries, a list that   *)
(* grows by two, allocations that fail, and files of up to four blocks, one     *)
(* more than an int of three bits can count.                                    *)
EXTENDS Response

ThreeNames == 0 .. 2
OneDot == {0}
================================================================================
