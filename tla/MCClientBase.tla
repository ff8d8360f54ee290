------------------------------ MODULE MCClientBase ------------------------------
(* Instance of ClientBase for TLC: room for three entries, two commands that    *)
(* fit and two that are cut, one of them to a command that fits; all lines of   *)
(* up to three characters and some longer ones: a separator twice between two   *)
(* words, twice at either end, and a word more than there are rows.             *)
EXTENDS ClientBase, SequencesExt

CONSTANTS n1, n2, n3, short1, short2, long1, long2, prefix, a1, a2, x
MCNodes == {n1, n2, n3}
MCCmds == {short1, short2, long1, long2}
MCCut == short1 :> short1 @@ short2 :> short2 @@ long1 :> short2 @@ long2 :> prefix
MCAddrs == {a1, a2}
MayFail == {TRUE, FALSE}
MCLines ==
  BoundedSeq({Sep, x}, 3) \cup
    {<<x, Sep, Sep, x>>, <<Sep, Sep, x, x>>, <<x, x, Sep, Sep>>, <<Sep, x, Sep, x>>,
     <<x, Sep, x, Sep, x>>, <<Sep, x, x, x, Sep>>}
Symmetry == Permutations(MCNodes) \cup Permutations(MCAddrs)
================================================================================
