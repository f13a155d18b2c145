------------------------------ MODULE MCChunking ------------------------------
(***************************************************************************)
(* Chunking for TLC: every short content, and longer ones made of up to    *)
(* four words; small windows with every relation of overlap and minimum.   *)
(***************************************************************************)
EXTENDS Chunking

Word(n)  == [i \in 1..n |-> "c"]
Words    == {Word(1), Word(3), Word(6)}
Breaks   == {<<"s">>, <<"n", "n">>}

MCDocuments ==
    {d \in UNION {[1..n -> Characters] : n \in 1..5} : "c" \in Range(d)}
    \cup {v \o b \o w : v, w \in Words, b \in Breaks}
    \cup {u \o a \o v \o b \o w \o e \o x :
             u, v, w, x \in Words, a, b, e \in Breaks}

MCConfigs ==
    [max : {6}, overlap : {0, 2, 3, 5}, min : {1, 3, 6}]
=============================================================================
