-------------------------- MODULE MCExtractCascade --------------------------
(***************************************************************************)
(* The constants of util/extract.rs, with lengths on both sides of each of *)
(* them, of their products with the ratios and of six caps: the default,   *)
(* one of two bytes, and both sides of each floor.  Markers are none, or   *)
(* 100 with or without a space beside.                                     *)
(***************************************************************************)
EXTENDS ExtractCascade

MCLengths == {1, 9, 10, 59, 60, 199, 200, 1499, 1500, 2999, 3000, 49999, 50000}

String(n, m, s, i) == [len |-> n, marks |-> m, near |-> s, ink |-> i]

MCMarkdown ==
    {NoString, String(300, 100, 0, FALSE)}
    \cup {String(n, 0, 0, TRUE) : n \in MCLengths}
    \cup {String(n, 100, s, TRUE) : n \in {1699, 1700, 3200, 50000}, s \in {0, 100}}

MCText ==
    {NoString, String(4, 1, 1, FALSE), String(59, 0, 0, TRUE),
     String(1500, 0, 0, TRUE), String(2999, 0, 0, TRUE), String(3000, 0, 0, TRUE),
     String(50000, 1, 1, TRUE)}

MCWhole == {0, 33, 199, 200, 667, 5000, 9996, 9997, 29980, 60000, 996000, 999980, 1000001}

MCPages ==
    {p \in [raw : {524287, 524288, 2000000}, markdown : BOOLEAN,
            cap : {2, 1499, 1500, 2999, 3000, 50000}, ok : BOOLEAN,
            md : MCMarkdown, text : MCText, whole : MCWhole] :
        /\ p.whole <= p.raw
        /\ p.md.len <= p.cap /\ p.text.len <= p.cap
        /\ ~p.markdown => p.md = NoString
        /\ ~p.ok => p.md = NoString /\ p.text = NoString}
=============================================================================
