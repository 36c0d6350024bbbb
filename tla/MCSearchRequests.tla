-------------------------- MODULE MCSearchRequests --------------------------
EXTENDS SearchRequests

Hit(id, kl, grade, words, host) ==
    [id |-> id, kl |-> kl, grade |-> grade, link |-> "web", titled |-> TRUE,
     words |-> words, host |-> host]

\* DuckDuckGo's grade and the local list miss different hits.
MCCorpus ==
    [rust |-> <<Hit(1, "us-en", 0, {}, {}),
                Hit(2, "us-en", 0, {"adult"}, {}),
                [Hit(3, "us-en", 0, {}, {}) EXCEPT !.link = "script"],
                Hit(4, "us-en", 0, {}, {"porn"}),
                Hit(5, "de-de", 1, {}, {}),
                Hit(6, "us-en", 2, {}, {}),
                [Hit(7, "us-en", 0, {}, {}) EXCEPT !.titled = FALSE],
                Hit(8, "us-en", 0, {}, {})>>,
     cats |-> <<Hit(1, "de-de", 0, {}, {})>>,
     long |-> <<Hit(1, "us-en", 0, {}, {})>>,
     blank |-> <<>>]

MCRegion == [en |-> "us-en", de |-> "de-de"]

Query(text, length, padded) == [text |-> text, length |-> length, padded |-> padded]
Lang(code, tidy) == [code |-> code, tidy |-> tidy]

Usual ==
    [query : {Query("rust", 4, FALSE), Query("rust", 4, TRUE)}, page : {1, 2},
     safe : {Absent, 0, 2}, lang : {Absent, Lang("en", TRUE)}]

Plain == [query |-> Query("rust", 4, FALSE), page |-> 1, safe |-> 0, lang |-> Absent]

MCAsks ==
    Usual
    \cup [query : {Absent, Query("blank", 0, TRUE), Query("long", 9, FALSE), Query("cats", 4, FALSE)},
          page : {1}, safe : {0}, lang : {Absent}]
    \cup {[Plain EXCEPT !.page = p] : p \in {Absent, NotANumber, 0, 3, 4, 5, 6}}
    \cup {[Plain EXCEPT !.safe = s] : s \in {NotANumber, 1, 3, 4, 6}}
    \cup {[Plain EXCEPT !.lang = l] :
             l \in {Lang("en", FALSE), Lang("de", TRUE), Lang("ja", TRUE), Lang("eng", TRUE)}}

MCUrls == {"blank", "malformed", "good"}

Line(method, tool, ask, url) ==
    [json |-> TRUE, id |-> TRUE, method |-> method, tool |-> tool, ask |-> ask, url |-> url]

MCLines ==
    {Line("tools/call", "serica_search", a, "absent") : a \in MCAsks}
    \cup {Line("tools/call", "serica_extract", Plain, u) : u \in MCUrls \cup {"absent"}}
    \cup {Line(m, "serica_search", Absent, "absent") :
             m \in {"initialize", "tools/list", "tools/call", "other", "notifications/initialized"}}
    \cup {Line("tools/call", "other", Plain, "absent"),
          [Line("tools/call", "serica_search", Plain, "absent") EXCEPT !.id = FALSE],
          [Line("other", "other", Absent, "absent") EXCEPT !.json = FALSE]}

MCStrict == {"porn", "adult"}
MCModerate == {"porn"}
=============================================================================
