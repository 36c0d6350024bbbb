---------------------------- MODULE MCHtmlFixups ----------------------------
EXTENDS HtmlFixups

Tag(name) == <<"<", name, ">">>
End(name) == <<"<", "/", name, ">">>

\* Units a well-formed page is put together from.
Blank == Tag("span") \o <<" ">> \o End("span")
Line == Tag("div") \o <<"x">> \o End("div")
Inline ==
    {<<"x">>, <<" ">>, Blank,
     <<"<", "span", " ", ">", "nl", " ", "<", "/", "span", " ", ">">>,
     Tag("span") \o <<"x">> \o End("span"), Tag("span") \o End("span")}
Lines == {Line, Tag("li") \o Line \o End("li"), Tag("div") \o Blank \o <<"x">> \o End("div")}

MCTidyPages ==
    {FlattenSeq(u) : u \in BoundedSeq(Inline, 3)} \cup
    {Tag("pre") \o FlattenSeq(u) \o End("pre") \o <<"x">> :
        u \in BoundedSeq(Inline \cup Lines, 3)}

\* Pieces of pages that need not be well-formed.
Pieces ==
    {<<"x">>, <<" ">>, <<"'">>, <<"dq">>, <<">">>, <<"<", "span">>, <<"<", "span", "x">>,
     <<"<", "span", " ">>, <<"<", "/", "span">>, End("span"),
     <<"<", "pre", "/">>, End("pre"), End("div")}

MCPages ==
    MCTidyPages
    \cup {FlattenSeq(u) : u \in BoundedSeq(Pieces, 3)}
=============================================================================
