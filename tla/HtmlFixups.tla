----------------------------- MODULE HtmlFixups -----------------------------
(***************************************************************************)
(* The scanners around the extraction library, in the order in which       *)
(* extract_from_html_impl (util/extract.rs) runs them on a page:           *)
(*   spans    preserve_whitespace_only_spans (util/codespan_fixup.rs),     *)
(*   lines    preserve_code_block_line_breaks (util/codeblock_linebreaks), *)
(*   extract  the library, which deletes blank spans and joins the text of *)
(*            a <pre> without separators,                                  *)
(*   restore  restore_whitespace_placeholders.                             *)
(*                                                                         *)
(* A page is a sequence of bytes, where a tag name counts as one byte and  *)
(* "x" is any byte the scanners do not look for.  One action is one round  *)
(* of a scanner's loop.                                                    *)
(***************************************************************************)
EXTENDS Integers, SequencesExt, FiniteSetsExt, Filter

CONSTANTS
    Pages,      \* the pages considered
    TidyPages   \* those of them on which the library's answer is known

ASSUME FixupsAssumption ==
    /\ TidyPages \subseteq Pages
    /\ \A p \in Pages : p \in Seq(ToSet(p))

VARIABLES
    page,     \* the page
    pass,     \* "spans", "lines", "extract", "restore", "done"
    input,    \* what the present pass reads
    i,        \* its position in it
    inPre,    \* in_pre of the second pass
    out       \* what it has written

scanVars == <<page, pass, input, i, inPre, out>>

Marker == "U+E000"           \* WHITESPACE_SENTINEL
Space == {" ", "nl"}
Quotes == {"'", "dq"}
LineTags == {"div", "li"}    \* LINE_BOUNDARY_CLOSE_TAGS

-----------------------------------------------------------------------------
(* What the scanners look for                                              *)

At(s, k) == IF k \in DOMAIN s THEN s[k] ELSE "eof"

Least(default) == [S \in SUBSET Nat |-> IF S = {} THEN default ELSE Min(S)]

\* is_span_open_at, is_tag_open_at: a tag name and the end of a name.
OpensTag(s, k, name) ==
    /\ At(s, k) = "<"
    /\ At(s, k + 1) = name
    /\ At(s, k + 2) \in Space \cup {">", "/"}

\* What a byte makes of the quote that is open before it.
Turn(byte) ==
    [quote \in Quotes \cup {"none"} |->
        IF quote = "none" /\ byte \in Quotes THEN byte
        ELSE IF quote = byte THEN "none" ELSE quote]

\* find_tag_end: the first ">" outside quotes; 0 for None.
TagEnd(s, from) ==
    LET quote[k \in from..Len(s)] ==
            IF k = from THEN "none" ELSE Turn(s[k - 1])[quote[k - 1]]
    IN Least(0)[{k \in from..Len(s) : s[k] = ">" /\ quote[k] = "none"}]

\* span_close_len, closing_tag_len: where a closing tag ends; 0 for None.
CloseEnd(s, k, name) ==
    LET end == Least(0)[{n \in (k + 3)..Len(s) : s[n] \notin Space}]
    IN IF /\ At(s, k) = "<" /\ At(s, k + 1) = "/" /\ At(s, k + 2) = name
          /\ At(s, end) = ">"
       THEN end
       ELSE 0

NextLt(s, from) == Least(Len(s) + 1)[{k \in from..Len(s) : s[k] = "<"}]

Goto(k) == i' = k /\ UNCHANGED <<page, pass, input>>

CopyTo(k) == out' = out \o SubSeq(input, i, k) /\ Goto(k + 1)

\* Text up to the next "<" is copied in one go.
CopyRun ==
    /\ pass \in {"spans", "lines"}
    /\ i <= Len(input) /\ input[i] # "<"
    /\ CopyTo(NextLt(input, i) - 1)
    /\ UNCHANGED inPre

-----------------------------------------------------------------------------
(* preserve_whitespace_only_spans                                          *)

AtSpan == pass = "spans" /\ OpensTag(input, i, "span")

\* The next "<" after the opening tag that ends at s[e], if what lies
\* between is white space and not empty, and a </span> begins there.
BlankUpTo(s, e) ==
    LET j == NextLt(s, e + 1)
    IN IF j > e + 1 /\ \A k \in (e + 1)..(j - 1) : s[k] \in Space
       THEN CloseEnd(s, j, "span")
       ELSE 0

\* Bug: the closing tag is copied but not skipped.
Bug_ResumeAtClose ==
    /\ AtSpan
    /\ LET e == TagEnd(input, i)
           c == BlankUpTo(input, e)
       IN /\ e # 0 /\ c # 0
          /\ out' = out \o SubSeq(input, i, e) \o <<Marker>>
                        \o SubSeq(input, NextLt(input, e + 1), c)
          /\ Goto(NextLt(input, e + 1))
    /\ UNCHANGED inPre

MarkBlankSpan ==
    /\ AtSpan
    /\ LET e == TagEnd(input, i)
           c == BlankUpTo(input, e)
       IN /\ e # 0 /\ c # 0
          /\ out' = out \o SubSeq(input, i, e) \o <<Marker>>
                        \o SubSeq(input, NextLt(input, e + 1), c)
          /\ Goto(c + 1)
    /\ UNCHANGED inPre

KeepSpanTag ==
    /\ AtSpan
    /\ LET e == TagEnd(input, i)
       IN e # 0 /\ BlankUpTo(input, e) = 0 /\ CopyTo(e)
    /\ UNCHANGED inPre

\* Bug: a "<span" without its ">" is looked at again and again.
Bug_StayAtLt ==
    /\ pass = "spans" /\ At(input, i) = "<"
    /\ AtSpan => TagEnd(input, i) = 0
    /\ IF AtSpan THEN UNCHANGED <<page, pass, input, i, out>> ELSE CopyTo(i)
    /\ UNCHANGED inPre

\* Another tag, or a "<span" that is never closed: the "<" is text.
PlainLt ==
    /\ pass = "spans" /\ At(input, i) = "<"
    /\ AtSpan => TagEnd(input, i) = 0
    /\ CopyTo(i)
    /\ UNCHANGED inPre

SpansEnd ==
    /\ pass = "spans" /\ i > Len(input)
    /\ pass' = "lines"
    /\ input' = out /\ i' = 1 /\ out' = <<>>
    /\ UNCHANGED <<page, inPre>>

-----------------------------------------------------------------------------
(* preserve_code_block_line_breaks                                         *)

AtPre == pass = "lines" /\ ~inPre /\ OpensTag(input, i, "pre")
AtPreEnd == pass = "lines" /\ inPre /\ CloseEnd(input, i, "pre") # 0
LineEnd(s, k) == Least(0)[{CloseEnd(s, k, t) : t \in LineTags} \ {0}]
AtLineEnd == pass = "lines" /\ inPre /\ LineEnd(input, i) # 0

EnterPre ==
    /\ AtPre /\ TagEnd(input, i) # 0
    /\ CopyTo(TagEnd(input, i))
    /\ inPre' = TRUE

LeavePre ==
    /\ AtPreEnd
    /\ CopyTo(CloseEnd(input, i, "pre"))
    /\ inPre' = FALSE

\* Bug: a line that begins with a tag is taken for separated.
Bug_BreakBeforeText(s, k) == At(s, k) \notin Space \cup {"eof", "<"}

\* needs_break: what follows is neither white space, the end, nor a closing
\* tag.
NeedsBreak(s, k) ==
    /\ At(s, k) \notin Space \cup {"eof"}
    /\ ~(At(s, k) = "<" /\ At(s, k + 1) = "/")

EndLine ==
    /\ AtLineEnd /\ ~AtPreEnd
    /\ LET e == LineEnd(input, i)
       IN /\ out' = out \o SubSeq(input, i, e)
                        \o IF NeedsBreak(input, e + 1) THEN <<"nl">> ELSE <<>>
          /\ Goto(e + 1)
    /\ UNCHANGED inPre

OtherLt ==
    /\ pass = "lines" /\ At(input, i) = "<"
    /\ AtPre => TagEnd(input, i) = 0
    /\ ~AtPreEnd /\ ~AtLineEnd
    /\ CopyTo(i)
    /\ UNCHANGED inPre

LinesEnd ==
    /\ pass = "lines" /\ i > Len(input)
    /\ pass' = IF page \in TidyPages THEN "extract" ELSE "done"
    /\ UNCHANGED <<page, input, i, inPre, out>>

-----------------------------------------------------------------------------
(* The library, on well-formed pages whose tags carry no quotes.           *)

InTag(s, k) ==
    \E a \in 1..k : s[a] = "<" /\ \A b \in a..(k - 1) : s[b] # ">"

\* Within a span without visible text: an element prune_html deletes.
InBlankSpan(s, k) ==
    \E a \in 1..k : /\ OpensTag(s, a, "span")
                    /\ LET j == NextLt(s, TagEnd(s, a) + 1)
                       IN /\ CloseEnd(s, j, "span") >= k
                          /\ \A b \in (TagEnd(s, a) + 1)..(j - 1) : s[b] \in Space

\* A <pre> is a block: whatever it stands between is apart.
BlockEdge(s, k) ==
    s[k] = "<" /\ (OpensTag(s, k, "pre") \/ CloseEnd(s, k, "pre") # 0)

LibraryText(s) ==
    LET Kept == {k \in DOMAIN s : BlockEdge(s, k) \/ ~(InTag(s, k) \/ InBlankSpan(s, k))}
    IN Keep([k \in DOMAIN s |-> IF BlockEdge(s, k) THEN "nl" ELSE s[k]])[Kept]

Extract ==
    /\ pass = "extract"
    /\ pass' = "restore"
    /\ input' = LibraryText(out) /\ i' = 1 /\ out' = <<>>
    /\ UNCHANGED <<page, inPre>>

-----------------------------------------------------------------------------
(* restore_whitespace_placeholders                                         *)

CopyChar ==
    /\ pass = "restore" /\ i <= Len(input) /\ input[i] # Marker
    /\ CopyTo(i)
    /\ UNCHANGED inPre

\* The marker takes one space on either side with it.
RestoreMarker ==
    /\ pass = "restore" /\ At(input, i) = Marker
    /\ out' = (IF out # <<>> /\ Last(out) = " " THEN Front(out) ELSE out) \o <<" ">>
    /\ Goto(IF At(input, i + 1) = " " THEN i + 2 ELSE i + 1)
    /\ UNCHANGED inPre

RestoreEnds ==
    /\ pass = "restore" /\ i > Len(input)
    /\ pass' = "done"
    /\ UNCHANGED <<page, input, i, inPre, out>>

-----------------------------------------------------------------------------

ScanInit ==
    /\ page \in Pages
    /\ pass = "spans"
    /\ input = page /\ i = 1 /\ out = <<>>
    /\ inPre = FALSE

ScanNext ==
    \/ CopyRun
    \/ MarkBlankSpan \/ KeepSpanTag \/ PlainLt \/ SpansEnd
    \/ EnterPre \/ LeavePre \/ EndLine \/ OtherLt \/ LinesEnd
    \/ Extract
    \/ CopyChar \/ RestoreMarker \/ RestoreEnds

ScanSpec == ScanInit /\ [][ScanNext]_scanVars /\ WF_scanVars(ScanNext)

-----------------------------------------------------------------------------
(* Properties                                                              *)

Ink(s) == Keep(s)[{k \in DOMAIN s : s[k] \notin Space \cup {Marker}}]

\* No scanner loses, repeats or reorders a byte of the page, well-formed or
\* not: apart from white space and the marker, what it has written is what it
\* has read, and what the scanners before the library read is the whole page.
\* The marker is left out because a spacer becomes one and then a space; a
\* U+E000 of the page's own, which the code says it takes for one and turns
\* into a space (codespan_fixup.rs:76-93), is therefore outside this property.
NothingLost ==
    /\ Ink(out) = Ink(SubSeq(input, 1, i - 1))
    /\ pass \in {"spans", "lines"} => Ink(input) = Ink(page)

\* Runs of visible bytes with single spaces between them.
Words(s) ==
    LET Add(w, b) == IF b \notin Space THEN Append(w, b)
                     ELSE IF w = <<>> \/ Last(w) = " " THEN w
                     ELSE Append(w, " ")
        w == FoldLeft(Add, <<>>, s)
    IN IF w # <<>> /\ Last(w) = " " THEN Front(w) ELSE w

\* The page as its author sees it: each closing line tag inside a <pre>
\* breaks the line, white space is white space wherever it stands.
InPreAt(s, k) ==
    \E a \in 1..k : /\ OpensTag(s, a, "pre")
                    /\ \A b \in a..k : CloseEnd(s, b, "pre") = 0

SeenText(s) ==
    LET Piece(k) == IF BlockEdge(s, k) \/ (InPreAt(s, k) /\ LineEnd(s, k) # 0)
                       THEN <<"nl">>
                    ELSE IF InTag(s, k) THEN <<>>
                    ELSE <<s[k]>>
    IN FlattenSeq([k \in DOMAIN s |-> Piece(k)])

\* What is served has the words of the page: neither a blank span nor a line
\* of a code block glues two words together, no word is torn, and no marker
\* is left.
WordsKept ==
    pass = "done" /\ page \in TidyPages => Words(out) = Words(SeenText(page))

\* The scanners come to an end on every page: each round moves on.
ScanEnds == <>(pass = "done")
=============================================================================
