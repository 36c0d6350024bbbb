--------------------------- MODULE ExtractCascade ---------------------------
(***************************************************************************)
(* extract_from_html_impl (util/extract.rs): what becomes of one fetched   *)
(* page.  The extraction library proposes Markdown or text; the audit may  *)
(* replace it by the text of the whole document, or throw it away; the     *)
(* rest is cut at extract.max_content_chars.                               *)
(*                                                                         *)
(* Text is kept as its length in bytes.  The library works on HTML whose   *)
(* whitespace-only spans hold a three-byte marker (util/codespan_fixup.rs) *)
(* and caps what it returns; the markers become single spaces after that.  *)
(***************************************************************************)
EXTENDS Integers

CONSTANTS
    Pages,                 \* the calls considered: page, library's answer, config
    Lengths,               \* the lengths KeepIsMonotone compares with
    WholeDocCheckFloor,    \* 3000
    HealthyMarkdownFloor,  \* 1500
    MinFallbackChars,      \* 200
    LargePageRawBytes,     \* 512 KiB
    RatioPercent,          \* 30
    LargeRatioPercent      \* 5

\* What the library returns: its bytes, the markers among them, the spaces
\* next to a marker that go with it, whether anything else is not blank.
RestoredLen(s) == s.len - 2 * s.marks - s.near

Strings ==
    {s \in [len : Nat, marks : Nat, near : Nat, ink : BOOLEAN] :
        /\ s.near <= 2 * s.marks
        /\ RestoredLen(s) >= 0
        /\ s.ink \/ s.marks > 0 => RestoredLen(s) > 0}

NoString == [len |-> 0, marks |-> 0, near |-> 0, ink |-> FALSE]

\* One call of extract_from_html_impl: raw_bytes, whether Markdown is wanted,
\* max_content_chars, what the library answers, the whole document's text.
Calls ==
    [raw : Nat, markdown : BOOLEAN, cap : Nat \ {0}, ok : BOOLEAN,
     md : Strings, text : Strings, whole : Nat]

ASSUME CascadeAssumption ==
    /\ Lengths \subseteq Nat
    /\ {WholeDocCheckFloor, HealthyMarkdownFloor, MinFallbackChars,
        LargePageRawBytes} \subseteq Nat
    /\ RatioPercent \in 1..100
    /\ LargeRatioPercent \in 1..100
    /\ Pages \subseteq Calls
    /\ \A p \in Pages : p.md.len <= p.cap /\ p.text.len <= p.cap

VARIABLES
    page,     \* the call
    stage,       \* "extract", "audit", "cap", "done"
    chosen,   \* what is to be served: where it is from and its length
    method,   \* ExtractMethod
    audited   \* ratio.is_some()

cascadeVars == <<page, stage, chosen, method, audited>>

Methods == {"Markdown", "TextFallback", "WholeDocFallback"}
Nothing == [from |-> "nothing", len |-> 0]

-----------------------------------------------------------------------------
(* The audit's conditions, as functions of the call, the method so far and *)
(* the length so far.                                                      *)

\* trim() takes away whitespace; a marker is none.
HealthyMarkdown(p) == p.markdown /\ (p.md.ink \/ p.md.marks > 0)

IsLarge(p) == p.raw >= LargePageRawBytes

\* Bug: the floor of the band is taken for its ceiling.
Bug_BandBelow(m, n) == m = "Markdown" /\ n <= HealthyMarkdownFloor

InBand(m, n) == m = "Markdown" /\ n >= HealthyMarkdownFloor

\* Bug: an extract that fills the cap is audited as well.
Bug_AuditSaturated(p, m, n, some) ==
    \/ n < WholeDocCheckFloor /\ ~InBand(m, n)
    \/ IsLarge(p) /\ some /\ n <= p.cap

AuditNeeded(p, m, n, some) ==
    \/ n < WholeDocCheckFloor /\ ~InBand(m, n)
    \/ IsLarge(p) /\ some /\ n < p.cap

Threshold(p) == IF IsLarge(p) THEN LargeRatioPercent ELSE RatioPercent

\* Bug: the ratio is turned over, so that the larger share looks gutted.
Bug_RatioTurned(p, n) == 100 * p.whole < Threshold(p) * n

\* n / whole < threshold.  The quotient of two lengths is never so near to
\* the threshold that the double differs.
Gutted(p, n) == 100 * n < Threshold(p) * p.whole

Replaced(p, m, n, some) ==
    AuditNeeded(p, m, n, some) /\ p.whole > 0 /\ Gutted(p, n)

-----------------------------------------------------------------------------
(* Actions                                                                 *)

CascadeInit ==
    /\ page \in Pages
    /\ stage = "extract"
    /\ chosen = Nothing
    /\ method = "TextFallback"
    /\ audited = FALSE

ExtractMarkdown ==
    /\ stage = "extract"
    /\ page.ok
    /\ HealthyMarkdown(page)
    /\ chosen' = [from |-> "markdown", len |-> RestoredLen(page.md)]
    /\ method' = "Markdown"
    /\ stage' = "audit"
    /\ UNCHANGED <<page, audited>>

\* Text was asked for, or the Markdown came back blank.
ExtractText ==
    /\ stage = "extract"
    /\ page.ok
    /\ ~HealthyMarkdown(page)
    /\ chosen' = IF page.text.ink
                 THEN [from |-> "text", len |-> RestoredLen(page.text)]
                 ELSE Nothing
    /\ method' = "TextFallback"
    /\ stage' = "audit"
    /\ UNCHANGED <<page, audited>>

ExtractError ==
    /\ stage = "extract"
    /\ ~page.ok
    /\ chosen' = Nothing
    /\ method' = "TextFallback"
    /\ stage' = "audit"
    /\ UNCHANGED <<page, audited>>

Needed == AuditNeeded(page, method, chosen.len, chosen # Nothing)

\* No audit, or a document without any text to compare with.
Trust ==
    /\ stage = "audit"
    /\ ~Needed \/ page.whole = 0
    /\ stage' = "cap"
    /\ UNCHANGED <<page, chosen, method, audited>>

Pass ==
    /\ stage = "audit"
    /\ Needed /\ page.whole > 0
    /\ ~Gutted(page, chosen.len)
    /\ audited' = TRUE
    /\ stage' = "cap"
    /\ UNCHANGED <<page, chosen, method>>

\* Bug: the method is not told that the content changed.
Bug_RescueUnlabelled ==
    /\ stage = "audit"
    /\ Needed /\ page.whole > 0
    /\ Gutted(page, chosen.len)
    /\ page.whole >= MinFallbackChars
    /\ chosen' = [from |-> "whole", len |-> page.whole]
    /\ audited' = TRUE
    /\ stage' = "cap"
    /\ UNCHANGED <<page, method>>

Rescue ==
    /\ stage = "audit"
    /\ Needed /\ page.whole > 0
    /\ Gutted(page, chosen.len)
    /\ page.whole >= MinFallbackChars
    /\ chosen' = [from |-> "whole", len |-> page.whole]
    /\ method' = "WholeDocFallback"
    /\ audited' = TRUE
    /\ stage' = "cap"
    /\ UNCHANGED page

GiveUp ==
    /\ stage = "audit"
    /\ Needed /\ page.whole > 0
    /\ Gutted(page, chosen.len)
    /\ page.whole < MinFallbackChars
    /\ chosen' = Nothing
    /\ audited' = TRUE
    /\ stage' = "cap"
    /\ UNCHANGED <<page, method>>

\* Bug: the cut rounds up to the end of the character it falls into.
Bug_CapRoundsUp ==
    /\ stage = "cap"
    /\ \/ chosen.len <= page.cap /\ UNCHANGED chosen
       \/ /\ chosen.len > page.cap
          /\ \E n \in page.cap..(page.cap + 3) : chosen' = [chosen EXCEPT !.len = n]
    /\ stage' = "done"
    /\ UNCHANGED <<page, method, audited>>

\* truncate_at_char_boundary: a character has up to four bytes, so that up to
\* three bytes below the cap stay unused.
Cap ==
    /\ stage = "cap"
    /\ \/ chosen.len <= page.cap /\ UNCHANGED chosen
       \/ /\ chosen.len > page.cap
          /\ \E n \in (page.cap - 3)..page.cap :
                n >= 0 /\ chosen' = [chosen EXCEPT !.len = n]
    /\ stage' = "done"
    /\ UNCHANGED <<page, method, audited>>

CascadeNext ==
    \/ ExtractMarkdown \/ ExtractText \/ ExtractError
    \/ Trust \/ Pass \/ Rescue \/ GiveUp
    \/ Cap

CascadeSpec == CascadeInit /\ [][CascadeNext]_cascadeVars

-----------------------------------------------------------------------------
(* Properties                                                              *)

\* Types; what is served never exceeds max_content_chars once it is done,
\* whichever stage supplied it (extract.rs:369-374).
CascadeTypeOK ==
    /\ page \in Pages
    /\ stage \in {"extract", "audit", "cap", "done"}
    /\ chosen \in [from : {"nothing", "markdown", "text", "whole"}, len : Nat]
    /\ chosen.from = "nothing" => chosen.len = 0
    /\ method \in Methods
    /\ audited \in BOOLEAN
    /\ stage = "done" \/ chosen.from # "whole" => chosen.len <= page.cap

\* The method names the stage that supplied the content, when there is
\* content (extract.rs:145-163, ExtractOutcome::method).
MethodTellsTruth ==
    chosen # Nothing /\ stage # "extract" =>
        chosen.from = CASE method = "Markdown" -> "markdown"
                        [] method = "TextFallback" -> "text"
                        [] method = "WholeDocFallback" -> "whole"

\* The audit never trades text for less: the whole document is served only in
\* place of a shorter extract, and an extract is thrown away only if it is
\* short against the least a fallback must have (extract.rs:345-365).
AuditNeverLoses ==
    [][stage = "audit" /\ chosen' # chosen =>
          /\ chosen'.from = "whole" => chosen'.len > chosen.len
          /\ chosen' = Nothing =>
                100 * chosen.len < RatioPercent * MinFallbackChars
                \/ 100 * chosen.len < LargeRatioPercent * MinFallbackChars]_cascadeVars

\* More is never worse: had the library found more of the same page, the
\* audit would not have replaced what it now keeps, across both floors, the
\* band of healthy Markdown and the cap (extract.rs:334-343).
KeepIsMonotone ==
    stage = "audit" /\ chosen # Nothing
    /\ ~Replaced(page, method, chosen.len, TRUE) =>
        \A n \in Lengths :
            n > chosen.len /\ n <= page.cap => ~Replaced(page, method, n, TRUE)

\* The library's answer of this call, if it is what the cascade starts from.
Proposed(p) == IF HealthyMarkdown(p) THEN p.md ELSE p.text

\* The library's answer fills the cap.
FillsCap(p) ==
    /\ IsLarge(p) /\ p.ok
    /\ HealthyMarkdown(p) \/ p.text.ink
    /\ Proposed(p).len = p.cap

\* max_content_chars lies below the floor of the audit that applies.
CapBelowFloor(p) ==
    /\ p.cap < WholeDocCheckFloor
    /\ HealthyMarkdown(p) => p.cap < HealthyMarkdownFloor

\* An extract of a large page that reached the cap is served whatever the
\* ratio, with two exceptions: one of its markers was restored, or the cap
\* itself is below the floor under which any extract is audited
\* (extract.rs:115-119, 340-343).
SaturatedKept ==
    stage \in {"cap", "done"} /\ FillsCap(page)
    /\ Proposed(page).marks = 0 /\ ~CapBelowFloor(page) =>
        method # "WholeDocFallback" /\ chosen.len = page.cap

\* The same without the exceptions, as the comments have it (extract.rs:115-117,
\* 331-332).  Restoring the markers makes the extract shorter than the cap it
\* filled; and a cap below the floor leaves it to the floor's audit.
SaturatedTrusted ==
    stage \in {"cap", "done"} /\ FillsCap(page) => method # "WholeDocFallback"
=============================================================================
