-------------------------------- MODULE View --------------------------------
(***************************************************************************)
(* view.py and security_headers.py: the page and the raw document made of  *)
(* an artifact.  An html source is a sequence of the marks the code looks  *)
(* for, everything between them being left alone; the sources of the other *)
(* formats are what their renderers find in them.  A served document lists *)
(* its marks and the vendored assets ("+...") put between them.            *)
(***************************************************************************)
EXTENDS Integers, Sequences, FiniteSets

CONSTANTS
    MaxMarks,          \* model bound on the length of an html source
    MaxRenderedRows,   \* _CSV_MAX_RENDERED_ROWS
    NoReply

ASSUME ViewAssumption == MaxMarks \in Nat /\ MaxRenderedRows \in Nat

VARIABLE reply   \* the response under way

\* "<!--", "-->", "<head>", "</body>", a script of an allowed CDN, an element of
\* class mermaid, a script naming a dataset of RenderdeskGeo, an element of class bi-*.
Marks == {"open", "close", "head", "body", "lib", "mermaid", "geo", "icons"}

Documents   == UNION {[1..n -> Marks] : n \in 0..MaxMarks}
Imports     == {"lib", "geo", "icons"}     \* what a react source may ask for
RenderFlags == {"mermaid", "math", "code"} \* what rendering markdown sets in env

\* A csv source is its number of rows; code is in a language Pygments knows or not.
Artifacts == [format : {"html"}, source : Documents]
        \cup [format : {"react"}, source : SUBSET Imports]
        \cup [format : {"markdown"}, source : SUBSET RenderFlags]
        \cup [format : {"csv"}, source : 0..MaxRenderedRows + 2]
        \cup [format : {"code"}, source : {"known", "unknown"}]
        \cup {[format |-> "missing", source |-> <<>>]}

If(condition, asset) == IF condition THEN <<asset>> ELSE <<>>

-----------------------------------------------------------------------------
(* Comments, detection and splicing *)

Marked(doc, mark, from) == {i \in from..Len(doc) : doc[i] = mark}
First(positions) == CHOOSE i \in positions : \A j \in positions : i <= j

\* _find_html_comment_spans: the positions its find loop covers
CommentSpans(doc) ==
    LET spans[pos \in 1..Len(doc) + 1] ==
            LET starts == Marked(doc, "open", pos) IN
            IF starts = {} THEN {}
            ELSE LET ends == Marked(doc, "close", First(starts) + 1) IN
                 IF ends = {} THEN First(starts)..Len(doc)
                 ELSE First(starts)..First(ends) \cup spans[First(ends) + 1]
    IN spans[1]

\* A mark found in _strip_html_comments(content) (mutated first: in the content).
MentionsRaw(doc, mark) == \E i \in DOMAIN doc : doc[i] = mark
Mentions(doc, mark)    == \E i \in DOMAIN doc \ CommentSpans(doc) : doc[i] = mark

Splice(doc, i, asset) == SubSeq(doc, 1, i) \o <<asset>> \o SubSeq(doc, i + 1, Len(doc))

\* The splices search the content itself, comments included.
BeforeBodyClose(doc, asset) ==
    LET closes == Marked(doc, "body", 1) IN
    IF closes = {} THEN Append(doc, asset) ELSE Splice(doc, First(closes) - 1, asset)
AfterHeadOpen(doc, asset) ==
    LET heads == Marked(doc, "head", 1) IN
    IF heads = {} THEN <<asset>> \o doc ELSE Splice(doc, First(heads), asset)

InjectMermaid(doc) == IF Mentions(doc, "mermaid") THEN BeforeBodyClose(doc, "+mermaid") ELSE doc
InjectIcons(doc)   == IF Mentions(doc, "icons") THEN BeforeBodyClose(doc, "+icons") ELSE doc
InjectGeo(doc)     == IF Mentions(doc, "geo") THEN AfterHeadOpen(doc, "+geo") ELSE doc
RewriteLibraries(doc) ==
    [i \in DOMAIN doc |-> IF doc[i] = "lib" /\ i \notin CommentSpans(doc) THEN "+lib" ELSE doc[i]]

-----------------------------------------------------------------------------
(* Headers: what a Content-Security-Policy allows *)

HtmlCsp  == {"sandbox", "inline scripts", "eval", "inline styles", "framed by self"}
ReactCsp == (HtmlCsp \ {"inline scripts"}) \cup {"own scripts"}
PageCsp(math) == {"own scripts", "inline styles", "framed by self"}
            \cup IF math THEN {"own styles", "own fonts"} ELSE {}
WithSameOriginScripts(csp)        == csp \cup {"own scripts"}
WithSameOriginStylesAndFonts(csp) == csp \cup {"own styles", "own fonts"}

Directives == HtmlCsp \cup PageCsp(TRUE) \cup {"frames self"}
ASSUME NoReplyAssumption == NoReply # "SAMEORIGIN" /\ \A csp \in SUBSET Directives : csp # NoReply

\* A response as the handler leaves it; _artifact_headers goes with every document.
Document(a, route, body, csp) ==
    [artifact |-> a, route |-> route, type |-> "document", body |-> body,
     csp |-> csp, frameOptions |-> "SAMEORIGIN"]
Bare(a, route, type) ==
    [artifact |-> a, route |-> route, type |-> type, body |-> <<>>,
     csp |-> NoReply, frameOptions |-> NoReply]

\* SecurityHeadersMiddleware: frame-ancestors 'none' and DENY where nothing was said.
Secured(r) == [r EXCEPT !.csp = IF @ = NoReply THEN {} ELSE @,
                        !.frameOptions = IF @ = NoReply THEN "DENY" ELSE @]

-----------------------------------------------------------------------------
(* view_artifact *)

MarkdownPage(a) ==
    LET math == "math" \in a.source IN
    Document(a, "page", If("code" \in a.source, "colours") \o <<"+theme">>
                        \o If("mermaid" \in a.source, "+mermaid") \o If(math, "+katex")
                        \o <<"rendered">>, PageCsp(math))

\* render_highlighted_source: its style, and what stands where the source was
Highlighted(language) == If(language = "known", "colours")
                      \o <<"+theme", IF language = "known" THEN "highlighted" ELSE "plain">>
CodePage(a) == Document(a, "page", Highlighted(a.source), PageCsp(FALSE))

\* A header, then up to MaxRenderedRows rows and a word on the rest.
RenderCsvTable(rows) ==
    IF rows = 0 THEN <<"empty">>
    ELSE <<"header">> \o [i \in 1..(IF rows - 1 < MaxRenderedRows THEN rows - 1 ELSE MaxRenderedRows) |-> "row"]
                     \o If(rows - 1 > MaxRenderedRows, "truncated")
CsvPage(a) == Document(a, "page", <<"+theme">> \o RenderCsvTable(a.source) \o <<"+csv">>, PageCsp(FALSE))

FramingPage(a) == Document(a, "page", <<"+theme", "frame">>, PageCsp(FALSE) \cup {"frames self"})

Page(a) == CASE a.format = "missing"  -> Bare(a, "page", "not found")
             [] a.format = "markdown" -> MarkdownPage(a)
             [] a.format = "code"     -> CodePage(a)
             [] a.format = "csv"      -> CsvPage(a)
             [] OTHER                 -> FramingPage(a)

-----------------------------------------------------------------------------
(* view_artifact_raw *)

\* _build_react_raw_html: react-init.js, the last script, runs the source.
ReactRaw(a) ==
    LET icons == "icons" \in a.source IN
    Document(a, "raw", If(icons, "+icons") \o <<"source">> \o If("lib" \in a.source, "+lib")
                       \o If("geo" \in a.source, "+geo") \o <<"+react", "+init">>,
             IF icons THEN WithSameOriginStylesAndFonts(ReactCsp) ELSE ReactCsp)

\* Each rewriting reads what the one before it left.
HtmlRaw(a) ==
    LET drawn     == InjectMermaid(a.source)
        rewritten == RewriteLibraries(drawn)
        mapped    == InjectGeo(rewritten)
        dressed   == InjectIcons(mapped)
        scripts   == drawn # a.source \/ rewritten # drawn \/ mapped # rewritten
        csp       == IF scripts THEN WithSameOriginScripts(HtmlCsp) ELSE HtmlCsp
    IN Document(a, "raw", dressed, IF dressed # mapped THEN WithSameOriginStylesAndFonts(csp) ELSE csp)

Raw(a) == CASE a.format = "html"             -> HtmlRaw(a)
            [] a.format = "react"            -> ReactRaw(a)
            [] a.format \in {"code", "csv"}  -> Bare(a, "raw", "text")
            [] OTHER                         -> Bare(a, "raw", "not found")

ViewArtifact(a)    == reply = NoReply /\ reply' = Secured(Page(a))
ViewArtifactRaw(a) == reply = NoReply /\ reply' = Secured(Raw(a))
Sent               == reply # NoReply /\ reply' = NoReply

-----------------------------------------------------------------------------
(* How a browser reads a document: one mark after the other, in or out of a *)
(* comment, from "<!--" to the next "-->".  Left out are the places where   *)
(* html has further rules: "<!-->", which closes the comment it opens,      *)
(* "--!>", and "<!--" inside the text of a script.                          *)

InComment(doc) == LET in[i \in 0..Len(doc)] ==
                          i > 0 /\ IF in[i - 1] THEN doc[i] # "close" ELSE doc[i] = "open"
                  IN in
Live(doc)      == {i \in DOMAIN doc : ~InComment(doc)[i - 1] /\ doc[i] # "open"}
LiveMarks(doc) == {doc[i] : i \in Live(doc)}

Scripts == {"+theme", "+mermaid", "+katex", "+csv", "+lib", "+geo", "+react", "+init"}
Styles  == {"+katex", "+icons"}

\* A splice is lost when the place it goes to lies in a comment.
SpliceLives(doc, mark) ==
    LET places == Marked(doc, mark, 1) IN
    IF places # {} THEN First(places) \in Live(doc)
    ELSE mark = "head" \/ ~InComment(doc)[Len(doc)]

Precedes(doc, asset, mark) ==
    \E i \in DOMAIN doc : /\ doc[i] = asset
                          /\ \A j \in Live(doc) : doc[j] = mark => i < j

Without(doc, assets) ==
    LET kept[i \in 0..Len(doc)] ==
          IF i = 0 THEN <<>>
          ELSE IF doc[i] \in assets THEN kept[i - 1] ELSE Append(kept[i - 1], doc[i])
    IN kept[Len(doc)]

-----------------------------------------------------------------------------
(* Properties *)

Fits(r) ==
    /\ LiveMarks(r.body) \cap Scripts # {} => "own scripts" \in r.csp
    /\ LiveMarks(r.body) \cap Styles # {} => {"own styles", "own fonts"} \subseteq r.csp
    /\ r.artifact.format = "html" /\ r.route = "raw" =>
         LET live == LiveMarks(r.artifact.source) IN
         /\ "own scripts" \in r.csp => live \cap {"lib", "mermaid", "geo"} # {}
         /\ "own styles" \in r.csp => "icons" \in live
    /\ ("framed by self" \in r.csp) <=> r.frameOptions = "SAMEORIGIN"
    /\ "frames self" \in r.csp =>
         {"framed by self", "sandbox"} \subseteq Secured(Raw(r.artifact)).csp

\* view.py:46-81, 248-263: a document may load the vendored files it does load, an
\* author's document no others; a mention in a comment widens nothing; the two
\* headers that speak of framing agree, and what a page frames may be framed and is
\* sandboxed.
CspFitsPage == reply # NoReply => Fits(reply)

HtmlServes(source, body) ==
    /\ Without(body, {"+mermaid", "+geo", "+icons"})
         = [i \in DOMAIN source |->
              IF source[i] = "lib" /\ i \in Live(source) THEN "+lib" ELSE source[i]]
    /\ \A feature \in {<<"mermaid", "+mermaid">>, <<"icons", "+icons">>} :
         feature[1] \in LiveMarks(source) /\ SpliceLives(source, "body")
           => feature[2] \in LiveMarks(body)
    /\ "geo" \in LiveMarks(source) /\ SpliceLives(source, "head") =>
         /\ "+geo" \in LiveMarks(body)
         /\ Precedes(source, "head", "geo") \/ "head" \notin LiveMarks(source)
              => Precedes(body, "+geo", "geo")

Serves(r) ==
    LET format == r.artifact.format
        source == r.artifact.source
    IN /\ format = "html" /\ r.route = "raw" => HtmlServes(source, r.body)
       /\ format = "react" /\ r.route = "raw" =>
            \A asset \in {<<"lib", "+lib">>, <<"geo", "+geo">>} :
              asset[1] \in source => Precedes(r.body, asset[2], "+init")
       /\ format = "markdown" /\ r.route = "page" =>
            ("mermaid" \in source => /\ "+mermaid" \in LiveMarks(r.body)
                                     /\ Precedes(r.body, "+theme", "+mermaid"))
       /\ format = "csv" /\ r.route = "page" =>
            ("truncated" \in LiveMarks(r.body)
               <=> source > Cardinality({i \in DOMAIN r.body : r.body[i] \in {"header", "row"}}))

\* view.py:157-209, 445-481, 552-670: a document that uses a vendored file gets it,
\* before what needs it and outside comments, wherever the place it is put is
\* outside them; nothing else of an author's html changes; rows that are left out
\* of a table are spoken of.
FeaturesServed == reply # NoReply /\ reply.type = "document" => Serves(reply)

=============================================================================
