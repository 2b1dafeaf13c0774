------------------------------ MODULE Markdown ------------------------------
(***************************************************************************)
(* How an answer becomes HTML (renderMarkdown of src/embed/src/markdown.ts *)
(* over the parser and the renderer of marked, as in the bundle that the   *)
(* broker serves, src/broker/internal/broker/web/agent.js).                *)
(*                                                                         *)
(* A document is the list of tokens that marked's lexer makes of it, and   *)
(* HTML is the tree that the browser makes of the text: a leaf of text, or *)
(* an element with its attributes and children.                            *)
(***************************************************************************)
EXTENDS Integers, Sequences, FiniteSets, SequencesExt, FiniteSetsExt

Leaf(w) == [tag |-> "#text", text |-> w]
IsLeaf(node) == node.tag = "#text"

(* Text that the browser takes for a start tag, because it is not escaped, *)
(* opens an element that nothing closes but the end of the one around it.  *)
StartTag == [tag |-> "#tag"]

RECURSIVE Opened(_)
Opened(nodes) ==
  LET tags == {i \in DOMAIN nodes : nodes[i] = StartTag} IN
  IF tags = {} THEN nodes
  ELSE SubSeq(nodes, 1, Min(tags) - 1)
       \o <<[tag |-> "other", attributes |-> {},
             children |-> Opened(SubSeq(nodes, Min(tags) + 1, Len(nodes)))]>>

Element(tag, attributes, children) ==
  [tag |-> tag, attributes |-> attributes, children |-> Opened(children)]

Plain(tag, children) == Element(tag, {}, children)

(* An attribute is a pair of name and value.                               *)
Attributes(names, value) == {<<name, value>> : name \in names}

-----------------------------------------------------------------------------
(* The renderer: the spans.  A token of a list or of a span holds tokens,  *)
(* a token of the others text.                                             *)

RECURSIVE ParseInline(_), Parse(_, _)

(* Of an address that cannot be encoded only the text is left.             *)
LinkOf(t) ==
  IF t.href = "broken" THEN ParseInline(t.tokens)
  ELSE <<Element("a", {<<"href", t.href>>} \cup Attributes({"title"}, t.title), ParseInline(t.tokens))>>

Image(t) ==
  IF t.href = "broken" THEN <<Leaf(t.text)>>
  ELSE <<Element("img", {<<"src", t.href>>, <<"alt", t.text>>}, <<>>)>>

(* html, as markdown.ts overrides it: the source, escaped                  *)
Raw(t) == <<Leaf(t.text)>>

Checkbox == Element("input", Attributes({"disabled", "type"}, ""), <<>>)

Span(t) ==
  CASE t.type \in {"text", "escape"} -> <<Leaf(t.text)>>
    [] t.type = "unescaped" -> <<StartTag>>
    [] t.type = "codespan" -> <<Plain("code", <<Leaf(t.text)>>)>>
    [] t.type \in {"strong", "em", "del"} -> <<Plain(t.type, ParseInline(t.tokens))>>
    [] t.type = "link" -> LinkOf(t)
    [] t.type = "image" -> Image(t)
    [] t.type = "br" -> <<Plain("br", <<>>)>>
    [] t.type = "html" -> Raw(t)
    [] t.type = "box" -> <<Checkbox>>

ParseInline(tokens) == FlattenSeq([i \in DOMAIN tokens |-> Span(tokens[i])])

-----------------------------------------------------------------------------
(* The blocks *)

Paragraph(nodes) == Plain("p", nodes)

Code(t) ==
  Plain("pre", <<Element("code", Attributes({"class"} \cap {t.lang}, "language"), <<Leaf(t.text)>>)>>)

Blockquote(t) == Plain("blockquote", Parse(t.tokens, TRUE))

Heading(t) == Plain(t.depth, ParseInline(t.tokens))

(* The checkbox of a task goes before its text; in a loose item that means *)
(* into its first paragraph, if that begins with text, or into a text of   *)
(* its own.                                                                *)
Box == [type |-> "box"]

Boxed(tokens) ==
  IF tokens # <<>> /\ Head(tokens).type = "paragraph"
  THEN IF Head(tokens).tokens # <<>> /\ Head(Head(tokens).tokens).type = "text"
       THEN <<[Head(tokens) EXCEPT !.tokens = <<Box>> \o @]>> \o Tail(tokens)
       ELSE tokens
  ELSE <<[type |-> "text", tokens |-> <<Box>>]>> \o tokens

ListItem(item) ==
  LET box == item.task /\ ~ item.loose
      tokens == IF item.task /\ item.loose THEN Boxed(item.tokens) ELSE item.tokens IN
  Plain("li", (IF box THEN <<Checkbox>> ELSE <<>>) \o Parse(tokens, item.loose))

List(t) ==
  Element(IF t.ordered THEN "ol" ELSE "ul",
          IF t.ordered /\ t.start # 1 THEN {<<"start", t.start>>} ELSE {},
          [i \in DOMAIN t.items |-> ListItem(t.items[i])])

TableCell(tag, tokens) == Element(tag, {<<"align", "center">>}, ParseInline(tokens))
TableRow(tag, cells) == Plain("tr", [i \in DOMAIN cells |-> TableCell(tag, cells[i])])

Table(t) ==
  Plain("table",
    <<Plain("thead", <<TableRow("th", t.header)>>)>>
    \o IF t.rows = <<>> THEN <<>>
       ELSE <<Plain("tbody", [i \in DOMAIN t.rows |-> TableRow("td", t.rows[i])])>>)

Block(t) ==
  CASE t.type = "space" -> <<>>
    [] t.type = "hr" -> <<Plain("hr", <<>>)>>
    [] t.type = "heading" -> <<Heading(t)>>
    [] t.type = "code" -> <<Code(t)>>
    [] t.type = "table" -> <<Table(t)>>
    [] t.type = "blockquote" -> <<Blockquote(t)>>
    [] t.type = "list" -> <<List(t)>>
    [] t.type = "html" -> Raw(t)
    [] t.type = "paragraph" -> <<Paragraph(ParseInline(t.tokens))>>

(* The run of texts at n; texts that follow each other are one paragraph,  *)
(* or none in a tight item.                                                *)
RunEnds(tokens, n) ==
  Max({m \in n..Len(tokens) : \A i \in n..m : tokens[i].type = "text"})

Run(tokens, n, top) ==
  LET nodes == FlattenSeq([i \in 1..(RunEnds(tokens, n) - n + 1) |->
                             ParseInline(tokens[n + i - 1].tokens)]) IN
  IF top THEN <<Paragraph(nodes)>> ELSE nodes

InRun(tokens, n) == n > 1 /\ tokens[n - 1].type = "text"

Parse(tokens, top) ==
  FlattenSeq([n \in DOMAIN tokens |->
                IF tokens[n].type # "text" THEN Block(tokens[n])
                ELSE IF InRun(tokens, n) THEN <<>> ELSE Run(tokens, n, top)])

-----------------------------------------------------------------------------
(* The sanitizer *)

AllowedTags ==
  {"p", "br", "hr", "strong", "b", "em", "i", "del", "s", "mark", "sub", "sup",
   "code", "pre", "kbd", "samp", "var", "blockquote", "ul", "ol", "li",
   "h1", "h2", "h3", "h4", "h5", "h6", "a", "span", "div",
   "table", "thead", "tbody", "tr", "th", "td"}

AllowedAttributes(tag) ==
  {"class"} \cup (IF tag = "a" THEN {"href", "title", "target", "rel"} ELSE {})
            \cup (IF tag \in {"td", "th"} THEN {"align"} ELSE {})

IsSafeUrl(url) == url \in {"web", "relative"}

(* The attributes that are left, and the ones that an anchor must have     *)
Scrubbed(tag, attributes) ==
  {a \in attributes : a[1] \in AllowedAttributes(tag) /\ (a[1] = "href" => IsSafeUrl(a[2]))}

HasHref(attributes) == \E a \in attributes : a[1] = "href"

Anchored(tag, attributes) ==
  IF tag = "a" /\ HasHref(attributes)
  THEN {a \in attributes : a[1] \notin {"target", "rel"}}
         \cup {<<"target", "_blank">>, <<"rel", "noopener noreferrer nofollow">>}
  ELSE attributes

RECURSIVE Walk(_)

Walked(node) ==
  [node EXCEPT !.attributes = Anchored(node.tag, Scrubbed(node.tag, @)),
               !.children = Walk(@)]

(* mutant: the list of children is not copied first, so that the element   *)
(* behind one that is removed is not looked at                             *)
WalkLive(nodes) ==
  FlattenSeq([i \in DOMAIN nodes |->
    IF IsLeaf(nodes[i]) THEN <<nodes[i]>>
    ELSE IF i > 1 /\ nodes[i - 1].tag \notin AllowedTags \cup {"#text"} THEN <<nodes[i]>>
    ELSE IF nodes[i].tag \notin AllowedTags THEN <<>>
    ELSE <<Walked(nodes[i])>>])

Walk(nodes) ==
  FlattenSeq([i \in DOMAIN nodes |->
    IF IsLeaf(nodes[i]) THEN <<nodes[i]>>
    ELSE IF nodes[i].tag \notin AllowedTags THEN <<>>
    ELSE <<Walked(nodes[i])>>])

(* What the lexer or the parser of marked throw, marked.parse throws; then *)
(* the source is shown as it is, and nothing of what was rendered before.  *)
Throws(tokens) == \E i \in DOMAIN tokens : tokens[i].type = "unknown"

Source == "source"

(* renderMarkdown, in a browser *)
RenderMarkdown(tokens) ==
  IF Throws(tokens) THEN <<Leaf(Source)>> ELSE Walk(Parse(tokens, TRUE))

-----------------------------------------------------------------------------
(* Every element under these nodes, the nodes included *)
RECURSIVE Elements(_)
Elements(nodes) ==
  UNION {IF IsLeaf(nodes[i]) THEN {} ELSE {nodes[i]} \cup Elements(nodes[i].children)
         : i \in DOMAIN nodes}

(* An element that no tag of marked stands for                             *)
Swallows(tokens) == \E e \in Elements(Parse(tokens, TRUE)) : e.tag = "other"

(* What a reader must find of a document: its words in their order, each   *)
(* with the marks it stands under.  Images are dropped, so a word of one   *)
(* is not looked for, unless its address is broken.                        *)

Marks == {"strong", "em", "del", "code", "pre", "a", "blockquote", "li", "h1", "h2", "th", "td"}

RECURSIVE WordsOf(_, _), WordsIn(_, _)

AllWords(lists, under) == FlattenSeq([i \in DOMAIN lists |-> WordsOf(lists[i], under)])

WordsOfToken(t, under) ==
  CASE t.type \in {"space", "hr", "br"} -> <<>>
    [] t.type = "image" -> IF t.href = "broken" THEN <<<<t.text, under>>>> ELSE <<>>
    [] t.type \in {"escape", "html"} -> <<<<t.text, under>>>>
    [] t.type = "codespan" -> <<<<t.text, under \cup {"code"}>>>>
    [] t.type = "code" -> <<<<t.text, under \cup {"pre", "code"}>>>>
    [] t.type = "text" -> IF "text" \in DOMAIN t THEN <<<<t.text, under>>>> ELSE WordsOf(t.tokens, under)
    [] t.type = "paragraph" -> WordsOf(t.tokens, under)
    [] t.type = "link" ->
         WordsOf(t.tokens, under \cup (IF t.href = "broken" THEN {} ELSE {"a"}))
    [] t.type = "heading" -> WordsOf(t.tokens, under \cup {t.depth})
    [] t.type = "list" -> AllWords([i \in DOMAIN t.items |-> t.items[i].tokens], under \cup {"li"})
    [] t.type = "table" ->
         AllWords(t.header, under \cup {"th"}) \o AllWords(FlattenSeq(t.rows), under \cup {"td"})
    [] OTHER -> WordsOf(t.tokens, under \cup {t.type})

WordsOf(tokens, under) ==
  FlattenSeq([i \in DOMAIN tokens |-> WordsOfToken(tokens[i], under)])

WordsIn(nodes, under) ==
  FlattenSeq([i \in DOMAIN nodes |->
    IF IsLeaf(nodes[i]) THEN <<<<nodes[i].text, under>>>>
    ELSE WordsIn(nodes[i].children, under \cup ({nodes[i].tag} \cap Marks))])

Harmless(e) ==
  /\ e.tag \in AllowedTags
  /\ \A a \in e.attributes : a[1] \in AllowedAttributes(e.tag)
  /\ HasHref(e.attributes) =>
       /\ \E a \in e.attributes : a[1] = "href" /\ IsSafeUrl(a[2])
       /\ <<"rel", "noopener noreferrer nofollow">> \in e.attributes
       /\ <<"target", "_blank">> \in e.attributes

(* What is put on the page is made of the allowed elements and attributes, *)
(* at any depth, whatever stands beside them; and nothing of the answer's  *)
(* text is lost or comes in another place or under another mark.           *)
ShowsTheAnswer(docs) ==
  \A doc \in docs :
    LET html == RenderMarkdown(doc) IN
    /\ \A e \in Elements(html) : Harmless(e)
    /\ WordsIn(html, {}) = IF Throws(doc) THEN <<<<Source, {}>>>> ELSE WordsOf(doc, {})
=============================================================================
