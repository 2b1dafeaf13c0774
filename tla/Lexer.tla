------------------------------- MODULE Lexer --------------------------------
(***************************************************************************)
(* How the source of an answer becomes tokens: the lexer of marked, as in  *)
(* the bundle that the broker serves                                       *)
(* (src/broker/internal/broker/web/agent.js).                              *)
(*                                                                         *)
(* A source is a list of lines, each of the kind that a rule of the lexer  *)
(* recognises; the text of a line is a list of spans of the same sort.     *)
(* The blocks are read first.  Their texts wait in a queue, inlineQueue,   *)
(* until all definitions of links are known.                               *)
(***************************************************************************)
EXTENDS Markdown

(* The lexer: the queue, the links that are defined, whether text makes a  *)
(* paragraph here, and what the text read so far has left open.  An entry  *)
(* of the queue belongs to the token that was made with its number.        *)
NewLexer ==
  [queue |-> <<>>, made |-> 0, links |-> {}, top |-> TRUE,
   inLink |-> FALSE, inRawBlock |-> FALSE]

-----------------------------------------------------------------------------
(* Spans *)

RECURSIVE InlineTokens(_, _)

(* What a tag opens or closes, here and in all the texts that follow       *)
ReadTag(s, lx) ==
  [lx EXCEPT !.inLink = IF s.of = "a" THEN s.opens ELSE @,
             !.inRawBlock = IF s.of = "code" THEN s.opens ELSE @]

(* outputLink: the text of a link is read with inLink set, which is        *)
(* cleared then, whatever it was before.                                   *)
LinkToken(s, href, lx) ==
  LET inner == InlineTokens(s.src, [lx EXCEPT !.inLink = TRUE]) IN
  [token |-> [type |-> "link", href |-> href, title |-> {}, tokens |-> inner.tokens],
   lexer |-> [inner.lexer EXCEPT !.inLink = FALSE]]

TextToken(s) == [type |-> "text", text |-> s.text]

(* inlineText: text is escaped, but not behind a tag that opens code.      *)
(* (An "angle" is text that is no tag to marked, and one to HTML: <y, z>.) *)
InlineText(s, lx) ==
  IF s.span = "angle" /\ lx.inRawBlock THEN [type |-> "unescaped"] ELSE TextToken(s)

(* A bare address is text within a link.                                   *)
Url(s, lx) ==
  IF lx.inLink THEN TextToken(s)
  ELSE [type |-> "link", href |-> "web", title |-> {}, tokens |-> <<TextToken(s)>>]

(* A reference to a link that is not defined is text.                      *)
Reflink(s, lx) ==
  IF s.label \in lx.links THEN LinkToken(s, "web", lx)
  ELSE [token |-> TextToken(Head(s.src)), lexer |-> lx]

(* del, strong and em *)
Enclosed(s, lx) ==
  LET inner == InlineTokens(s.src, lx) IN
  [token |-> [type |-> s.span, tokens |-> inner.tokens], lexer |-> inner.lexer]

Here(token, lx) == [token |-> token, lexer |-> lx]

CodeSpan(s) == [type |-> "codespan", text |-> s.text]

SpanToken(s, lx) ==
  CASE s.span = "tag" -> Here([type |-> "html", text |-> s.text], ReadTag(s, lx))
    [] s.span = "link" -> LinkToken(s, s.href, lx)
    [] s.span = "ref" -> Reflink(s, lx)
    [] s.span \in {"strong", "em", "del"} -> Enclosed(s, lx)
    [] s.span = "codespan" -> Here(CodeSpan(s), lx)
    [] s.span = "break" -> Here([type |-> "br"], lx)
    [] s.span = "url" -> Here(Url(s, lx), lx)
    [] s.span \in {"word", "angle"} -> Here(InlineText(s, lx), lx)

InlineTokens(src, lx) ==
  IF src = <<>> THEN [tokens |-> <<>>, lexer |-> lx]
  ELSE LET first == SpanToken(Head(src), lx)
           others == InlineTokens(Tail(src), first.lexer)
       IN [tokens |-> <<first.token>> \o others.tokens, lexer |-> others.lexer]

-----------------------------------------------------------------------------
(* Blocks *)

(* inline, for the texts of a token: each gets the next number.            *)
Inline(srcs, lx) ==
  [lx EXCEPT !.queue = @ \o [i \in DOMAIN srcs |-> [src |-> srcs[i], of |-> lx.made + i]],
             !.made = @ + Len(srcs)]

IsText(tokens) == tokens # <<>> /\ Last(tokens).type \in {"paragraph", "text"}

(* Two texts with a new line between them, which is a break (breaks: true) *)
Break == [span |-> "break"]
Joined(srcs) ==
  FlattenSeq([i \in DOMAIN srcs |-> IF i = 1 THEN srcs[i] ELSE <<Break>> \o srcs[i]])

(* A text is added to that of the last token, and the last entry of the    *)
(* queue, which is taken for the entry of that token, gets it too.  (What  *)
(* the tokenizer has put in the queue for the text is taken out first.)    *)
Merge(src, tokens, lx) ==
  LET both == Joined(<<Last(tokens).text, src>>) IN
  [tokens |-> [tokens EXCEPT ![Len(tokens)].text = both],
   lexer |-> [lx EXCEPT !.queue[Len(lx.queue)].src = both]]

(* A token with a text *)
PushText(kind, src, tokens, lx) ==
  [tokens |-> Append(tokens, [type |-> kind, depth |-> "h1", text |-> src, of |-> lx.made + 1]),
   lexer |-> Inline(<<src>>, lx)]

Push(token, tokens, lx) == [tokens |-> Append(tokens, token), lexer |-> lx]

(* The lines behind a text at the top that go on with its paragraph        *)
InParagraph(lines) ==
  CHOOSE n \in 1..Len(lines) :
    /\ \A i \in 2..n : lines[i].line \in {"plain", "indented", "def"}
    /\ n = Len(lines) \/ lines[n + 1].line \notin {"plain", "indented", "def"}

RECURSIVE BlockTokens(_, _, _, _), QuoteOf(_, _), ItemTokens(_, _)

(* list: the items are read with top cleared.  The list is loose when an   *)
(* empty line parts two items, or two blocks of one.                       *)
ListOf(l, lx) ==
  LET inItems == ItemTokens(l.items, lx)
      parted == \E i \in DOMAIN l.items : i < Len(l.items) /\ l.items[i].gap
      spaced == \E i \in DOMAIN inItems.tokens : \E t \in Range(inItems.tokens[i]) :
                   t.type = "space" /\ t.twice
  IN Here([type |-> "list", ordered |-> FALSE, start |-> "",
           items |-> [i \in DOMAIN l.items |->
                        [task |-> l.items[i].task, loose |-> parted \/ spaced,
                         tokens |-> inItems.tokens[i]]]],
          inItems.lexer)

ItemTokens(items, lx) ==
  IF items = <<>> THEN [tokens |-> <<>>, lexer |-> lx]
  ELSE LET first == BlockTokens(Head(items).lines, <<>>, FALSE, [lx EXCEPT !.top = FALSE])
           others == ItemTokens(Tail(items), first.lexer)
       IN [tokens |-> <<first.tokens>> \o others.tokens, lexer |-> others.lexer]

PlainLines(srcs) == [i \in DOMAIN srcs |-> [line |-> "plain", src |-> srcs[i]]]

WithLines(items, lines) == [items EXCEPT ![Len(items)].lines = @ \o lines]

Reread(token, tokens) == Append(Front(tokens), token)

(* blockquote: the lines that are marked as quoted, and then the ones      *)
(* behind them that are not.  These go on with a paragraph.  Behind a list *)
(* or a quote, that one is read again with them; behind code they are left.*)
QuoteOf(q, lx) ==
  LET inner == BlockTokens(q.lines, <<>>, TRUE, [lx EXCEPT !.top = TRUE])
      back == [inner.lexer EXCEPT !.top = lx.top]
      deeper == QuoteOf([Last(q.lines) EXCEPT !.lazy = @ \o q.lazy], back)
      longer == ListOf([Last(q.lines) EXCEPT !.items = WithLines(@, PlainLines(q.lazy))], back)
      more == BlockTokens(PlainLines(q.lazy), inner.tokens, TRUE, [back EXCEPT !.top = TRUE])
      Quoted(tokens, left, l) ==
        [token |-> [type |-> "blockquote", tokens |-> tokens], left |-> left, lexer |-> l]
      behind == IF inner.tokens = <<>> THEN "nothing" ELSE Last(inner.tokens).type
  IN IF q.lazy = <<>> THEN Quoted(inner.tokens, <<>>, back)
     ELSE CASE behind = "code" -> Quoted(inner.tokens, q.lazy, back)
            [] behind = "blockquote" ->
                 Quoted(Reread(deeper.token, inner.tokens), deeper.left, deeper.lexer)
            [] behind = "list" -> Quoted(Reread(longer.token, inner.tokens), <<>>, longer.lexer)
            [] OTHER -> Quoted(more.tokens, <<>>, [more.lexer EXCEPT !.top = lx.top])

(* The rules that take the empty lines behind their block too              *)
TakesBlank == {"indented", "heading", "rule", "html", "def", "table"}

(* What the rules make of the first line: the tokens and the lexer then    *)

Space(lines, tokens, lx) ==
  IF Len(lines) = 1 THEN [tokens |-> tokens, lexer |-> lx]
  ELSE Push([type |-> "space", twice |-> tokens # <<>>], tokens, lx)

(* Indented lines are code, but behind a text they belong to it.           *)
IndentedCode(l, tokens, lx) ==
  IF IsText(tokens) THEN Merge(l.src, tokens, lx)
  ELSE Push([type |-> "code", lang |-> "", text |-> l.src[1].text], tokens, lx)

FencedCode(l, tokens, lx) == Push([type |-> "code", lang |-> "class", text |-> l.text], tokens, lx)

HeadingLine(l, tokens, lx) == PushText("heading", l.src, tokens, lx)

HtmlBlock(l, tokens, lx) == Push([type |-> "html", text |-> l.text], tokens, lx)

(* A definition has no token, and is text behind a text.                   *)
Definition(l, tokens, lx) ==
  IF IsText(tokens) THEN Merge(l.src, tokens, lx)
  ELSE [tokens |-> tokens, lexer |-> [lx EXCEPT !.links = @ \cup {l.label}]]

(* The cells of the header and then of the rows; one column                *)
TableBlock(l, tokens, lx) ==
  Push([type |-> "table", header |-> lx.made + 1,
        rows |-> [i \in DOMAIN l.rows |-> lx.made + 1 + i]],
       tokens, Inline(<<l.header>> \o l.rows, lx))

(* At the top, a paragraph; clipped only in a quote that goes on           *)
ParagraphLines(lines, tokens, clipped, lx) ==
  LET src == Joined([i \in 1..InParagraph(lines) |-> lines[i].src]) IN
  IF clipped /\ IsText(tokens) /\ Last(tokens).type = "paragraph" THEN Merge(src, tokens, lx)
  ELSE PushText("paragraph", src, tokens, lx)

(* In an item, line by line *)
TextLine(l, tokens, lx) ==
  IF IsText(tokens) /\ Last(tokens).type = "text" THEN Merge(l.src, tokens, lx)
  ELSE PushText("text", l.src, tokens, lx)

(* One round of the loop *)
ReadBlock(lines, tokens, clipped, lx) ==
  LET l == Head(lines)
      quote == QuoteOf(l, lx)
      list == ListOf(l, lx)
  IN CASE l.line = "blank" -> Space(lines, tokens, lx)
       [] l.line = "indented" -> IndentedCode(l, tokens, lx)
       [] l.line = "fence" -> FencedCode(l, tokens, lx)
       [] l.line = "heading" -> HeadingLine(l, tokens, lx)
       [] l.line = "rule" -> Push([type |-> "hr"], tokens, lx)
       [] l.line = "quote" -> Push(quote.token, tokens, quote.lexer)
       [] l.line = "list" -> Push(list.token, tokens, list.lexer)
       [] l.line = "html" -> HtmlBlock(l, tokens, lx)
       [] l.line = "def" -> Definition(l, tokens, lx)
       [] l.line = "table" -> TableBlock(l, tokens, lx)
       [] l.line = "plain" /\ lx.top -> ParagraphLines(lines, tokens, clipped, lx)
       [] l.line = "plain" /\ ~ lx.top -> TextLine(l, tokens, lx)

(* The lines that are left after it *)
RestOf(lines, lx) ==
  LET l == Head(lines)
      count == IF l.line = "plain" /\ lx.top THEN InParagraph(lines) ELSE 1
      rest == SubSeq(lines, count + 1, Len(lines))
  IN IF l.line = "quote" THEN PlainLines(QuoteOf(l, lx).left) \o rest
     ELSE IF l.line \in TakesBlank /\ rest # <<>> /\ Head(rest).line = "blank" THEN Tail(rest)
     ELSE rest

(* blockTokens; only a paragraph clears clipped.                           *)
BlockTokens(lines, tokens, clipped, lx) ==
  IF lines = <<>> THEN [tokens |-> tokens, lexer |-> [lx EXCEPT !.top = TRUE]]
  ELSE LET next == ReadBlock(lines, tokens, clipped, lx) IN
       BlockTokens(RestOf(lines, lx), next.tokens,
                   clipped /\ ~ (Head(lines).line = "plain" /\ lx.top), next.lexer)

-----------------------------------------------------------------------------
(* lex: the blocks, and then the queue in its order *)

RECURSIVE InlineQueue(_, _), Filled(_, _)

InlineQueue(queue, lx) ==
  IF queue = <<>> THEN <<>>
  ELSE LET first == InlineTokens(Head(queue).src, lx) IN
       [n \in {Head(queue).of} |-> first.tokens] @@ InlineQueue(Tail(queue), first.lexer)

(* The tokens, with what the queue has given each of them                  *)
Filled(tokens, spans) ==
  [i \in DOMAIN tokens |->
    LET t == tokens[i] IN
    CASE t.type \in {"paragraph", "text", "heading"} -> [tokens |-> spans[t.of]] @@ t
      [] t.type = "blockquote" -> [t EXCEPT !.tokens = Filled(@, spans)]
      [] t.type = "list" ->
           [t EXCEPT !.items = [k \in DOMAIN @ |-> [@[k] EXCEPT !.tokens = Filled(@, spans)]]]
      [] t.type = "table" ->
           [t EXCEPT !.header = <<spans[@]>>, !.rows = [k \in DOMAIN @ |-> <<spans[@[k]]>>]]
      [] OTHER -> t]

Lex(lines) ==
  LET blocks == BlockTokens(lines, <<>>, FALSE, NewLexer) IN
  Filled(blocks.tokens, InlineQueue(blocks.lexer.queue, blocks.lexer))

-----------------------------------------------------------------------------
(* What a reader must find of a source *)

(* The words of a text in their order, with the marks they stand under;    *)
(* those of a reference are marked as such, other links are not.           *)
RECURSIVE WordsOfText(_, _), WordsOfLines(_, _), LazyMarks(_)

WordsOfText(src, under) ==
  FlattenSeq([i \in DOMAIN src |->
    CASE src[i].span \in {"word", "angle", "tag", "url"} -> <<<<src[i].text, under>>>>
      [] src[i].span = "codespan" -> <<<<src[i].text, under \cup {"code"}>>>>
      [] src[i].span = "link" -> WordsOfText(src[i].src, under)
      [] src[i].span = "break" -> <<>>
      [] OTHER -> WordsOfText(src[i].src, under \cup {src[i].span})])

(* Code without a fence and definitions are text behind a line of text.    *)
IsTextLine(lines, n) ==
  \E m \in 1..n : /\ lines[m].line = "plain"
                   /\ \A k \in m + 1..n : lines[k].line \in {"plain", "indented", "def"}

(* A line behind a quote goes on with the text that the quote ends with,   *)
(* if it ends with text.                                                   *)
LazyMarks(q) ==
  LET l == Last(q.lines) IN
  CASE l.line = "fence" -> {}
    [] l.line = "indented" -> IF IsTextLine(q.lines, Len(q.lines)) THEN {"blockquote"} ELSE {}
    [] l.line = "quote" ->
         IF LazyMarks(l) = {} /\ l.lazy # <<>> THEN {"blockquote"} ELSE LazyMarks(l)
    [] l.line = "list" -> {"blockquote", "li"}
    [] OTHER -> {"blockquote"}

WordsOfLine(l, under) ==
  CASE l.line \in {"blank", "rule", "def"} -> <<>>
    [] l.line = "indented" -> WordsOfText(l.src, under \cup {"pre", "code"})
    [] l.line = "fence" -> <<<<l.text, under \cup {"pre", "code"}>>>>
    [] l.line = "html" -> <<<<l.text, under>>>>
    [] l.line = "heading" -> WordsOfText(l.src, under \cup {"h1"})
    [] l.line = "table" ->
         WordsOfText(l.header, under \cup {"th"})
         \o FlattenSeq([i \in DOMAIN l.rows |-> WordsOfText(l.rows[i], under \cup {"td"})])
    [] l.line = "quote" ->
         WordsOfLines(l.lines, under \cup {"blockquote"})
         \o WordsOfText(FlattenSeq(l.lazy), under \cup LazyMarks(l))
    [] l.line = "list" ->
         FlattenSeq([i \in DOMAIN l.items |-> WordsOfLines(l.items[i].lines, under \cup {"li"})])

WordsOfLines(lines, under) ==
  FlattenSeq([i \in DOMAIN lines |->
    IF IsTextLine(lines, i) THEN WordsOfText(lines[i].src, under) ELSE WordsOfLine(lines[i], under)])

WithoutLinks(words) == [i \in DOMAIN words |-> <<words[i][1], words[i][2] \ {"a", "ref"}>>]

Defines(lines) ==
  \E i \in DOMAIN lines : lines[i].line = "def" /\ ~ IsTextLine(lines, i)

(* What is shown of a source is harmless, and no link stands in a link     *)
(* (the browser would end the outer one there).  And all its words are     *)
(* shown, each where it was written: each text comes back from the queue   *)
(* to its own token, whatever was read again, added to another text or     *)
(* left to another block on the way.  A reference is a link also when it   *)
(* stands before the definition.  (Text that HTML takes for a tag is not   *)
(* escaped behind a tag that opens code, and what it swallows is lost.)    *)
ShowsTheSource(sources) ==
  \A lines \in sources :
    LET tokens == Lex(lines)
        html == RenderMarkdown(tokens)
        shown == WordsIn(html, {})
        written == WordsOfLines(lines, {}) IN
    /\ \A e \in Elements(html) :
         /\ Harmless(e)
         /\ e.tag = "a" => \A f \in Elements(e.children) : f.tag # "a"
    /\ \/ Swallows(tokens)
       \/ /\ WithoutLinks(shown) = WithoutLinks(written)
          /\ Defines(lines) =>
               \A i \in DOMAIN shown : "ref" \in written[i][2] => "a" \in shown[i][2]
=============================================================================
