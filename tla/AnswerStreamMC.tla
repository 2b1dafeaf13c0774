-------------------------- MODULE AnswerStreamMC ----------------------------
(***************************************************************************)
(* Instances of AnswerStream, Markdown and Lexer for TLC: streams long     *)
(* enough for two events and both forms of a line end, cut everywhere;     *)
(* small documents with every token of marked, side by side and nested;    *)
(* and the small sources of LexerMC.                                       *)
(***************************************************************************)
EXTENDS AnswerStream

MD == INSTANCE Markdown
LX == INSTANCE LexerMC

Upto(n, S) == UNION {[1..m -> S] : m \in 0..n}

Text(w) == [type |-> "text", text |-> w]
Wrap(k, ts) == [type |-> k, tokens |-> ts]
LinkTo(href, ts) == [type |-> "link", href |-> href, title |-> "title", tokens |-> ts]

(* Spans, flat and nested *)
Leaves ==
  {Text("w1"), Text("w2"), [type |-> "html", text |-> "script"],
   [type |-> "codespan", text |-> "c"], [type |-> "br"],
   [type |-> "image", href |-> "web", text |-> "alt"],
   [type |-> "image", href |-> "broken", text |-> "alt"]}

Flat == Upto(2, Leaves)

Nested ==
  {Wrap(k, ts) : k \in {"strong", "del"}, ts \in Flat}
  \cup {LinkTo(href, ts) : href \in {"web", "script", "broken"}, ts \in Upto(1, Leaves)}

Spans == Flat \cup {<<t>> : t \in Nested} \cup {<<Text("w1"), t>> : t \in Nested}
         \cup {<<t, Text("w2")>> : t \in Nested}

(* Blocks of spans, items and quotes of blocks *)
Words == {<<Text("w1")>>, <<Wrap("em", <<Text("w1")>>), Text("w2")>>, <<[type |-> "image", href |-> "web", text |-> "alt"], Text("w2")>>}

Small ==
  {Wrap(k, ts) : k \in {"paragraph", "text"}, ts \in Words}
  \cup {[type |-> "html", text |-> "script"], [type |-> "hr"], [type |-> "space"],
        [type |-> "code", lang |-> "class", text |-> "c"],
        [type |-> "heading", depth |-> "h1", tokens |-> <<Text("w2")>>]}

Items == [task : BOOLEAN, loose : BOOLEAN, tokens : Upto(2, Small)]

Lists == {[type |-> "list", ordered |-> ordered, start |-> 2, items |-> <<item>>]
          : ordered \in BOOLEAN, item \in Items}

Tables == {[type |-> "table", header |-> <<ts>>, rows |-> rows]
           : ts \in Words, rows \in {<<>>} \cup {<<<<us>>>> : us \in Words}}

Docs ==
  {<<Wrap("paragraph", ts)>> : ts \in Spans}
  \cup Upto(3, Small)
  \cup {<<t>> : t \in Lists \cup Tables}
  \cup {<<t, u>> : t \in {l \in Lists : Len(l.items[1].tokens) = 1}, u \in Small}
  \cup {<<Wrap("blockquote", ts)>> : ts \in Upto(2, Small)}
  \cup {<<Wrap("blockquote", <<t>>)>> : t \in Lists}
  \cup {<<t, [type |-> "unknown"]>> : t \in Small}

DocsAreShown == MD!ShowsTheAnswer(Docs) /\ LX!SourcesAreShown

(* The exception in ShowsTheSource is real: an answer that writes <code>   *)
(* as a word, and in its next paragraph w1 <y, z> w2, loses w2.            *)
ASSUME RawCodeSwallows ==
  LET w == [span |-> "word", text |-> "w2"]
      answer == <<LX!Line(<<LX!Tag("code", TRUE)>>), LX!Blank, LX!Line(<<LX!Angle, w>>)>>
      shown == MD!WordsIn(MD!RenderMarkdown(LX!Lex(answer)), {}) IN
  ~ \E i \in DOMAIN shown : shown[i][1] = w.text

(* The text so far is rendered anew after each delta: whichever of these   *)
(* documents it is by then, it is shown as it is meant (ShowsTheAnswer of  *)
(* Markdown, ShowsTheSource of Lexer), harmless and with its words in      *)
(* place.                                                                  *)
AnswerIsShown == yielded # <<>> => DocsAreShown
=============================================================================
