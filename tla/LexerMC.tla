------------------------------ MODULE LexerMC -------------------------------
(***************************************************************************)
(* Small sources for Lexer: all texts of a few spans, all short lists of   *)
(* lines, and lists and quotes of them, one within the other.              *)
(***************************************************************************)
EXTENDS Lexer

Word(w) == [span |-> "word", text |-> w]
Address == [span |-> "url", text |-> "address"]
Angle == [span |-> "angle", text |-> "angle"]
Tag(of, opens) == [span |-> "tag", of |-> of, opens |-> opens, text |-> "tag"]
Ref == [span |-> "ref", label |-> "l", src |-> <<Word("ref")>>]

TextSpans ==
  {Word("w"), Address, Angle, Ref, [span |-> "codespan", text |-> "c"],
   [span |-> "strong", src |-> <<Word("s"), Address>>],
   [span |-> "link", href |-> "web", src |-> <<Word("k"), Address>>]}
  \cup {Tag(of, opens) : of \in {"a", "code"}, opens \in BOOLEAN}

Texts(n) == UNION {[1..m -> TextSpans] : m \in 1..n}

Line(src) == [line |-> "plain", src |-> src]
Blank == [line |-> "blank"]
Def == [line |-> "def", label |-> "l", src |-> <<Word("d")>>]
Fence == [line |-> "fence", text |-> "f"]
Indented == [line |-> "indented", src |-> <<Word("i")>>]
Title == [line |-> "heading", src |-> <<Word("h")>>]

Lines ==
  {Line(<<Word("w1")>>), Line(<<Word("w2"), Address>>), Blank, Def, Fence, Indented, Title,
   [line |-> "rule"], [line |-> "html", text |-> "t"],
   [line |-> "table", header |-> <<Word("th")>>, rows |-> <<<<Word("td")>>>>]}

(* Which line may follow another: the ones that do not belong to its block *)
GoesOn == {"plain", "indented", "def"}

Follows(a, b) ==
  /\ a = "html" => b = "blank"
  /\ a = "table" => b \notin GoesOn \cup {"table"}
  /\ a = "list" => b \in {"blank", "heading", "rule", "fence", "html"}
  /\ a = "quote" => b \in {"blank", "heading", "rule", "fence", "html", "list"}
  /\ a \in {"indented", "blank"} => b # a

Beyond(a, b) ==
  /\ a = "indented" => b # "indented"
  /\ a = "list" => b \notin {"list", "indented"}

Possible(lines) ==
  /\ \A i \in 1..Len(lines) - 1 : Follows(lines[i].line, lines[i + 1].line)
  /\ \A i \in 1..Len(lines) - 2 :
       lines[i + 1].line = "blank" => Beyond(lines[i].line, lines[i + 2].line)

Blocks(n, S) == {s \in UNION {[1..m -> S] : m \in 1..n} : Possible(s)}

Item(lines, task, gap) == [lines |-> lines, task |-> task, gap |-> gap]
ListOfItems(items) == [line |-> "list", items |-> items]
QuoteOfLines(lines, lazy) == [line |-> "quote", lines |-> lines, lazy |-> lazy]

(* What is in an item or a quote has no empty line at its ends.            *)
Trimmed(S) == {s \in S : Head(s).line # "blank" /\ Last(s).line # "blank"}

(* The lines behind which a quote may go on without its mark (a definition *)
(* is not among them)                                                      *)
RECURSIVE MayGoOn(_)
MayGoOn(lines) ==
  LET l == Last(lines) IN
  \/ l.line \in {"plain", "fence", "heading", "indented"}
  \/ l.line = "quote" /\ MayGoOn(l.lines)
  \/ l.line = "list" /\ Last(Last(l.items).lines).line = "plain"

Held(S, lazy) ==
  {ListOfItems(<<Item(s, FALSE, FALSE)>>) : s \in S}
  \cup {QuoteOfLines(s, <<>>) : s \in S}
  \cup {QuoteOfLines(s, lazy) : s \in {t \in S : MayGoOn(t)}}

Few == {Line(<<Word("w2"), Address>>), Blank, Def, Fence, Title}
Within == Held(Trimmed(Blocks(2, {Line(<<Word("w1")>>), Def, Fence, Indented})), <<<<Word("z")>>>>)

Mixed ==
  Trimmed({s \in {<<a, i, b>> : a \in Few, i \in Within, b \in Few}
              \cup {<<i, Blank, b>> : i \in Within, b \in Few} \cup {<<i>> : i \in Within}
           : Possible(s)})

Sources ==
  {<<Line(t)>> : t \in Texts(2)}
  \cup {<<Line(t), Blank, Line(u), Def>> : t \in Texts(2), u \in Texts(1)}
  \cup {<<Line(t), Blank, Def, Line(u)>> : t \in Texts(1), u \in Texts(2)}
  \cup Blocks(3, Lines)
  \cup {<<h>> : h \in Held(Trimmed(Blocks(3, Lines)), <<<<Word("z")>>>>)}
  \cup {<<ListOfItems(<<Item(s, FALSE, gap), Item(<<Line(<<Word("w3")>>)>>, TRUE, FALSE)>>)>>
        : s \in Mixed, gap \in BOOLEAN}
  \cup {<<h>> : h \in Held(Mixed, <<<<Word("y1")>>, <<Word("y2")>>>>)}

SourcesAreShown == ShowsTheSource(Sources)
=============================================================================
