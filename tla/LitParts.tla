------------------------------ MODULE LitParts ------------------------------
(***************************************************************************)
(* How lit-html puts a list of values on the page, as in the bundle that   *)
(* the broker serves (src/broker/internal/broker/web/agent.js): the part   *)
(* of a template that holds a value, the directive unsafeHTML, and the     *)
(* directive repeat, which moves the nodes of a list along with its keys.  *)
(***************************************************************************)
EXTENDS Integers, Sequences, FiniteSets, SequencesExt

(* A value of a part: text, a template of the source, or a string that is  *)
(* put in as HTML through the directive unsafeHTML.                        *)
Text(s) == [as |-> "text", is |-> s]
Template(name) == [as |-> "template", is |-> name]
Html(s) == [as |-> "html", is |-> s]

(* mutant: unsafeHTML does not remember its last result *)
HtmlAlwaysNew(old, v) == FALSE

(* unsafeHTML: for the string it had it returns the template it made then, *)
(* for another one a template of its own.                                  *)
SameHtml(old, v) == v.as = "html" /\ old = v

(* A template that is the one already there keeps its nodes.               *)
SameTemplate(old, v) == v.as = "template" /\ old = v

(* Text goes into the text node that is there.                             *)
SameText(old, v) == v.as = "text" /\ old.as = "text"

(* classMap: what is in the class list, when it gets the flags of now      *)
FirstClasses(flags) == {c \in DOMAIN flags : flags[c]}
ClassMap(classes, flags) ==
  {c \in classes : c \in DOMAIN flags /\ flags[c]} \cup FirstClasses(flags)

(* A row of a list: the key its nodes were made for, the value and the     *)
(* classes it shows, and what the last update had to make of it: all its   *)
(* nodes, the content in them, or nothing.                                 *)
NewRow(key, v, flags) ==
  [node |-> key, shows |-> v, classes |-> FirstClasses(flags), made |-> "row"]

(* A row that stays gets its value and its flags.                          *)
SetValue(row, v, flags) ==
  [row EXCEPT !.shows = v,
              !.classes = ClassMap(@, flags),
              !.made = IF \/ SameText(row.shows, v)
                          \/ SameTemplate(row.shows, v)
                          \/ SameHtml(row.shows, v)
                       THEN "nothing" ELSE "content"]

-----------------------------------------------------------------------------
(* repeat: the old keys and the new ones are walked from both ends.        *)
(*                                                                         *)
(* old and new are the lists of keys.  A part is <<"old", x>> for the one  *)
(* that was at x, or <<"new", y>> for one made for place y.                *)

Parts == {"old", "new", "end"} \X Nat
OldPart(x) == <<"old", x>>
NewPart(y) == <<"new", y>>
AtEnd == <<"end", 0>>

(* The state of the walk: what is left of the two lists; the parts found   *)
(* for the first places of the new list and for the last ones; the old     *)
(* places that were taken out of order (null in the code); the parts on    *)
(* the page in their order; and of which places the two maps were made,    *)
(* once, when first they were needed.                                      *)
WalkStates ==
  [oldHead : Nat, oldTail : Nat, newHead : Nat, newTail : Nat,
   front : Seq(Parts), back : Seq(Parts), taken : SUBSET Nat, dom : Seq(Parts),
   oldMap : SUBSET Nat, newMap : SUBSET Nat]

StartOf(old, new) ==
  [oldHead |-> 1, oldTail |-> Len(old), newHead |-> 1, newTail |-> Len(new),
   front |-> <<>>, back |-> <<>>, taken |-> {}, dom |-> [x \in DOMAIN old |-> OldPart(x)],
   oldMap |-> {}, newMap |-> {}]

WithoutPart(dom, p) == RemoveFirst(dom, p)

(* insertPart: a part is put before another, or at the end.                *)
InsertPart(dom, p, before) ==
  LET rest == WithoutPart(dom, p) IN
  IF before = AtEnd THEN Append(rest, p)
  ELSE InsertAt(rest, CHOOSE i \in DOMAIN rest : rest[i] = before, p)

BeforeBack(s) == IF s.back = <<>> THEN AtEnd ELSE Head(s.back)

(* generateMap, for what is left of both lists at that moment              *)
WithMaps(s) ==
  IF s.newMap # {} THEN s
  ELSE [s EXCEPT !.oldMap = s.oldHead..s.oldTail, !.newMap = s.newHead..s.newTail]

HeadIsKept(s) ==
  [s EXCEPT !.front = Append(@, OldPart(s.oldHead)), !.oldHead = @ + 1, !.newHead = @ + 1]

TailIsKept(s) ==
  [s EXCEPT !.back = <<OldPart(s.oldTail)>> \o @, !.oldTail = @ - 1, !.newTail = @ - 1]

HeadToTail(s) ==
  [s EXCEPT !.back = <<OldPart(s.oldHead)>> \o @,
            !.dom = InsertPart(@, OldPart(s.oldHead), BeforeBack(s)),
            !.oldHead = @ + 1, !.newTail = @ - 1]

TailToHead(s) ==
  [s EXCEPT !.front = Append(@, OldPart(s.oldTail)),
            !.dom = InsertPart(@, OldPart(s.oldTail), OldPart(s.oldHead)),
            !.oldTail = @ - 1, !.newHead = @ + 1]

HeadGoes(s) == [s EXCEPT !.dom = WithoutPart(@, OldPart(s.oldHead)), !.oldHead = @ + 1]
TailGoes(s) == [s EXCEPT !.dom = WithoutPart(@, OldPart(s.oldTail)), !.oldTail = @ - 1]

(* A new key takes its old part, if that is still to be had, or a new one  *)
(* to the front of what is left.                                           *)
TakeFromMiddle(s, old, new) ==
  LET found == {x \in s.oldMap \ s.taken : old[x] = new[s.newHead]}
      p == IF found = {} THEN NewPart(s.newHead) ELSE OldPart(CHOOSE x \in found : TRUE)
  IN [s EXCEPT !.front = Append(@, p),
               !.dom = InsertPart(@, p, OldPart(s.oldHead)),
               !.taken = @ \cup found,
               !.newHead = @ + 1]

IsUsed(s, key, new) == \E y \in s.newMap : new[y] = key

(* One round of the loop: the first of the alternatives that applies       *)
Round(s, old, new) ==
  LET m == WithMaps(s) IN
  IF s.oldHead \in s.taken THEN [s EXCEPT !.oldHead = @ + 1]
  ELSE IF s.oldTail \in s.taken THEN [s EXCEPT !.oldTail = @ - 1]
  ELSE IF old[s.oldHead] = new[s.newHead] THEN HeadIsKept(s)
  ELSE IF old[s.oldTail] = new[s.newTail] THEN TailIsKept(s)
  ELSE IF old[s.oldHead] = new[s.newTail] THEN HeadToTail(s)
  ELSE IF old[s.oldTail] = new[s.newHead] THEN TailToHead(s)
  ELSE IF ~ IsUsed(m, old[s.oldHead], new) THEN HeadGoes(m)
  ELSE IF ~ IsUsed(m, old[s.oldTail], new) THEN TailGoes(m)
  ELSE TakeFromMiddle(m, old, new)

(* What is left of one list when the other is used up: new parts before    *)
(* the ones of the last places, or old parts that go.                      *)
AddOne(s) ==
  [s EXCEPT !.front = Append(@, NewPart(s.newHead)),
            !.dom = InsertPart(@, NewPart(s.newHead), BeforeBack(s)),
            !.newHead = @ + 1]

DropOne(s) ==
  IF s.oldHead \in s.taken THEN [s EXCEPT !.oldHead = @ + 1] ELSE HeadGoes(s)

(* Until both lists are used up.  Every step takes a place of one at least. *)
WalkStep(s, old, new) ==
  IF s.oldHead <= s.oldTail /\ s.newHead <= s.newTail THEN Round(s, old, new)
  ELSE IF s.newHead <= s.newTail THEN AddOne(s)
  ELSE IF s.oldHead <= s.oldTail THEN DropOne(s)
  ELSE s

WalkFrom(old, new) ==
  LET next[s \in WalkStates] == WalkStep(s, old, new)
      walk[n \in Nat] == IF n = 0 THEN StartOf(old, new) ELSE next[walk[n - 1]]
  IN walk

Repeat(old, new) ==
  LET last == WalkFrom(old, new)[Len(old) + Len(new)]
  IN [parts |-> last.front \o last.back, dom |-> last.dom]

(* A list that is not on the page yet; values and flags are those of the   *)
(* items of the new list.                                                  *)
FirstRows(new, values, flags) ==
  [i \in DOMAIN new |-> NewRow(new[i], values[i], flags[i])]

(* The rows of a list with the keys old, when it gets the keys new: in the *)
(* order of the page.                                                      *)
UpdateRows(rows, old, new, values, flags) ==
  LET placeOf(x) == CHOOSE y \in DOMAIN new : new[y] = old[x]
      rowOf(p) == IF p[1] = "old" THEN SetValue(rows[p[2]], values[placeOf(p[2])], flags[placeOf(p[2])])
                  ELSE NewRow(new[p[2]], values[p[2]], flags[p[2]])
      rowsOf[dom \in Seq(Parts)] == [i \in DOMAIN dom |-> rowOf(dom[i])]
  IN rowsOf[Repeat(old, new).dom]

-----------------------------------------------------------------------------

(* What repeat promises: a key that stays keeps its part, a key that comes *)
(* gets one of its own, and the page shows them in the order of the list.  *)
KeyedParts(old, new) ==
  [y \in DOMAIN new |->
     IF \E x \in DOMAIN old : old[x] = new[y]
     THEN OldPart(CHOOSE x \in DOMAIN old : old[x] = new[y]) ELSE NewPart(y)]

NoDuplicates(keys) == \A i, j \in DOMAIN keys : keys[i] = keys[j] => i = j
Lists(n) == {keys \in UNION {[1..m -> 1..n] : m \in 0..n} : NoDuplicates(keys)}

RepeatKeepsNodesUpTo(n) ==
  \A old \in Lists(n), new \in Lists(n) :
    LET walked == Repeat(old, new) IN
    /\ walked.parts = KeyedParts(old, new)
    /\ walked.dom = KeyedParts(old, new)
=============================================================================
