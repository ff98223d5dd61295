------------------------------ MODULE JsonText ------------------------------
(***************************************************************************)
(* Tree values (src/lib/util/tree_value/tree_value.{h,cpp}) and the JSON   *)
(* text they are written to and built from (json_io.cpp).                  *)
(*                                                                         *)
(* A tree is a function from paths to the kinds and characters of its      *)
(* values; a path is the sequence of indices and labels that lead from the *)
(* root to a value.  A text is a sequence of characters, and iterators are *)
(* positions in it; " " stands for any layout.  The functions that write   *)
(* and read call themselves: calls is their stack.                         *)
(***************************************************************************)
EXTENDS Integers, SequencesExt

CONSTANTS
    Holders,     \* the program's variables of type TTreeValue
    Scalars,     \* the characters of true, false and numbers
    Rounded,     \* for the doubles with more decimals than std::to_string
                 \* prints: what it prints of them
    Contents,    \* the characters of strings
    Labels,      \* the characters of the labels of dictionaries
    MaxNodes,    \* bound: values in the trees the program's steps make
    MaxOthers,   \* bound: values in the other trees while one is written
    MaxDepth,    \* bound: arrays around each other in the tree it may start with
    Highest,     \* greatest value of Pretty's type: 127 in the code
    Indent       \* spaces for a level: 4 in the code

Digit == {"0", "1", "2"}
Bools == {<<"t", "r", "u", "e">>, <<"f", "a", "l", "s", "e">>}

\* The places i..j of s are digits, at least one.
AreDigits(s, i, j) == i <= j /\ \A k \in i..j : s[k] \in Digit

\* What std::to_string prints of most numbers: digits, perhaps a sign and a
\* fraction.  The zeros that fill up a double's decimals are left out.
IsNumber(s) ==
    \E i \in {1, 2} :
        /\ i = 2 => s[1] = "-"
        /\ \/ AreDigits(s, i, Len(s))
           \/ \E d \in i..Len(s) :
                  s[d] = "." /\ AreDigits(s, i, d - 1) /\ AreDigits(s, d + 1, Len(s))

\* And of the other doubles.
Words == {<<"i", "n", "f">>, <<"-", "i", "n", "f">>, <<"n", "a", "n">>, <<"-", "n", "a", "n">>}

\* A scalar is named by its characters, a double by all its decimals.
\* std::to_string rounds it; std::stod finds the number as it was printed.
Printed(s) == IF s \in DOMAIN Rounded THEN Rounded[s] ELSE s

ASSUME JsonAssumption ==
    /\ \A s \in Scalars : s \in Seq(STRING) /\ (s \in Bools \cup Words \/ IsNumber(s))
    /\ \A s \in DOMAIN Rounded :
           /\ IsNumber(s) /\ Rounded[s] \in Seq(STRING) /\ IsNumber(Rounded[s])
           /\ Rounded[s] \notin DOMAIN Rounded
    /\ Contents \subseteq Seq(STRING) /\ Labels \subseteq Seq(STRING)
    /\ MaxDepth \in Nat /\ Highest \in Nat /\ Indent \in Nat \ {0}

VARIABLES
    tree,        \* the trees the program holds
    careful,     \* see CrashNeedsAHole
    step,        \* where the program is; "null": it followed a null pointer;
                 \* "loops": ToString never returns
    written,     \* the tree being written, or whose text is read
    pretty,      \* and how
    text,        \* its text
    calls,       \* the calls of ToString or of BuildJsonHelper
    scan,        \* the loop of FindChar
    built,       \* what BuildJsonHelper has made so far
    nest, span   \* history: the brackets open after each character, and where
                 \* each value of the tree is in the text

jsonVars == <<tree, careful, step, written, pretty, text, calls, scan, built, nest, span>>
textVars == <<written, pretty, text, calls, scan, built, nest, span>>

Node(kind, chars) == [kind |-> kind, chars |-> chars]
Leaf(kind, chars) == [p \in {<<>>} |-> Node(kind, chars)]
Undefined         == Leaf("undefined", <<>>)
Indexed(i)           == [at |-> i, label |-> <<>>]
Labelled(l)          == [at |-> 0, label |-> l]
Containers        == {"array", "dict"}

\* The paths of the values in the container at p.
Inner(v, p) == {q \in DOMAIN v : q # <<>> /\ Front(q) = p}

\* The value at p as a tree of its own.
Branch(v, p) ==
    [q \in {SubSeq(r, Len(p) + 1, Len(r)) : r \in {r \in DOMAIN v : IsPrefix(p, r)}} |-> v[p \o q]]

\* v with w at the key k, in the place of what was there.
Placed(v, k, w) ==
    [q \in {r \in DOMAIN v : r = <<>> \/ r[1] # k} \cup {<<k>> \o r : r \in DOMAIN w} |->
        IF q # <<>> /\ q[1] = k THEN w[Tail(q)] ELSE v[q]]

\* How many values are in the trees of some holders.
Values(trees, holders) ==
    Cardinality(UNION {{x} \X DOMAIN trees[x] : x \in {y \in holders : trees[y] # Undefined}})

NoScan == [at |-> 0, until |-> 0, stack |-> <<>>]

-----------------------------------------------------------------------------
(* ToString. *)

Lowest == -Highest - 1

\* Fault: compact output starts at the level that turns layout off by one.
ShallowLevel(p) == IF p THEN 1 ELSE -1

\* The constructor's level.
FirstLevel(p) == IF p THEN 1 ELSE Lowest

\* static_cast<std::int_least8_t>(Pretty + 1)
NextLevel(level) == IF level = Highest THEN Lowest ELSE level + 1

\* The loops that indent count in Pretty's type too: i / Indent reaches the
\* level before i wraps round, or never.
IndentEnds(level) == level <= Highest \div Indent

Layout(level) == IF level < 0 THEN <<>> ELSE <<" ">>
Quote         == "\""
Quoted(s)     == <<Quote>> \o s \o <<Quote>>

\* What is written of a value before the values in it.
Opening(node) ==
    CASE node.kind = "undefined" -> <<>>
      [] node.kind = "scalar"    -> Printed(node.chars)
      [] node.kind = "string"    -> Quoted(node.chars)
      [] node.kind = "array"     -> <<"[">>
      [] node.kind = "dict"      -> <<"{">>
Closing(node) == IF node.kind = "array" THEN "]" ELSE "}"

Brackets == IF nest = <<>> THEN <<>> ELSE Last(nest)

\* A call for the value at q, which writes lead and the value's opening.
\* where: the separator before it, where its label begins, the colon, and
\* where the value begins.
Begin(v, q, lead, where, frames, spans, level) ==
    LET opening == Opening(v[q])
        inner   == v[q].kind \in Containers
        chars   == lead \o opening
    IN  /\ text' = text \o chars
        /\ nest' = nest \o [i \in 1..Len(chars) |->
               IF inner /\ i = Len(chars) THEN Append(Brackets, opening[1]) ELSE Brackets]
        /\ span' = [r \in DOMAIN spans \cup {q} |->
               IF r # q THEN spans[r]
               ELSE [before |-> where[1], beg |-> where[2], colon |-> where[3],
                     first |-> where[4], after |-> 0,
                     last |-> IF inner THEN 0 ELSE where[4] + Len(opening) - 1]]
        /\ calls' = IF inner THEN Append(frames, [path |-> q, level |-> level, item |-> <<>>])
                    ELSE frames

\* operator<<, into a file that may have layout around the text.
Write(x, p) ==
    /\ step = "idle" /\ Values(tree, Holders \ {x}) <= MaxOthers
    /\ written' = tree[x] /\ pretty' = p /\ step' = "writing"
    /\ \E lead \in {<<>>, <<" ">>} :
           Begin(tree[x], <<>>, lead, <<0, 0, Len(lead), Len(lead) + 1>>, <<>>, <<>>, FirstLevel(p))
    /\ UNCHANGED <<tree, careful, scan, built>>

\* The position at which the value at item, if any, is left behind.
Ended(item, position) ==
    IF item = <<>> THEN span ELSE [span EXCEPT ![item].after = position]

NextIndex(item) == IF item = <<>> THEN 1 ELSE Last(item).at + 1

\* The next turn of the loop over an array, or over a dictionary, which has
\* its entries in any order.  The comma that follows a value is written with
\* the next one: the last comma gives way to the bracket.
WriteItem ==
    /\ step = "writing" /\ calls # <<>>
    /\ LET c == Last(calls) IN
       \E q \in Inner(written, c.path) \ DOMAIN span :
          LET dict   == written[c.path].kind = "dict"
              comma  == IF c.item = <<>> THEN <<>> ELSE <<",">>
              label  == IF dict THEN Quoted(Last(q).label) \o <<":">> ELSE <<>>
              gap    == IF dict THEN Layout(c.level) ELSE <<>>
              before == Len(text) + Len(comma)
              beg    == before + Len(Layout(c.level)) + 1
              colon  == IF dict THEN beg + Len(label) - 1 ELSE before
          IN  /\ dict \/ Last(q) = Indexed(NextIndex(c.item))
              /\ IF IndentEnds(c.level)
                 THEN /\ Begin(written, q, comma \o Layout(c.level) \o label \o gap,
                               <<before, beg, colon, beg + Len(label) + Len(gap)>>,
                               [calls EXCEPT ![Len(calls)].item = q],
                               Ended(c.item, before), NextLevel(c.level))
                      /\ UNCHANGED step
                 ELSE step' = "loops" /\ UNCHANGED <<text, nest, span, calls>>
    /\ UNCHANGED <<tree, careful, written, pretty, scan, built>>

\* The end of an array or a dictionary.  An empty array is for a reader one
\* with nothing in it: the history has a place for that, too.
WriteClose ==
    /\ step = "writing" /\ calls # <<>>
    /\ LET c    == Last(calls)
           gap  == IF c.item = <<>> THEN <<>> ELSE Layout(c.level)
           end  == Len(text) + Len(gap) + 1
           hole == IF c.item = <<>> /\ written[c.path].kind = "array"
                   THEN {Append(c.path, Indexed(1))} ELSE {}
       IN  /\ Inner(written, c.path) \subseteq DOMAIN span
           /\ text' = text \o gap \o <<Closing(written[c.path])>>
           /\ nest' = nest \o [i \in 1..Len(gap) |-> Brackets] \o <<Front(Brackets)>>
           /\ span' = [q \in DOMAIN span \cup hole |->
                  IF q \in hole
                  THEN [before |-> end - 1, beg |-> end, colon |-> end - 1,
                        first |-> end, last |-> end - 1, after |-> end]
                  ELSE IF q = c.path THEN [span[q] EXCEPT !.last = end]
                  ELSE Ended(c.item, end)[q]]
           /\ calls' = Front(calls)
    /\ UNCHANGED <<tree, careful, step, written, pretty, scan, built>>

\* ToString has returned.
WriteEnds ==
    /\ step = "writing" /\ calls = <<>>
    /\ LET pad == SubSeq(text, 1, span[<<>>].first - 1)
       IN  /\ text' = text \o pad
           /\ nest' = nest \o [i \in 1..Len(pad) |-> Brackets]
    /\ span' = [span EXCEPT ![<<>>].after = Len(text) + 1]
    /\ step' = "written"
    /\ UNCHANGED <<tree, careful, written, pretty, calls, scan, built>>

-----------------------------------------------------------------------------
(* BuildJson. *)

IsSpace(p) == p \in DOMAIN text /\ text[p] = " "

\* Fault: it steps over everything but layout.
BlindNextChar(first, last) ==
    CHOOSE q \in (first + 1)..(Len(text) + 1) :
        /\ IsSpace(q) \/ q >= last
        /\ \A r \in (first + 1)..(q - 1) : ~IsSpace(r) /\ r < last

\* One step on, or back, and over layout; never over the other end.
NextChar(first, last) ==
    CHOOSE q \in (first + 1)..(Len(text) + 1) :
        /\ ~IsSpace(q) \/ q >= last
        /\ \A r \in (first + 1)..(q - 1) : IsSpace(r) /\ r < last
PrevChar(first, last) ==
    CHOOSE q \in 0..(last - 1) :
        /\ ~IsSpace(q) \/ q <= first
        /\ \A r \in (q + 1)..(last - 1) : IsSpace(r) /\ r > first

\* sv.substr from position p: a negative length is a large one.
Substr(p, len) ==
    SubSeq(text, p, IF len < 0 \/ p + len > Len(text) THEN Len(text) ELSE p + len - 1)

\* The last of the digits of s from place i on.
LastDigit(s, i) ==
    CHOOSE n \in (i - 1)..Len(s) :
        /\ \A k \in i..n : s[k] \in Digit
        /\ n = Len(s) \/ s[n + 1] \notin Digit

\* from_chars and stod, of a text that begins with a digit.
Number(s, decimal) ==
    LET whole    == LastDigit(s, 1)
        fraction == IF whole < Len(s) /\ s[whole + 1] = "."
                    THEN SubSeq(s, whole + 2, LastDigit(s, whole + 2)) ELSE <<>>
    IN  SubSeq(s, 1, whole)
            \o (CASE ~decimal -> <<>>
                  [] decimal /\ fraction = <<>> -> <<".", "0">>
                  [] decimal /\ fraction # <<>> -> <<".">> \o fraction)

\* What FindChar makes of a character: its stack, and whether it returns.
Opens(s)  == s \in {"[", "{"}
Closes(s) == s \in {"]", "}"}
Opener(s) == IF s = "]" THEN "[" ELSE "{"

\* Fault: brackets are not counted.
NoStack(s, stack) == <<>>

StackAfter(s, stack) ==
    CASE Opens(s)  -> Append(stack, s)
      [] Closes(s) -> Front(stack)
      [] OTHER     -> stack
Returns(s, c, stack) ==
    \/ Closes(s) /\ (stack # <<>> => Last(stack) # Opener(s))
    \/ s = c /\ stack = <<>>

Seeks(c)   == CASE step = "comma" -> c = ","
                [] step = "colon" -> c = ":"
                [] step = "dot"   -> c = "."
                [] OTHER          -> FALSE
FindChar(first, last) == [at |-> first, until |-> last, stack |-> <<>>]

\* FindChar returns position p.
Finds(p) ==
    \E c \in {",", ":", "."} :
        /\ Seeks(c)
        /\ \/ scan.at = scan.until /\ p = scan.until
           \/ /\ scan.at # scan.until /\ p = scan.at + 1
              /\ Returns(text[p], c, scan.stack)

\* A turn of FindChar's loop after which it goes on.
ScanOn ==
    /\ \E c \in {",", ":", "."} :
           /\ Seeks(c) /\ scan.at # scan.until
           /\ ~Returns(text[scan.at + 1], c, scan.stack)
    /\ scan' = [scan EXCEPT !.at = @ + 1, !.stack = StackAfter(text[scan.at + 1], @)]
    /\ UNCHANGED <<tree, careful, step, written, pretty, text, calls, built, nest, span>>

Call(q, first, last) ==
    [path |-> q, first |-> first, last |-> last, comma |-> 0, item |-> <<>>]

\* Where the text of the whole value ends.  Of the text of an undefined tree,
\* the byte before it is asked for, which may look like a blank or not: last
\* stays there or goes one further back.
LastChars(first) ==
    CASE text = <<>>                        -> {0, -1}
      [] text # <<>> /\ IsSpace(Len(text))  -> {PrevChar(first, Len(text))}
      [] text # <<>> /\ ~IsSpace(Len(text)) -> {Len(text)}

BuildJson ==
    /\ step = "written"
    /\ LET first == IF IsSpace(1) THEN NextChar(1, Len(text)) ELSE 1
       IN  \E last \in LastChars(first) : calls' = <<Call(<<>>, first, last)>>
    /\ step' = "enter"
    /\ UNCHANGED <<tree, careful, written, pretty, text, scan, built, nest, span>>

\* BuildJsonHelper for a part of the text that begins with a and ends with b.
Part == SubSeq(text, Last(calls).first, Last(calls).last)
Between(a, b) ==
    /\ Last(calls).first < Last(calls).last
    /\ text[Last(calls).first] = a /\ text[Last(calls).last] = b
Make(node) ==
    LET p == Last(calls).path
    IN  built' = [q \in DOMAIN built \cup {p} |-> IF q = p THEN node ELSE built[q]]

EnterNothing ==
    /\ Last(calls).first >= Last(calls).last
    /\ Make(Node("undefined", <<>>)) /\ step' = "leave" /\ UNCHANGED scan

EnterContainer ==
    /\ \/ Between("[", "]") /\ Make(Node("array", <<>>))
       \/ Between("{", "}") /\ Make(Node("dict", <<>>))
    /\ step' = "comma" /\ scan' = FindChar(Last(calls).first, Last(calls).last)

EnterString ==
    /\ Between(Quote, Quote)
    /\ Make(Node("string", SubSeq(text, Last(calls).first + 1, Last(calls).last - 1)))
    /\ step' = "leave" /\ UNCHANGED scan

EnterNumber ==
    /\ \E a, b \in Digit : Between(a, b)
    /\ step' = "dot" /\ scan' = FindChar(Last(calls).first, Last(calls).last)
    /\ UNCHANGED built

EnterBool ==
    /\ Last(calls).first < Last(calls).last
    /\ \A a, b \in Digit : ~Between(a, b)
    /\ ~Between("[", "]") /\ ~Between("{", "}") /\ ~Between(Quote, Quote)
    /\ IF Part \in Bools
       THEN Make(Node("scalar", Part)) /\ step' = "leave"
       ELSE step' = "threw" /\ UNCHANGED built
    /\ UNCHANGED scan

Enter ==
    /\ step = "enter"
    /\ EnterNothing \/ EnterContainer \/ EnterString \/ EnterNumber \/ EnterBool
    /\ UNCHANGED <<tree, careful, written, pretty, text, calls, nest, span>>

DotSought ==
    /\ step = "dot"
    /\ \E p \in {scan.until, scan.at + 1} :
           Finds(p) /\ Make(Node("scalar", Number(Part, p # Last(calls).last)))
    /\ step' = "leave"
    /\ UNCHANGED <<tree, careful, written, pretty, text, calls, scan, nest, span>>

\* The call for the value at q, up to the comma.
Descend(q, colon, comma) ==
    LET m == Len(calls)
    IN  calls' = Append([calls EXCEPT ![m].item = q, ![m].comma = comma],
                        Call(q, NextChar(colon, comma), PrevChar(colon, comma)))

\* The next item of an array is between two commas, or a comma and a bracket.
ItemFound ==
    /\ step = "comma" /\ built[Last(calls).path].kind = "array"
    /\ \E comma \in {scan.until, scan.at + 1} :
           /\ Finds(comma)
           /\ Descend(Append(Last(calls).path, Indexed(NextIndex(Last(calls).item))),
                      Last(calls).first, comma)
    /\ step' = "enter"
    /\ UNCHANGED <<tree, careful, written, pretty, text, scan, built, nest, span>>

EntryFound ==
    /\ step = "comma" /\ built[Last(calls).path].kind = "dict"
    /\ \E comma \in {scan.until, scan.at + 1} :
           /\ Finds(comma)
           /\ calls' = [calls EXCEPT ![Len(calls)].comma = comma]
           /\ scan' = FindChar(Last(calls).first, comma)
    /\ step' = "colon"
    /\ UNCHANGED <<tree, careful, written, pretty, text, built, nest, span>>

\* An entry replaces one with the same label.  substr throws where it begins
\* behind the text.
LabelFound ==
    /\ step = "colon"
    /\ \E colon \in {scan.until, scan.at + 1} :
           /\ Finds(colon)
           /\ LET c   == Last(calls)
                  beg == NextChar(c.first, colon)
                  q   == Append(c.path, Labelled(Substr(beg + 1, PrevChar(c.first, colon) - beg - 1)))
              IN  IF beg > Len(text)
                  THEN step' = "threw" /\ UNCHANGED <<calls, built>>
                  ELSE /\ Descend(q, colon, c.comma) /\ step' = "enter"
                       /\ built' = [r \in {r \in DOMAIN built : ~IsPrefix(q, r)} |-> built[r]]
    /\ UNCHANGED <<tree, careful, written, pretty, text, scan, nest, span>>

\* The helper returns, to the loop in the call before it.
Leave ==
    /\ step = "leave"
    /\ LET rest == Front(calls)
           c    == Last(rest)
       IN  CASE rest = <<>> ->
                  calls' = <<>> /\ step' = "built" /\ UNCHANGED scan
             [] rest # <<>> /\ c.comma = c.last ->
                  calls' = rest /\ UNCHANGED <<step, scan>>
             [] rest # <<>> /\ c.comma # c.last ->
                  /\ calls' = [rest EXCEPT ![Len(rest)].first = c.comma]
                  /\ scan' = FindChar(c.comma, c.last) /\ step' = "comma"
    /\ UNCHANGED <<tree, careful, written, pretty, text, built, nest, span>>

Read == BuildJson \/ Enter \/ ScanOn \/ DotSought \/ ItemFound \/ EntryFound \/ LabelFound \/ Leave

-----------------------------------------------------------------------------
(* The program. *)

\* d arrays around nothing.
Nested(d) ==
    [p \in {[i \in 1..n |-> Indexed(1)] : n \in 0..d} |->
        Node(IF Len(p) = d THEN "undefined" ELSE "array", <<>>)]

\* The program has no tree yet, or has pushed arrays into arrays.
JsonInit ==
    /\ \E x \in Holders, d \in 0..MaxDepth :
           /\ tree = [y \in Holders |-> IF y = x THEN Nested(d) ELSE Undefined]
           /\ careful = (d = 0)
    /\ step = "idle" /\ written = Undefined /\ pretty = FALSE /\ text = <<>> /\ calls = <<>>
    /\ scan = NoScan /\ built = <<>> /\ nest = <<>> /\ span = <<>>

Fits(trees) == Values(trees, Holders) <= MaxNodes

\* The assignments from values.
Assign(x) ==
    /\ step = "idle"
    /\ \E v \in {Leaf("scalar", s) : s \in Scalars} \cup {Leaf("string", s) : s \in Contents} :
           tree' = [tree EXCEPT ![x] = v]
    /\ Fits(tree')
    /\ UNCHANGED <<careful, step, textVars>>

\* A copy follows the pointer of every tree inside.
Copies(v) == \A p \in DOMAIN v : v[p].kind # "undefined"

\* An assignment that copies asks first whether there is a tree.
Whole(v) == v = Undefined \/ Copies(v)

\* x becomes new, which holds what was tree[y], moved or copied.  A tree moved
\* into itself is lost with all that held it.
Give(x, y, new, moves, copies) ==
    /\ step = "idle"
    /\ careful' = (careful /\ tree[y] # Undefined /\ x # y)
    /\ IF moves \/ copies
       THEN /\ tree' = [tree EXCEPT ![x] = new, ![y] = IF moves THEN Undefined ELSE @]
            /\ Fits(tree') /\ UNCHANGED step
       ELSE step' = "null" /\ UNCHANGED tree
    /\ UNCHANGED textVars

\* x = y, x = std::move(y).
AssignTree(x, y, moves) == x # y /\ Give(x, y, tree[y], moves, Whole(tree[y]))

\* What Push and operator[] make of a tree first.
Made(v, kind) == IF v = Undefined THEN Leaf(kind, <<>>) ELSE v

\* Push, of x itself as well.  On what is no array it throws bad_variant_access
\* and changes nothing.
Push(x, y, moves) ==
    /\ tree[x][<<>>].kind \in {"undefined", "array"}
    /\ LET array == Made(tree[x], "array")
           given == IF x = y THEN array ELSE tree[y]
       IN  Give(x, y, Placed(array, Indexed(Cardinality(Inner(array, <<>>)) + 1), given),
                moves, Copies(given))

\* x[label], which makes the dictionary and the entry.
Entered(v, l) ==
    LET dict == Made(v, "dict")
    IN  IF <<Labelled(l)>> \in DOMAIN dict THEN dict ELSE Placed(dict, Labelled(l), Undefined)

\* x[label] = y: where y is x, it has the entry by then.
Store(x, l, y, moves) ==
    /\ tree[x][<<>>].kind \in {"undefined", "dict"}
    /\ LET given == IF x = y THEN Entered(tree[x], l) ELSE tree[y]
       IN  Give(x, y, Placed(Made(tree[x], "dict"), Labelled(l), given), moves, Whole(given))

\* y = x[k], y = std::move(x[k]), of an entry that is there: what is moved away
\* leaves it undefined, unless y is x and x the entry from now on.
TakeOut(x, y, moves) ==
    /\ step = "idle"
    /\ careful' = (careful /\ (moves => x = y))
    /\ \E p \in Inner(tree[x], <<>>) :
          IF moves \/ Whole(Branch(tree[x], p))
          THEN /\ tree' = [tree EXCEPT ![x] = IF moves THEN Placed(@, p[1], Undefined) ELSE @,
                                       ![y] = Branch(tree[x], p)]
               /\ Fits(tree') /\ UNCHANGED step
          ELSE step' = "null" /\ UNCHANGED tree
    /\ UNCHANGED textVars

\* x[label], never assigned to.
Touch(x, l) ==
    /\ step = "idle"
    /\ tree[x][<<>>].kind \in {"undefined", "dict"} /\ <<Labelled(l)>> \notin DOMAIN tree[x]
    /\ tree' = [tree EXCEPT ![x] = Entered(@, l)]
    /\ Fits(tree') /\ careful' = FALSE
    /\ UNCHANGED <<step, textVars>>

\* AsArrayMutable().clear(), AsDictMutable().clear().
Clear(x) ==
    /\ step = "idle" /\ tree[x][<<>>].kind \in Containers
    /\ tree' = [tree EXCEPT ![x] = Leaf(@[<<>>].kind, <<>>)]
    /\ UNCHANGED <<careful, step, textVars>>

\* Strings in containers and labels are neither quoted nor counted by
\* FindChar, and an empty dictionary is read as whatever stands behind it.
Structure == {",", "[", "]", "{", "}"}
Legible(v) ==
    v[<<>>].kind = "string" \/
    \A p \in DOMAIN v :
        /\ v[p].kind = "string" => Structure \cap ToSet(v[p].chars) = {}
        /\ p # <<>> => (Structure \cup {":"}) \cap ToSet(Last(p).label) = {}
        /\ v[p].kind = "dict" => Inner(v, p) # {}

\* What begins with a sign or a letter is taken for true or false.
Unreadable(v) ==
    \E p \in DOMAIN v :
        v[p].kind = "scalar" /\ (Printed(v[p].chars)[1] = "-" \/ Printed(v[p].chars) \in Words)

\* What reading makes of the other trees: a number of one digit is nothing, a
\* double has lost the decimals that were not printed, and an empty array has
\* nothing in it.
Holes(v) == {Append(p, Indexed(1)) : p \in {q \in DOMAIN v : v[q].kind = "array" /\ Inner(v, q) = {}}}
NodeAsRead(node) ==
    CASE node.kind # "scalar" -> node
      [] node.kind = "scalar" /\ Len(Printed(node.chars)) = 1 -> Node("undefined", <<>>)
      [] node.kind = "scalar" /\ Len(Printed(node.chars)) # 1 -> Node("scalar", Printed(node.chars))
AsRead(v) ==
    [p \in DOMAIN v \cup Holes(v) |->
        IF p \in Holes(v) THEN Node("undefined", <<>>) ELSE NodeAsRead(v[p])]

\* The trees whose text is read without an undefined tree in another.
Storable(v) == Legible(v) /\ Whole(AsRead(v))

\* operator>>, which leaves the tree as it is when BuildJson throws.
Assigned(x) ==
    /\ step \in {"built", "threw"}
    /\ tree' = IF step = "built" THEN [tree EXCEPT ![x] = built] ELSE tree
    /\ Fits(tree')
    /\ careful' = (careful /\ Storable(written))
    /\ step' = "idle" /\ written' = Undefined /\ pretty' = FALSE /\ text' = <<>> /\ calls' = <<>>
    /\ scan' = NoScan /\ built' = <<>> /\ nest' = <<>> /\ span' = <<>>

JsonNext ==
    \/ WriteItem \/ WriteClose \/ WriteEnds \/ Read
    \/ \E x \in Holders :
        \/ Assign(x) \/ Clear(x) \/ Assigned(x)
        \/ \E l \in Labels : Touch(x, l)
        \/ \E p \in BOOLEAN : Write(x, p)
        \/ \E y \in Holders, moves \in BOOLEAN :
               \/ AssignTree(x, y, moves) \/ Push(x, y, moves) \/ TakeOut(x, y, moves)
               \/ \E l \in Labels : Store(x, l, y, moves)

JsonSpec == JsonInit /\ [][JsonNext]_jsonVars

-----------------------------------------------------------------------------
\* What is written is read back, compact or pretty, as AsRead says: the same
\* but for one-digit numbers, decimals beyond those printed and empty arrays.
\* The reader throws for a negative number, an infinity or a NaN, and for
\* nothing else.  Left out are trees with structure inside a label or a string
\* inside a container, or with an empty dictionary.
RoundTrip ==
    Legible(written) =>
        /\ step = "built" => built = AsRead(written) /\ ~Unreadable(written)
        /\ step = "threw" => Unreadable(written)

\* Writing ends for trees no deeper than Pretty's counters reach: a quarter of
\* its positive range in pretty output, and the negative range more in compact
\* output.  Compact output of trees no deeper than the negative range has no
\* layout.
DepthLimits ==
    LET limit == Highest \div Indent + 1
        deeper(n) == \E p \in DOMAIN written : Len(p) >= n
        tight(s) == s.beg = s.before + 1 /\ s.first = s.colon + 1 /\ s.after \in {0, s.last + 1}
    IN  /\ step = "loops" => deeper(IF pretty THEN limit ELSE limit + 1 - Lowest)
        /\ ~pretty /\ ~deeper(1 - Lowest) =>
               \A q \in DOMAIN span : q # <<>> => tight(span[q])

\* A copy meets no null pointer in a program that assigns to every entry it
\* makes, stores no undefined tree and no tree in itself, moves no entry out of
\* a tree it keeps, and reads only texts of storable trees.
CrashNeedsAHole ==
    careful => step # "null" /\ \A x \in Holders : Whole(tree[x])

=============================================================================
