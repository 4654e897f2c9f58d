---------------------------- MODULE MarkdownText ----------------------------
(***************************************************************************)
(* The edits that do not send all of a Markdown text: the server finds the *)
(* headings, replaces the content of one section, reads the decisions a    *)
(* text records and adds one.  It also tells two texts apart line by line. *)
(*                                                                         *)
(* A text is a sequence of lines, and a line is what the parsers tell      *)
(* apart: a heading, the marker of a code block, the marks around a        *)
(* decision and its id, a blank line, or words.  A fold over a text keeps  *)
(* the state that the code's loop keeps from line to line.                 *)
(***************************************************************************)
EXTENDS Naturals, SequencesExt, FiniteSetsExt

CONSTANTS
    Starts,       \* the texts before the first edit
    Drafts,       \* those that a client sends instead
    Names,        \* of the sections that are replaced
    Contents,     \* what they are replaced with
    Ids,          \* of the decisions that are added
    Bodies,       \* the lines that their texts have after the first
    MaxEdits      \* bound on the edits of a text

VARIABLES
    text,         \* the text
    edits         \* how often it was edited

textVars == <<text, edits>>

Heading(name, level) == [kind |-> "heading", name |-> name, level |-> level]
Fence(char, size) == [kind |-> "fence", name |-> char, level |-> size]
Id(id) == [kind |-> "id", name |-> id, level |-> 0]
Mark(kind) == [kind |-> kind, name |-> "", level |-> 0]

Open == Mark("open")       \* :::decision
Close == Mark("close")     \* :::
Blank == Mark("blank")
Prose == Mark("prose")
None == Mark("none")       \* no marker

-----------------------------------------------------------------------------
(* Code blocks.  One opened by some marker is closed by a marker of the    *)
(* same character that is at least as long, and otherwise by the end.      *)

Opens(fence, line) ==
    CASE fence = None /\ line.kind = "fence" -> line
      [] fence # None /\ line.kind = "fence" /\ line.name = fence.name
                      /\ line.level >= fence.level -> None
      [] OTHER -> fence

(* The code block open after the first i lines.                            *)
FenceAfter(body, i) == FoldLeft(Opens, None, SubSeq(body, 1, i))

(* What a decision parser sees: code is blank, its markers stay.           *)
Masked(body) ==
    [i \in DOMAIN body |->
       IF FenceAfter(body, i - 1) # None /\ FenceAfter(body, i) # None
       THEN Blank ELSE body[i]]

-----------------------------------------------------------------------------
(* Sections.                                                               *)

(* A bug: lines of a code block are taken for headings.                    *)
EveryHeading(body) == {i \in DOMAIN body : body[i].kind = "heading"}

(* The lines with a heading.                                               *)
Headings(body) ==
    {i \in DOMAIN body : body[i].kind = "heading" /\ FenceAfter(body, i - 1) = None}

Least(S, default) == IF S = {} THEN default ELSE Min(S)

(* A section ends before the next heading, of any level.                   *)
SectionEnd(body, h) == Least({i \in Headings(body) : i > h}, Len(body) + 1) - 1

(* The first section of a name, or 0.                                      *)
FindRange(body, name) == Least({h \in Headings(body) : body[h].name = name}, 0)

BlankFrom(lines, i) == \A k \in i..Len(lines) : lines[k] = Blank
TrimEnd(lines) == SubSeq(lines, 1, Min({k \in 0..Len(lines) : BlankFrom(lines, k + 1)}))
Trim(lines) == TrimEnd(Reverse(TrimEnd(Reverse(lines))))

(* Splices content into a section that is there.  Newlines around it are   *)
(* dropped, and nothing leaves one empty line.                             *)
ReplaceSection(body, name, content) ==
    LET h == FindRange(body, name)
        lines == IF Trim(content) = << >> THEN <<Blank>> ELSE Trim(content)
    IN  SubSeq(body, 1, h) \o lines \o SubSeq(body, SectionEnd(body, h) + 1, Len(body))

-----------------------------------------------------------------------------
(* Decisions.                                                              *)

(* A block is a decision when its header has an id; the last one counts,   *)
(* and a line that is none ends the header.                                *)
ParseDecisionBlock(lines) ==
    LET header == {i \in DOMAIN lines : \A j \in 1..i : lines[j].kind = "id"}
    IN  IF header = {} THEN << >> ELSE <<lines[Max(header)].name>>

Scan(acc, line) ==
    CASE ~acc.inside /\ line = Open -> [acc EXCEPT !.inside = TRUE, !.buffer = << >>]
      [] acc.inside /\ line = Close ->
           [acc EXCEPT !.inside = FALSE, !.ids = @ \o ParseDecisionBlock(acc.buffer)]
      [] acc.inside /\ line # Close -> [acc EXCEPT !.buffer = Append(@, line)]
      [] OTHER -> acc

Scanned(body) ==
    FoldLeft(Scan, [inside |-> FALSE, buffer |-> << >>, ids |-> << >>], Masked(body))

(* The first decision of each id counts.                                   *)
DedupeDecisions(ids) ==
    FoldLeft(LAMBDA acc, id : IF Contains(acc, id) THEN acc ELSE Append(acc, id), << >>, ids)

ExtractDecisions(body) == DedupeDecisions(Scanned(body).ids)

(* The texts of a decision and of its reason are written as they come:     *)
(* their lines may be marks, headings or markers of code as well.          *)
DecisionBlock(id, body) == <<Open, Id(id), Blank, Prose>> \o body \o <<Close>>

Spaced(lines) == IF lines = << >> THEN << >> ELSE Append(lines, Blank)

(* Adds a decision at the end of the section "decisions", or with such a   *)
(* section at the end of the text.                                         *)
AddDecisionToContent(body, block) ==
    LET h == FindRange(body, "decisions")
        section == TrimEnd(SubSeq(body, h + 1, SectionEnd(body, h)))
    IN  IF h # 0 THEN ReplaceSection(body, "decisions", Spaced(section) \o block)
        ELSE Spaced(TrimEnd(body)) \o <<Heading("decisions", 2), Blank>> \o block \o <<Blank>>

-----------------------------------------------------------------------------
(* The difference of two texts.                                            *)

(* The length of a longest common subsequence of from[i..] and to[j..].    *)
Common(from, to) ==
    LET dp[i \in 1..Len(from) + 1, j \in 1..Len(to) + 1] ==
          IF i > Len(from) \/ j > Len(to) THEN 0
          ELSE IF from[i] = to[j] THEN dp[i + 1, j + 1] + 1
          ELSE Max({dp[i + 1, j], dp[i, j + 1]})
    IN  dp

Op(kind, line) == [kind |-> kind, line |-> line]

LineDiff(from, to) ==
    LET dp == Common(from, to)
        walk[i \in 1..Len(from) + 1, j \in 1..Len(to) + 1] ==
          IF i > Len(from) THEN [k \in 1..Len(to) + 1 - j |-> Op("add", to[j + k - 1])]
          ELSE IF j > Len(to) THEN [k \in 1..Len(from) + 1 - i |-> Op("remove", from[i + k - 1])]
          ELSE IF from[i] = to[j] THEN <<Op("equal", from[i])>> \o walk[i + 1, j + 1]
          ELSE IF dp[i + 1, j] >= dp[i, j + 1] THEN <<Op("remove", from[i])>> \o walk[i + 1, j]
          ELSE <<Op("add", to[j])>> \o walk[i, j + 1]
    IN  walk[1, 1]

-----------------------------------------------------------------------------
(* Edits.                                                                  *)

TextInit == text \in Starts /\ edits = 0

Edit == edits < MaxEdits /\ edits' = edits + 1

Replace(name, content) ==
    /\ Edit
    /\ FindRange(text, name) # 0
    /\ text' = ReplaceSection(text, name, content)

Decide(id, body) ==
    /\ Edit
    /\ ~Contains(ExtractDecisions(text), id)
    /\ text' = AddDecisionToContent(text, DecisionBlock(id, body))

(* A client sends a whole text.                                            *)
Put(body) ==
    /\ Edit
    /\ text' = body

TextNext ==
    \/ \E name \in Names, content \in Contents : Replace(name, content)
    \/ \E id \in Ids, body \in Bodies : Decide(id, body)
    \/ \E body \in Drafts : Put(body)

TextSpec == TextInit /\ [][TextNext]_textVars

-----------------------------------------------------------------------------
(* Properties.                                                             *)

(* No code block is open at the end, and no decision where a section ends. *)
WellFormed(body) ==
    /\ FenceAfter(body, Len(body)) = None
    /\ \A i \in Headings(body) \cup {Len(body) + 1} :
         ~Scanned(SubSeq(body, 1, i - 1)).inside

(* What comes before the first heading, and every section with its heading.*)
Outline(body) ==
    LET starts == SetToSortSeq(Headings(body) \cup {0}, <)
    IN  [i \in DOMAIN starts |-> SubSeq(body, Max({1, starts[i]}), SectionEnd(body, starts[i]))]

(* The texts of some lines of a text, in order.                            *)
Parts(body) ==
    {[i \in 1..Cardinality(I) |-> body[SetToSortSeq(I, <)[i]]] : I \in SUBSET DOMAIN body}

(* Whether a text has the lines of another, in order.                      *)
Follows(part, body) ==
    FoldLeft(LAMBDA n, line : IF n < Len(part) /\ part[n + 1] = line THEN n + 1 ELSE n, 0, body)
      = Len(part)

Kept(ops, kinds) ==
    LET kept == SelectSeq(ops, LAMBDA op : op.kind \in kinds)
    IN  [i \in DOMAIN kept |-> kept[i].line]

(* Content without headings and with every block closed; a decision's      *)
(* lines do not end the decision either.                                   *)
Plain(content) == Headings(content) = {} /\ WellFormed(content)
PlainInside(body) == Plain(body) /\ Close \notin Range(Masked(body))

(* Replacing a section of a well-formed text leaves its heading and every  *)
(* other section as they were.                                             *)
ReplacedInPlace(name) ==
    LET before == Outline(text)
        after == Outline(text')
        hit == CHOOSE i \in 2..Len(before) :
                 before[i][1].name = name /\ \A j \in 2..i-1 : before[j][1].name # name
    IN  /\ WellFormed(text')
        /\ DOMAIN after = DOMAIN before
        /\ after[hit][1] = before[hit][1]
        /\ \A i \in DOMAIN before \ {hit} : after[i] = before[i]

(* A decision added to a well-formed text is read back with those that     *)
(* were there, and the headings stay.  One with a ":::" of its own, a      *)
(* heading or an open block of code breaks this (decisions.ts:62).         *)
DecidedInPlace(id) ==
    LET before == Outline(text)
        after == Outline(text')
        ids == ExtractDecisions(text')
    IN  /\ WellFormed(text')
        /\ Contains(ids, id)
        /\ SelectSeq(ids, LAMBDA k : k # id) = ExtractDecisions(text)
        /\ \A i \in 2..Len(before) : i \in DOMAIN after /\ after[i][1] = before[i][1]

(* Edits of well-formed texts stay in their place.                         *)
StayInPlace ==
    WellFormed(text) =>
      /\ \A name \in Names, content \in Contents :
           Plain(content) /\ Replace(name, content) => ReplacedInPlace(name)
      /\ \A id \in Ids, body \in Bodies :
           PlainInside(body) /\ Decide(id, body) => DecidedInPlace(id)

(* The difference tells the text from the one before: what is kept and     *)
(* removed is the first, what is kept and added the second, and as much is *)
(* kept as can be.                                                         *)
DiffIsFaithful ==
    LET ops == LineDiff(text, text')
        equal == Kept(ops, {"equal"})
    IN  /\ Kept(ops, {"equal", "remove"}) = text
        /\ Kept(ops, {"equal", "add"}) = text'
        /\ \A part \in Parts(text') : Follows(part, text) => Len(part) <= Len(equal)

SectionEditsStayInPlace == [][StayInPlace]_textVars
DiffsAreFaithful == [][(\E body \in Drafts : Put(body)) => DiffIsFaithful]_textVars
=============================================================================
