----------------------------- MODULE ParseSection -----------------------------
(***************************************************************************)
(* Files of sections (shared/ParseSection.cpp), as newcoin.txt and the     *)
(* lists of validators are.  A file is a text; a section is a sequence of  *)
(* lines and a file's sections are a function from their names, which are  *)
(* texts too.                                                              *)
(***************************************************************************)
EXTENDS Base58

trim(text) == Reverse(Behind(Reverse(Behind(text, Spaces)), Spaces))

\* replace_all: DOS and Mac line ends become Unix ones.
UnixChar(before, unix, c) ==
    CASE c = CarriageReturn -> Append(unix, NewLine)
      [] c = NewLine /\ before = CarriageReturn -> unix
      [] OTHER -> Append(unix, c)

Unix(text) ==
    LET unix[i \in 0..Len(text)] ==
            IF i = 0 THEN <<>>
            ELSE UnixChar(IF i = 1 THEN NewLine ELSE text[i - 1], unix[i - 1], text[i])
    IN unix[Len(text)]

\* split: n line ends make n + 1 lines.
SplitChar(lines, c) ==
    IF c = NewLine THEN Append(lines, <<>>) ELSE [lines EXCEPT ![Len(lines)] = Append(@, c)]

Lines(text) ==
    LET split[i \in 0..Len(text)] ==
            IF i = 0 THEN <<<<>>>> ELSE SplitChar(split[i - 1], text[i])
    IN split[Len(text)]

isHeader(line) == line # <<>> /\ line[1] = OpenBracket /\ Last(line) = CloseBracket

headerName(line) == SubSeq(line, 2, Len(line) - 1)

\* Fault: a header that comes again adds to its section.
TakeLineAdding(acc, line) ==
    LET entry == trim(line)
        name == headerName(line)
    IN CASE line = <<>> \/ line[1] = Sharp -> acc
         [] isHeader(line) ->
                [name |-> name,
                 sections |-> IF name \in DOMAIN acc.sections THEN acc.sections
                              ELSE (name :> <<>>) @@ acc.sections]
         [] entry = <<>> -> acc
         [] OTHER -> [acc EXCEPT !.sections[acc.name] = Append(@, entry)]

\* One line, after those before it: the name of the section it falls in and
\* the sections so far.  What a line is is decided before it is trimmed, and a
\* header that comes again starts its section anew.
TakeLine(acc, line) ==
    LET entry == trim(line) IN
    CASE line = <<>> \/ line[1] = Sharp -> acc
      [] isHeader(line) ->
            [name |-> headerName(line),
             sections |-> (headerName(line) :> <<>>) @@ acc.sections]
      [] entry = <<>> -> acc
      [] OTHER -> [acc EXCEPT !.sections[acc.name] = Append(@, entry)]

SectionsOf(lines) ==
    LET acc[i \in 0..Len(lines)] ==
            IF i = 0 THEN [name |-> <<>>, sections |-> <<>> :> <<>>]
            ELSE TakeLine(acc[i - 1], lines[i])
    IN acc[Len(lines)].sections

\* ParseSection(text, true).
Sections(text) == SectionsOf(Lines(Unix(text)))

\* sectionEntries, which returns a null pointer for a section that is not there.
NoEntries == <<<<-1>>>>

sectionEntries(sections, name) == IF name \in DOMAIN sections THEN sections[name] ELSE NoEntries

\* The single entry of a section, or no text.
sectionSingleB(sections, name) ==
    LET entries == sectionEntries(sections, name) IN
    IF Len(entries) = 1 /\ entries # NoEntries THEN entries[1] ELSE NotDecoded
===============================================================================
