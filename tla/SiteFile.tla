------------------------------- MODULE SiteFile -------------------------------
(***************************************************************************)
(* Keys on their way through texts and files.  An address is made, written *)
(* as a text, handed on by people who put spaces around it or damage it,   *)
(* and read again; an operator lists texts in a file of sections, and      *)
(* UniqueNodeList takes the validators from it (processValidators).        *)
(***************************************************************************)
EXTENDS NewcoinAddress, ParseSection

CONSTANTS
    SeedBytes,        \* the bytes of seeds
    Seqs,             \* numbers of accounts
    Phrases,          \* texts that are no addresses: domains, pass phrases
    Listable,         \* addresses whose texts are put into files
    SectionName,      \* the name of the section of validators, and another
    OtherName,
    MaxLines          \* lines of a file

ASSUME SiteFileAssumption ==
    /\ \A s \in SeedBytes : s \in Seq(Byte) /\ Len(s) = 16
    /\ Seqs \subseteq Byte     \* as the stand-in for the curve keeps them
    /\ SectionName # OtherName
    /\ MaxLines \in Nat

VARIABLES
    na,               \* the object
    origin, form,     \* the address that was written, and how: a kind or "words"
    text, touched,    \* the text, and what happened to it
    result,           \* what the last call returned: <<call, kind, value, object before>>
    lines, ends,      \* the lines of the file, and its line ends once it is sent
    added             \* what processValidators did, or nothing yet

siteVars == <<na, origin, form, text, touched, result, lines, ends, added>>

NoResult == <<"none", "none", 0, Cleared>>

NotFetched == [keys |-> <<>>, domains |-> <<>>, bad |-> -1, single |-> NotDecoded]

LineEnds == {<<NewLine>>, <<CarriageReturn>>, <<CarriageReturn, NewLine>>}

\* Everything that can be made of a seed.
Made(s) ==
    LET seed == createSeed(s)
        generator == createGeneratorPublic(seed)
    IN {seed, generator, createNodePublic(seed), createNodePrivate(seed)}
       \cup UNION {{createAccountPublic(generator, n), createAccountPrivate(generator, seed, n),
                    createAccountID(getAccountID(createAccountPublic(generator, n)))} : n \in Seqs}

SiteInit ==
    /\ na = Cleared
    /\ origin = Cleared /\ form = "none"
    /\ text = <<>> /\ touched = "no"
    /\ result = NoResult
    /\ lines = <<>>
    /\ ends = <<>>
    /\ added = NotFetched

FileStill == UNCHANGED <<lines, ends, added>>

KeysStill == UNCHANGED <<na, origin, form, text, touched, result>>

-------------------------------------------------------------------------------
(* Addresses and texts.                                                    *)

Create ==
    /\ na = Cleared /\ text = <<>> /\ lines = <<>>
    /\ \E s \in SeedBytes : na' \in Made(s)
    /\ UNCHANGED <<origin, form, text, touched, result>>
    /\ FileStill

\* The text of the object, as one of the calls makes it.
WriteText(kind) ==
    /\ text = <<>>
    /\ text' = humanOf(na)[kind]
    /\ text' # ThrowsError
    /\ origin' = (IF kind = "accountID" THEN createAccountID(getAccountID(na)) ELSE na)
    /\ form' = kind
    /\ na' = Cleared
    /\ UNCHANGED <<touched, result>>
    /\ FileStill

\* Somebody types a text of his own.
TypeText ==
    /\ na = Cleared /\ text = <<>> /\ lines = <<>>
    /\ text' \in Phrases
    /\ touched' = "typed"
    /\ UNCHANGED <<na, origin, form, result>>
    /\ FileStill

Pad ==
    /\ text # <<>> /\ touched = "no" /\ result = NoResult
    /\ text' = <<Space>> \o text \o <<Space>>
    /\ touched' = "padded"
    /\ UNCHANGED <<na, origin, form, result>>
    /\ FileStill

\* A digit becomes the next one or is lost, a word becomes another one.
Damage ==
    /\ text # <<>> /\ touched = "no" /\ result = NoResult
    /\ \E i \in DOMAIN text :
        \/ text' = RemoveAt(text, i)
        \/ text[i] # Space /\ text' = [text EXCEPT ![i] =
               IF IsWord(@) THEN Word(Rank(@) + 1, (@ - 1000) % 10) ELSE (@ + 1) % 58]
    /\ touched' = "damaged"
    /\ UNCHANGED <<na, origin, form, result>>
    /\ FileStill

\* A call that reads the text.
Receive(call, kind, read) ==
    /\ text # <<>> /\ result = NoResult
    /\ na' = read.b58
    /\ result' = <<call, kind, read.rc, na>>
    /\ UNCHANGED <<origin, form, text, touched>>
    /\ FileStill

\* A Boolean result as a number.
Numbered(read) == [rc |-> IF read.ok THEN 1 ELSE 0, b58 |-> read.b58]

\* setNodePublic(text), setAccountID(text), setSeed(text), ...
Set(kind) == Receive("set", kind, Numbered(setOf(text, kind)))

SetWords == Receive("words", "seed", setSeed1751(na, text))

SetGeneric == Receive("generic", "seed", Numbered(setSeedGeneric(na, text)))

-------------------------------------------------------------------------------
(* Files.                                                                  *)

\* A line is <<style, item>>; an item is an address or a phrase.
TextOf(item) == IF item[1] = "phrase" THEN item[2] ELSE AsString(item[2])

LineText(line) ==
    CASE line[1] = "header" -> <<OpenBracket>> \o line[2] \o <<CloseBracket>>
      [] line[1] = "indentedHeader" -> <<Space, OpenBracket>> \o line[2] \o <<CloseBracket>>
      [] line[1] = "comment" -> <<Sharp>> \o TextOf(line[2])
      [] line[1] = "indented" -> <<Space>> \o TextOf(line[2])
      [] line[1] = "remark" -> TextOf(line[2]) \o <<Space, Other>>
      [] OTHER -> <<Space>>

\* A domain has a dot, which is in no other text.
IsDomain(phrase) == Other \in Range(phrase)

Items == {<<"address", a>> : a \in Listable}
         \cup {<<"phrase", p>> : p \in {q \in Phrases : IsDomain(q)}}

PossibleLines ==
    ({"header"} \X {SectionName, OtherName}) \cup {<<"indentedHeader", SectionName>>}
    \cup ({"comment", "indented", "remark"} \X Items) \cup {<<"blank", <<>>>>}

AddLine ==
    /\ na = Cleared /\ text = <<>> /\ added = NotFetched
    /\ Len(lines) < MaxLines
    /\ \E l \in PossibleLines : lines' = Append(lines, l)
    /\ UNCHANGED <<ends, added>>
    /\ KeysStill

FileText(end) ==
    LET file[i \in 0..Len(lines)] ==
            IF i = 0 THEN <<>> ELSE file[i - 1] \o LineText(lines[i]) \o end
    IN file[Len(lines)]

\* In the loop of processValidators, the first piece of an entry is a seed
\* (and so refused), the key of a node, or else a domain.
Refer(acc, refered, key) ==
    IF setSeedGeneric(Cleared, refered).ok THEN [acc EXCEPT !.bad = @ + 1]
    ELSE IF key.ok THEN [acc EXCEPT !.keys = Append(@, key.b58)]
    ELSE [acc EXCEPT !.domains = Append(@, refered)]

TakeReferral(acc, entry) ==
    LET refered == Pieces(entry)[1] IN Refer(acc, refered, setNodePublic(refered))

\* single is what responseFetch asks such a file for: its domain, its key, the
\* addresses of other files.
processValidators(sections, entries) ==
    LET acc[i \in 0..Len(entries)] ==
            IF i = 0
            THEN [NotFetched EXCEPT !.bad = 0, !.single = sectionSingleB(sections, SectionName)]
            ELSE TakeReferral(acc[i - 1], entries[i])
    IN acc[Len(entries)]

\* There may be no such section.
EntriesOrNone(entries) == IF entries = NoEntries THEN <<>> ELSE entries

responseValidators(sections) ==
    processValidators(sections, EntriesOrNone(sectionEntries(sections, SectionName)))

Fetch(end) ==
    /\ lines # <<>> /\ added = NotFetched
    /\ ends' = end
    /\ added' = responseValidators(Sections(FileText(end)))
    /\ UNCHANGED lines
    /\ KeysStill

SiteNext ==
    \/ Create \/ TypeText \/ Pad \/ Damage
    \/ \E kind \in Kinds \cup {"words"} : WriteText(kind)
    \/ \E kind \in Kinds : Set(kind)
    \/ SetWords \/ SetGeneric
    \/ AddLine
    \/ \E end \in LineEnds : Fetch(end)

SiteSpec == SiteInit /\ [][SiteNext]_siteVars

-------------------------------------------------------------------------------
(* Properties.                                                             *)

KindOf(a) == CHOOSE kind \in Kinds : Is(a, kind)

Kept == touched \in {"no", "padded"}

\* The word that is never found.
HasLastShortWord == \E i \in DOMAIN text : text[i] = pcDict(Short - 1)

\* Does the object sign for exactly the public keys that were made with it?
SignsForItsOwn(a) ==
    \A s \in SeedBytes :
        LET seed == createSeed(s)
            generator == createGeneratorPublic(seed)
        IN /\ Is(a, "nodePrivate") =>
                (verifyNodePublic(createNodePublic(seed), 7, signNodePrivate(a, 7))
                    <=> a = createNodePrivate(seed))
           /\ Is(a, "accountPrivate") => \A n \in Seqs :
                (accountPublicVerify(createAccountPublic(generator, n), 7, accountPrivateSign(a, 7))
                    <=> a = createAccountPrivate(generator, seed, n))

\* A text that the program wrote, with or without spaces around it, is read
\* as what it was made of.  The call for its kind gives the address, valid,
\* equal to the one that was written and with keys that still fit each other;
\* every other call refuses the text and leaves an empty object.  Words give
\* the seed they stand for, and an address is never words.  The general reader
\* of seeds gives back a seed in either form and refuses the keys of nodes and
\* accounts.  Nothing is claimed of two texts: words with the last one of
\* three letters, which the search leaves out, and a family generator's for
\* the general reader (SetString, setSeed1751, wsrch, setSeedGeneric).
TextsReadBack ==
    LET kind == result[2]
        ok == result[3] = 1
    IN Kept /\ origin # Cleared =>
       /\ result[1] = "set" =>
            /\ ok <=> form # "words" /\ kind = KindOf(origin)
            /\ na = IF ok THEN origin ELSE Cleared
            /\ ok => isValid(na) /\ SignsForItsOwn(na) /\ CompareTo(na, origin) = 0
       /\ result[1] = "words" =>
            IF form # "words" THEN result[3] = -1 /\ na = result[4]
            ELSE ~HasLastShortWord => ok /\ na = origin
       /\ result[1] = "generic" /\ form # "generator" /\ ~HasLastShortWord =>
            /\ ok <=> form \notin Range(Refused)
            /\ na = IF ok THEN origin ELSE result[4]

\* A damaged text and one that somebody typed are no address to any call and
\* no seed in words; the general reader makes of each a seed, never the one
\* that was written (DecodeBase58Check, etob, setSeedGeneric).
DamageNoticed ==
    ~Kept =>
        /\ result[1] = "set" => result[3] = 0 /\ na = Cleared
        /\ result[1] = "words" => result[3] < 1 /\ na = result[4]
        /\ result[1] = "generic" =>
             result[3] = 1 /\ Is(na, "seed") /\ Len(na[2]) = 16 /\ na # origin

\* The lines that count for a section, by their place in the file: those
\* behind its last header that are neither comments nor blank, up to the next
\* header.
Counted ==
    LET Header(i) == lines[i][1] = "header"
        start == Max({0} \cup {i \in DOMAIN lines : Header(i) /\ lines[i][2] = SectionName})
        stop == Min({Len(lines) + 1} \cup {i \in DOMAIN lines : i > start /\ Header(i)})
    IN IF start = 0 THEN <<>>
       ELSE SelectSeq(SubSeq(lines, start + 1, stop - 1),
                      LAMBDA l : l[1] \in {"indented", "remark", "indentedHeader"})

\* Whatever its line ends, a file adds exactly the node keys that are listed
\* in it, in their order, and an entry is single when no other line counts
\* (ParseSection, sectionSingleB, processValidators).
ListsRead ==
    added # NotFetched =>
        LET keys == SelectSeq(Counted, LAMBDA l : /\ l[1] # "indentedHeader"
                                                  /\ l[2][1] = "address"
                                                  /\ Is(l[2][2], "nodePublic"))
        IN /\ added.keys = [i \in DOMAIN keys |-> keys[i][2][2]]
           /\ added.single = IF Len(Counted) = 1 THEN trim(LineText(Counted[1])) ELSE NotDecoded

\* A domain that is listed as a validator is looked up, as the comment "A
\* domain: need to look it up." says; but the text of a domain is taken for a
\* pass phrase first, and refused (processValidators, setSeedGeneric).
DomainsLookedUp ==
    added # NotFetched =>
        \A i \in DOMAIN Counted :
            Counted[i][1] # "indentedHeader" /\ Counted[i][2][1] = "phrase" =>
                Counted[i][2][2] \in Range(added.domains)
===============================================================================
