-------------------------------- MODULE Text --------------------------------
(***************************************************************************)
(* The text utilities: the string helpers of strtools.hpp, the small       *)
(* classes made of strings, the references to text of unistrref.hpp and    *)
(* .cpp, and what they promise.  A string is the sequence of its code      *)
(* units, a position counts from 0 as in the source, and NPOS is "none".   *)
(* A UnicodeStringRef is a pointer into a text and a length.  The covered  *)
(* text of an annotation is one, so what stands before and behind it is    *)
(* the document: mem is the text around, from the reference's first unit   *)
(* in it, counted from 0; positions of the operations count from the       *)
(* reference's own start.                                                  *)
(***************************************************************************)
EXTENDS Integers, SequencesExt

CONSTANTS
    Upper,   \* what toupper() makes of a code unit
    Spaces,  \* the code units isspace() accepts
    Delims   \* the code units a split is asked to take as delimiters

NUL == 0
NPOS == -1

Sign(n) == IF n < 0 THEN -1 ELSE IF n > 0 THEN 1 ELSE 0
At(s, i) == s[i + 1]
Substr(s, from, n) == SubSeq(s, from + 1, Min({from + n, Len(s)}))

\* What a zero-terminated string reads at a position up to its length
CAt(s, i) == IF i < Len(s) THEN At(s, i) ELSE NUL
Mapped(s, f) == [i \in DOMAIN s |-> f[s[i]]]

----------------------------------------------------------------------------
(* Comparisons of zero-terminated strings: both sides are read up to the first *)
(* difference or the end of both.                                              *)
strcmp_templ(s, t) ==
    LET n == Max({Len(s), Len(t)})
        differ == {i \in 0 .. n : CAt(s, i) # CAt(t, i)}
    IN  IF differ = {} THEN 0 ELSE CAt(s, Min(differ)) - CAt(t, Min(differ))

stricmp_templ(s, t) == strcmp_templ(Mapped(s, Upper), Mapped(t, Upper))

\* The loop looks at --n before each step: the last of the n units is only read for the result.
strncmp_templ(s, t, n) ==
    IF n = 0 THEN 0
    ELSE LET stop == {i \in 0 .. n - 1 : i = n - 1 \/ CAt(s, i) = NUL \/ CAt(s, i) # CAt(t, i)}
         IN  CAt(s, Min(stop)) - CAt(t, Min(stop))

strnicmp_templ(s, t, n) ==
    LET S == Mapped(s, Upper)
        T == Mapped(t, Upper)
        stop == {i \in 0 .. n - 1 : CAt(S, i) # CAt(T, i) \/ CAt(S, i) = NUL}
    IN  IF stop = {} THEN 0 ELSE CAt(S, Min(stop)) - CAt(T, Min(stop))

StringLessI(s, t) ==
    IF s = <<>> THEN t # <<>> ELSE t # <<>> /\ stricmp_templ(s, t) < 0

----------------------------------------------------------------------------
(* Searches.                                                                   *)
MinOrNPOS(S) == IF S = {} THEN NPOS ELSE Min(S)

str_find_first(pattern, s) ==
    IF Len(pattern) > Len(s) THEN NPOS
    ELSE MinOrNPOS({i \in 0 .. Len(s) - Len(pattern) : Substr(s, i, Len(pattern)) = pattern})

str_find_first_char(c, s) == MinOrNPOS({i \in 0 .. Len(s) - 1 : At(s, i) = c})

str_find_first_of(set, s) ==
    MinOrNPOS({i \in 0 .. Len(s) - 1 : str_find_first_char(At(s, i), set) # NPOS})

str_find_first_not_of(set, s) ==
    MinOrNPOS({i \in 0 .. Len(s) - 1 : str_find_first_char(At(s, i), set) = NPOS})

\* std::string::find and its kin, which begin at a position
FoundAt(s, from, n, Accepts(_)) == MinOrNPOS({i \in from .. Len(s) - n : Accepts(i)})
find(s, pattern, from) ==
    FoundAt(s, from, Len(pattern), LAMBDA i : Substr(s, i, Len(pattern)) = pattern)
find_first_of(s, from) == FoundAt(s, from, 1, LAMBDA i : At(s, i) \in Delims)
find_first_not_of(s, from) == FoundAt(s, from, 1, LAMBDA i : At(s, i) \notin Delims)

----------------------------------------------------------------------------
(* Trimming and padding.                                                       *)
\* The end of a string without its trailing blanks.  Of a string of blanks end, which is unsigned,
\* runs below 0 into what stands before the string, and the piece is cut from the string's end.
strtrim(s) ==
    LET end == {i \in 0 .. Len(s) - 1 : At(s, i) \notin Spaces}
    IN  IF end = {} THEN <<>> ELSE Substr(s, Min(end), Max(end) - Min(end) + 1)

strtrimr(s) ==
    LET end == Max({i \in 0 .. Len(s) - 1 : At(s, i) \notin Spaces} \cup {-1}) IN Substr(s, 0, end + 1)

\* The length taken is end - beg: the last unit is not in it.
strtriml(s) ==
    LET end == Len(s) - 1
        beg == IF s = <<>> THEN 0 ELSE Min({i \in 0 .. end : i = end \/ At(s, i) \notin Spaces})
    IN  Substr(s, beg, end - beg)

strpad_r(s, n, c) == s \o [i \in 1 .. n - Len(s) |-> c]
strpad_l(s, n, c) == [i \in 1 .. n - Len(s) |-> c] \o s

----------------------------------------------------------------------------
(* Replacement.                                                                *)
strreplaceallchar(s, search, replace) ==
    [i \in DOMAIN s |-> IF s[i] = search THEN replace ELSE s[i]]

\* Every occurrence of search, from the left; what was put in is not searched again.
strreplaceall(s, search, replace) ==
    LET done[pos \in 0 .. Len(s)] ==
            LET hit == find(s, search, pos)
            IN  IF hit = NPOS THEN Substr(s, pos, Len(s))
                ELSE Substr(s, pos, hit - pos) \o replace \o done[hit + Len(search)]
    IN  done[0]

----------------------------------------------------------------------------
(* Splitting and joining.                                                      *)
vector2delimitedStr(v, delimiter) ==
    FoldLeft(LAMBDA s, i : s \o v[i] \o (IF i = Len(v) THEN <<>> ELSE delimiter), <<>>,
             [i \in DOMAIN v |-> i])

Kept(piece, bTrimString, bInsertEmptyStrings) ==
    LET p == IF bTrimString THEN strtrim(piece) ELSE piece
    IN  IF bInsertEmptyStrings \/ p # <<>> THEN <<p>> ELSE <<>>

\* A piece runs from uiBegin to one before the first unit after the run of delimiters that ends it.
delimitedString2Vector(s, bTrimString, bInsertEmptyStrings) ==
    LET piecesFrom[uiBegin \in NPOS .. Len(s)] ==
            IF uiBegin = NPOS THEN <<>>
            ELSE LET delimiter == find_first_of(s, uiBegin + 1)
                     next == IF delimiter = NPOS THEN NPOS ELSE find_first_not_of(s, delimiter + 1)
                     uiEnd == IF next = NPOS THEN Len(s) + 1 ELSE next
                 IN  Kept(Substr(s, uiBegin, uiEnd - uiBegin - 1), bTrimString, bInsertEmptyStrings)
                     \o piecesFrom[find_first_not_of(s, uiEnd)]
    IN  IF s = <<>> THEN <<>> ELSE piecesFrom[0]

-----------------------------------------------------------------------------
(* Classes that are rules about short texts: Language, TokenProperties,        *)
(* Filename and the text of an ErrorMessage.                                   *)

CONSTANTS
    Letters,       \* the lower-case letters
    LetterX,       \* one of them: x
    Lower,         \* what tolower() makes of a code unit
    Digits,        \* the digits, a function from code unit to value
    Dash, Underscore, Question, Slash, Dot, Percent

----------------------------------------------------------------------------
(* Language: locale is iv_locale, six units of "ll-cc" with its terminator;    *)
(* iv_lang is its first two.                                                   *)
Unspecified == [i \in 0 .. 5 |-> NUL]

\* The constant that lists the legal letters has z twice and no x.
legalChars == Letters \ {LetterX}

CString(cells) == LET end == Min({i \in DOMAIN cells : cells[i] = NUL}) IN [i \in 1 .. end |-> cells[i - 1]]
Wrong(cells) == [cells EXCEPT ![0] = Question, ![1] = Question, ![2] = NUL]

\* An illegal length puts a "?" first and leaves the rest empty; a refused text keeps its territory's units.
language(code) ==
    LET len == Len(code)
        raw == IF len \in {2, 5}
               THEN [i \in 0 .. 5 |-> IF i < len THEN Lower[At(code, i)] ELSE NUL]
               ELSE [Unspecified EXCEPT ![0] = Question]
        separated == len = 2 \/ At(code, 2) \in {Dash, Underscore}
        legal == /\ len \in {2, 5} /\ separated
                 /\ \A i \in (0 .. len - 1) \ {2} : raw[i] \in legalChars
    IN  IF code = <<>> THEN Unspecified
        ELSE IF ~legal THEN Wrong(raw)
        ELSE IF len = 5 THEN [raw EXCEPT ![2] = Dash] ELSE raw

asNumber(l) == <<l[0], l[1], l[3], l[4]>>
languageOfNumber(n) ==
    [i \in 0 .. 5 |-> CASE i = 0 -> n[1] [] i = 1 -> n[2] [] i = 3 -> n[3] [] i = 4 -> n[4] [] i = 5 -> NUL
                        [] i = 2 -> IF n[3] = NUL THEN NUL ELSE Dash]

asString(l) == CString(l)
SameLanguage(l, m) == CString(l) = CString(m)
isValid(l) == l[0] # Question
hasTerritory(l) == l[2] # NUL
getTerritoryCode(l) == <<l[3], l[4]>>

matches(l, m) ==
    \/ SameLanguage(l, m)
    \/ l[0] = NUL
    \/ m[0] = NUL
    \/ /\ <<l[0], l[1]>> = <<m[0], m[1]>>
       /\ l[3] = NUL \/ m[3] = NUL

----------------------------------------------------------------------------
(* TokenProperties: the set of the bits that are on.                           *)
UnitClass(c) ==
    IF c \in Letters THEN "lower" ELSE IF Lower[c] # c THEN "upper"
    ELSE IF c \in DOMAIN Digits THEN "numeric" ELSE "special"

tokenProperties(s) ==
    {LET class == UnitClass(s[i]) IN
        IF class = "upper" THEN IF i = 1 THEN "leadingUpper" ELSE "trailingUpper" ELSE class : i \in DOMAIN s}

isPlainWord(p) == p # {} /\ p \subseteq {"leadingUpper", "trailingUpper", "lower"}
isAllUppercaseWord(p) == p # {} /\ p \subseteq {"leadingUpper", "trailingUpper"}
isAllLowercaseWord(p) == p = {"lower"}
isInitialUppercaseWord(p) == p = {"lower", "leadingUpper"}
isPlainNumber(p) == "numeric" \in p /\ p \subseteq {"numeric", "special"}
isPureNumber(p) == p = {"numeric"}
isPureSpecial(p) == p = {"special"}

----------------------------------------------------------------------------
(* Filename: the path, its last part and that part's last extension.           *)
LastOf(s, c) == Max({i \in DOMAIN s : s[i] = c} \cup {0})
getName(f) == SubSeq(f, LastOf(f, Slash) + 1, Len(f))
getExtension(f) == LET name == getName(f) IN
    IF LastOf(name, Dot) = 0 THEN <<>> ELSE SubSeq(name, LastOf(name, Dot), Len(name))
extractPath(f) == SubSeq(f, 1, LastOf(f, Slash))
extractBaseName(f) == LET name == getName(f) IN
    IF LastOf(name, Dot) = 0 THEN name ELSE SubSeq(name, 1, LastOf(name, Dot) - 1)
matchesBase(f, g) == extractBaseName(f) = extractBaseName(g)
setNewName(f, name) == extractPath(f) \o name
setNewExtension(f, ext) == extractPath(f) \o extractBaseName(f) \o ext

----------------------------------------------------------------------------
(* ErrorMessage::asString(): %n stands for the n-th parameter, %% for %, and   *)
(* all the digits that follow belong to n.                                     *)
Unknown == <<Question, Question, Question>>

messageAsString(template, params) ==
    LET len == Len(template)
        digitsEnd(i) == Min({len + 1} \cup {j \in i + 1 .. len : template[j] \notin DOMAIN Digits})
        number(i, j) == FoldLeft(LAMBDA n, c : 10 * n + Digits[c], 0,
                                 SelectSeq(SubSeq(template, i, j - 1), LAMBDA c : c \in DOMAIN Digits))
        rest[i \in 1 .. len + 1] ==
            IF i > len THEN <<>>
            ELSE IF template[i] # Percent THEN <<template[i]>> \o rest[i + 1]
            ELSE IF template[i + 1] = Percent THEN <<Percent>> \o rest[i + 2]
            ELSE LET end == digitsEnd(i + 1)
                     index == number(i + 1, end)
                 IN  (IF index > Len(params) THEN Unknown ELSE params[index]) \o rest[end]
    IN  rest[1]

----------------------------------------------------------------------------
(* UnicodeStringRef *)

CONSTANTS
    Surrogates  \* the code units that stand for half a code point

Ref(mem, from, len) == [mem |-> mem, from |-> from, len |-> len]
Unit(r, i) == At(r.mem, r.from + i)
Chars(r) == Substr(r.mem, r.from, r.len)
RefTo(s) == Ref(s, 0, Len(s))

\* Only the upper ends are pinned; a length may come out negative.
pinIndices(r, start, length) ==
    LET s == Min({start, r.len}) IN [start |-> s, length |-> Min({length, r.len - s})]

----------------------------------------------------------------------------
(* Comparisons.                                                                *)

doCompare(r, start, length, src, srcStart, srcLength) ==
    LET w == pinIndices(r, start, length)
        differ == {i \in 0 .. Min({w.length, srcLength}) - 1 :
                        Unit(r, w.start + i) # Unit(src, srcStart + i)}
    IN  IF differ = {} THEN Sign(w.length - srcLength)
        ELSE Sign(Unit(r, w.start + Min(differ)) - Unit(src, srcStart + Min(differ)))

compare(r, text) == doCompare(r, 0, r.len, text, 0, text.len)
comparePart(r, start, length, text) == doCompare(r, start, length, text, 0, text.len)
compareBetween(r, start, limit, text, srcStart, srcLimit) ==
    doCompare(r, start, limit - start, text, srcStart, srcLimit - srcStart)

\* u_strncmp() stops at a NUL both sides have.
Equal(r, text) ==
    /\ r.len = text.len
    /\ \A i \in 0 .. r.len - 1 :
        Unit(r, i) = Unit(text, i) \/ \E j \in 0 .. i - 1 : Unit(r, j) = NUL /\ Unit(text, j) = NUL

\* Where u_strncmpCodePointOrder() puts a unit: a half of a supplementary code point above the rest
CodePointWeight(c) == IF c \in Surrogates THEN 1000 + c ELSE c

\* At most the shorter length is compared, and the lengths themselves are not.
doCompareCodePointOrder(r, start, length, src, srcStart, srcLength) ==
    LET w == pinIndices(r, start, length)
        n == Min({w.length, srcLength})
        stop == {i \in 0 .. n - 1 : Unit(r, w.start + i) # Unit(src, srcStart + i)
                                        \/ Unit(r, w.start + i) = NUL}
    IN  IF stop = {} THEN 0
        ELSE Sign(CodePointWeight(Unit(r, w.start + Min(stop)))
                    - CodePointWeight(Unit(src, srcStart + Min(stop))))

compareCodePointOrder(r, text) == doCompareCodePointOrder(r, 0, r.len, text, 0, text.len)

\* The folded texts, as icu::UnicodeString::caseCompare() compares them
doCaseCompare(r, start, length, src, srcStart, srcLength) ==
    doCompare(RefTo(Mapped(r.mem, Upper)), r.from + start, length,
              RefTo(Mapped(src.mem, Upper)), src.from + srcStart, srcLength)
caseCompare(r, text) == doCaseCompare(r, 0, r.len, text, 0, text.len)

startsWith(r, text) == doCompare(r, 0, text.len, text, 0, text.len) = 0
endsWith(r, text) == doCompare(r, r.len - text.len, text.len, text, 0, text.len) = 0

----------------------------------------------------------------------------
(* Searches.  A loop over positions that tests its bound at the end tries one  *)
(* position even when the window is empty.                                     *)
MaxOrNPOS(S) == IF S = {} THEN NPOS ELSE Max(S)

Occurs(r, pos, src, srcStart, srcLength) ==
    /\ Unit(r, pos) = Unit(src, srcStart)
    /\ srcLength = 1 \/ doCompare(r, pos + 1, srcLength - 1, src, srcStart + 1, srcLength - 1) = 0

indexOf(r, src, srcStart, srcLength, start, length) ==
    LET w == pinIndices(r, start, length)
    IN  IF srcLength = 0 \/ w.length < srcLength THEN NPOS
        ELSE MinOrNPOS({p \in w.start .. w.start + w.length - srcLength :
                            Occurs(r, p, src, srcStart, srcLength)})

\* Mutant: the window is not shortened by the length of the text.
lastIndexOfInWindow(r, src, srcStart, srcLength, start, length) ==
    LET w == pinIndices(r, start, length)
    IN  IF srcLength = 0 \/ w.length < srcLength THEN NPOS
        ELSE MaxOrNPOS({p \in w.start .. w.start + w.length - 1 : Occurs(r, p, src, srcStart, srcLength)})

lastIndexOf(r, src, srcStart, srcLength, start, length) ==
    LET w == pinIndices(r, start, length)
    IN  IF srcLength = 0 \/ w.length < srcLength THEN NPOS
        ELSE MaxOrNPOS({p \in w.start .. w.start + w.length - srcLength :
                            Occurs(r, p, src, srcStart, srcLength)})

doIndexOf(r, c, start, length) ==
    LET w == pinIndices(r, start, length)
    IN  IF w.length = 0 THEN NPOS
        ELSE MinOrNPOS({p \in {w.start} \cup (w.start .. w.start + w.length - 1) : Unit(r, p) = c})

doLastIndexOf(r, c, start, length) ==
    LET w == pinIndices(r, start, length)
        last == w.start + w.length - 1
    IN  IF w.length = 0 THEN NPOS
        ELSE MaxOrNPOS({p \in {last} \cup (w.start .. last) : Unit(r, p) = c})

\* The forms without a length search to the end of the reference.
indexOfText(r, text, start) == indexOf(r, text, 0, text.len, start, r.len - start)
lastIndexOfText(r, text, start) == lastIndexOf(r, text, 0, text.len, start, r.len - start)

\* A code point is one unit or two; two are searched as a text.
indexOfCodePoint(r, cp, start, length) ==
    IF Len(cp) = 1 THEN doIndexOf(r, cp[1], start, length)
    ELSE indexOf(r, RefTo(cp), 0, Len(cp), start, length)
lastIndexOfCodePoint(r, cp, start, length) ==
    IF Len(cp) = 1 THEN doLastIndexOf(r, cp[1], start, length)
    ELSE lastIndexOf(r, RefTo(cp), 0, Len(cp), start, length)

----------------------------------------------------------------------------
(* Pieces.                                                                     *)
extract(r, start, length) ==
    LET w == pinIndices(r, start, length) IN Substr(r.mem, r.from + w.start, w.length)
extractBetween(r, start, limit) == extract(r, start, limit - start)
charAt(r, offset) == IF offset \in 0 .. r.len - 1 THEN Unit(r, offset) ELSE 65535

strtrimRef(r) ==
    LET end == Max({i \in 0 .. r.len - 1 : Unit(r, i) \notin Spaces} \cup {-1})
        beg == IF end = -1 THEN 0 ELSE Min({i \in 0 .. end : Unit(r, i) \notin Spaces})
    IN  Ref(r.mem, r.from + beg, end - beg + 1)

\* Each piece ends before the next delimiter or at the end; nothing follows a delimiter at the end.
delimitedUnicodeStringRef2Vector(r, bTrimString, bInsertEmptyStrings) ==
    LET piecesFrom[b \in 0 .. r.len] ==
            IF b = r.len THEN <<>>
            ELSE LET rest == Substr(r.mem, r.from + b, r.len - b)
                     uiEnd == str_find_first_of(SetToSeq(Delims), rest)
                     piece == Ref(r.mem, r.from + b, IF uiEnd = NPOS THEN r.len - b ELSE uiEnd)
                     p == IF bTrimString THEN strtrimRef(piece) ELSE piece
                 IN  (IF bInsertEmptyStrings \/ p.len > 0 THEN <<p>> ELSE <<>>)
                     \o piecesFrom[IF uiEnd = NPOS THEN r.len ELSE b + uiEnd + 1]
    IN  piecesFrom[0]

----------------------------------------------------------------------------
(* What the text utilities promise, over every case of Inputs: a case is a     *)
(* record whose kind says which of the rules it is for.                        *)

CONSTANTS
    Inputs,  \* the cases
    Texts    \* more texts, to compare with those of a case

VARIABLE input

TextInit == input \in Inputs

----------------------------------------------------------------------------
(* References.                                                                 *)
Occurrences(s, text, from, to) ==
    {p \in from .. to - Len(text) : Substr(s, p, Len(text)) = text}

CodePoints(s) ==
    LET pair(i) == i < Len(s) /\ s[i] \in Surrogates /\ s[i + 1] \in Surrogates
        from[i \in 1 .. Len(s) + 1] ==
            IF i > Len(s) THEN <<>>
            ELSE IF pair(i) THEN <<1000 + 10 * s[i] + s[i + 1]>> \o from[i + 2] ELSE <<s[i]>> \o from[i + 1]
    IN  from[1]

\* Of two sequences of numbers the one that is a proper beginning of the other comes first.
Order(s, t) ==
    LET differ == {i \in 1 .. Min({Len(s), Len(t)}) : s[i] # t[i]}
    IN  IF differ = {} THEN Sign(Len(s) - Len(t)) ELSE Sign(s[Min(differ)] - t[Min(differ)])

Trimmed(s) ==
    CHOOSE t \in {SubSeq(s, i, j) : i \in 1 .. Len(s) + 1, j \in 0 .. Len(s)} :
        /\ t # <<>> => t[1] \notin Spaces /\ t[Len(t)] \notin Spaces
        /\ \E a, b \in 0 .. Len(s) :
            /\ a + Len(t) + b = Len(s)
            /\ SubSeq(s, a + 1, a + Len(t)) = t
            /\ \A i \in (1 .. a) \cup (Len(s) - b + 1 .. Len(s)) : s[i] \in Spaces

----------------------------------------------------------------------------
(* Properties.                                                                 *)

\* What a search of a reference returns is the first, or the last, place in the window where the text
\* stands, and -1 only when there is none: unistrref.cpp's loops over shortened windows never look
\* at what stands around the reference.  A start behind the end and a text longer than the reference
\* are left out: SuffixesAreInside says what happens then.
SearchesAreExact ==
    input.kind = "search" =>
        LET r == input.r
            t == input.text
            s == Chars(r)
        IN  /\ \A start \in 0 .. r.len, length \in 0 .. r.len + 1 :
                LET all == Occurrences(s, t, start, Min({r.len, start + length}))
                IN  t # <<>> =>
                    /\ indexOf(r, RefTo(t), 0, Len(t), start, length) = MinOrNPOS(all)
                    /\ lastIndexOf(r, RefTo(t), 0, Len(t), start, length) = MaxOrNPOS(all)
                    /\ Len(CodePoints(t)) = 1 =>
                        /\ indexOfCodePoint(r, t, start, length) = MinOrNPOS(all)
                        /\ lastIndexOfCodePoint(r, t, start, length) = MaxOrNPOS(all)
            /\ \A start \in 0 .. r.len :
                t # <<>> => indexOfText(r, RefTo(t), start) = MinOrNPOS(Occurrences(s, t, start, r.len))
            /\ startsWith(r, RefTo(t)) <=> IsPrefix(t, s)
            /\ Len(t) <= r.len => (endsWith(r, RefTo(t)) <=> IsSuffix(t, s))
            /\ \A start \in 0 .. r.len, limit \in 0 .. r.len :
                start <= limit => /\ extractBetween(r, start, limit) = SubSeq(s, start + 1, limit)
                                  /\ compareBetween(r, start, limit, RefTo(t), 0, Len(t))
                                        = Order(SubSeq(s, start + 1, limit), t)

\* unistrref.hpp:592-598 says of endsWith() that it determines whether the reference ends with the
\* text.  A text that is longer is compared with what stands before the reference.
SuffixesAreInside ==
    input.kind = "search" =>
        (endsWith(input.r, RefTo(input.text)) => IsSuffix(input.text, Chars(input.r)))

\* The comparisons of references are an order on the texts whatever stands around them; == and
\* the case-blind comparison agree with it, and so do the comparisons of zero-terminated strings
\* with each other.  Texts of one length are ordered by code point where that is asked for.
ComparisonsAgree ==
    input.kind = "order" =>
        LET r == input.r
            s == Chars(r)
            t == input.text
            n == Min({Len(s), Len(t)})
        IN  /\ compare(r, RefTo(t)) = Order(s, t)
            /\ compare(RefTo(t), r) = -compare(r, RefTo(t))
            /\ \A u \in Texts : compare(r, RefTo(t)) <= 0 /\ compare(RefTo(t), RefTo(u)) <= 0
                                    => compare(r, RefTo(u)) <= 0
            /\ NUL \notin Range(s) => (Equal(r, RefTo(t)) <=> s = t)
            /\ caseCompare(r, RefTo(t)) = Order(Mapped(s, Upper), Mapped(t, Upper))
            /\ Len(s) = Len(t) /\ NUL \notin Range(s) \cup Range(t) =>
                    compareCodePointOrder(r, RefTo(t)) = Order(CodePoints(s), CodePoints(t))
            /\ NUL \notin Range(s) \cup Range(t) =>
                    /\ Sign(strcmp_templ(s, t)) = Order(s, t)
                    /\ StringLessI(s, t) <=> stricmp_templ(s, t) < 0
                    /\ \A k \in 0 .. 3 :
                        /\ Sign(strncmp_templ(s, t, k)) = Order(Substr(s, 0, k), Substr(t, 0, k))
                        /\ Sign(strnicmp_templ(s, t, k))
                                = Order(Mapped(Substr(s, 0, k), Upper), Mapped(Substr(t, 0, k), Upper))

\* The pieces of a split reference hold no delimiter, follow each other in the text with one delimiter
\* between and cover it; trimming and leaving out the empty ones changes nothing else.  What is joined
\* with a delimiter and split with delimitedString2Vector(), as the lists of a configuration are, comes
\* back, with blanks around the delimiters too when pieces are trimmed.
SplitsAreExact ==
    /\ input.kind = "split" =>
        LET r == input.r
            all == delimitedUnicodeStringRef2Vector(r, FALSE, TRUE)
            some == delimitedUnicodeStringRef2Vector(r, TRUE, FALSE)
            end(p) == p.from + p.len
        IN  /\ \A i \in DOMAIN all : Range(Chars(all[i])) \cap Delims = {}
            /\ \A i \in DOMAIN all : all[i].from = IF i = 1 THEN r.from ELSE end(all[i - 1]) + 1
            /\ r.len > 0 => LET last == all[Len(all)] IN
                    \/ r.from + r.len = end(last)
                    \/ r.from + r.len = end(last) + 1 /\ At(r.mem, end(last)) \in Delims
            /\ [i \in DOMAIN some |-> Chars(some[i])]
                    = SelectSeq([i \in DOMAIN all |-> Trimmed(Chars(all[i]))], LAMBDA s : s # <<>>)
    /\ input.kind = "fields" =>
        /\ delimitedString2Vector(vector2delimitedStr(input.fields, input.delimiter), TRUE, FALSE) = input.fields
        /\ Len(input.delimiter) = 1 =>
            delimitedString2Vector(vector2delimitedStr(input.fields, input.delimiter), FALSE, TRUE) = input.fields

\* Replacing every occurrence of a text with one the string does not have leaves none of it, and
\* replacing that again restores the string; trimming takes the outer blanks and nothing else, and
\* padding is what trimming takes.
EditsAreUndone ==
    input.kind = "edit" =>
        LET s == input.text
            done == strreplaceall(s, input.search, input.fresh)
        IN  /\ strreplaceall(done, input.fresh, input.search) = s
            /\ find(done, input.search, 0) = NPOS
            /\ Len(input.search) = 1 /\ Len(input.fresh) = 1 =>
                    done = strreplaceallchar(s, input.search[1], input.fresh[1])
            /\ strtrim(s) = Trimmed(s)
            /\ \A n \in 0 .. 6, c \in Spaces :
                /\ strtrimr(strpad_r(s, n, c)) = strtrimr(s)
                /\ Len(strpad_l(s, n, c)) = Max({n, Len(s)})
                /\ strtrim(strpad_l(strpad_r(s, n, c), n + 1, c)) = strtrim(s)

\* A language matches itself and what matches it; equal ones match; a valid one is what its string
\* and its number say, in whatever case and with whichever separator it was written; of two that
\* are both given, one matches the other when the language is the same and a territory is left open.
LanguagesAgree ==
    input.kind = "language" =>
        LET l == language(input.code)
            m == language(input.other)
            given == l # Unspecified /\ m # Unspecified
        IN  /\ matches(l, l) /\ (matches(l, m) <=> matches(m, l))
            /\ SameLanguage(l, m) => matches(l, m)
            /\ isValid(l) => /\ language(asString(l)) = l
                             /\ languageOfNumber(asNumber(l)) = l
                             /\ hasTerritory(l) <=> Len(input.code) = 5
            /\ isValid(l) /\ isValid(m) /\ given =>
                (matches(l, m) <=> /\ SubSeq(asString(l), 1, 2) = SubSeq(asString(m), 1, 2)
                                   /\ hasTerritory(l) /\ hasTerritory(m) => getTerritoryCode(l) = getTerritoryCode(m))

\* language.hpp:65-75 says a language is a string "ll-cc" or "ll" of the codes of ISO 639 and ISO
\* 3166: two letters, whichever they are, are never invalid.
LetterPairsAreValid ==
    input.kind = "language" /\ Len(input.code) = 2 /\ Range(input.code) \subseteq Letters =>
        isValid(language(input.code))

\* The predicates on a token's bits say of its characters what their names say; the parts of a file
\* name make it up and setting one leaves the others; a message has its parameters where the template
\* has their numbers, however many digits these have and whatever stands in the parameters.
ShortTextsAreRead ==
    /\ input.kind = "token" =>
        LET p == tokenProperties(input.text)
            class == [i \in DOMAIN input.text |-> UnitClass(input.text[i])]
            all(C) == \A i \in DOMAIN class : class[i] \in C
        IN  input.text # <<>> =>
            /\ isPlainWord(p) <=> all({"lower", "upper"})
            /\ isAllUppercaseWord(p) <=> all({"upper"})
            /\ isAllLowercaseWord(p) <=> all({"lower"})
            /\ isInitialUppercaseWord(p) <=>
                    class[1] = "upper" /\ Len(class) > 1 /\ \A i \in 2 .. Len(class) : class[i] = "lower"
            /\ isPlainNumber(p) <=> all({"numeric", "special"}) /\ \E i \in DOMAIN class : class[i] = "numeric"
            /\ isPureNumber(p) <=> all({"numeric"})
            /\ isPureSpecial(p) <=> all({"special"})
    /\ input.kind = "file" =>
        LET f == input.path \o input.base \o input.ext
        IN  /\ <<extractPath(f), extractBaseName(f), getExtension(f)>> = <<input.path, input.base, input.ext>>
            /\ \A ext \in Texts : Dot \notin Range(ext) /\ Slash \notin Range(ext) =>
                /\ matchesBase(setNewExtension(f, <<Dot>> \o ext), f)
                /\ setNewName(f, ext) = input.path \o ext
    /\ input.kind = "message" =>
        messageAsString(FlattenSeq([i \in DOMAIN input.parts |-> input.parts[i].written]), input.params)
            = FlattenSeq([i \in DOMAIN input.parts |->
                LET part == input.parts[i] IN
                IF part.number = 0 THEN part.read
                ELSE IF part.number \in DOMAIN input.params THEN input.params[part.number] ELSE Unknown])
=============================================================================
