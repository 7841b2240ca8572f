------------------------------- MODULE Reading -------------------------------
(***************************************************************************)
(* How a page is read: whether it is the page at all (runner/              *)
(* block_detect.py), which selector of a step finds something on it        *)
(* (runner/locators.py), and what becomes of the text that was found       *)
(* (runner/parsing.py; validate/parse.py has another reader, which the     *)
(* package exports and no run uses).  Functions only.                      *)
(***************************************************************************)
EXTENDS Naturals, Sequences, SequencesExt, FiniteSets

None == "None"

-----------------------------------------------------------------------------
(***************************************************************************)
(* detect_block.  A response: its status, whether a marker of a vendor was *)
(* found (in headers, cookies or the page), whether the page has a captcha *)
(* widget, scripts, a noscript, and how much text can be seen.             *)
(***************************************************************************)
Statuses == {"ok", "refused", "ambiguous", "server_error"}
Texts == {"no page", "little", "some", "much"}  \* below 180 characters, 600, more
Response == [status : Statuses, vendor : BOOLEAN, captcha : BOOLEAN, script : BOOLEAN,
             noscript : BOOLEAN, text : Texts]

IsChallengeShell(r) == (r.script \/ r.noscript) /\ r.text \in {"little", "some"}
IsEmptyJsOnly(r) == r.text = "no page" \/ (r.script /\ r.text = "little")
Refusal(r) == r.status \in {"refused", "ambiguous"}

\* The reason of the first of the five rules that applies.  (The fifth never does.)
DetectBlock(r) ==
    LET Or(reason) == IF r.vendor THEN "vendor" ELSE reason IN
    IF r.vendor /\ (Refusal(r) \/ r.captcha \/ IsChallengeShell(r)) THEN "vendor"
    ELSE IF r.captcha /\ (Refusal(r) \/ IsEmptyJsOnly(r)) THEN Or("captcha")
    ELSE IF r.status = "refused" THEN Or("status")
    ELSE IF r.status # "server_error" /\ IsEmptyJsOnly(r) THEN "empty"
    ELSE IF r.status = "ambiguous" /\ (r.vendor \/ r.captcha) THEN Or("unknown")
    ELSE None

-----------------------------------------------------------------------------
(***************************************************************************)
(* The ladder of selectors.  found[s] is how many elements s finds; what   *)
(* cannot be parsed, or makes the engine raise, finds none.                *)
(***************************************************************************)
CandidatesOf(primary, fallbacks) ==
    FoldLeft(LAMBDA out, s : IF s = "" \/ Contains(out, s) THEN out ELSE Append(out, s),
             <<>>, <<primary>> \o fallbacks)

\* The place of the first candidate that finds enough; 0 when none does.
ResolveFirst(primary, fallbacks, found, minimum) ==
    SelectInSeq(CandidatesOf(primary, fallbacks), LAMBDA s : s \in DOMAIN found /\ found[s] >= minimum)

-----------------------------------------------------------------------------
(***************************************************************************)
(* Numbers.  A number on a page is groups of digits, each with the         *)
(* separator before it ("none" for the first) and its width.  It is read   *)
(* by deciding how many of its digits are decimals.                        *)
(***************************************************************************)
Separators == {"point", "comma", "space"}
Token(w, rest) == <<[sep |-> "none", width |-> w]>> \o rest

\* Spaces and apostrophes are dropped first.
Joined(out, g) ==
    IF g.sep = "space" THEN Append(Front(out), [Last(out) EXCEPT !.width = @ + g.width]) ELSE Append(out, g)
Squeezed(token) == FoldLeft(Joined, <<>>, token)
Count(token, sep) == Cardinality({i \in DOMAIN token : token[i].sep = sep})

\* A mutation: three digits may follow as well.
ParseNumberThree(token) ==
    LET t == Squeezed(token) IN
    IF Len(t) > 1 /\ Last(t).width \in {1, 2, 3} THEN Last(t).width ELSE 0

\* parse_number: the last separator is the decimal one if one or two digits follow.  The
\* pattern takes no sign, so that -5 is read as 5, and a token here has none.
ParseNumber(token) ==
    LET t == Squeezed(token) IN
    IF Len(t) > 1 /\ Last(t).width \in {1, 2} THEN Last(t).width ELSE 0

\* coerce, to an int: what is behind the decimal point is cut off.
Width(token) == FoldLeft(LAMBDA n, g : n + g.width, 0, token)
CoerceInt(token) == Width(token) - ParseNumber(token)

\* _strip_grouping of validate/parse.py.
StripGrouping(token, triple) ==
    LET t == Squeezed(token)
        last == Last(t)
        dots == Count(t, "point")
        commas == Count(t, "comma")
    IN IF dots > 0 /\ commas > 0 THEN IF Count(t, last.sep) > 1 THEN {} ELSE {last.width}
       ELSE IF commas > 0 THEN IF commas > 1 \/ last.width = 3 THEN {0} ELSE {last.width}
       ELSE IF dots > 0 THEN IF dots > 1 \/ (triple /\ last.width = 3) THEN {0} ELSE {last.width}
       ELSE {0}

\* parse_int there: decimals that are not zero make it fail.
ParseInt(token, zeros) ==
    {Width(token) - d : d \in {n \in StripGrouping(token, TRUE) : n = 0 \/ zeros}}

\* Dates with the year behind: the formats that fit, in their order, as <<day, month>>.
DateFormats(sep) ==
    CASE sep = "/" -> <<"day first", "month first">>
      [] sep \in {"-", "."} -> <<"day first">>
AsDate(format, a, b) == IF format = "day first" THEN <<a, b>> ELSE <<b, a>>
IsDate(date) == date[1] \in 1..31 /\ date[2] \in 1..12
ParseDate(a, b, sep) ==
    LET i == SelectInSeq(DateFormats(sep), LAMBDA format : IsDate(AsDate(format, a, b)))
    IN IF i = 0 THEN <<0, 0>> ELSE AsDate(DateFormats(sep)[i], a, b)

-----------------------------------------------------------------------------
\* Whether the token is a number of so many decimals as some country writes it.
Writes(group, point, decimals, token) ==
    LET whole == IF decimals = 0 THEN token ELSE Front(token) IN
    /\ whole # <<>>
    /\ decimals > 0 => Last(token).sep = point /\ Last(token).width = decimals
    /\ \A i \in DOMAIN whole \ {1} : whole[i].sep = group /\ whole[i].width = 3
    /\ Len(whole) > 1 => whole[1].width <= 3

\* A number of at most two decimals is read as it was written, whichever of point,
\* comma and space group it and whichever of point and comma is the decimal sign; as
\* an integer too, if it is one.  (Of three decimals that does not hold: 1.234 is
\* one thing in one country and another in the next.)
NumberIsRead(token) ==
    \A group \in Separators, point \in {"point", "comma"}, decimals \in 0..2 :
        group # point /\ Writes(group, point, decimals, token) =>
            /\ ParseNumber(token) = decimals
            /\ StripGrouping(token, decimals = 0) = {decimals}
            /\ CoerceInt(token) = Width(token) - decimals
            /\ ParseInt(token, FALSE) = IF decimals = 0 THEN {Width(token)} ELSE {}

\* A date is read with the day first, and with the month first only where the other
\* order makes no date; so only dates up to the 12th of a month are misread, and only
\* on pages that write the month first.
DateIsRead(a, b) ==
    /\ IsDate(<<a, b>>) => \A sep \in {"/", "-", "."} : ParseDate(a, b, sep) = <<a, b>>
    /\ IsDate(<<b, a>>) /\ (a = b \/ b > 12) => ParseDate(a, b, "/") = <<b, a>>

\* What a step found it still finds when selectors are added behind; and a selector
\* that is written twice, or is blank, counts once or not at all.
LadderIsStable(primary, fallbacks, more, found, minimum) ==
    LET i == ResolveFirst(primary, fallbacks, found, minimum) IN
    /\ i > 0 => ResolveFirst(primary, fallbacks \o more, found, minimum) = i
    /\ i > 0 <=> \E s \in ToSet(<<primary>> \o fallbacks) \cap DOMAIN found : found[s] >= minimum

\* runner/block_detect.py:11-13, "every marker is narrow on purpose": a page with
\* content that was not refused is no wall behind a vendor's CDN, and none with a
\* captcha in a form (with both it is one); what was refused always is, and what a
\* vendor's marker is on is never put down to anything but that vendor, or to an
\* empty page.
WallIsTold(r) ==
    /\ ~Refusal(r) /\ r.text = "much" /\ ~(r.vendor /\ r.captcha) => DetectBlock(r) = None
    /\ r.status = "refused" => DetectBlock(r) # None
    /\ r.vendor => DetectBlock(r) \in {None, "vendor", "empty"}
    /\ r.status = "ok" /\ r.text = "no page" => DetectBlock(r) # None
=============================================================================
