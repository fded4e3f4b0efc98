------------------------------ MODULE Identity ------------------------------
(***************************************************************************)
(* What makes two feed values the same indicator (core/hashing.py,         *)
(* Indicator.build of core/models.py, plugins/enrichers/defang.py).  A     *)
(* value is a sequence of tokens: letters, digits, whole words where only  *)
(* the word matters, and the punctuation that defanging and the            *)
(* canonicalizers look at.  Two UUIDs are equal when the type and the      *)
(* canonical value they are derived from are, so that value stands for the *)
(* UUID.                                                                   *)
(*                                                                         *)
(* A feed means a value and writes it in one of many ways; normalisation   *)
(* builds an indicator from what it wrote, and the defang enricher may     *)
(* rewrite the indicator afterwards.                                       *)
(***************************************************************************)
EXTENDS Integers, Sequences, SequencesExt

CONSTANTS
    Types,       \* IndicatorType: of the hashes one, of the plain texts one
    Seeds,       \* for each type, how values begin
    Alphabet,    \* for each type, the tokens that may follow
    MaxLength,   \* bound on the tokens of what is meant
    MaxRespell,  \* bound on the tokens written otherwise
    HashLength   \* the digits of a hash

VARIABLES
    type,
    meant,      \* the value the feed means
    raw,        \* the value as the feed writes it
    respelled,  \* how many tokens were written otherwise
    stage,      \* "raw", "built" or "enriched"
    ind         \* the indicator, or NoIndicator

vars == <<type, meant, raw, respelled, stage, ind>>

Rejected == <<"ValueError">>
NoIndicator == [id |-> Rejected, value |-> Rejected]

Upper == [a |-> "A", b |-> "B", http |-> "HTTP", hxxp |-> "HXXP"]
LowerToken(t) ==
    IF \E l \in DOMAIN Upper : Upper[l] = t THEN CHOOSE l \in DOMAIN Upper : Upper[l] = t ELSE t
Lower(s) == [k \in 1..Len(s) |-> LowerToken(s[k])]

Hex == {"a", "b", "1"}
Alnum == {"a", "b", "1", "80", "443", "http", "https", "hxxp"}

-----------------------------------------------------------------------------
(* Strings *)

MatchesAt(s, k, pattern) ==
    k + Len(pattern) - 1 <= Len(s) /\ SubSeq(s, k, k + Len(pattern) - 1) = pattern

\* str.replace: from the left, without looking again at what was replaced.
Replace(s, pattern, by) ==
    LET from[k \in 1..(Len(s) + 1)] ==
          IF k > Len(s) THEN <<>>
          ELSE IF MatchesAt(s, k, pattern)
               THEN by \o from[k + Len(pattern)]
               ELSE <<s[k]>> \o from[k + 1]
    IN  from[1]

\* str.strip, of spaces at both ends; str.rstrip of a token.
RStrip(s, t) == SubSeq(s, 1, SelectLastInSeq(s, LAMBDA x : x # t))
Strip(s) == RStrip(SubSeq(s, SelectInSeq(s \o <<"">>, LAMBDA x : x # " "), Len(s)), " ")

EndsWith(s, suffix) == IsSuffix(suffix, s)

\* The regular expression \bhxxp(s?):// is replaced by http\1://.
SchemeRestored(s) ==
    [k \in 1..Len(s) |->
        IF /\ s[k] \in {"hxxp", "HXXP"}
           /\ MatchesAt(s, k + 1, <<":", "/", "/">>)
           /\ k = 1 \/ LowerToken(s[k - 1]) \notin Alnum
        THEN "http" ELSE s[k]]

-----------------------------------------------------------------------------
(* hashing.py *)

\* Seeded fault: a pattern is missing.
RefangNoParens(s) ==
    LET s1 == Replace(s, <<"[", ".", "]">>, <<".">>)
        s2 == Replace(s1, <<"[", ":", "]">>, <<":">>)
        s3 == Replace(s2, <<"[", ":", "/", "/", "]">>, <<":", "/", "/">>)
    IN  SchemeRestored(s3)

Refang(s) ==
    LET s1 == Replace(s, <<"[", ".", "]">>, <<".">>)
        s2 == Replace(s1, <<"(", ".", ")">>, <<".">>)
        s3 == Replace(s2, <<"[", ":", "]">>, <<":">>)
        s4 == Replace(s3, <<"[at]">>, <<"@">>)
        s5 == Replace(s4, <<"[", ":", "/", "/", "]">>, <<":", "/", "/">>)
    IN  SchemeRestored(s5)

\* Every label matches _DOMAIN_LABEL_RE.
ValidLabels(d) ==
    /\ d # <<>>
    /\ \A k \in 1..Len(d) : d[k] \in Alnum \cup {".", "-"}
    /\ \A k \in 0..Len(d) :
         ~ \E x, y \in {".", "-"} :
             /\ "." \in {x, y}
             /\ (IF k = 0 THEN "." ELSE d[k]) = x
             /\ (IF k = Len(d) THEN "." ELSE d[k + 1]) = y

\* Seeded fault: the labels are not looked at.
DomainUnchecked(s) == RStrip(Lower(Refang(s)), ".")

CanonicalDomain(s) ==
    LET d == RStrip(Lower(Refang(s)), ".") IN IF ValidLabels(d) THEN d ELSE Rejected

\* urlparse: scheme "://" netloc, and the rest up to the fragment.
Scheme(s) == SubSeq(s, 1, SelectInSeq(s, LAMBDA x : x = ":") - 1)
AfterScheme(s) == SubSeq(s, SelectInSeq(s, LAMBDA x : x = ":") + 1, Len(s))
UpTo(s, stops) == SubSeq(s, 1, SelectInSeq(s \o <<"#">>, LAMBDA x : x \in stops) - 1)

\* urlparse accepts brackets only around an IPv6 address.
IPv6Host == <<"[", ":", ":", "]">>

\* The default port goes, once.
StripPort(scheme, netloc) ==
    IF \/ scheme = <<"http">> /\ EndsWith(netloc, <<":", "80">>)
       \/ scheme = <<"https">> /\ EndsWith(netloc, <<":", "443">>)
    THEN SubSeq(netloc, 1, Len(netloc) - 2)
    ELSE netloc

CanonicalUrl(s) ==
    LET url == Strip(Refang(s))
        scheme == Lower(Scheme(url))
        rest == AfterScheme(url)
        hasNetloc == MatchesAt(rest, 1, <<"/", "/">>)
        netloc == UpTo(SubSeq(rest, 3, Len(rest)), {"/", "#"})
        tail == SubSeq(rest, 3 + Len(netloc), Len(rest))
        path == UpTo(tail, {"#"})
    IN  IF \/ scheme = <<>> \/ \E k \in 1..Len(scheme) : scheme[k] \notin Alnum
           \/ ~hasNetloc \/ netloc = <<>>
           \/ /\ \E k \in 1..Len(netloc) : netloc[k] \in {"[", "]"}
              /\ ~IsPrefix(IPv6Host, netloc)
        THEN Rejected
        ELSE scheme \o <<":", "/", "/">> \o StripPort(scheme, Lower(netloc))
               \o (IF path = <<>> THEN <<"/">> ELSE path)

CanonicalHash(s) ==
    LET h == Lower(s)
    IN  IF Len(h) = HashLength /\ \A k \in 1..Len(h) : h[k] \in Hex THEN h ELSE Rejected

CanonicalEmail(s) ==
    LET at == SelectLastInSeq(s, LAMBDA x : x = "@")
        domain == CanonicalDomain(SubSeq(s, at + 1, Len(s)))
    IN  IF at = 0 \/ domain = Rejected THEN Rejected
        ELSE Lower(SubSeq(s, 1, at) \o domain)

\* ipaddress.IPv4Address: four numbers, never refanged.
CanonicalIPv4(s) ==
    IF /\ ValidLabels(s)
       /\ \A k \in 1..Len(s) : s[k] \in {"1", "."}
       /\ Len(SelectSeq(s, LAMBDA x : x = ".")) = 3
    THEN s ELSE Rejected

Canonicalize(t, s) ==
    IF Strip(s) = <<>> THEN Rejected
    ELSE CASE t = "domain" -> CanonicalDomain(Strip(s))
           [] t = "url" -> CanonicalUrl(Strip(s))
           [] t = "hash" -> CanonicalHash(Strip(s))
           [] t = "email" -> CanonicalEmail(Strip(s))
           [] t = "ipv4" -> CanonicalIPv4(Strip(s))
           [] OTHER -> Lower(Strip(s))

\* indicator_uuid canonicalizes what it is given.
IndicatorUuid(t, s) == Canonicalize(t, s)

\* Indicator.build, which gives it the canonical value; normalisation drops
\* the record when either raises.
BuildIndicator(t, s) ==
    LET canonical == Canonicalize(t, s)
        id == IF canonical = Rejected THEN Rejected ELSE IndicatorUuid(t, canonical)
    IN  IF id = Rejected THEN NoIndicator ELSE [id |-> id, value |-> canonical]

\* The patterns of DefangEnricher (the one for h[ttp]:// is left out: a URL
\* with such a scheme is rejected, and the tokens have none in a path).
Defang(s) ==
    LET s1 == Replace(s, <<"[", ".", "]">>, <<".">>)
        s2 == Replace(s1, <<"(", ".", ")">>, <<".">>)
        s3 == Replace(s2, <<"{dot}">>, <<".">>)
        s4 == Replace(s3, <<"[at]">>, <<"@">>)
        s5 == Replace(s4, <<"[", ":", "/", "/", "]">>, <<":", "/", "/">>)
    IN  SchemeRestored(s5)

-----------------------------------------------------------------------------
(* A value on its way from the feed to the store *)

InNetloc == type = "url" /\ Len(SelectSeq(meant, LAMBDA x : x = "/")) = 2

\* Where the type makes no difference between the cases.
IgnoresCase == type \in {"domain", "hash", "email", "text"} \/ InNetloc

\* The ways to write a token that is meant, whatever the type.
Spellings(t) ==
    {<<t>>}
    \cup {<<Upper[l]>> : l \in {l \in DOMAIN Upper : l = t /\ IgnoresCase}}
    \cup {s \in {<<"[", ".", "]">>, <<"(", ".", ")">>} : t = "."}
    \cup {s \in {<<"[", ":", "]">>} : t = ":"}

Init ==
    /\ type \in Types
    /\ \E seed \in Seeds[type] : meant = seed.meant /\ raw = seed.raw
    /\ respelled = 0
    /\ stage = "raw"
    /\ ind = NoIndicator

\* The feed writes one more token.
Write ==
    /\ stage = "raw" /\ Len(meant) < MaxLength[type]
    /\ \E t \in Alphabet[type] : \E spelling \in Spellings(t) :
         /\ meant' = Append(meant, t)
         /\ raw' = raw \o spelling
         /\ respelled' = respelled + (IF spelling = <<t>> THEN 0 ELSE 1)
    /\ respelled' <= MaxRespell
    /\ UNCHANGED <<type, stage, ind>>

\* The record is normalised, with blanks around the value and, if it is a
\* domain, with the dot of the root.
Normalize ==
    /\ stage = "raw"
    /\ \E root \in IF type = "domain" THEN {<<>>, <<".">>, <<"[", ".", "]">>} ELSE {<<>>},
         blanks \in {<<>>, <<" ">>} :
         raw' = blanks \o raw \o root \o blanks
    /\ ind' = BuildIndicator(type, raw')
    /\ stage' = "built"
    /\ UNCHANGED <<type, meant, respelled>>

\* DefangEnricher.enrich_sync, where the source has the enricher.
Enrich ==
    /\ stage = "built" /\ ind # NoIndicator
    /\ ind' = [ind EXCEPT !.value = Defang(@)]
    /\ stage' = "enriched"
    /\ UNCHANGED <<type, meant, raw, respelled>>

Next == Write \/ Normalize \/ Enrich

Spec == Init /\ [][Next]_vars

-----------------------------------------------------------------------------
(* Properties *)

Plain(s) == \A k \in 1..Len(s) : s[k] \notin {"[", "]", "(", ")", "{dot}", "[at]"}

\* The part of a value that canonicalize does not refang.
Verbatim(t, s) ==
    CASE t \in {"domain", "url"} -> <<>>
      [] t = "email" /\ Contains(s, "@") ->
           SubSeq(s, 1, SelectLastInSeq(s, LAMBDA x : x = "@"))
      [] OTHER -> s

\* A feed that changes case, writes the dot of the root or pads its values
\* reports the same indicator as one that does not, and so does a feed that
\* defangs what canonicalize() refangs: a domain, a URL, the domain of an
\* e-mail address.  Defanged elsewhere (an IPv4 address, the "@" or the local
\* part of an e-mail address, a text, all of which hashing.py:16-17 promises
\* to refang too) a value is dropped, or stored with the brackets in it, but
\* never taken for another plain value.
SpellingsAgree ==
    stage = "built" /\ Plain(meant) =>
        IF Plain(Verbatim(type, raw)) THEN ind = BuildIndicator(type, meant)
        ELSE ind = NoIndicator \/ ~Plain(ind.value)

OnePort == Plain(meant) /\ Len(SelectSeq(meant, LAMBDA x : x = ":")) <= 2

\* The id is the UUID of the stored value, as uq_indicators_type_value and the
\* conflict target of the UPSERT need it: canonicalizing twice, as build()
\* does, is canonicalizing once (for a URL: one with at most one port and no
\* brackets), and the enricher then finds nothing to rewrite (in an e-mail
\* address or a text: if its feed wrote no brackets in what is not refanged).
IdNamesValue ==
    \/ type = "url" /\ ~OnePort
    \/ stage = "enriched" /\ ~Plain(Verbatim(type, raw))
    \/ ind.id = ind.value

\* data-model.md of every indicator: `id` is uuid5 of its type and canonical
\* value, and `value` is that canonical value.
EveryIdNamesItsValue == ind.id = ind.value
=============================================================================
