-------------------------------- MODULE Rules --------------------------------
(***************************************************************************)
(* Which hosts are targets (internal/rules), and the same decision made    *)
(* again by the generated PAC script (internal/pac).  The proxy, the       *)
(* reverse proxy, the DNS server and the certificate callback all ask      *)
(* MatchHost; a browser asks the script.                                   *)
(*                                                                         *)
(* A host name is a sequence of labels.  The code compares text, so a name *)
(* is also spelled out, with Text, as the characters of its labels joined  *)
(* by dots: a suffix of the text need not start at a label.                *)
(***************************************************************************)
EXTENDS Naturals, Sequences, Loops

CONSTANTS
    Label,          \* labels, lower case
    Chars,          \* Chars[l]: the characters of label l
    OddLabel,       \* labels idna.Lookup refuses (an underscore, a -- inside)
    PrototypeKey,   \* names every JavaScript object has a property of
    HostName,       \* the host names in use, sequences of labels
    MaxRules        \* bound: rules in a configuration

\* The dot separates labels, so none holds one; a label is known by its text.
ASSUME RulesAssumption ==
    /\ \A l \in Label : /\ Chars[l] \in Seq(Range(Chars[l])) \ {<<>>}
                         /\ "." \notin Range(Chars[l])
    /\ \A l, m \in Label : Chars[l] = Chars[m] => l = m
    /\ OddLabel \subseteq Label
    /\ HostName \subseteq Seq(Label) \ {<<>>}
    /\ PrototypeKey \subseteq HostName
    /\ MaxRules \in Nat

VARIABLES
    exact,      \* Matcher.exact: a function from host names to groups
    wildcard,   \* Matcher.wildcard: a sequence of entries
    added,      \* history: the rules NewMatcher was given so far
    failed      \* NewMatcher returned an error

rulesVars == <<exact, wildcard, added, failed>>

Group == {"provider", "custom"}

\* The ways a host is written: as it is, in upper case, with a closing dot,
\* with a port, inside a URL; or blank.
Form == {"plain", "upper", "dot", "port", "url", "blank"}
RawHost == [name : HostName, form : Form]

\* What a browser hands to FindProxyForURL: never a port and never a URL.
BrowserHost == {r \in RawHost : r.form \in {"plain", "upper", "dot"}}

Rule == [group : Group, wild : BOOLEAN, raw : RawHost]

NoHost == <<>>

Char == {"."} \cup UNION {Range(Chars[l]) : l \in Label}

\* The labels joined by dots.
Join(name) ==
    LoopOver([l \in Range(name) |-> [text \in Seq(Char) |->
                 IF text = <<>> THEN Chars[l] ELSE text \o <<".">> \o Chars[l]]],
             <<>>, name)

Text == [name \in HostName |-> Join(name)]

\* strings.HasSuffix, and the comparison of a slice in the script.
HasSuffix(s, suffix) ==
    Len(s) >= Len(suffix) /\ SubSeq(s, Len(s) - Len(suffix) + 1, Len(s)) = suffix

\* NormalizeHost: trimming, the URL, the port, the dot and the case are
\* undone; a blank host and one idna.Lookup refuses are errors (NoHost).
NormalizeHost(raw) ==
    IF raw.form = "blank" \/ Range(raw.name) \cap OddLabel # {} THEN NoHost
    ELSE raw.name

\* A comparison that forgets the dot in front of the rule's host.
HasHostSuffixLoose(name, suffix) ==
    name # suffix /\ HasSuffix(Text[name], Text[suffix])

\* The comparison in MatchHost: not the host itself, but below it.
HasHostSuffix(name, suffix) ==
    name # suffix /\ HasSuffix(Text[name], <<".">> \o Text[suffix])

NoMatch == [ok |-> FALSE, group |-> "none", wild |-> FALSE]

MatchHost(raw) ==
    LET host == NormalizeHost(raw)
        hits == {i \in DOMAIN wildcard : HasHostSuffix(host, wildcard[i].host)}
    IN  IF host = NoHost THEN NoMatch
        ELSE IF host \in DOMAIN exact
             THEN [ok |-> TRUE, group |-> exact[host], wild |-> FALSE]
        ELSE IF hits # {}
             THEN LET i == CHOOSE j \in hits : \A k \in hits : j <= k
                  IN  [ok |-> TRUE, group |-> wildcard[i].group, wild |-> TRUE]
        ELSE NoMatch

-----------------------------------------------------------------------------

\* The host as FindProxyForURL sees it, with its lower-casing and its removal
\* of one closing dot; a script without the latter.
PacHostDotted(raw) == IF raw.form = "dot" THEN Append(Text[raw.name], ".") ELSE Text[raw.name]

PacHost(raw) == Text[raw.name]

\* exact[host] is true for the keys of the object and for the names every
\* object inherits.
PacExact(host) ==
    \/ \E h \in DOMAIN exact : host = Text[h]
    \/ \E p \in PrototypeKey : host = Text[p]

\* FindProxyForURL as Generate writes it: TRUE for PROXY, FALSE for DIRECT.
FindProxy(raw) ==
    LET host == PacHost(raw)
    IN  \/ PacExact(host)
        \/ \E i \in DOMAIN wildcard :
              LET suffix == <<".">> \o Text[wildcard[i].host]
              IN  Len(host) > Len(suffix) /\ HasSuffix(host, suffix)

-----------------------------------------------------------------------------

RulesInit ==
    /\ exact = [h \in {} |-> "provider"]
    /\ wildcard = <<>>
    /\ added = <<>>
    /\ failed = FALSE

\* addGroup on one rule of a group: the providers' groups come first, the
\* custom domains last; a wildcard is appended, an exact host overwritten.
AddRule(r) ==
    LET host == NormalizeHost(r.raw)
    IN  /\ ~failed /\ Len(added) < MaxRules
        /\ (added # <<>> /\ added[Len(added)].group = "custom") => r.group = "custom"
        /\ host # NoHost
        /\ added' = Append(added, r)
        /\ wildcard' = IF r.wild THEN Append(wildcard, [host |-> host, group |-> r.group])
                       ELSE wildcard
        /\ exact' = IF r.wild THEN exact
                    ELSE [h \in DOMAIN exact \cup {host} |->
                             IF h = host THEN r.group ELSE exact[h]]
        /\ UNCHANGED failed

\* A rule that cannot be normalised: NewMatcher fails as a whole.
RejectRule(r) ==
    /\ ~failed /\ Len(added) < MaxRules
    /\ NormalizeHost(r.raw) = NoHost
    /\ failed' = TRUE
    /\ UNCHANGED <<exact, wildcard, added>>

RulesNext == \E r \in Rule : AddRule(r) \/ RejectRule(r)

RulesSpec == RulesInit /\ [][RulesNext]_rulesVars

-----------------------------------------------------------------------------

\* A rule covers a name, said of labels: an exact rule its own name, a
\* wildcard the names with labels in front of it.
Covers(r, name) ==
    IF r.wild THEN Len(name) > Len(r.raw.name) /\ HasSuffix(name, r.raw.name)
    ELSE name = r.raw.name

Covering(raw) ==
    {i \in DOMAIN added : NormalizeHost(raw) # NoHost /\ Covers(added[i], raw.name)}

\* MatchHost accepts exactly the valid hosts some configured rule covers label
\* by label, however the host or the rule is spelled; the text comparison never
\* takes notexample.com for a host below example.com.  The match is attributed
\* to an exact rule before any wildcard, to the last of the exact rules of a
\* host, so that a custom domain overrides a provider's, and to the first of
\* the wildcards.
MatchesCovered ==
    \A raw \in RawHost :
        LET hits == Covering(raw)
            exacts == {i \in hits : ~added[i].wild}
            winner == IF exacts # {} THEN CHOOSE i \in exacts : \A j \in exacts : j <= i
                      ELSE CHOOSE i \in hits : \A j \in hits : i <= j
        IN  IF hits = {} THEN ~MatchHost(raw).ok
            ELSE MatchHost(raw) = [ok |-> TRUE, group |-> added[winner].group,
                                   wild |-> added[winner].wild]

\* The PAC script sends a host to the proxy when, and but for two exceptions
\* only when, the proxy takes it for a target, asking MatchHost: every other
\* host goes DIRECT.  The exceptions, which the proxy then refuses, are names
\* idna.Lookup rejects below a wildcard, and names of inherited properties.
PacAgrees ==
    \A raw \in BrowserHost :
        /\ MatchHost(raw).ok => FindProxy(raw)
        /\ FindProxy(raw) => \/ MatchHost(raw).ok
                             \/ NormalizeHost(raw) = NoHost
                             \/ raw.name \in PrototypeKey
=============================================================================
