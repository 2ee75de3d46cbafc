-------------------------------- MODULE Names ---------------------------------
(***************************************************************************)
(* How names are settled and looked up: the service a Hello is given       *)
(* (handleControl), the service a Host header asks for (extractService)    *)
(* and the hosts autocert may order certificates for (autocertHostPolicy). *)
(*                                                                         *)
(* A dotted name is the sequence of its labels, an empty string the        *)
(* sequence of one blank label; splitting at dots loses nothing.  Ports,   *)
(* spaces around names and the letters of a label are left out.            *)
(***************************************************************************)
EXTENDS Sequences, SequencesExt

CONSTANTS
    Label,       \* what can stand between two dots
    Blank,       \* the empty label
    Www,         \* the label "www"
    Lower,       \* label -> the same in lower case
    WellFormed,  \* the labels serviceNameRE matches
    Base,        \* AXR_BASE_DOMAIN, in lower case and without a final dot
    Listed,      \* AXR_TLS_AUTOCERT_DOMAINS, in lower case
    Wildcard     \* "*", what a wildcard token is bound to

ASSUME LabelAssumption ==
    /\ {Blank, Www} \subseteq Label
    /\ WellFormed \subseteq Label \ {Blank}
    /\ Lower \in [Label -> Label]
    /\ \A l \in Label : Lower[Lower[l]] = Lower[l] /\ (Lower[l] = Blank <=> l = Blank)
    /\ \A l \in WellFormed \cup {Www} : Lower[l] = l
    /\ Base \in Seq(Label) /\ Base # << >> /\ Last(Base) # Blank
    /\ \A i \in DOMAIN Base : Lower[Base[i]] = Base[i]

Empty == <<Blank>>

\* strings.ToLower, and strings.EqualFold on what it is called with.
ToLower(h) == [i \in DOMAIN h |-> Lower[h[i]]]
EqualFold(g, h) == ToLower(g) = ToLower(h)

\* strings.TrimSuffix(host, ".").
TrimDot(h) == IF Len(h) > 1 /\ Last(h) = Blank THEN Front(h) ELSE h

\* strings.HasSuffix(host, "."+base), and what is left of the host then.
Below(h) ==
    Len(h) > Len(Base) /\ SubSeq(h, Len(h) - Len(Base) + 1, Len(h)) = Base
Inner(h) == SubSeq(h, 1, Len(h) - Len(Base))

LastLabel(s) == <<Last(s)>>

\* The service a host asks for, or Empty.
ExtractService(host) ==
    LET h == ToLower(TrimDot(host))
    IN  IF Below(h) THEN LastLabel(Inner(h)) ELSE Empty

\* Compared without trimming a final dot.
IsApex(host) == EqualFold(host, Base) \/ EqualFold(host, <<Www>> \o Base)

\* serviceNameRE has no dot in it.
ValidName(n) == Len(n) = 1 /\ n[1] \in WellFormed

\* The names handleControl may give to a Hello that claims `claim` with a token
\* bound to `bound`: one, or none when it refuses.
Settle(bound, claim) ==
    IF bound = Wildcard
    THEN {n \in {ToLower(claim)} : ValidName(ToLower(claim))}
    ELSE {n \in {bound} : claim = Empty \/ EqualFold(claim, bound)}

\* The host whose certificate is issued for a service.
CertHost(n) == ToLower(TrimDot(n \o Base))

\* autocertHostPolicy, given the services that Registry.HasService knows.
Allowed(host, known) ==
    LET h == ToLower(TrimDot(host))
    IN  \/ h \in Listed \cup {Base, <<Www>> \o Base}
        \/ Below(h) /\ ValidName(Inner(h)) /\ Inner(h) \in known
===============================================================================
