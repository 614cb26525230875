------------------------------ MODULE Hostname ------------------------------
(***************************************************************************)
(* HostnameOption (core/corehttp/hostname.go): what a gateway makes of the *)
(* Host header - a known gateway, content on a subdomain of one, a DNSLink *)
(* website - and the redirects that move content to its own origin.        *)
(*                                                                         *)
(* A browser follows the redirects, also the one that adds the final slash *)
(* to the URL of a directory.  The text of a name is a record: what it     *)
(* names, its encoding and, for a CID, its codec.  Lookups of DNSLink      *)
(* records can fail.                                                       *)
(***************************************************************************)
EXTENDS Integers, FiniteSets

CONSTANTS
    PlainCids,    \* hashes with a CIDv0 form that fit a DNS label in base 32
    LongKeys,     \* peer keys: base 32 is too long for a label, base 36 fits
    HugeCids,     \* hashes no encoding of which fits a label
    LinkNames,    \* domain names with a DNSLink record that fit as one label
    LongLinks,    \* domain names with a DNSLink record that do not
    DefaultKnown,   \* defaultKnownGateways: name to [paths, subdomains, inline, noLink]
    PublicGateways, \* Gateway.PublicGateways: the same, or NoGateway (null)
    NoDNSLink,      \* Gateway.NoDNSLink
    MaxHops       \* redirects a browser follows (a bound)

ASSUME HostnameAssumption ==
    /\ NoDNSLink \in BOOLEAN
    /\ \A g \in DOMAIN DefaultKnown : DefaultKnown[g].subdomains \in BOOLEAN
    /\ MaxHops \in Nat \ {0, 1}
    /\ (PlainCids \cup LongKeys \cup HugeCids) \cap (LinkNames \cup LongLinks) = {}

VARIABLES
    hnReq,      \* request of the browser
    hnFirst,    \* its first request
    hnSlash,    \* final / of a directory's URL: "fine", "missing" or "added"
    hnHops,     \* redirects followed
    hnOut,      \* what came of it
    hnUp        \* lookups succeeded while it was handled

hnVars == <<hnReq, hnFirst, hnSlash, hnHops, hnOut, hnUp>>

\* prepareKnownGateways: the configuration adds, replaces and, with a null,
\* removes gateways.  Wildcards, names for many of the same, are left out.
NoGateway == [paths |-> {}, subdomains |-> FALSE, inline |-> FALSE, noLink |-> TRUE]
Known ==
    LET hosts == (DOMAIN DefaultKnown \cup DOMAIN PublicGateways)
                    \ {h \in DOMAIN PublicGateways : PublicGateways[h] = NoGateway}
    IN [h \in hosts |-> IF h \in DOMAIN PublicGateways THEN PublicGateways[h] ELSE DefaultKnown[h]]

CidIds == PlainCids \cup LongKeys \cup HugeCids
LinkIds == LinkNames \cup LongLinks
NoText == [id |-> "none", base |-> "none", codec |-> "none"]
Texts == [id : CidIds, base : {"b32", "b36"}, codec : {"pb", "key"}]
            \cup [id : PlainCids \cup LongKeys, base : {"b58"}, codec : {"pb"}]
            \cup [id : LinkIds, base : {"dns"}, codec : {"none"}]
            \cup [id : LinkNames, base : {"label"}, codec : {"none"}]

IsSubdomainNamespace(ns) == ns \in {"ipfs", "ipns", "p2p", "ipld"}
IsPeerIDNamespace(ns) == ns \in {"ipns", "p2p"}

\* Whether a text fits the 63 characters of a DNS label.
Fits(t) == \/ t.id \in PlainCids
           \/ t.id \in LongKeys /\ t.base \in {"b36", "b58"}
           \/ t.id \in LinkNames

CidDecodes(t) == t.base \in {"b32", "b36"} \/ (t.base = "b58" /\ t.id \in PlainCids)
PeerDecodes(t) == t.base = "b58" \/ (t.base \in {"b32", "b36"} /\ t.codec = "key")
IsDomainNameAndNotPeerID(t) == ~PeerDecodes(t) /\ (t.base = "dns" \/ Fits(t))

\* isDNSLinkName; up tells whether lookups succeed.
IsDNSLinkName(t, up) == IsDomainNameAndNotPeerID(t) /\ t.base = "dns" /\ up

Failed == [t |-> NoText, ok |-> FALSE]
Good(t) == [t |-> t, ok |-> TRUE]

\* toDNSLabel: as it is when it fits, else in base 36.
ToDNSLabel(t) ==
    IF Fits(t) THEN Good(t)
    ELSE IF Fits([t EXCEPT !.base = "b36"]) THEN Good([t EXCEPT !.base = "b36"])
    ELSE Failed

\* toDNSLinkDNSLabel, and toDNSLinkFQDN back.
ToDNSLinkDNSLabel(t) == IF t.id \in LinkNames THEN Good([t EXCEPT !.base = "label"]) ELSE Failed

\* Mutant: dots are not put back.
ToDNSLinkFQDN_Same(t) == t

ToDNSLinkFQDN(t) == [t EXCEPT !.base = "dns"]

\* Mutant: the codec of a peer ID is not fixed.
ToSubdomainURL_KeepCodec(ns, root, https, inline, up) ==
    IF CidDecodes(root) THEN ToDNSLabel([root EXCEPT !.base = IF IsPeerIDNamespace(ns) THEN "b36" ELSE "b32"])
    ELSE Good(root)

\* toSubdomainURL: the canonical text of root on a subdomain.
ToSubdomainURL(ns, root, https, inline, up) ==
    LET t == IF IsPeerIDNamespace(ns) /\ ~IsDomainNameAndNotPeerID(root) /\ PeerDecodes(root)
             THEN [root EXCEPT !.base = "b32", !.codec = "key"] ELSE root
        canonical == IF IsPeerIDNamespace(ns) THEN [t EXCEPT !.base = "b36", !.codec = "key"]
                     ELSE [t EXCEPT !.base = "b32"]
    IN IF CidDecodes(t) THEN ToDNSLabel(canonical)
       ELSE IF (inline \/ https) /\ ns = "ipns" /\ IsDNSLinkName(t, up) THEN ToDNSLinkDNSLabel(t)
       ELSE Good(t)

\* A request: host (a gateway or a website, perhaps below a root and namespace),
\* path, https (X-Forwarded-Proto) and whether the host is in X-Forwarded-Host
\* only.
HnRequest(host, ns, root, path, https, fwd) ==
    [host |-> host, ns |-> ns, root |-> root, path |-> path, https |-> https, fwd |-> fwd]
NoPath == [ns |-> "none", root |-> NoText]

\* moved is the Location header that is set before the handler serves a path.
HnServe(ns, root, own) == [kind |-> "serve", ns |-> ns, root |-> root, own |-> own, moved |-> NoText]
HnError(code) == [kind |-> "error", code |-> code]
HnMoved(ns, to) == IF to.ok THEN [kind |-> "redirect", ns |-> ns, root |-> to.t] ELSE HnError(400)

Website(host) == HnServe("ipns", [id |-> host, base |-> "dns", codec |-> "none"], TRUE)

\* A known gateway without a subdomain: its paths, with a Location on a subdomain
\* when it uses them.
KnownHostname(q, up) ==
    LET gw == Known[q.host]
    IN IF q.path.ns \in gw.paths /\ gw.subdomains /\ IsSubdomainNamespace(q.path.ns)
       THEN LET to == ToSubdomainURL(q.path.ns, q.path.root, q.https, gw.inline, up)
            IN IF to.ok THEN [HnServe(q.path.ns, q.path.root, FALSE) EXCEPT !.moved = to.t] ELSE HnError(400)
       ELSE IF q.path.ns \in gw.paths THEN HnServe(q.path.ns, q.path.root, FALSE)
       ELSE IF ~gw.noLink /\ q.host \in LinkIds /\ up THEN Website(q.host)
       ELSE HnError(404)

\* strings.HasPrefix(r.Host, dnsCID): r.Host, not the forwarded host.
HostHasPrefix(q, t) == ~q.fwd /\ q.root = t

\* knownSubdomainDetails: content on a subdomain of a known gateway.
KnownSubdomain(q, up) ==
    LET gw == Known[q.host]
        label == ToDNSLabel(q.root)
    IN IF ~(gw.subdomains /\ q.ns \in gw.paths) THEN HnError(404)
       ELSE IF CidDecodes(q.root)
       THEN IF ~label.ok THEN HnError(400)
            ELSE IF ~HostHasPrefix(q, label.t)
                 THEN HnMoved(q.ns, ToSubdomainURL(q.ns, label.t, q.https, gw.inline, up))
            ELSE IF IsPeerIDNamespace(q.ns) /\ q.root.codec # "key"
                 THEN HnMoved(q.ns, ToSubdomainURL(q.ns, q.root, q.https, gw.inline, up))
            ELSE HnServe(q.ns, q.root, TRUE)
       ELSE IF q.ns = "ipns" /\ q.root.base = "label" /\ IsDNSLinkName(ToDNSLinkFQDN(q.root), up)
       THEN HnServe("ipns", ToDNSLinkFQDN(q.root), TRUE)
       ELSE HnServe(q.ns, q.root, TRUE)

\* isKnownHostname and knownSubdomainDetails: the parts of the host are read
\* off already, and the gateway is looked up.
IsKnownHostname(q) == q.host \in DOMAIN Known /\ q.root = NoText
KnownSubdomainDetails(q) == q.host \in DOMAIN Known /\ q.root # NoText /\ IsSubdomainNamespace(q.ns)

\* The handler.  A host that is no known gateway is a DNSLink website, or the
\* path is served as it is.
HostnameOption(q, up) ==
    IF IsKnownHostname(q) THEN KnownHostname(q, up)
    ELSE IF KnownSubdomainDetails(q) THEN KnownSubdomain(q, up)
    ELSE IF ~NoDNSLink /\ q.host \in LinkIds /\ up THEN Website(q.host)
    ELSE HnServe(q.path.ns, q.path.root, FALSE)

\* What the gateway handler makes of it (childMux).  "slash": serveDirectory
\* redirects to the URL with a final /, in place of any Location.  "content": a
\* file, an index.html or a listing, of which a Location makes a 301.  "other":
\* a block, a CAR, a TAR, a converted node or an error, sent in spite of it.
HnAfter == {"slash", "content", "other"}
ServeHTTP(out, after) ==
    IF out.kind # "serve" THEN out
    ELSE IF after = "slash" THEN [kind |-> "slash"]
    ELSE IF after = "content" /\ out.moved # NoText THEN HnMoved(out.ns, Good(out.moved))
    ELSE out

-----------------------------------------------------------------------------

Roots(ns) == {t \in Texts : (t.id \in LinkIds => ns = "ipns") /\ (t.id \in LongKeys => ns = "ipns")}

\* First requests: a path on a gateway or a website, or a subdomain.
PathRequests(hosts) ==
    {HnRequest(h, "none", NoText, [ns |-> ns, root |-> t], s, f) :
        h \in hosts, ns \in {"ipfs", "ipns"}, t \in Texts, s \in BOOLEAN, f \in BOOLEAN}
HostRequests(hosts) ==
    {HnRequest(h, ns, t, NoPath, s, f) :
        h \in hosts, ns \in {"ipfs", "ipns"}, t \in Texts, s \in BOOLEAN, f \in BOOLEAN}

FirstRequests == PathRequests(DOMAIN Known \cup DOMAIN DefaultKnown \cup LinkIds) \cup HostRequests(DOMAIN Known)

HnAsked(q) == IF q.root # NoText THEN [ns |-> q.ns, root |-> q.root] ELSE q.path

Requested == {q \in FirstRequests : HnAsked(q).root \in Roots(HnAsked(q).ns)}

HnInit ==
    /\ hnFirst \in Requested
    /\ hnReq = hnFirst /\ hnSlash \in {"fine", "missing"}
    /\ hnHops = 0 /\ hnOut = [kind |-> "none"] /\ hnUp = TRUE

HnHandle(up, after) ==
    /\ hnOut.kind = "none"
    /\ after = "slash" => hnSlash = "missing"
    /\ hnOut' = ServeHTTP(HostnameOption(hnReq, up), after) /\ hnUp' = up
    /\ UNCHANGED <<hnReq, hnFirst, hnSlash, hnHops>>

\* The browser follows, through the same proxy.
HnFollow ==
    /\ hnOut.kind = "redirect" /\ hnHops < MaxHops
    /\ hnReq' = HnRequest(hnReq.host, hnOut.ns, hnOut.root, NoPath, hnReq.https, hnReq.fwd)
    /\ hnHops' = hnHops + 1 /\ hnOut' = [kind |-> "none"]
    /\ UNCHANGED <<hnFirst, hnSlash, hnUp>>

\* The same URL with its final slash; toSubdomainURL keeps it from then on.
HnFollowSlash ==
    /\ hnOut.kind = "slash" /\ hnHops < MaxHops
    /\ hnSlash' = "added"
    /\ hnHops' = hnHops + 1 /\ hnOut' = [kind |-> "none"]
    /\ UNCHANGED <<hnReq, hnFirst, hnUp>>

HnNext ==
    \/ \E up \in BOOLEAN, after \in HnAfter : HnHandle(up, after)
    \/ HnFollow \/ HnFollowSlash

-----------------------------------------------------------------------------
(* Properties.                                                             *)

HnTypeOK ==
    /\ hnReq.root \in Texts \cup {NoText} /\ hnHops \in 0..MaxHops
    /\ hnSlash \in {"fine", "missing", "added"}
    /\ hnOut.kind \in {"none", "serve", "redirect", "slash", "error"}
    /\ hnOut.kind \in {"serve", "redirect"} => hnOut.root \in Texts \cup {NoText}

\* One redirect brings a browser to the canonical host (toSubdomainURL and
\* toDNSLabel agree on it), when the host is in the Host header.  The directory
\* redirect of serveDirectory comes on top, once: it overwrites the Location of
\* the subdomain, which the next response sends again.
HnOneRedirect == hnHops > (IF hnSlash = "added" THEN 2 ELSE 1) => hnReq.fwd

\* However names are encoded and moved on the way, what is served is what was
\* asked for: the same identity in the same namespace, and a DNSLink name by its
\* real name unless a lookup failed (the label is then not found).
HnSameContent ==
    hnOut.kind = "serve" /\ hnFirst.host \notin LinkIds =>
        /\ hnOut.ns = HnAsked(hnFirst).ns /\ hnOut.root.id = HnAsked(hnFirst).root.id
        /\ hnOut.root.id \in CidIds /\ hnOut.ns = "ipns" /\ hnOut.own =>
               PeerDecodes(hnOut.root)
        /\ hnOut.root.id \in LinkIds /\ hnOut.own /\ hnUp => hnOut.root.base = "dns"

\* One redirect at most to a host, and to the same content (HostnameOption).
HnSound == HnTypeOK /\ HnOneRedirect /\ HnSameContent
=============================================================================
