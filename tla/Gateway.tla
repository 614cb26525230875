------------------------------ MODULE Gateway -------------------------------
(***************************************************************************)
(* The HTTP gateway (core/corehttp/gateway_handler*.go): a GET request from *)
(* the resolution of its path to the response and its cache headers, the   *)
(* _redirects rules, and the requests of a writable gateway.               *)
(*                                                                         *)
(* A path is resolved more than once while it is served, and under /ipns/  *)
(* the name can be published anew in between.  The client keeps what it    *)
(* got and asks again with If-None-Match.  Resolution can also fail for a  *)
(* while (the network, a timeout) although the path exists.                *)
(*                                                                         *)
(* Content is addressed by itself: the CID of a node is its content.  A    *)
(* site is a directory with a file f, a DAG-JSON node j, a subdirectory d  *)
(* with or without an index.html, and perhaps a _redirects file.           *)
(***************************************************************************)
EXTENDS Integers, FiniteSets

CONSTANTS
    Sites,        \* records [f, idx, rule]: content of f, index of d or "none",
                  \* kind of the _redirects rule that matches every path
    GwFormats,    \* formats asked for, "plain" for none and "html" for none with an
                  \* Accept header that has text/html
    GwContents,   \* contents a PUT can bring
    MaxPublish    \* changes of the name and of a site (a bound)

ASSUME GatewayAssumption ==
    /\ IsFiniteSet(Sites) /\ Sites # {} /\ MaxPublish \in Nat
    /\ GwFormats # {} /\ GwFormats \subseteq {"plain", "html", "json", "dag-json", "raw", "car", "tar"}
    /\ \A s \in Sites : s.rule \in {"none", "rewrite", "notFound", "redirect"}

VARIABLES
    gwName,     \* the site the IPNS name points to
    gwReq,      \* the request being served
    gwCache,    \* what the client keeps from its last complete response
    gwPuts,     \* the site a PUT or DELETE has made
    gwCount     \* publications so far

gwVars == <<gwName, gwReq, gwCache, gwPuts, gwCount>>

GwPaths == {"f", "j", "d", "missing"}

\* A request: namespace and, under /ipfs/, the root; path, and the format asked
\* for by ?format or Accept (customResponseFormat).
Requests == [ns : {"ipfs", "ipns"}, root : Sites \cup {gwPuts}, path : GwPaths, fmt : GwFormats]
Default(q) == q.fmt \in {"plain", "html"}
AsUnixFS(q) == Default(q) \/ q.fmt = "json"
NameRoot == CHOOSE s \in Sites : TRUE

NoReq == [pc |-> "idle"]
NoCache == [pc |-> "none"]

\* The node at a path of a site.
Node(s, p) == IF p = "f" THEN <<"file", s.f>>
              ELSE IF p = "j" THEN <<"dag-json", "j">>
              ELSE IF p = "d" THEN <<"dir", s.idx>>
              ELSE <<"file", s.idx>>    \* "index", the index.html of d
Exists(s, p) == p # "missing" /\ (p = "f" => s.f # "none") /\ (p = "index" => s.idx # "none")

\* The site a request is about, now.
Site(q) == IF q.ns = "ipfs" THEN q.root ELSE gwName

\* getEtag, getDirListingEtag and getDagIndexEtag.  Weak comparison ignores
\* the W/ of car and tar responses.
CidEtag(q, node) == <<"cid", node, IF Default(q) THEN "none" ELSE q.fmt>>
DirEtag(node) == <<"DirIndex", node, "none">>
DagEtag(node) == <<"DagIndex", node, "none">>

GwInit ==
    /\ gwName = NameRoot
    /\ gwReq = NoReq /\ gwCache = NoCache
    /\ gwPuts = gwName /\ gwCount = 0

\* Mutant: names are taken for immutable too.
Immutable_Always(q) == TRUE

\* addCacheControlHeaders: immutable unless the path is under /ipns/.
Immutable(q) == q.ns = "ipfs"

\* What complete responses look like: status, Etag, body, cache control.
\* torn and failed are history.  torn: the name changed under the request, or
\* the answer is an error or a body that broke off under the Etag of its node.
\* failed: a resolution failed though the path exists, or such an error.
Answer(q, status, etag, body, forever) ==
    [gwReq EXCEPT !.pc = "done", !.status = status, !.etag = etag, !.body = body, !.forever = forever]
GwError(q, status) == Answer(q, status, <<"none">>, <<"error">>, FALSE)

\* webError and http.Error after addCacheControlHeaders: Etag and Cache-Control
\* stay as they were set for the content.
Broken(q, etag, forever) ==
    [Answer(q, 500, etag, <<"error">>, forever) EXCEPT !.torn = TRUE, !.failed = TRUE]

Started(q) ==
    [pc |-> "resolve", q |-> q, site |-> Site(q), path |-> q.path, node |-> <<"none">>,
     status |-> 0, etag |-> <<"none">>, body |-> <<"none">>, forever |-> FALSE,
     torn |-> FALSE, failed |-> FALSE]

\* A GET or HEAD request comes in (ServeHTTP) and passes the checks.
GetOrHead(q) ==
    /\ gwReq = NoReq
    /\ gwReq' = Started(q)
    /\ UNCHANGED <<gwName, gwCache, gwPuts, gwCount>>

\* The checks before the path is resolved: an unsupported header, a service
\* worker for a whole namespace, a superfluous namespace (400), ?uri (301), and
\* only-if-cached for what is not (412) or, by HEAD, is local (200).
\* The rest of the request does not matter then.
EarlyAnswer(status) ==
    /\ gwReq = NoReq
    /\ gwReq' = [Started(CHOOSE q \in Requests : q.path = "f") EXCEPT !.pc = "done", !.status = status]
    /\ UNCHANGED <<gwName, gwCache, gwPuts, gwCount>>

\* If-None-Match carries the Etag of what the client keeps for the request.
GwInm(q) == IF gwCache # NoCache /\ gwCache.q = q THEN gwCache.etag ELSE <<"none">>

\* Mutant: any Etag of the client matches.
EtagMatch_Any(q, node) == GwInm(q) # <<"none">>

\* etagMatch in getOrHeadHandler, before any content is read.
EtagMatch(q, node) == GwInm(q) \in {CidEtag(q, node), DirEtag(node)}

\* handlePathResolution.  Every failure but "offline" is taken for a missing
\* path: with origin isolation and the default format the rules apply.
PathResolution(outcome) ==
    /\ gwReq.pc = "resolve"
    /\ LET q == gwReq.q
           s == Site(q)
       IN gwReq' =
            IF outcome = "ok" /\ Exists(s, q.path)
            THEN [gwReq EXCEPT !.pc = "etag", !.site = s, !.node = Node(s, q.path)]
            ELSE IF outcome = "offline" THEN GwError(q, 503)
            ELSE IF Default(q) THEN [gwReq EXCEPT !.pc = "redirects", !.site = s, !.failed = Exists(s, q.path)]
            ELSE GwError(q, 404)
    /\ UNCHANGED <<gwName, gwCache, gwPuts, gwCount>>

\* serveLegacy404IfPresent: the nearest ipfs-404.html up the tree, for a client
\* that accepts HTML, with neither Etag nor cache headers.
Legacy404(q) == IF q.fmt = "html" THEN Answer(q, 404, <<"none">>, <<"404.html">>, FALSE) ELSE GwError(q, 404)

\* The rules are read from the root of the content path, resolved once more; a
\* failure of that counts as no rules, and so does a request without origin
\* isolation.  The rule that matches ends the request with a redirect or names
\* the target of a rewrite or of serve4xx (handleRedirectsFileRules).
Redirects(outcome) ==
    /\ gwReq.pc = "redirects"
    /\ LET q == gwReq.q
           rule == Site(q).rule
       IN gwReq' = IF outcome = "ok" /\ rule \in {"rewrite", "notFound"} THEN [gwReq EXCEPT !.pc = rule]
                   ELSE IF outcome = "ok" /\ rule = "redirect" THEN Answer(q, 301, <<"none">>, <<"redirect">>, FALSE)
                   ELSE IF outcome = "legacy" THEN Legacy404(q)
                   ELSE IF outcome = "failed" THEN GwError(q, 500)
                   ELSE GwError(q, 404)    \* "norules", or none that matches
    /\ UNCHANGED <<gwName, gwCache, gwPuts, gwCount>>

\* The target, here the file f, is resolved under the same content path, so in
\* the site of now: a rewrite goes on with it, serve4xx sends it with the cache
\* headers of a file, and a failure of either is an error.
RedirectTarget(ok) ==
    /\ gwReq.pc \in {"rewrite", "notFound"}
    /\ LET q == gwReq.q
           s == Site(q)
           page == Node(s, "f")
       IN gwReq' = IF ~ok \/ ~Exists(s, "f") THEN GwError(q, 500)
                   ELSE IF gwReq.pc = "rewrite"
                   THEN [gwReq EXCEPT !.pc = "etag", !.site = s, !.path = "f", !.node = page]
                   ELSE Answer(q, 404, CidEtag(q, page), <<"block", page>>, Immutable(q))
    /\ UNCHANGED <<gwName, gwCache, gwPuts, gwCount>>

\* The early 304.
NotModified ==
    /\ gwReq.pc = "etag"
    /\ gwReq' = IF EtagMatch(gwReq.q, gwReq.node)
                THEN [Answer(gwReq.q, 304, GwInm(gwReq.q), gwCache.body, FALSE)
                         EXCEPT !.torn = gwCache.torn \/ gwCache.status # 200]
                ELSE [gwReq EXCEPT !.pc = "block"]
    /\ UNCHANGED <<gwName, gwCache, gwPuts, gwCount>>

\* handleGettingFirstBlock and setCommonHeaders, which resolves every prefix
\* of the path once more for X-Ipfs-Roots.
FirstBlock(ok) ==
    /\ gwReq.pc = "block"
    /\ gwReq' = IF ok THEN [gwReq EXCEPT !.pc = "serve"] ELSE GwError(gwReq.q, 500)
    /\ UNCHANGED <<gwName, gwCache, gwPuts, gwCount>>

IsCodec(node) == node[1] = "dag-json"

\* What the answer comes to, in each case below where the code has it:
\* "early", an error before any cache header; "fails", one after them; "cut", a
\* stream that breaks off; "slash", a URL without the final / of a directory;
\* "moved", a Location that HostnameOption has set before.
GwOutcomes == {"ok", "early", "fails", "cut", "slash", "moved"}

\* serveCodec: HTML for a browser that names no format, the block as it is, or
\* a conversion.  The headers are set before the block is read or converted.
ServeCodec(q, node, outcome) ==
    IF outcome = "early" THEN GwError(q, 500)
    ELSE IF q.fmt = "html"
    THEN IF outcome = "fails" THEN Broken(q, DagEtag(node), FALSE)
         ELSE Answer(q, 200, DagEtag(node), <<"html", node>>, FALSE)
    ELSE IF outcome = "fails" THEN Broken(q, CidEtag(q, node), Immutable(q))
    ELSE Answer(q, 200, CidEtag(q, node), <<IF AsUnixFS(q) THEN "block" ELSE "converted", node>>, Immutable(q))

\* serveFile: the content of a file, under the path and the Etag of the node
\* that was resolved (its directory, for an index.html).  Its size and its type
\* are read after the headers are set.  statusResponseWriter makes a 301 of the
\* 200 when there is a Location.
ServeFile(q, node, file, outcome) ==
    IF outcome = "fails" THEN Broken(q, CidEtag(q, node), Immutable(q))
    ELSE Answer(q, IF outcome = "moved" THEN 301 ELSE 200, CidEtag(q, node), <<"block", file>>, Immutable(q))

\* serveRawBlock reads the block before it sets headers.
ServeRawBlock(q, node, outcome) ==
    IF outcome = "early" THEN GwError(q, 500)
    ELSE Answer(q, 200, CidEtag(q, node), <<"raw", node>>, Immutable(q))

\* serveCAR and serveTAR.  A stream that breaks off has sent its headers
\* already, and only a trailer or its end tells.  serveCAR refuses a version,
\* serveTAR what is not UnixFS or cannot be read; its writer can fail late.
ServeStream(q, node, outcome) ==
    IF outcome = "early" THEN GwError(q, 400)
    ELSE LET cut == outcome = "cut"
         IN [Answer(q, 200, CidEtag(q, node), IF cut THEN <<"cut", node>> ELSE <<q.fmt, node>>, Immutable(q))
                EXCEPT !.torn = cut, !.failed = @ \/ cut]
ServeCAR(q, node, outcome) == ServeStream(q, node, outcome)
ServeTAR(q, node, outcome) ==
    IF outcome = "fails" /\ ~IsCodec(node) THEN Broken(q, CidEtag(q, node), Immutable(q))
    ELSE ServeStream(q, node, IF IsCodec(node) THEN "early" ELSE outcome)

\* A listing has no cache headers but its Etag, which is set before the links
\* are read.
ServeListing(q, node, outcome) ==
    IF outcome = "moved" THEN Answer(q, 301, <<"none">>, <<"redirect">>, FALSE)
    ELSE IF outcome = "fails" THEN Broken(q, DirEtag(node), FALSE)
    ELSE Answer(q, 200, DirEtag(node), <<"listing", node>>, FALSE)

\* serveDirectory: index.html is looked up under the content path, so in the
\* site of now, and sent with the Etag of the directory that was resolved
\* before; without one a listing of that directory is made.  A URL that does not
\* end in a slash is redirected to one that does.
ServeDirectory(q, node, outcome) ==
    LET s == Site(q)
    IN IF outcome = "slash" THEN Answer(q, 301, <<"none">>, <<"redirect">>, FALSE)
       ELSE IF outcome = "early" THEN GwError(q, 500)
       ELSE LET answer == IF Exists(s, "index") THEN ServeFile(q, node, Node(s, "index"), outcome)
                          ELSE ServeListing(q, node, outcome)
            IN [answer EXCEPT !.torn = @ \/ Node(s, gwReq.path) # node]

\* serveUnixFS.
ServeUnixFS(q, node, outcome) ==
    IF node[1] = "file" THEN ServeFile(q, node, node, outcome) ELSE ServeDirectory(q, node, outcome)

\* getOrHeadHandler's choice by format.
GwServe(outcome) ==
    /\ gwReq.pc = "serve"
    /\ LET q == gwReq.q
           node == gwReq.node
       IN gwReq' = IF q.fmt = "dag-json" \/ (AsUnixFS(q) /\ IsCodec(node)) THEN ServeCodec(q, node, outcome)
                   ELSE IF AsUnixFS(q) THEN ServeUnixFS(q, node, outcome)
                   ELSE IF q.fmt = "raw" THEN ServeRawBlock(q, node, outcome)
                   ELSE IF q.fmt = "car" THEN ServeCAR(q, node, outcome)
                   ELSE ServeTAR(q, node, outcome)
    /\ UNCHANGED <<gwName, gwCache, gwPuts, gwCount>>

\* The client keeps a response that has an Etag, whatever its status: one with
\* "Cache-Control: public, max-age=29030400, immutable" may be kept.
GwReceive ==
    /\ gwReq.pc = "done"
    /\ gwReq' = NoReq
    /\ gwCache' = IF gwReq.status # 304 /\ gwReq.etag # <<"none">> THEN gwReq ELSE gwCache
    /\ UNCHANGED <<gwName, gwPuts, gwCount>>

\* The owner of the name publishes.
GwPublish(s) ==
    /\ gwCount < MaxPublish /\ s # gwName
    /\ gwName' = s /\ gwCount' = gwCount + 1
    /\ UNCHANGED <<gwReq, gwCache, gwPuts>>

-----------------------------------------------------------------------------
(* A writable gateway: the path in the URL is below a root, and a new root *)
(* is the answer.                                                          *)

\* putHandler: directories are made as needed, an existing file is replaced;
\* deleteHandler (c = "none") does not mind a missing file.  The empty path is
\* refused.
PutHandler(s, path, c) ==
    IF path = "f" THEN {[s EXCEPT !.f = c]}
    ELSE IF path = "index" THEN {[s EXCEPT !.idx = c]}
    ELSE {}

\* POST adds content without a root; OPTIONS and everything else change nothing.
GwPut(path, c) ==
    /\ gwCount < MaxPublish /\ gwCount' = gwCount + 1
    /\ gwPuts' \in PutHandler(gwPuts, path, c)
    /\ UNCHANGED <<gwName, gwReq, gwCache>>

GwNext ==
    \/ \E q \in Requests : (q.ns = "ipns" => q.root = NameRoot) /\ GetOrHead(q)
    \/ \E status \in {200, 301, 400, 412} : EarlyAnswer(status)
    \/ \E outcome \in {"ok", "offline", "failed"} : PathResolution(outcome)
    \/ \E ok \in BOOLEAN : FirstBlock(ok) \/ RedirectTarget(ok)
    \/ \E outcome \in GwOutcomes : GwServe(outcome)
    \/ \E outcome \in {"ok", "norules", "legacy", "failed"} : Redirects(outcome)
    \/ NotModified \/ GwReceive
    \/ \E s \in Sites : GwPublish(s)
    \/ \E path \in {"f", "index", "none"}, c \in GwContents \cup {"none"} : GwPut(path, c)

-----------------------------------------------------------------------------
(* Properties.                                                             *)

\* The response that a request for a node calls for, all blocks at hand.
Due(q, n) ==
    IF n[1] = "dag-json" /\ q.fmt = "html" THEN <<"html", n>>
    ELSE IF AsUnixFS(q) /\ n[1] \in {"file", "dag-json"} THEN <<"block", n>>
    ELSE IF AsUnixFS(q) /\ n[2] # "none" THEN <<"block", <<"file", n[2]>>>>
    ELSE IF AsUnixFS(q) THEN <<"listing", n>>
    ELSE IF q.fmt = "dag-json" THEN <<"converted", n>>
    ELSE <<q.fmt, n>>

GwTypeOK ==
    /\ gwName \in Sites
    /\ gwReq.pc \in {"idle", "resolve", "etag", "redirects", "rewrite", "notFound", "block", "serve", "done"}
    /\ gwReq # NoReq => /\ gwReq.q.path \in GwPaths /\ gwReq.q.fmt \in GwFormats
                        /\ gwReq.pc \in {"block", "serve"} => gwReq.node[1] \in {"file", "dir", "dag-json"}
                        /\ gwReq.pc = "done" => gwReq.status \in {200, 301, 304, 400, 404, 412, 500, 503}
    /\ gwCache # NoCache => gwCache.pc = "done" /\ gwCache.etag # <<"none">>
    /\ gwCount \in 0..MaxPublish

\* "304 Not Modified" tells the truth: what the client keeps for the request is
\* what it would be sent now, even when the name has changed since (etagMatch,
\* getEtag, serveDirectory) - except for an index.html, or a listing in place
\* of one, that was sent with the Etag of another version of its directory, the
\* name having changed while it was served; and for an error, a redirect or a
\* broken stream, which the code sends with the Etag of the content.
GwNotModified ==
    gwReq.pc = "done" /\ gwReq.status = 304 /\ ~gwReq.torn =>
        gwReq.body = Due(gwReq.q, Node(gwReq.site, gwReq.path))

\* What may be kept for ever is what the path will always give
\* (addCacheControlHeaders), unless a resolution failed for a while and a
\* _redirects rule answered in its place, a CAR or TAR stream broke off, or the
\* answer became an error after its headers were set (serveFile, serveCodec,
\* serveTAR): that error is sent as immutable too.
GwImmutable ==
    LET q == gwCache.q
    IN gwCache # NoCache /\ gwCache.forever /\ ~gwCache.failed /\ Exists(Site(q), q.path) =>
          gwCache.body = Due(q, Node(Site(q), q.path))

\* What a client may keep is what it would be sent (etagMatch,
\* addCacheControlHeaders).
GwSound == GwTypeOK /\ GwNotModified /\ GwImmutable
=============================================================================
