------------------------------ MODULE Injection ------------------------------
(****************************************************************************)
(* The scripts that the proxy of the tunnel server inserts into the pages   *)
(* of a service: the stream that looks for the place (inject-transform.ts), *)
(* and the etags that keep caches apart from the page without them.         *)
(*                                                                          *)
(* One browser asks for one page, over and over.  The service behind the    *)
(* tunnel is external; its answers arrive in chunks, cut anywhere.          *)
(****************************************************************************)
EXTENDS Naturals, SequencesExt

CONSTANTS
  Script,        \* what a tunnel may inject
  NoScript,
  MaxPieces,     \* bound: pieces of a document
  MaxVersions    \* bound: versions of the page

VARIABLES
  version,       \* of the page
  validator,     \* what the service names versions by: etags, or dates only
  inject,        \* of the tunnel, for the path of the page
  cached,        \* the page in the cache of the browser
  resp           \* the request that is being answered

injectionVars == <<version, validator, inject, cached, resp>>

ASSUME InjectionAssumption == NoScript \notin Script /\ MaxPieces \in Nat

\* A tag is two pieces, of which the second lets the parser report it.
Tag == {<<"head-", "-head">>, <<"body-", "-body">>, <<"/html-", "-/html">>}

Piece == {"text", "head-", "-head", "body-", "-body", "/html-", "-/html"}

Documents ==
  {s \in SeqOf(Piece, MaxPieces) : \A i \in DOMAIN s :
     \/ s[i] = "text"
     \/ i < Len(s) /\ <<s[i], s[i + 1]>> \in Tag
     \/ i > 1 /\ <<s[i - 1], s[i]>> \in Tag}

NoPage == [version |-> 0, suffix |-> NoScript]

NoResponse == [at |-> "idle", script |-> NoScript, asks |-> NoPage, doc |-> <<>>,
               seen |-> 0, held |-> <<>>, injected |-> FALSE, out |-> <<>>]

InjectionInit ==
  /\ version = 1 /\ validator \in {"etag", "date"}
  /\ inject \in Script \cup {NoScript}
  /\ cached = NoPage
  /\ resp = NoResponse

-----------------------------------------------------------------------------
(* The transform *)

\* The pieces at which the parser calls back.
Reported == {"-head", "-body", "-/html"}

\* After the opening tag of the head, or before the other two.
offset(s, i) == IF s[i] = "-head" THEN i ELSE i - 2

stringToInject(piece) == IF piece = "-head" THEN <<"scripts">> ELSE <<"head-with-scripts">>

\* stringSoFar with the scripts at the place that was detected.
Inserted(s, i) ==
  SubSeq(s, 1, offset(s, i)) \o stringToInject(s[i]) \o SubSeq(s, offset(s, i) + 1, Len(s))

\* What the parser has reported of the chunk: its offsets count from the start.
Detected(r, chunk) ==
  {i \in (r.seen + 1) .. (r.seen + Len(chunk)) : r.doc[i] \in Reported}

\* Mutant of Transform: chunks are passed on until the place is found.
TransformPassing(r, chunk) ==
  LET found == Detected(r, chunk)
      s == SubSeq(r.doc, 1, r.seen + Len(chunk))
      cut == IF offset(s, Min(found)) < r.seen THEN r.seen ELSE offset(s, Min(found)) IN
  IF r.injected \/ found = {} THEN [r EXCEPT !.out = @ \o chunk]
  ELSE [r EXCEPT !.out = SubSeq(s, 1, cut) \o stringToInject(s[Min(found)])
                           \o SubSeq(s, cut + 1, Len(s)),
                 !.injected = TRUE]

\* _transform: everything is held back until the place is found.
Transform(r, chunk) ==
  LET found == Detected(r, chunk)
      stringSoFar == r.held \o chunk IN
  IF r.injected THEN [r EXCEPT !.out = @ \o chunk]
  ELSE IF found = {} THEN [r EXCEPT !.held = stringSoFar]
  ELSE [r EXCEPT !.out = @ \o Inserted(stringSoFar, Min(found)),
                 !.held = <<>>, !.injected = TRUE]

\* _final: a document without any of the places gets a head at its end.
Final(r) ==
  [r EXCEPT !.out = @ \o r.held \o IF r.injected THEN <<>> ELSE <<"head-with-scripts">>,
            !.held = <<>>]

-----------------------------------------------------------------------------
(* Requests and answers *)

At(stages) == resp.at \in stages

Ended == {"idle", "done", "revalidated", "cut", "crashed"}

Environs == UNCHANGED <<version, validator, inject>>

\* A handler finds the tunnel, and with it the scripts of the request; the
\* browser sends along what its cache knows of the page.
Asks ==
  /\ At(Ended)
  /\ resp' = [NoResponse EXCEPT !.at = "asked", !.script = inject, !.asks = cached]
  /\ UNCHANGED cached /\ Environs

\* Mutant of removeIncomingEtagSuffix: any suffix is removed.
removeAnySuffix(etag, script) == [etag EXCEPT !.suffix = NoScript]

\* Only the suffix of the scripts of this request.
removeIncomingEtagSuffix(etag, script) ==
  IF script # NoScript /\ etag.suffix = script THEN [etag EXCEPT !.suffix = NoScript]
  ELSE etag

\* The service knows the version that the request names.
Unmodified ==
  IF validator = "date" THEN resp.asks.version = version
  ELSE removeIncomingEtagSuffix(resp.asks, resp.script)
         = [version |-> version, suffix |-> NoScript]

\* 304: there is no content, hence no content type, and nothing to inject.
NotModified ==
  /\ At({"asked"})
  /\ Unmodified
  /\ resp' = [resp EXCEPT !.at = "revalidated"]
  /\ UNCHANGED cached /\ Environs

addOutgoingEtagSuffix(script) == [version |-> version, suffix |-> script]

\* proxyWithInjection, for HTML in a coding and a charset that it knows.
\* The page has got its version when its headers are written.
Injects ==
  /\ At({"asked"})
  /\ ~Unmodified
  /\ resp.script # NoScript
  /\ \E doc \in Documents :
       resp' = [resp EXCEPT !.at = "streams", !.doc = doc,
                            !.asks = addOutgoingEtagSuffix(resp.script)]
  /\ UNCHANGED cached /\ Environs

\* A content type that does not parse throws.  In any other coding or charset
\* proxyWithInjection does, its headers written; then so does proxyWithoutInjection,
\* which writes them again.  And a body that is not of its coding is an error of
\* the stream that decodes it.  Nobody catches or listens for any of these.
Crashes ==
  /\ (At({"asked"}) /\ ~Unmodified) \/ At({"streams"})
  /\ resp.script # NoScript
  /\ resp' = [resp EXCEPT !.at = "crashed"]
  /\ UNCHANGED cached /\ Environs

\* proxyWithoutInjection passes on what it gets: no scripts for the path, or
\* no HTML.  How it is cut makes no difference.
Passes ==
  /\ At({"asked"})
  /\ ~Unmodified
  /\ resp' = [resp EXCEPT !.at = "passes",
                          !.asks = [version |-> version, suffix |-> NoScript]]
  /\ UNCHANGED cached /\ Environs

Chunk ==
  /\ At({"streams"})
  /\ \E n \in (resp.seen + 1) .. Len(resp.doc) :
       resp' = [Transform(resp, SubSeq(resp.doc, resp.seen + 1, n)) EXCEPT !.seen = n]
  /\ UNCHANGED cached /\ Environs

\* The browser keeps the page, under the etag it came with.
End ==
  /\ \/ At({"streams"}) /\ resp.seen = Len(resp.doc)
        /\ resp' = [Final(resp) EXCEPT !.at = "done"]
     \/ At({"passes"}) /\ resp' = [resp EXCEPT !.at = "done"]
  /\ cached' = resp.asks
  /\ Environs

\* The service is gone before the end of its answer.  A pipe ends what it
\* writes to when its source ends, and not when that closes: the browser waits.
Cut ==
  /\ At({"streams", "passes"})
  /\ resp' = [NoResponse EXCEPT !.at = "cut"]
  /\ UNCHANGED cached /\ Environs

PageChanges ==
  /\ version < MaxVersions
  /\ version' = version + 1
  /\ UNCHANGED <<validator, inject, cached, resp>>

\* The agent replaces the tunnel by one with other scripts.
ScriptsChange ==
  /\ \E s \in Script \cup {NoScript} : s # inject /\ inject' = s
  /\ UNCHANGED <<version, validator, cached, resp>>

InjectionNext ==
  \/ Asks \/ NotModified \/ Injects \/ Crashes \/ Passes
  \/ Chunk \/ End \/ Cut
  \/ PageChanges \/ ScriptsChange

-----------------------------------------------------------------------------
(* Properties *)

\* The document as it should be: one head element gets the scripts, the first
\* thing in it, or one is added where it would have been.
Injected(doc) ==
  LET places == {i \in DOMAIN doc : doc[i] \in Reported} IN
  IF places = {} THEN Append(doc, "head-with-scripts") ELSE Inserted(doc, Min(places))

\* However an answer is cut into chunks, a tag in two included, the browser gets
\* all of the document, in its order, with the scripts in it once, and where they
\* would be if it had come as a whole (_transform, _final).
InjectedAlike ==
  resp.at = "done" /\ resp.asks.suffix # NoScript => resp.out = Injected(resp.doc)

\* A page that the browser takes out of its cache has the scripts that are
\* injected at the time of the request, or none: pages of other scripts are never
\* revalidated (removeIncomingEtagSuffix), but for those of services that name
\* versions by dates only, which the proxy passes on as they are.
CachedFresh ==
  resp.at = "revalidated" /\ validator = "etag" =>
    cached.suffix \in {resp.script, NoScript}
=============================================================================
