------------------------------- MODULE Paging -------------------------------
(***************************************************************************)
(* From a shelter's configuration to the keys of its dogs: registry.py     *)
(* picks the parser and the URL, petrescue.py prepares the URL and follows *)
(* the results pages, and dedup.py turns each listing's URL into its key.  *)
(*                                                                         *)
(* The pipeline that calls them in this order is not in the repository:    *)
(* the contract at the head of parsers/base.py is followed. The site that  *)
(* answers is external. A URL is what these functions look at: its netloc, *)
(* a sequence of tokens with the dots among them and a port or not, the    *)
(* path with the slashes it ends in, the fragment, and for each parameter  *)
(* the values it is given, in their order. The scheme is left out.         *)
(*                                                                         *)
(* A run of the pipeline goes over the shelters; the dogs it stored before *)
(* are rechecked in later runs, by whatever is registered then: an entry   *)
(* is removed when its site blocks the pipeline, and may come back.        *)
(***************************************************************************)
EXTENDS Naturals, FiniteSets, SequencesExt

CONSTANTS
    Registries,  \* values of _REGISTRY: sequences of a host, a parser and its SOURCE_KIND
    Base,        \* BASE_URL's host
    PageSize,    \* SEARCH_PER_PAGE
    SearchPaths, \* the paths that contain /listings/search
    Shelters,    \* configurations: a listing URL and a cross-post, or NoUrl
    Spellings,   \* the URLs by which each dog of a site is listed
    Sites,       \* the hosts that are each parser's site in truth
    Sizes,       \* page sizes a site's own links ask for
    Tokens,      \* of a netloc, the dot among them
    Params,      \* names of parameters
    MaxPages     \* bound: pages of a search

Host == Seq(Tokens)

Url == [host : Host, capitals : BOOLEAN, port : Host, path : STRING,
        slashes : Nat, query : [Params -> Seq(Nat)], fragment : STRING]

NoUrl == [host |-> <<>>, capitals |-> FALSE, port |-> <<>>, path |-> "", slashes |-> 0,
          query |-> [k \in Params |-> <<>>], fragment |-> ""]

Entry == [host : Host, parser : STRING, kind : STRING]

NoParser == [host |-> <<>>, parser |-> "none", kind |-> "browser"]

Dogs == DOMAIN Spellings

Configured == UNION {{s.listing, s.crosspost} : s \in Shelters}

\* Two URLs differ in nothing but the case of the host and closing slashes.
SamePage(u, v) ==
    /\ <<u.host, u.port, u.path>> = <<v.host, v.port, v.path>>
    /\ <<u.query, u.fragment>> = <<v.query, v.fragment>>

Under(host, domain) == host = domain \/ IsSuffix(<<".">> \o domain, host)

ASSUME UrlAssumption ==
    /\ {"page", "per_page"} \subseteq Params
    /\ "." \in Tokens
    /\ Base \in Host
    /\ PageSize \in Nat /\ Sizes \subseteq Nat /\ MaxPages \in Nat
    /\ Shelters \subseteq [listing : Url, crosspost : Url]
    /\ \A d \in Dogs : Spellings[d] \subseteq Url

\* The contract the tests hold a registry to: each entry has a kind of its own, and
\* "browser" is nobody's. What is registered is the name of a host, without a port.
\* SOURCE_KIND is a constant of the parser's module, whichever registry that is in.
ASSUME RegistryAssumption ==
    /\ \A r \in Registries :
        /\ r \in Seq(Entry)
        /\ \A i, j \in DOMAIN r : r[i].kind = r[j].kind => i = j
        /\ \A i \in DOMAIN r :
              /\ r[i].host # <<>>
              /\ r[i].kind # NoParser.kind /\ r[i].parser # NoParser.parser
              /\ \A u \in Configured : Range(u.port) \cap Range(r[i].host) = {}
    /\ \A r, q \in Registries : \A i \in DOMAIN r, j \in DOMAIN q :
          r[i].kind = q[j].kind <=> r[i].parser = q[j].parser

\* Whoever holds a domain holds what is under it, and a parser is registered for the
\* whole of its site; BASE_URL is PetRescue's.
ASSUME SiteAssumption ==
    /\ Base \in Sites["petrescue"]
    /\ \A r \in Registries : \A i \in DOMAIN r :
          \A u \in Configured : Under(u.host, r[i].host) <=> u.host \in Sites[r[i].parser]

\* A page may list several dogs, each under a fragment of its own, and a site may
\* spell the URL of one in several ways.
ASSUME SpellingAssumption ==
    \A d, e \in Dogs : \A u \in Spellings[d], v \in Spellings[e] :
        d = e <=> SamePage(u, v)

VARIABLES
    registry,  \* _REGISTRY, as the run at hand has imported it
    shelter,   \* the configuration at hand
    parser,    \* what resolve found for it
    pages,     \* the results pages fetched
    keys,      \* of the listings found, each with its dog, the source_kind stored with
               \* it, and (history) the parser that found it
    at

vars == <<registry, shelter, parser, pages, keys, at>>

-----------------------------------------------------------------------------
(* dedup.canonical                                                         *)

\* Mutant: the fragment is dropped.
CanonicalPage(u) == [u EXCEPT !.capitals = FALSE, !.slashes = IF u.path = "" THEN 1 ELSE 0,
                              !.fragment = ""]

\* Host case and trailing slashes go, an empty path is "/", the fragment stays.
Canonical(u) == [u EXCEPT !.capitals = FALSE, !.slashes = IF u.path = "" THEN 1 ELSE 0]

-----------------------------------------------------------------------------
(* registry.resolve and by_source_kind                                     *)

Netloc(u) == u.host \o u.port

\* Mutant: a raw suffix of the netloc is enough.
HostMatchesRaw(u, host) == IsSuffix(host, Netloc(u))

HostMatches(u, host) == Netloc(u) = host \/ IsSuffix(<<".">> \o host, Netloc(u))

Candidates(s) == <<s.listing, s.crosspost>>

\* The entries of the registry, each with a candidate it matches.
Matching(s) ==
    {m \in (DOMAIN registry) \X {1, 2} :
        Candidates(s)[m[2]] # NoUrl /\ HostMatches(Candidates(s)[m[2]], registry[m[1]].host)}

Before(m, n) == m[1] < n[1] \/ (m[1] = n[1] /\ m[2] <= n[2])

FirstMatch(s) == {m \in Matching(s) : \A n \in Matching(s) : Before(m, n)}

\* Mutant: the first parser is the default.
BySourceKindFirst(kind) == registry[1]

BySourceKind(kind) ==
    LET known == {k \in DOMAIN registry : registry[k].kind = kind} IN
    IF known = {} THEN NoParser ELSE registry[CHOOSE k \in known : \A j \in known : k <= j]

-----------------------------------------------------------------------------
(* petrescue.prepare_url and next_page_url                                 *)

\* Mutant: the parameters go through a dictionary.
WithParamOnce(u, key, value) ==
    [u EXCEPT !.query = [k \in Params |-> IF k = key THEN <<value>>
                                          ELSE SubSeq(@[k], Len(@[k]), Len(@[k]))]]

\* The parameter replaces every one of its name; the others stay as they are.
WithParam(u, key, value) == [u EXCEPT !.query[key] = <<value>>]

Search(u) == u.path \in SearchPaths

Prepared(u) == IF Search(u) THEN WithParam(u, "per_page", PageSize) ELSE u

\* A link that begins with a slash is of BASE_URL.
NextPage(link) ==
    WithParam(IF link.host = <<>> THEN [link EXCEPT !.host = Base] ELSE link, "per_page", PageSize)

-----------------------------------------------------------------------------
(* Runs of the pipeline over the shelters                                  *)

Resolve ==
    /\ at = "start"
    /\ \E m \in FirstMatch(shelter) :
          LET entry == registry[m[1]]  url == Candidates(shelter)[m[2]] IN
          /\ parser' = entry
          /\ pages' = <<IF entry.parser = "petrescue" THEN Prepared(url) ELSE url>>
    /\ at' = "paging"
    /\ UNCHANGED <<registry, shelter, keys>>

\* None: the shelter needs a browser.
Unsupported ==
    /\ at = "start"
    /\ Matching(shelter) = {}
    /\ at' = "browser"
    /\ UNCHANGED <<registry, shelter, parser, pages, keys>>

Link(u, host, size) ==
    [u EXCEPT !.host = host, !.capitals = FALSE, !.port = <<>>,
              !.query = [@ EXCEPT !["page"] = <<Len(pages) + 1>>, !["per_page"] = size]]

\* What a search page links to: the next page of the same search, at a size of
\* the site's choice, by a path or in full.
Links(u) == {Link(u, h, size) : h \in {<<>>, Base}, size \in {<<>>} \cup {<<n>> : n \in Sizes}}

Follow ==
    /\ at = "paging" /\ parser.parser = "petrescue"
    /\ Search(Last(pages)) /\ Len(pages) < MaxPages
    /\ \E link \in Links(Last(pages)) : pages' = Append(pages, NextPage(link))
    /\ UNCHANGED <<registry, shelter, parser, keys, at>>

\* No rel=next anchor, or one without an href: the last page.
LastPage ==
    /\ at = "paging"
    /\ at' = "done"
    /\ UNCHANGED <<registry, shelter, parser, pages, keys>>

\* A dog is stored with the SOURCE_KIND of the parser that found it on its site, or as
\* found by the browser.
Collect ==
    /\ at \in {"paging", "browser"}
    /\ \E d \in Dogs : \E u \in Spellings[d] :
          /\ at = "paging" => u.host \in Sites[parser.parser]
          /\ keys' = keys \cup {[dog |-> d, key |-> Canonical(u),
                                kind |-> parser.kind, finder |-> parser.parser]}
    /\ UNCHANGED <<registry, shelter, parser, pages, at>>

\* The next shelter, or a later run, whose registry may be another.
GoOn ==
    /\ at \in {"done", "browser"}
    /\ registry' \in Registries
    /\ shelter' \in Shelters
    /\ parser' = NoParser
    /\ pages' = <<>>
    /\ at' = "start"
    /\ UNCHANGED keys

-----------------------------------------------------------------------------
Init ==
    /\ registry \in Registries
    /\ shelter \in Shelters
    /\ parser = NoParser
    /\ pages = <<>>
    /\ keys = {}
    /\ at = "start"

Next == Resolve \/ Unsupported \/ Follow \/ LastPage \/ Collect \/ GoOn

Spec == Init /\ [][Next]_vars

-----------------------------------------------------------------------------
(* Properties                                                              *)

\* A dog is one entry whichever way its URL is spelled, and dogs that share a
\* page keep an entry each (dedup.py:16).
OneEntryPerDog == \A k, j \in keys : k.dog = j.dog <=> k.key = j.key

\* A parser is given pages of its own site only, never of a lookalike domain
\* (registry.py:34).
PagesAreOfTheSite ==
    \A k \in DOMAIN pages : pages[k].host \in Sites[parser.parser]

\* A shelter goes to the browser only when none of its URLs, cross-post included, is of a
\* site that a registered parser reads (registry.py:6); a URL with a port is no match.
BrowserIsLastResort ==
    at = "browser" =>
        \A u \in {shelter.listing, shelter.crosspost} :
            u.port = <<>> => \A i \in DOMAIN registry : u.host \notin Sites[registry[i].parser]

\* A registered parser gets the shelters of its site, and pages of no other.
ParsesItsOwnSite == PagesAreOfTheSite /\ BrowserIsLastResort

Filters(u) == [k \in Params \ {"page", "per_page"} |-> u.query[k]]

\* Every page of a search asks for the large page size once, whatever the
\* configured URL and the site's own links say (petrescue.py:202).
PageSizePersists ==
    \A k \in DOMAIN pages :
        parser.parser = "petrescue" /\ Search(pages[k])
            => pages[k].query["per_page"] = <<PageSize>>

\* A search is followed with the filters it was configured with, repeated ones
\* included: no page is of another search.
FiltersKept ==
    \A k \in DOMAIN pages :
        \E c \in {shelter.listing, shelter.crosspost} : Filters(pages[k]) = Filters(c) /\ c # NoUrl

\* Page by page the search stays the configured one, at the large page size.
SearchStaysConfigured == PageSizePersists /\ FiltersKept

\* Whichever parsers have come and gone since a dog was stored, its recheck goes to the
\* parser that found it, on a page of that parser's site, as long as that one is
\* registered; to none once it is not, and to none if the browser found the dog.
RecheckFindsTheParser ==
    \A k \in keys :
        LET entry == BySourceKind(k.kind) IN
        IF \E i \in DOMAIN registry : registry[i].parser = k.finder
        THEN entry.parser = k.finder /\ k.key.host \in Sites[k.finder]
        ELSE entry = NoParser
=============================================================================
