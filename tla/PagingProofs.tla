---------------------------- MODULE PagingProofs ----------------------------
(***************************************************************************)
(* Paging for any registry that keeps its contract and any shelters, sites *)
(* and spellings that are what the assumptions of Paging say.              *)
(***************************************************************************)
EXTENDS Paging, TLAPS

-----------------------------------------------------------------------------
(* Keys                                                                    *)

LEMMA UrlsEqual ==
    ASSUME NEW u \in Url, NEW v \in Url,
           u.host = v.host, u.capitals = v.capitals, u.port = v.port, u.path = v.path,
           u.slashes = v.slashes, u.query = v.query, u.fragment = v.fragment
    PROVE  u = v
BY DEF Url

LEMMA CanonicalFields ==
    ASSUME NEW u \in Url
    PROVE  LET v == Canonical(u) IN
           /\ v \in Url
           /\ v.host = u.host /\ v.capitals = FALSE /\ v.port = u.port /\ v.path = u.path
           /\ v.slashes = (IF u.path = "" THEN 1 ELSE 0)
           /\ v.query = u.query /\ v.fragment = u.fragment
BY DEF Canonical, Url

\* The key forgets the case of the host and closing slashes, and nothing else.
LEMMA KeyIsThePage ==
    ASSUME NEW u \in Url, NEW v \in Url
    PROVE  Canonical(u) = Canonical(v) <=> SamePage(u, v)
<1>1. ASSUME Canonical(u) = Canonical(v) PROVE SamePage(u, v)
  <2>1. /\ Canonical(u).host = u.host /\ Canonical(v).host = v.host
        /\ Canonical(u).port = u.port /\ Canonical(v).port = v.port
        /\ Canonical(u).path = u.path /\ Canonical(v).path = v.path
        /\ Canonical(u).query = u.query /\ Canonical(v).query = v.query
        /\ Canonical(u).fragment = u.fragment /\ Canonical(v).fragment = v.fragment
    BY CanonicalFields
  <2>2. /\ u.host = v.host /\ u.port = v.port /\ u.path = v.path
        /\ u.query = v.query /\ u.fragment = v.fragment
    BY <1>1, <2>1
  <2>3. QED
    BY <2>2 DEF SamePage
<1>2. ASSUME SamePage(u, v) PROVE Canonical(u) = Canonical(v)
  <2>1. /\ u.host = v.host /\ u.port = v.port /\ u.path = v.path
        /\ u.query = v.query /\ u.fragment = v.fragment
    BY <1>2 DEF SamePage
  <2> DEFINE x == Canonical(u)
             y == Canonical(v)
  <2>2. /\ x \in Url /\ y \in Url
        /\ x.host = u.host /\ x.capitals = FALSE /\ x.port = u.port /\ x.path = u.path
        /\ y.host = v.host /\ y.capitals = FALSE /\ y.port = v.port /\ y.path = v.path
        /\ x.slashes = (IF u.path = "" THEN 1 ELSE 0)
        /\ y.slashes = (IF v.path = "" THEN 1 ELSE 0)
        /\ x.query = u.query /\ x.fragment = u.fragment
        /\ y.query = v.query /\ y.fragment = v.fragment
    BY CanonicalFields
  <2> HIDE DEF x, y
  <2>3. x = y
    BY <2>1, <2>2, UrlsEqual
  <2>4. QED
    BY <2>3 DEF x, y
<1>3. QED
  BY <1>1, <1>2

\* What was collected is a dog with the key of one of its URLs.
KeysListed ==
    \A k \in keys : k.dog \in Dogs /\ \E u \in Spellings[k.dog] : k.key = Canonical(u)

LEMMA NextKeys == KeysListed /\ [Next]_vars => KeysListed'
<1> SUFFICES ASSUME KeysListed, [Next]_vars PROVE KeysListed'
  OBVIOUS
<1>1. CASE UNCHANGED keys
  BY <1>1 DEF KeysListed
<1>2. CASE Collect
  <2>1. PICK d \in Dogs : \E u \in Spellings[d] :
           keys' = keys \cup {[dog |-> d, key |-> Canonical(u),
                              kind |-> parser.kind, finder |-> parser.parser]}
    BY <1>2 DEF Collect
  <2>2. QED
    BY <2>1 DEF KeysListed
<1>3. QED
  BY <1>1, <1>2 DEF Next, Resolve, Unsupported, Follow, LastPage, GoOn, vars

\* Whichever way the URLs of a shelter's dogs are spelled, its dogs and the keys
\* collected are one to one (canonical).
THEOREM OneEntryPerDogHolds == Spec => []OneEntryPerDog
<1>1. Init => KeysListed
  BY DEF Init, KeysListed
<1>2. KeysListed => OneEntryPerDog
  <2> SUFFICES ASSUME KeysListed, NEW k \in keys, NEW j \in keys
               PROVE  k.dog = j.dog <=> k.key = j.key
    BY DEF OneEntryPerDog
  <2>1. /\ k.dog \in Dogs /\ j.dog \in Dogs
        /\ \E u \in Spellings[k.dog] : k.key = Canonical(u)
        /\ \E v \in Spellings[j.dog] : j.key = Canonical(v)
    BY DEF KeysListed
  <2>2. PICK u \in Spellings[k.dog] : k.key = Canonical(u)
    BY <2>1
  <2>3. PICK v \in Spellings[j.dog] : j.key = Canonical(v)
    BY <2>1
  <2>4. u \in Url /\ v \in Url
    BY <2>1, UrlAssumption
  <2>5. k.dog = j.dog <=> SamePage(u, v)
    BY <2>1, SpellingAssumption
  <2>6. QED
    BY <2>2, <2>3, <2>4, <2>5, KeyIsThePage
<1>3. QED
  BY <1>1, <1>2, NextKeys, PTL DEF Spec

-----------------------------------------------------------------------------
(* Hosts                                                                   *)

\* A suffix that is not empty ends in the same token.
LEMMA LastToken ==
    ASSUME NEW s \in Host, NEW t \in Host, IsSuffix(s, t), s # <<>>
    PROVE  t # <<>> /\ t[Len(t)] = s[Len(s)]
<1>1. /\ Len(s) \in Nat /\ Len(t) \in Nat /\ Len(s) > 0
      /\ Len(Reverse(s)) = Len(s) /\ Len(Reverse(t)) = Len(t)
      /\ Reverse(s)[1] = s[Len(s)]
      /\ Len(t) > 0 => Reverse(t)[1] = t[Len(t)]
      /\ Reverse(s) \in Host /\ Reverse(t) \in Host
  BY DEF Host, Reverse
<1>2. /\ Len(Reverse(s)) <= Len(Reverse(t))
      /\ SubSeq(Reverse(s), 1, Len(Reverse(s))) = SubSeq(Reverse(t), 1, Len(Reverse(s)))
  BY DEF IsSuffix, IsPrefix
<1>3. Reverse(s)[1] = Reverse(t)[1]
  BY <1>1, <1>2 DEF Host
<1>4. QED
  BY <1>1, <1>2, <1>3

LEMMA LastOfConcat ==
    ASSUME NEW s \in Host, NEW t \in Host, t # <<>>
    PROVE  /\ s \o t \in Host /\ s \o t # <<>>
           /\ (s \o t)[Len(s \o t)] = t[Len(t)]
           /\ t[Len(t)] \in Range(t)
<1>1. /\ Len(s) \in Nat /\ Len(t) \in Nat /\ Len(t) > 0
      /\ Len(s \o t) = Len(s) + Len(t)
      /\ s \o t \in Host
  BY DEF Host
<1>2. (s \o t)[Len(s) + Len(t)] = t[Len(t)]
  BY <1>1 DEF Host
<1>3. Len(t) \in DOMAIN t
  BY <1>1 DEF Host
<1>4. QED
  BY <1>1, <1>2, <1>3 DEF Range, Host

\* A URL with a port matches no registered host, so what matches is a registered host
\* or under one.
LEMMA MatchIsUnder ==
    ASSUME NEW r \in Registries, NEW i \in DOMAIN r, NEW u \in Configured,
           HostMatches(u, r[i].host)
    PROVE  Under(u.host, r[i].host)
<1> DEFINE h == r[i].host
<1>1. u \in Url /\ u.host \in Host /\ u.port \in Host
  BY UrlAssumption DEF Configured, Url
<1>2. r[i] \in Entry
  BY RegistryAssumption
<1>3. h \in Host
  BY <1>2 DEF Entry
<1>4. h # <<>> /\ Range(u.port) \cap Range(h) = {}
  BY RegistryAssumption
<1>5. Netloc(u) = h \/ IsSuffix(<<".">> \o h, Netloc(u))
  BY DEF HostMatches
<1>6. SUFFICES Under(u.host, h)
  OBVIOUS
<1> HIDE DEF h
<1>7. CASE u.port = <<>>
  <2>1. Netloc(u) = u.host
    BY <1>1, <1>7 DEF Netloc, Host
  <2>2. QED
    BY <1>5, <2>1 DEF Under
<1>8. CASE u.port # <<>>
  <2>1. /\ Netloc(u) \in Host /\ Netloc(u) # <<>>
        /\ Netloc(u)[Len(Netloc(u))] = u.port[Len(u.port)]
        /\ u.port[Len(u.port)] \in Range(u.port)
    BY <1>1, <1>8, LastOfConcat DEF Netloc
  <2>2. /\ <<".">> \o h \in Host /\ <<".">> \o h # <<>>
        /\ (<<".">> \o h)[Len(<<".">> \o h)] = h[Len(h)]
        /\ h[Len(h)] \in Range(h)
    <3>1. <<".">> \in Host
      BY UrlAssumption DEF Host
    <3>2. QED
      BY <1>3, <1>4, <3>1, LastOfConcat
  <2>3. Netloc(u)[Len(Netloc(u))] = h[Len(h)]
    <3>1. CASE Netloc(u) = h
      BY <3>1
    <3>2. CASE IsSuffix(<<".">> \o h, Netloc(u))
      BY <3>2, <2>1, <2>2, LastToken
    <3>3. QED
      BY <1>5, <3>1, <3>2
  <2>4. QED
    BY <1>4, <2>1, <2>2, <2>3
<1>9. QED
  BY <1>7, <1>8

-----------------------------------------------------------------------------
(* Pages                                                                   *)

LEMMA QueryWith ==
    ASSUME NEW q \in [Params -> Seq(Nat)], NEW k \in Params, NEW v \in Seq(Nat)
    PROVE  /\ [q EXCEPT ![k] = v] \in [Params -> Seq(Nat)]
           /\ [q EXCEPT ![k] = v][k] = v
           /\ \A j \in Params \ {k} : [q EXCEPT ![k] = v][j] = q[j]
OBVIOUS

LEMMA UrlWith ==
    ASSUME NEW u \in Url, NEW h \in Host, NEW q \in [Params -> Seq(Nat)]
    PROVE  /\ [u EXCEPT !.query = q] \in Url
           /\ [u EXCEPT !.host = h] \in Url
           /\ [u EXCEPT !.host = h].host = h
           /\ [u EXCEPT !.host = h].query = u.query
<1>1. [u EXCEPT !.query = q] \in Url
  BY DEF Url
<1>2. [u EXCEPT !.host = h] \in Url
  BY DEF Url
<1>3. [u EXCEPT !.host = h].host = h /\ [u EXCEPT !.host = h].query = u.query
  BY DEF Url
<1>4. QED
  BY <1>1, <1>2, <1>3

\* WithParam of the page size leaves alone where a URL points and what it looks for.
LEMMA WithParamKeeps ==
    ASSUME NEW u \in Url
    PROVE  LET v == WithParam(u, "per_page", PageSize) IN
           /\ v \in Url
           /\ v.query["per_page"] = <<PageSize>>
           /\ Filters(v) = Filters(u)
           /\ v.host = u.host /\ v.path = u.path
<1> DEFINE q == [u.query EXCEPT !["per_page"] = <<PageSize>>]
           v == WithParam(u, "per_page", PageSize)
<1>1. /\ u.query \in [Params -> Seq(Nat)] /\ "per_page" \in Params /\ <<PageSize>> \in Seq(Nat)
  BY UrlAssumption DEF Url
<1>2. /\ q \in [Params -> Seq(Nat)] /\ q["per_page"] = <<PageSize>>
      /\ \A k \in Params \ {"per_page"} : q[k] = u.query[k]
  BY <1>1, QueryWith
<1>3. v.host = u.host /\ v.path = u.path /\ v.query = q
  BY DEF WithParam, Url
<1>4. v = [u EXCEPT !.query = q]
  BY DEF WithParam, Url
<1> HIDE DEF q, v
<1>5. v \in Url
  BY <1>2, <1>4 DEF Url
<1>6. Filters(v) = Filters(u)
  BY <1>2, <1>3 DEF Filters
<1>7. QED
  BY <1>2, <1>3, <1>5, <1>6 DEF v

LEMMA LinkFields ==
    ASSUME NEW u \in Url, NEW h \in Host, NEW size \in Seq(Nat), Len(pages) \in Nat
    PROVE  LET link == Link(u, h, size) IN
           /\ link \in Url
           /\ link.host = h
           /\ Filters(link) = Filters(u)
<1> DEFINE number == <<Len(pages) + 1>>
           q1 == [u.query EXCEPT !["page"] = number]
           q2 == [q1 EXCEPT !["per_page"] = size]
           link == [u EXCEPT !.host = h, !.capitals = FALSE, !.port = <<>>, !.query = q2]
<1>1. /\ u.query \in [Params -> Seq(Nat)] /\ number \in Seq(Nat)
      /\ "page" \in Params /\ "per_page" \in Params
  BY UrlAssumption DEF Url
<1>2. /\ q1 \in [Params -> Seq(Nat)]
      /\ \A k \in Params \ {"page"} : q1[k] = u.query[k]
  <2> HIDE DEF number
  <2>1. QED
    BY <1>1, QueryWith
<1>3. Link(u, h, size) = link
  BY DEF Link
<1> HIDE DEF q1
<1>4. /\ q2 \in [Params -> Seq(Nat)]
      /\ \A k \in Params \ {"per_page"} : q2[k] = q1[k]
  BY <1>1, <1>2, QueryWith
<1> HIDE DEF q2
<1>5. link \in Url
  <2>1. <<>> \in Host
    BY DEF Host
  <2>2. QED
    BY <1>4, <2>1 DEF Url
<1>6. link.host = h /\ link.query = q2
  BY DEF Url
<1> HIDE DEF link
<1>7. Filters(link) = Filters(u)
  BY <1>2, <1>4, <1>6 DEF Filters
<1>8. QED
  BY <1>3, <1>5, <1>6, <1>7

\* A link of a search page, as next_page_url returns it.
LEMMA NextPageKeeps ==
    ASSUME NEW u \in Url, NEW link \in Links(u), Len(pages) \in Nat
    PROVE  /\ NextPage(link) \in Url
           /\ NextPage(link).host = Base
           /\ NextPage(link).query["per_page"] = <<PageSize>>
           /\ Filters(NextPage(link)) = Filters(u)
<1>1. PICK h \in {<<>>, Base}, size \in {<<>>} \cup {<<n>> : n \in Sizes} :
         link = Link(u, h, size)
  BY DEF Links
<1>2. /\ <<>> \in Host /\ Base \in Host /\ size \in Seq(Nat)
  <2>1. <<>> \in Host /\ <<>> \in Seq(Nat)
    BY DEF Host
  <2>2. \A n \in Sizes : <<n>> \in Seq(Nat)
    BY UrlAssumption
  <2>3. QED
    BY <2>1, <2>2, UrlAssumption
<1>3. link \in Url /\ link.host = h /\ Filters(link) = Filters(u)
  BY <1>1, <1>2, LinkFields
<1> DEFINE full == IF link.host = <<>> THEN [link EXCEPT !.host = Base] ELSE link
<1>4. full \in Url /\ full.host = Base /\ full.query = link.query
  <2>1. CASE h = <<>>
    BY <1>2, <1>3, <2>1, UrlWith DEF Url
  <2>2. CASE h # <<>>
    BY <1>3, <2>2
  <2>3. QED
    BY <2>1, <2>2
<1>5. NextPage(link) = WithParam(full, "per_page", PageSize)
  BY DEF NextPage
<1> HIDE DEF full
<1>6. Filters(full) = Filters(link)
  BY <1>4 DEF Filters
<1>7. QED
  BY <1>3, <1>4, <1>5, <1>6, WithParamKeeps

\* What the first request is for: the matched URL, prepared by the parser of the site.
LEMMA PreparedKeeps ==
    ASSUME NEW u \in Url
    PROVE  /\ Prepared(u) \in Url
           /\ Prepared(u).host = u.host
           /\ Search(Prepared(u)) => Prepared(u).query["per_page"] = <<PageSize>>
           /\ Filters(Prepared(u)) = Filters(u)
<1>1. CASE Search(u)
  <2>1. Prepared(u) = WithParam(u, "per_page", PageSize)
    BY <1>1 DEF Prepared
  <2>2. QED
    BY <2>1, WithParamKeeps
<1>2. CASE ~Search(u)
  <2>1. Prepared(u) = u
    BY <1>2 DEF Prepared
  <2>2. QED
    BY <1>2, <2>1
<1>3. QED
  BY <1>1, <1>2

-----------------------------------------------------------------------------
(* Runs over the shelters                                                  *)

\* What holds of a page fetched for a shelter by a parser.
PageOf(u, s, name) ==
    /\ u \in Url
    /\ u.host \in Sites[name]
    /\ \E c \in {s.listing, s.crosspost} : Filters(u) = Filters(c) /\ c # NoUrl
    /\ name = "petrescue" /\ Search(u) => u.query["per_page"] = <<PageSize>>

PagingInv ==
    /\ registry \in Registries
    /\ shelter \in Shelters
    /\ pages \in Seq(Url)
    /\ at = "start" => pages = <<>>
    /\ at = "paging" => pages # <<>>
    /\ at \in {"start", "browser"} => parser = NoParser
    /\ at = "browser" => pages = <<>> /\ Matching(shelter) = {}
    /\ at \in {"start", "browser", "paging", "done"}
    /\ at \in {"paging", "done"} => \E i \in DOMAIN registry : parser = registry[i]
    /\ \A k \in DOMAIN pages : PageOf(pages[k], shelter, parser.parser)

LEMMA InitPaging == Init => PagingInv
BY DEF Init, PagingInv

LEMMA FirstPage ==
    ASSUME PagingInv, NEW m \in FirstMatch(shelter)
    PROVE  LET url == Candidates(shelter)[m[2]]  entry == registry[m[1]] IN
           /\ m[1] \in DOMAIN registry
           /\ PageOf(IF entry.parser = "petrescue" THEN Prepared(url) ELSE url,
                     shelter, entry.parser)
<1> DEFINE i == m[1]
           url == Candidates(shelter)[m[2]]
           name == registry[i].parser
           page == IF name = "petrescue" THEN Prepared(url) ELSE url
<1>1. /\ i \in DOMAIN registry /\ m[2] \in {1, 2}
      /\ url # NoUrl /\ HostMatches(url, registry[i].host)
  BY DEF FirstMatch, Matching
<1>2. url \in {shelter.listing, shelter.crosspost}
  BY <1>1 DEF Candidates
<1>3. registry \in Registries /\ shelter \in Shelters
  BY DEF PagingInv
<1>4. url \in Configured
  BY <1>2, <1>3 DEF Configured
<1>5. url \in Url
  BY <1>2, <1>3, UrlAssumption
<1> HIDE DEF i, url
<1>6. url.host \in Sites[name]
  BY <1>1, <1>3, <1>4, MatchIsUnder, SiteAssumption
<1>7. /\ page \in Url /\ page.host = url.host /\ Filters(page) = Filters(url)
      /\ name = "petrescue" /\ Search(page) => page.query["per_page"] = <<PageSize>>
  <2>1. CASE name = "petrescue"
    <3>1. page = Prepared(url)
      BY <2>1
    <3>2. QED
      BY <1>5, <3>1, PreparedKeeps
  <2>2. CASE name # "petrescue"
    <3>1. page = url
      BY <2>2
    <3>2. QED
      BY <1>5, <2>2, <3>1
  <2>3. QED
    BY <2>1, <2>2
<1> HIDE DEF page, name
<1>8. PageOf(page, shelter, name)
  BY <1>1, <1>2, <1>6, <1>7 DEF PageOf
<1>9. QED
  BY <1>1, <1>8 DEF page, name, url, i

LEMMA NextPaging == PagingInv /\ [Next]_vars => PagingInv'
<1> SUFFICES ASSUME PagingInv, [Next]_vars PROVE PagingInv'
  OBVIOUS
<1> USE DEF PagingInv
<1>1. CASE Resolve
  <2>1. PICK m \in FirstMatch(shelter) :
           LET entry == registry[m[1]]  url == Candidates(shelter)[m[2]] IN
           /\ parser' = entry
           /\ pages' = <<IF entry.parser = "petrescue" THEN Prepared(url) ELSE url>>
    BY <1>1 DEF Resolve
  <2> DEFINE entry == registry[m[1]]
             url == Candidates(shelter)[m[2]]
             page == IF entry.parser = "petrescue" THEN Prepared(url) ELSE url
  <2>2. parser' = entry /\ pages' = <<page>>
    BY <2>1
  <2>3. m[1] \in DOMAIN registry /\ PageOf(page, shelter, entry.parser)
    BY FirstPage
  <2>4. /\ at = "start" /\ at' = "paging"
        /\ registry' = registry /\ shelter' = shelter /\ keys' = keys
    BY <1>1 DEF Resolve
  <2>5. \E i \in DOMAIN registry : parser' = registry[i]
    BY <2>2, <2>3
  <2> HIDE DEF entry, page
  <2>6. pages' \in Seq(Url)
    BY <2>2, <2>3 DEF PageOf
  <2>7. \A k \in DOMAIN pages' : PageOf(pages'[k], shelter, parser'.parser)
    BY <2>2, <2>3
  <2>8. QED
    BY <2>2, <2>4, <2>5, <2>6, <2>7
<1>2. CASE Unsupported
  <2>1. /\ at = "start" /\ at' = "browser" /\ Matching(shelter) = {}
        /\ UNCHANGED <<registry, shelter, parser, pages, keys>>
    BY <1>2 DEF Unsupported
  <2>2. Matching(shelter)' = {}
    BY <2>1 DEF Matching
  <2>3. QED
    BY <2>1, <2>2
<1>3. CASE Follow
  <2>1. /\ at = "paging" /\ parser.parser = "petrescue"
        /\ UNCHANGED <<registry, shelter, parser, keys, at>>
    BY <1>3 DEF Follow
  <2>2. PICK link \in Links(Last(pages)) : pages' = Append(pages, NextPage(link))
    BY <1>3 DEF Follow
  <2> DEFINE last == Last(pages)
             page == NextPage(link)
  <2>3. /\ Len(pages) \in Nat /\ Len(pages) \in DOMAIN pages
        /\ last = pages[Len(pages)] /\ last \in Url
    BY <2>1 DEF Last
  <2>4. PageOf(last, shelter, parser.parser)
    BY <2>3
  <2> HIDE DEF last
  <2>5. /\ page \in Url /\ page.host = Base
        /\ page.query["per_page"] = <<PageSize>> /\ Filters(page) = Filters(last)
    BY <2>2, <2>3, NextPageKeeps DEF last
  <2> HIDE DEF page
  <2>6. PageOf(page, shelter, parser.parser)
    BY <2>1, <2>4, <2>5, SiteAssumption DEF PageOf
  <2>7. pages' = Append(pages, page)
    BY <2>2 DEF page
  <2>8. pages' \in Seq(Url) /\ pages' # <<>>
    BY <2>5, <2>7
  <2>9. \A k \in DOMAIN pages' : PageOf(pages'[k], shelter, parser.parser)
    <3>1. \A k \in DOMAIN pages' :
             \/ k \in DOMAIN pages /\ pages'[k] = pages[k]
             \/ pages'[k] = page
      BY <2>5, <2>7
    <3>2. QED
      BY <2>6, <3>1
  <2>10. QED
    BY <2>1, <2>8, <2>9
<1>4. CASE LastPage
  BY <1>4 DEF LastPage
<1>5. CASE Collect \/ UNCHANGED vars
  <2>1. UNCHANGED <<registry, shelter, parser, pages, at>>
    BY <1>5 DEF Collect, vars
  <2>2. Matching(shelter)' = Matching(shelter)
    BY <2>1 DEF Matching
  <2>3. QED
    BY <2>1, <2>2
<1>6. CASE GoOn
  BY <1>6 DEF GoOn
<1>7. QED
  BY <1>1, <1>2, <1>3, <1>4, <1>5, <1>6 DEF Next

THEOREM PagingInvHolds == Spec => []PagingInv
<1>1. QED
  BY InitPaging, NextPaging, PTL DEF Spec

\* A URL of the site of a registered parser, without a port, is matched.
LEMMA SiteMatches ==
    ASSUME NEW r \in Registries, NEW i \in DOMAIN r, NEW u \in Configured,
           u.port = <<>>, u.host \in Sites[r[i].parser]
    PROVE  u # NoUrl /\ HostMatches(u, r[i].host)
<1>1. u.host \in Host /\ r[i].host \in Host /\ r[i].host # <<>>
  <2>1. u \in Url
    BY UrlAssumption DEF Configured
  <2>2. r[i] \in Entry /\ r[i].host # <<>>
    BY RegistryAssumption
  <2>3. QED
    BY <2>1, <2>2 DEF Url, Entry
<1>2. Under(u.host, r[i].host)
  BY SiteAssumption
<1>3. u.host # <<>>
  <2>1. <<".">> \in Host
    BY UrlAssumption DEF Host
  <2>2. <<".">> \o r[i].host \in Host /\ <<".">> \o r[i].host # <<>>
    BY <1>1, <2>1, LastOfConcat
  <2>3. QED
    BY <1>1, <1>2, <2>2, LastToken DEF Under
<1>4. Netloc(u) = u.host
  BY <1>1 DEF Netloc, Host
<1>5. HostMatches(u, r[i].host)
  BY <1>2, <1>4 DEF Under, HostMatches
<1>6. NoUrl.host = <<>>
  BY DEF NoUrl
<1>7. QED
  BY <1>3, <1>5, <1>6

\* Every page that is given to a parser is of its own site: what a registered host
\* matches is that host or one under it, and the pages of a search that follow it
\* are of BASE_URL. And a shelter that goes to the browser has no URL of such a site.
THEOREM ParsesItsOwnSiteHolds == Spec => []ParsesItsOwnSite
<1>1. PagingInv => PagesAreOfTheSite
  BY DEF PagingInv, PageOf, PagesAreOfTheSite
<1>2. PagingInv => BrowserIsLastResort
  <2> SUFFICES ASSUME PagingInv, at = "browser",
                      NEW u \in {shelter.listing, shelter.crosspost}, u.port = <<>>,
                      NEW i \in DOMAIN registry, u.host \in Sites[registry[i].parser]
               PROVE  FALSE
    BY DEF BrowserIsLastResort
  <2>1. registry \in Registries /\ u \in Configured /\ Matching(shelter) = {}
    BY DEF PagingInv, Configured
  <2>2. u # NoUrl /\ HostMatches(u, registry[i].host)
    BY <2>1, SiteMatches
  <2>3. PICK c \in {1, 2} : u = Candidates(shelter)[c]
    BY DEF Candidates
  <2>4. <<i, c>> \in Matching(shelter)
    BY <2>2, <2>3 DEF Matching
  <2>5. QED
    BY <2>1, <2>4
<1>3. QED
  BY <1>1, <1>2, PagingInvHolds, PTL DEF ParsesItsOwnSite

\* A search stays the configured one from page to page: its filters are kept,
\* repeated ones included, and each page asks for the large page size once.
THEOREM SearchStaysConfiguredHolds == Spec => []SearchStaysConfigured
<1>1. PagingInv => PageSizePersists
  BY DEF PagingInv, PageOf, PageSizePersists
<1>2. PagingInv => FiltersKept
  BY DEF PagingInv, PageOf, FiltersKept
<1>3. QED
  BY <1>1, <1>2, PagingInvHolds, PTL DEF SearchStaysConfigured

-----------------------------------------------------------------------------
(* Rechecks                                                                *)

\* What is stored of a dog is what the parser that found it is, in a registry of then.
FoundBy(k) ==
    \/ k.kind = NoParser.kind /\ k.finder = NoParser.parser
    \/ \E r \in Registries : \E i \in DOMAIN r :
          /\ k.kind = r[i].kind /\ k.finder = r[i].parser
          /\ k.key.host \in Sites[k.finder]

AllFound == \A k \in keys : FoundBy(k)

LEMMA NextFound == PagingInv /\ AllFound /\ [Next]_vars => AllFound'
<1> SUFFICES ASSUME PagingInv, AllFound, [Next]_vars PROVE AllFound'
  OBVIOUS
<1>1. CASE UNCHANGED keys
  BY <1>1 DEF AllFound, FoundBy
<1>2. CASE Collect
  <2>0. PICK d \in Dogs : \E u \in Spellings[d] :
          /\ at = "paging" => u.host \in Sites[parser.parser]
          /\ keys' = keys \cup {[dog |-> d, key |-> Canonical(u),
                                kind |-> parser.kind, finder |-> parser.parser]}
    BY <1>2 DEF Collect
  <2>1. PICK u \in Spellings[d] :
          /\ at = "paging" => u.host \in Sites[parser.parser]
          /\ keys' = keys \cup {[dog |-> d, key |-> Canonical(u),
                                kind |-> parser.kind, finder |-> parser.parser]}
    BY <2>0
  <2> DEFINE k == [dog |-> d, key |-> Canonical(u),
                   kind |-> parser.kind, finder |-> parser.parser]
  <2>2. /\ k.key = Canonical(u) /\ k.kind = parser.kind /\ k.finder = parser.parser
        /\ keys' = keys \cup {k}
    BY <2>1
  <2> HIDE DEF k
  <2>3. k.key.host = u.host
    BY <2>2, UrlAssumption, CanonicalFields
  <2>4. CASE at = "browser"
    <3>1. parser = NoParser
      BY <2>4 DEF PagingInv
    <3>2. FoundBy(k)
      BY <2>2, <3>1 DEF FoundBy
    <3>3. QED
      BY <2>2, <3>2 DEF AllFound, FoundBy
  <2>5. CASE at = "paging"
    <3>1. PICK i \in DOMAIN registry : parser = registry[i]
      BY <2>5 DEF PagingInv
    <3>2. FoundBy(k)
      BY <2>1, <2>2, <2>3, <2>5, <3>1 DEF FoundBy, PagingInv
    <3>3. QED
      BY <2>2, <3>2 DEF AllFound, FoundBy
  <2>6. QED
    BY <1>2, <2>4, <2>5 DEF Collect
<1>3. QED
  BY <1>1, <1>2 DEF Next, Resolve, Unsupported, Follow, LastPage, GoOn, vars

\* by_source_kind returns the entry with the kind, and nothing for a kind nobody has.
LEMMA KindOfOne ==
    ASSUME NEW kind, registry \in Registries
    PROVE  /\ \A i \in DOMAIN registry : registry[i].kind = kind => BySourceKind(kind) = registry[i]
           /\ (\A i \in DOMAIN registry : registry[i].kind # kind) => BySourceKind(kind) = NoParser
<1> DEFINE known == {k \in DOMAIN registry : registry[k].kind = kind}
<1>1. ASSUME NEW i \in DOMAIN registry, registry[i].kind = kind
      PROVE  BySourceKind(kind) = registry[i]
  <2>1. known = {i}
    BY <1>1, RegistryAssumption
  <2>2. i <= i
    BY RegistryAssumption
  <2> HIDE DEF known
  <2>3. (CHOOSE k \in known : \A j \in known : k <= j) = i
    BY <2>1, <2>2
  <2>4. QED
    BY <2>1, <2>3 DEF BySourceKind, known
<1>2. ASSUME \A i \in DOMAIN registry : registry[i].kind # kind
      PROVE  BySourceKind(kind) = NoParser
  BY <1>2 DEF BySourceKind
<1>3. QED
  BY <1>1, <1>2

\* Whatever was registered when a dog was stored, and whatever is now, its recheck goes to
\* the parser that found it if that one is registered, and to none otherwise.
THEOREM RecheckFindsTheParserHolds == Spec => []RecheckFindsTheParser
<1>1. Init => AllFound
  BY DEF Init, AllFound
<1>2. PagingInv /\ AllFound => RecheckFindsTheParser
  <2> SUFFICES ASSUME PagingInv, AllFound, NEW k \in keys
               PROVE  IF \E i \in DOMAIN registry : registry[i].parser = k.finder
                      THEN /\ BySourceKind(k.kind).parser = k.finder
                           /\ k.key.host \in Sites[k.finder]
                      ELSE BySourceKind(k.kind) = NoParser
    BY DEF RecheckFindsTheParser
  <2>1. registry \in Registries /\ FoundBy(k)
    BY DEF PagingInv, AllFound
  <2>2. \A i \in DOMAIN registry : registry[i].kind = k.kind <=> registry[i].parser = k.finder
    BY <2>1, RegistryAssumption DEF FoundBy
  <2>3. ASSUME NEW i \in DOMAIN registry, registry[i].parser = k.finder
        PROVE  BySourceKind(k.kind).parser = k.finder /\ k.key.host \in Sites[k.finder]
    <3>1. BySourceKind(k.kind) = registry[i]
      BY <2>1, <2>2, <2>3, KindOfOne
    <3>2. k.finder # NoParser.parser
      BY <2>1, <2>3, RegistryAssumption
    <3>3. QED
      BY <2>1, <2>3, <3>1, <3>2 DEF FoundBy
  <2>4. (\A i \in DOMAIN registry : registry[i].parser # k.finder)
          => BySourceKind(k.kind) = NoParser
    BY <2>1, <2>2, KindOfOne
  <2>5. QED
    BY <2>3, <2>4
<1>3. QED
  BY <1>1, <1>2, NextFound, PagingInvHolds, PTL DEF Spec
=============================================================================
