---------------------------- MODULE FilterProofs ----------------------------
(***************************************************************************)
(* What a filter leaves of a sequence of any length (Filter), and what     *)
(* follows for the two components built on it: what callers of             *)
(* SearchRequests are told, for any requests, replies and limits; and that *)
(* the scanners of HtmlFixups lose nothing of any page.                    *)
(***************************************************************************)
EXTENDS SearchRequests, HtmlFixups, FiniteSetTheorems, SequenceTheorems, TLAPS

-----------------------------------------------------------------------------
(* Filter                                                                  *)

\* A place has a rank of its own, and every rank up to their number is one's.
LEMMA Ranks ==
    ASSUME NEW n \in Nat, NEW places \in SUBSET (1..n)
    PROVE  /\ IsFiniteSet(places)
           /\ Cardinality(places) \in 0..n
           /\ \A p \in places : Rank(places, p) \in 1..Cardinality(places)
           /\ \A p, q \in places : Rank(places, p) = Rank(places, q) => p = q
           /\ \A k \in 1..Cardinality(places) : \E p \in places : Rank(places, p) = k
<1> DEFINE size == Cardinality(places)
           rank == [p \in places |-> Rank(places, p)]
<1>1. IsFiniteSet(places) /\ size \in Nat /\ size <= n
  <2>1. IsFiniteSet(1..n) /\ Cardinality(1..n) = n
    BY FS_Interval
  <2>2. QED
    BY <2>1, FS_Subset, FS_CardinalityType
<1>2. ASSUME NEW p \in places
      PROVE  /\ IsFiniteSet(places \cap (1..p))
             /\ Rank(places, p) \in 1..size
  <2>1. IsFiniteSet(places \cap (1..p)) /\ Rank(places, p) <= size
    BY <1>1, FS_Subset DEF Rank
  <2>2. Rank(places, p) # 0
    BY <2>1, FS_EmptySet DEF Rank
  <2>3. QED
    BY <1>1, <2>1, <2>2, FS_CardinalityType DEF Rank
<1>3. ASSUME NEW p \in places, NEW q \in places, p < q
      PROVE  Rank(places, p) # Rank(places, q)
  <2>1. /\ places \cap (1..p) \subseteq places \cap (1..q)
        /\ q \in places \cap (1..q) /\ q \notin places \cap (1..p)
    BY <1>3
  <2>2. QED
    BY <1>2, <2>1, FS_Subset DEF Rank
<1>4. \A p, q \in places : Rank(places, p) = Rank(places, q) => p = q
  BY <1>3
<1>5. rank \in Surjection(places, 1..size)
  <2>1. rank \in Injection(places, 1..size)
    BY <1>2, <1>4 DEF Injection, IsInjective
  <2>2. IsFiniteSet(1..size) /\ Cardinality(1..size) = size
    BY <1>1, FS_Interval
  <2>3. QED
    BY <2>1, <2>2, FS_Injection
<1>6. \A k \in 1..size : \E p \in places : Rank(places, p) = k
  BY <1>5 DEF Surjection
<1>7. size \in 0..n
  BY <1>1
<1>8. \A p \in places : Rank(places, p) \in 1..size
  BY <1>2
<1>9. QED
  BY <1>1, <1>4, <1>6, <1>7, <1>8

\* A filter keeps the elements at the places it is given, each in its rank.
LEMMA KeepRanks ==
    ASSUME NEW S, NEW s \in Seq(S), NEW places \in SUBSET DOMAIN s
    PROVE  LET kept == Keep(s)[places]
           IN /\ kept \in Seq(S)
              /\ Len(kept) = Cardinality(places) /\ Len(kept) <= Len(s)
              /\ \A p \in places : Rank(places, p) \in 1..Len(kept)
              /\ \A p \in places : kept[Rank(places, p)] = s[p]
              /\ \A k \in 1..Len(kept) : \E p \in places : Rank(places, p) = k
<1> DEFINE size == Cardinality(places)
           place(k) == CHOOSE p \in places : Rank(places, p) = k
           kept == Keep(s)[places]
<1>1. Len(s) \in Nat /\ DOMAIN s = 1..Len(s) /\ \A p \in DOMAIN s : s[p] \in S
  BY LenProperties
<1>2. kept = [k \in 1..size |-> s[place(k)]]
  BY DEF Keep
<1>3. /\ size \in 0..Len(s)
      /\ \A p \in places : Rank(places, p) \in 1..size
      /\ \A p, q \in places : Rank(places, p) = Rank(places, q) => p = q
      /\ \A k \in 1..size : \E p \in places : Rank(places, p) = k
  BY <1>1, Ranks
<1>4. \A k \in 1..size : place(k) \in places /\ Rank(places, place(k)) = k
  BY <1>3
<1>5. \A p \in places : place(Rank(places, p)) = p
  BY <1>3
<1>6. kept \in [1..size -> S]
  BY <1>1, <1>2, <1>4
<1>7. kept \in Seq(S) /\ Len(kept) = size
  BY <1>3, <1>6, SeqDef
<1>8. QED
  BY <1>2, <1>3, <1>5, <1>7

\* What is kept was there, and all of it is.
LEMMA KeepElements ==
    ASSUME NEW S, NEW s \in Seq(S), NEW places \in SUBSET DOMAIN s
    PROVE  LET kept == Keep(s)[places]
           IN /\ kept \in Seq(S) /\ Len(kept) <= Len(s)
              /\ \A k \in 1..Len(kept) : \E p \in places : kept[k] = s[p]
              /\ \A p \in places : \E k \in 1..Len(kept) : kept[k] = s[p]
<1> DEFINE kept == Keep(s)[places]
<1>1. /\ kept \in Seq(S)
      /\ Len(kept) = Cardinality(places) /\ Len(kept) <= Len(s)
      /\ \A p \in places : Rank(places, p) \in 1..Len(kept)
      /\ \A p \in places : kept[Rank(places, p)] = s[p]
      /\ \A k \in 1..Len(kept) : \E p \in places : Rank(places, p) = k
  BY KeepRanks
<1> QED
  BY <1>1

\* A place ranks no higher than it stands, and places rank in their order.
LEMMA RankOrder ==
    ASSUME NEW n \in Nat, NEW places \in SUBSET (1..n)
    PROVE  /\ \A p \in places : Rank(places, p) <= p
           /\ \A p, q \in places : p <= q => Rank(places, p) <= Rank(places, q)
<1>1. ASSUME NEW p \in places
      PROVE  IsFiniteSet(places \cap (1..p)) /\ Rank(places, p) <= p
  <2>1. IsFiniteSet(1..p) /\ Cardinality(1..p) = p
    BY FS_Interval
  <2>2. QED
    BY <2>1, FS_Subset DEF Rank
<1>2. ASSUME NEW p \in places, NEW q \in places, p <= q
      PROVE  Rank(places, p) <= Rank(places, q)
  <2>1. places \cap (1..p) \subseteq places \cap (1..q)
    BY <1>2
  <2>2. QED
    BY <1>1, <2>1, FS_Subset DEF Rank
<1>3. QED
  BY <1>1, <1>2

\* A filter leaves each element no further back than it was, and with it all
\* that is kept of those before it.
LEMMA KeepOrder ==
    ASSUME NEW S, NEW s \in Seq(S), NEW places \in SUBSET DOMAIN s
    PROVE  LET kept == Keep(s)[places]
           IN /\ \A p \in places : \E k \in 1..Len(kept) : k <= p /\ kept[k] = s[p]
              /\ \A k \in 1..Len(kept) : \E p \in places :
                    /\ kept[k] = s[p]
                    /\ \A q \in places : q <= p =>
                          \E j \in 1..Len(kept) : j <= k /\ kept[j] = s[q]
<1> DEFINE kept == Keep(s)[places]
<1>1. /\ \A p \in places : Rank(places, p) \in 1..Len(kept)
      /\ \A p \in places : kept[Rank(places, p)] = s[p]
      /\ \A k \in 1..Len(kept) : \E p \in places : Rank(places, p) = k
  BY KeepRanks
<1>2. Len(s) \in Nat /\ places \in SUBSET (1..Len(s))
  BY LenProperties
<1>3. /\ \A p \in places : Rank(places, p) <= p
      /\ \A p, q \in places : p <= q => Rank(places, p) <= Rank(places, q)
  BY <1>2, RankOrder
<1> HIDE DEF kept
<1>4. \A p \in places : \E k \in 1..Len(kept) : k <= p /\ kept[k] = s[p]
  BY <1>1, <1>3
<1>5. ASSUME NEW k \in 1..Len(kept)
      PROVE  \E p \in places :
                /\ kept[k] = s[p]
                /\ \A q \in places : q <= p =>
                      \E j \in 1..Len(kept) : j <= k /\ kept[j] = s[q]
  <2>1. PICK p \in places : Rank(places, p) = k
    BY <1>1
  <2>2. QED
    BY <1>1, <1>3, <2>1
<1>6. QED
  BY <1>4, <1>5 DEF kept

\* A filter repeats nothing.
LEMMA KeepDistinct ==
    ASSUME NEW S, NEW s \in Seq(S), NEW places \in SUBSET DOMAIN s,
           \A p, q \in DOMAIN s : s[p] = s[q] => p = q
    PROVE  LET kept == Keep(s)[places]
           IN \A j, k \in 1..Len(kept) : kept[j] = kept[k] => j = k
<1> DEFINE kept == Keep(s)[places]
<1>1. /\ kept \in Seq(S)
      /\ Len(kept) = Cardinality(places) /\ Len(kept) <= Len(s)
      /\ \A p \in places : Rank(places, p) \in 1..Len(kept)
      /\ \A p \in places : kept[Rank(places, p)] = s[p]
      /\ \A k \in 1..Len(kept) : \E p \in places : Rank(places, p) = k
  BY KeepRanks
<1> QED
  BY <1>1

\* A filter that is given no place keeps nothing.
LEMMA KeepNothing == ASSUME NEW s PROVE Keep(s)[{}] = <<>>
<1>1. Cardinality({}) = 0
  BY FS_EmptySet
<1>2. {} \in SUBSET DOMAIN s
  OBVIOUS
<1>3. Keep(s)[{}] = [k \in 1..0 |-> s[CHOOSE p \in {} : Rank({}, p) = k]]
  BY <1>1, <1>2 DEF Keep
<1>4. QED
  BY <1>3

-----------------------------------------------------------------------------
(* Requests                                                                *)

Gateways == {"http", "mcp"}

\* What a gateway reads parameters as, and whether it goes on with them.
ReadAs(g, a) == IF g = "http" THEN try_from_params(a) ELSE mcp_params(a)
Takes(g, a) == (g = "http" => Readable(a)) /\ Fault(ReadAs(g, a)) = "none"

Hits == UNION {ToSet(Corpus[text]) : text \in DOMAIN Corpus}

\* A request that has passed the checks.
SearchRequest ==
    [query : [text : DOMAIN Corpus, length : 1..QueryMax, padded : {FALSE}],
     page : 1..PageMax, safe : 0..2,
     lang : [code : DOMAIN Region, tidy : {TRUE}] \cup {Absent}]

SearchResponse ==
    [results : Seq(Hits), total : Nat, page : 1..PageMax, cached : BOOLEAN]

SearchCall ==
    [stage : {"lookup", "engine"}, gateway : Gateways, ask : SearchParams,
     req : SearchRequest]

\* A response is what some reply to the request's URL is made into.
MadeFor(response, r) ==
    /\ response \in SearchResponse
    /\ \E reply \in Replies :
          LET made == finalize_results(Parsed(reply, build_search_url(r)), r)
          IN /\ response.results = made.results
             /\ response.total = made.total
             /\ response.page = made.page

CallInv ==
    call # Idle => /\ call \in SearchCall
                   /\ Takes(call.gateway, call.ask)
                   /\ call.req = ReadAs(call.gateway, call.ask)

Keyed(key) == [query |-> key[1], page |-> key[2], safe |-> key[3], lang |-> key[4]]

\* An entry answers the request its key was made of.
CacheInv == \A key \in DOMAIN cache : MadeFor(cache[key], Keyed(key))

\* A search was refused, or it was searched for as its gateway reads it; a
\* code tells the error.
Told(a) ==
    /\ a.gateway \in Gateways /\ a.ask \in SearchParams \cup {Absent}
    /\ a.ask = Absent => a.response = Absent
    /\ a.ask # Absent =>
          IF Takes(a.gateway, a.ask)
          THEN /\ a.req = ReadAs(a.gateway, a.ask)
               /\ a.response # Absent => MadeFor(a.response, a.req)
               /\ a.code = SearchCode(a.gateway, IF a.error = "none" THEN "ParseEmpty"
                                                 ELSE a.error)
          ELSE /\ a.req = Absent /\ a.response = Absent /\ a.error = "none"
               /\ a.code = IF a.gateway = "http" THEN "400" ELSE "-32602"

AnswersInv ==
    answers \in Seq(ToSet(answers)) /\ \A n \in DOMAIN answers : Told(answers[n])

RequestsInv == CallInv /\ CacheInv /\ AnswersInv

\* A request that a gateway goes on with has passed the checks.
LEMMA TakesOnlySound ==
    ASSUME NEW g \in Gateways, NEW a \in SearchParams, Takes(g, a)
    PROVE  ReadAs(g, a) \in SearchRequest /\ ReadAs(g, a) # Absent
<1> DEFINE r == ReadAs(g, a)
<1> USE LimitsAssumption, AsksAssumption
<1>1. r = [query |-> r.query, page |-> r.page, safe |-> r.safe, lang |-> r.lang]
  BY DEF ReadAs, try_from_params, mcp_params
<1>2. Fault(r) = "none"
  BY DEF Takes
<1>3. /\ r.query.length \in 1..QueryMax /\ r.page \in 1..PageMax /\ ~(r.safe > 2)
      /\ r.lang # Absent => r.lang.tidy /\ r.lang.code \in DOMAIN Region
  BY <1>2 DEF Fault
<1>4. r.query = Trim(a.query)
  BY DEF ReadAs, try_from_params, mcp_params
<1>5. r.query \in [text : DOMAIN Corpus, length : 1..QueryMax, padded : {FALSE}]
  <2>1. CASE a.query = Absent
    BY <2>1, <1>3, <1>4 DEF Trim
  <2>2. CASE a.query \in Queries
    BY <2>2, <1>3, <1>4 DEF Trim, Queries
  <2>3. QED
    BY <2>1, <2>2 DEF SearchParams
<1>6. r.safe \in Nat
  <2>1. CASE g = "http"
    BY <2>1 DEF ReadAs, try_from_params, OrElse, Takes, Readable, Fits, SearchParams, Counts
  <2>2. CASE g = "mcp"
    BY <2>2 DEF ReadAs, mcp_params, AsUnsigned, SearchParams, Counts
  <2>3. QED
    BY <2>1, <2>2 DEF Gateways
<1>7. /\ r.lang \in [code : DOMAIN Region, tidy : {TRUE}] \cup {Absent}
      /\ r.lang \in Langs \cup {Absent}
  <2>1. CASE a.lang = Absent
    BY <2>1 DEF ReadAs, try_from_params, mcp_params
  <2>2. CASE a.lang \in Langs
    <3>1. r.lang \in Langs
      BY <2>2 DEF ReadAs, try_from_params, mcp_params, Langs
    <3>2. QED
      BY <3>1, <1>3 DEF Langs
  <2>3. QED
    BY <2>1, <2>2 DEF SearchParams
<1>8. r.page \in 1..PageMax /\ r.safe \in 0..2
  BY <1>3, <1>6
<1> HIDE DEF r
<1>9. r \in SearchRequest
  BY <1>1, <1>5, <1>7, <1>8 DEF SearchRequest
<1>10. r \in SearchParams
  <2>1. r.query \in Queries
    <3>1. QueryMax \in Nat
      OBVIOUS
    <3>2. 1..QueryMax \subseteq Nat
      BY <3>1
    <3>3. QED
      BY <1>5, <3>2 DEF Queries
  <2>2. r.page \in Counts /\ r.safe \in Counts
    BY <1>8 DEF Counts
  <2>3. QED
    BY <1>1, <1>7, <2>1, <2>2 DEF SearchParams
<1>11. QED
  BY <1>9, <1>10 DEF r
\* What DuckDuckGo lists for a request: hits of its query in its region.
LEMMA Listed ==
    ASSUME NEW r \in SearchRequest
    PROVE  LET list == Listing(build_search_url(r))
           IN /\ list \in Seq(Hits)
              /\ \A k \in 1..Len(list) :
                    /\ list[k] \in ToSet(Corpus[r.query.text])
                    /\ r.lang # Absent => list[k].kl = Region[r.lang.code]
              /\ \A j, k \in 1..Len(list) : list[j] = list[k] => j = k
<1> DEFINE url == build_search_url(r)
           corpus == Corpus[r.query.text]
           listed(h) == /\ url.kl # Absent => h.kl = url.kl
                        /\ url.kp = -1 => h.grade < 2
                        /\ url.kp = 1 => h.grade < 1
           places == {p \in DOMAIN corpus : listed(corpus[p])}
           list == Keep(corpus)[places]
<1>1. r.query.text \in DOMAIN Corpus
  BY DEF SearchRequest
<1>2. /\ corpus \in Seq(ToSet(corpus)) /\ ToSet(corpus) \subseteq Hits
      /\ \A p, q \in DOMAIN corpus : corpus[p] = corpus[q] => p = q
  BY <1>1, CorpusAssumption DEF Hits
<1>3. url.q = r.query.text /\ (r.lang # Absent => url.kl = Region[r.lang.code])
  BY DEF build_search_url
<1>4. r.lang # Absent => url.kl # Absent
  BY <1>3, AsksAssumption DEF SearchRequest
<1>5. Listing(url) = list
  BY <1>3 DEF Listing
<1>6. places \in SUBSET DOMAIN corpus
  OBVIOUS
<1>7. /\ list \in Seq(ToSet(corpus))
      /\ \A k \in 1..Len(list) : \E p \in places : list[k] = corpus[p]
      /\ \A j, k \in 1..Len(list) : list[j] = list[k] => j = k
  <2> HIDE DEF places, corpus
  <2>1. QED
    BY <1>2, <1>6, KeepElements, KeepDistinct
<1>8. list \in Seq(Hits)
  BY <1>2, <1>7, SeqMonotonic
<1>9. \A k \in 1..Len(list) : /\ list[k] \in ToSet(corpus)
                              /\ r.lang # Absent => list[k].kl = Region[r.lang.code]
  BY <1>3, <1>4, <1>7 DEF ToSet
<1>10. QED
  BY <1>5, <1>7, <1>8, <1>9

\* The n hits of it that begin at s.
LEMMA Paged ==
    ASSUME NEW r \in SearchRequest, NEW n \in Batches
    PROVE  LET url == build_search_url(r)
               list == Listing(url)
               part == Page(url, n)
           IN /\ url.s \in Nat /\ n \in Nat
              /\ part \in Seq(Hits) /\ Len(part) <= n
              /\ \A k \in 1..Len(part) :
                    k <= n /\ url.s + k \in 1..Len(list) /\ part[k] = list[url.s + k]
              /\ \A p \in 1..Len(list) :
                    url.s < p /\ p <= url.s + n => p - url.s \in 1..Len(part)
<1> DEFINE url == build_search_url(r)
           list == Listing(url)
           s == url.s
           last == IF s + n < Len(list) THEN s + n ELSE Len(list)
           part == SubSeq(list, s + 1, last)
<1>1. url.s = (r.page - 1) * PageStride /\ r.page \in Nat \ {0} /\ PageStride \in Nat \ {0}
  BY LimitsAssumption DEF build_search_url, SearchRequest
<1>2. s \in Nat /\ n \in Nat
  BY <1>1, LimitsAssumption
<1>3. list \in Seq(Hits) /\ Len(list) \in Nat /\ \A k \in 1..Len(list) : list[k] \in Hits
  BY Listed, LenProperties, ElementOfSeq
<1>4. Page(url, n) = part
  BY DEF Page
<1> HIDE DEF list, s
<1>5. last \in Nat /\ last <= Len(list) /\ last <= s + n
  BY <1>1, <1>2, <1>3
<1>6. \A k \in (s + 1)..last : list[k] \in Hits
  BY <1>2, <1>3, <1>5
<1>7. /\ part \in Seq(Hits)
      /\ Len(part) = IF s + 1 <= last THEN last - (s + 1) + 1 ELSE 0
      /\ \A k \in 1..(last - (s + 1) + 1) : part[k] = list[s + 1 + k - 1]
  BY <1>2, <1>5, <1>6, SubSeqProperties
<1>8. \A k \in 1..Len(part) :
         k <= n /\ s + k \in 1..Len(list) /\ part[k] = list[s + k]
  BY <1>1, <1>2, <1>3, <1>5, <1>7
<1>9. /\ Len(part) <= n
      /\ \A p \in 1..Len(list) : s < p /\ p <= s + n => p - s \in 1..Len(part)
  BY <1>1, <1>2, <1>3, <1>5, <1>7
<1>10. QED
  BY <1>2, <1>4, <1>7, <1>8, <1>9 DEF list, s

\* A hit that the parser takes, and one that the level lets through as well.
Taken(h) == h.link = "web" /\ h.titled
Sound(h, level) == Taken(h) /\ Clear(h, level)

\* What the parser makes of a reply: hits of the page with a link and a title,
\* each no further back than it was and with all that it takes before it.
LEMMA ParsedPage ==
    ASSUME NEW r \in SearchRequest, NEW reply \in Replies
    PROVE  LET part == Page(build_search_url(r), reply.batch)
               hits == Parsed(reply, build_search_url(r))
           IN /\ hits \in Seq(Hits) /\ Len(hits) <= Len(part)
              /\ \A k \in 1..Len(hits) : \E j \in 1..Len(part) :
                    /\ hits[k] = part[j] /\ Taken(part[j])
                    /\ \A e \in 1..Len(part) : e <= j /\ Taken(part[e]) =>
                          \E m \in 1..Len(hits) : m <= k /\ hits[m] = part[e]
              /\ hits # <<>> =>
                    \A j \in 1..Len(part) : Taken(part[j]) =>
                        \E k \in 1..Len(hits) : k <= j /\ hits[k] = part[j]
<1> DEFINE part == Page(build_search_url(r), reply.batch)
           hits == Parsed(reply, build_search_url(r))
           places == {p \in DOMAIN part : extract_uddg_url(part[p]) /\ part[p].titled}
<1>1. part \in Seq(Hits) /\ DOMAIN part = 1..Len(part) /\ Len(part) \in Nat
  BY Paged, LenProperties DEF Replies
<1>2. CASE reply.body = "page"
  <2>1. hits = Keep(part)[places]
    BY <1>2 DEF Parsed, parse_results
  <2>2. places \in SUBSET DOMAIN part
    OBVIOUS
  <2>3. /\ hits \in Seq(Hits) /\ Len(hits) <= Len(part)
        /\ \A p \in places : \E k \in 1..Len(hits) : k <= p /\ hits[k] = part[p]
        /\ \A k \in 1..Len(hits) : \E p \in places :
              /\ hits[k] = part[p]
              /\ \A q \in places : q <= p =>
                    \E m \in 1..Len(hits) : m <= k /\ hits[m] = part[q]
    <3> HIDE DEF places, part, hits
    <3>1. hits \in Seq(Hits) /\ Len(hits) <= Len(part)
      BY <1>1, <2>1, <2>2, KeepElements
    <3>2. \A p \in places : \E k \in 1..Len(hits) : k <= p /\ hits[k] = part[p]
      BY <1>1, <2>1, <2>2, KeepOrder
    <3>3. \A k \in 1..Len(hits) : \E p \in places :
             /\ hits[k] = part[p]
             /\ \A q \in places : q <= p =>
                   \E m \in 1..Len(hits) : m <= k /\ hits[m] = part[q]
      <4>1. LET kept == Keep(part)[places]
            IN \A k \in 1..Len(kept) : \E p \in places :
                  /\ kept[k] = part[p]
                  /\ \A q \in places : q <= p =>
                        \E j \in 1..Len(kept) : j <= k /\ kept[j] = part[q]
        BY <1>1, <2>2, KeepOrder
      <4>2. QED
        BY <2>1, <4>1
    <3>4. QED
      BY <3>1, <3>2, <3>3
  <2>4. \A p \in 1..Len(part) : p \in places <=> Taken(part[p])
    BY <1>1 DEF extract_uddg_url, Taken
  <2>5. places \subseteq 1..Len(part)
    BY <1>1
  <2> HIDE DEF places, part, hits
  <2>6. ASSUME NEW k \in 1..Len(hits)
        PROVE  \E j \in 1..Len(part) :
                  /\ hits[k] = part[j] /\ Taken(part[j])
                  /\ \A e \in 1..Len(part) : e <= j /\ Taken(part[e]) =>
                        \E m \in 1..Len(hits) : m <= k /\ hits[m] = part[e]
    <3>1. PICK p \in places :
             /\ hits[k] = part[p]
             /\ \A q \in places : q <= p =>
                   \E m \in 1..Len(hits) : m <= k /\ hits[m] = part[q]
      BY <2>3
    <3>2. p \in 1..Len(part) /\ Taken(part[p])
      BY <2>4, <2>5
    <3>3. QED
      BY <2>4, <3>1, <3>2
  <2>7. \A j \in 1..Len(part) : Taken(part[j]) =>
           \E k \in 1..Len(hits) : k <= j /\ hits[k] = part[j]
    BY <2>3, <2>4
  <2>8. QED
    BY <2>3, <2>6, <2>7 DEF part, hits
<1>3. CASE reply.body # "page"
  <2>1. hits = <<>>
    BY <1>3 DEF Parsed
  <2>2. hits \in Seq(Hits) /\ Len(hits) = 0
    BY <2>1, EmptySeq
  <2> HIDE DEF part, hits
  <2>3. QED
    BY <1>1, <2>1, <2>2 DEF part, hits
<1>4. QED
  BY <1>2, <1>3

\* What a caller is served: hits of the page that the level lets through, with
\* none missing before them, up to the place where a page of results is full.
LEMMA Finalized ==
    ASSUME NEW r \in SearchRequest, NEW reply \in Replies
    PROVE  LET part == Page(build_search_url(r), reply.batch)
               made == finalize_results(Parsed(reply, build_search_url(r)), r)
           IN /\ made \in SearchResponse /\ made.page = r.page
              /\ Len(made.results) <= MaxPerPage /\ Len(made.results) <= made.total
              /\ \A k \in 1..Len(made.results) : \E j \in 1..Len(part) :
                    /\ made.results[k] = part[j] /\ Sound(part[j], r.safe)
                    /\ \A e \in 1..Len(part) : e <= j /\ Sound(part[e], r.safe) =>
                          \E m \in 1..Len(made.results) : made.results[m] = part[e]
              /\ made.total > 0 =>
                    \A j \in 1..Len(part) : j <= MaxPerPage /\ Sound(part[j], r.safe) =>
                        \E k \in 1..Len(made.results) : made.results[k] = part[j]
<1> DEFINE part == Page(build_search_url(r), reply.batch)
           hits == Parsed(reply, build_search_url(r))
           places == {p \in DOMAIN hits : Clear(hits[p], r.safe)}
           kept == Keep(hits)[places]
           most == IF MaxPerPage < Len(kept) THEN MaxPerPage ELSE Len(kept)
           results == SubSeq(kept, 1, most)
           made == finalize_results(hits, r)
<1>1. part \in Seq(Hits) /\ Len(part) \in Nat
  BY Paged, LenProperties DEF Replies
<1>2. /\ hits \in Seq(Hits) /\ Len(hits) <= Len(part)
      /\ DOMAIN hits = 1..Len(hits) /\ Len(hits) \in Nat
      /\ \A k \in 1..Len(hits) : \E j \in 1..Len(part) :
            /\ hits[k] = part[j] /\ Taken(part[j])
            /\ \A e \in 1..Len(part) : e <= j /\ Taken(part[e]) =>
                  \E m \in 1..Len(hits) : m <= k /\ hits[m] = part[e]
      /\ hits # <<>> =>
            \A j \in 1..Len(part) : Taken(part[j]) =>
                \E k \in 1..Len(hits) : k <= j /\ hits[k] = part[j]
  BY ParsedPage, LenProperties
<1>3. made = [results |-> results, total |-> Len(kept), page |-> r.page, cached |-> FALSE]
  BY DEF finalize_results, apply_safe_search_filter, Take
<1>4. /\ places \in SUBSET DOMAIN hits
      /\ \A p \in 1..Len(hits) : p \in places <=> Clear(hits[p], r.safe)
  BY <1>2
<1> HIDE DEF part, hits, places
<1>5. /\ kept \in Seq(Hits) /\ Len(kept) <= Len(hits)
      /\ \A p \in places : \E k \in 1..Len(kept) : k <= p /\ kept[k] = hits[p]
      /\ \A k \in 1..Len(kept) : \E p \in places :
            /\ kept[k] = hits[p]
            /\ \A q \in places : q <= p =>
                  \E m \in 1..Len(kept) : m <= k /\ kept[m] = hits[q]
  BY <1>2, <1>4, KeepElements, KeepOrder
<1>6. Len(kept) \in Nat /\ \A k \in 1..Len(kept) : kept[k] \in Hits
  BY <1>5, LenProperties, ElementOfSeq
<1> HIDE DEF kept
<1>7. MaxPerPage \in Nat \ {0}
  BY LimitsAssumption
<1>8. most \in 0..Len(kept) /\ most <= MaxPerPage
  BY <1>6, <1>7
<1>9. /\ results \in Seq(Hits) /\ Len(results) = most
      /\ \A k \in 1..most : results[k] = kept[k]
  <2>1. \A k \in 1..most : kept[k] \in Hits
    BY <1>6, <1>8
  <2>2. /\ results \in Seq(Hits)
        /\ Len(results) = IF 1 <= most THEN most - 1 + 1 ELSE 0
        /\ \A k \in 1..(most - 1 + 1) : results[k] = kept[1 + k - 1]
    <3> HIDE DEF most
    <3>1. QED
      BY <1>6, <1>8, <2>1, SubSeqProperties
  <2>3. QED
    BY <1>6, <1>8, <2>2
<1> HIDE DEF results
<1>10. /\ made \in SearchResponse /\ made.page = r.page
       /\ made.results = results /\ made.total = Len(kept)
  BY <1>3, <1>6, <1>9 DEF SearchResponse, SearchRequest
<1>11. ASSUME NEW k \in 1..Len(results)
       PROVE  \E j \in 1..Len(part) :
                 /\ results[k] = part[j] /\ Sound(part[j], r.safe)
                 /\ \A e \in 1..Len(part) : e <= j /\ Sound(part[e], r.safe) =>
                       \E m \in 1..Len(results) : results[m] = part[e]
  <2>1. k \in 1..Len(kept) /\ k <= most /\ results[k] = kept[k]
    BY <1>6, <1>8, <1>9
  <2>2. PICK p \in places :
           /\ kept[k] = hits[p]
           /\ \A q \in places : q <= p => \E m \in 1..Len(kept) : m <= k /\ kept[m] = hits[q]
    BY <1>5, <2>1
  <2>3. p \in 1..Len(hits) /\ Clear(hits[p], r.safe)
    BY <1>2, <1>4
  <2>4. PICK j \in 1..Len(part) :
           /\ hits[p] = part[j] /\ Taken(part[j])
           /\ \A e \in 1..Len(part) : e <= j /\ Taken(part[e]) =>
                 \E m \in 1..Len(hits) : m <= p /\ hits[m] = part[e]
    BY <1>2, <2>3
  <2>5. results[k] = part[j] /\ Sound(part[j], r.safe)
    BY <2>1, <2>2, <2>3, <2>4 DEF Sound
  <2>6. ASSUME NEW e \in 1..Len(part), e <= j, Sound(part[e], r.safe)
        PROVE  \E m \in 1..Len(results) : results[m] = part[e]
    <3>1. PICK q \in 1..Len(hits) : q <= p /\ hits[q] = part[e]
      BY <2>4, <2>6 DEF Sound
    <3>2. q \in places
      BY <1>4, <2>6, <3>1 DEF Sound
    <3>3. PICK m \in 1..Len(kept) : m <= k /\ kept[m] = hits[q]
      BY <2>2, <3>1, <3>2
    <3>4. m \in 1..most
      BY <1>6, <1>8, <2>1, <3>3
    <3>5. QED
      BY <1>9, <3>1, <3>3, <3>4
  <2>7. QED
    BY <2>5, <2>6
<1>12. ASSUME Len(kept) > 0,
              NEW j \in 1..Len(part), j <= MaxPerPage, Sound(part[j], r.safe)
       PROVE  \E k \in 1..Len(results) : results[k] = part[j]
  <2>1. hits # <<>>
    BY <1>2, <1>5, <1>6, <1>12, EmptySeq
  <2>2. PICK p \in 1..Len(hits) : p <= j /\ hits[p] = part[j]
    BY <1>2, <1>12, <2>1 DEF Sound
  <2>3. p \in places
    BY <1>4, <1>12, <2>2 DEF Sound
  <2>4. PICK k \in 1..Len(kept) : k <= p /\ kept[k] = hits[p]
    BY <1>5, <2>3
  <2>5. k \in 1..most
    BY <1>1, <1>2, <1>6, <1>7, <1>12, <2>2, <2>4
  <2>6. QED
    BY <1>9, <2>2, <2>4, <2>5
<1>13. Len(results) <= MaxPerPage /\ Len(results) <= Len(kept)
  BY <1>6, <1>7, <1>8, <1>9
<1> HIDE DEF made
<1>14. QED
  BY <1>10, <1>11, <1>12, <1>13 DEF made, hits, part

\* A key says all that a request asks for.
LEMMA KeyedBack == \A r \in SearchRequest : Keyed(CacheKey(r)) = r
BY DEF Keyed, CacheKey, SearchRequest

\* An answer that tells what happened may be told.
LEMMA Telling ==
    ASSUME AnswersInv, NEW a, Told(a), Tell(a)
    PROVE  CallInv' /\ AnswersInv'
<1> DEFINE S == ToSet(answers) \cup {a}
<1>1. CallInv'
  BY DEF Tell, CallInv
<1>2. answers \in Seq(S) /\ answers' = Append(answers, a)
  BY SeqMonotonic DEF AnswersInv, Tell
<1>3. /\ answers' \in Seq(S)
      /\ Len(answers') = Len(answers) + 1
      /\ \A n \in 1..Len(answers) : answers'[n] = answers[n]
      /\ answers'[Len(answers) + 1] = a
  BY <1>2, AppendProperties
<1>4. DOMAIN answers = 1..Len(answers) /\ Len(answers) \in Nat
  BY <1>2, LenProperties
<1>5. DOMAIN answers' = 1..(Len(answers) + 1)
  BY <1>3, LenProperties
<1>6. ASSUME NEW n \in DOMAIN answers' PROVE Told(answers'[n])
  <2>1. CASE n = Len(answers) + 1
    BY <2>1, <1>3
  <2>2. CASE n \in DOMAIN answers
    BY <2>2, <1>3, <1>4 DEF AnswersInv
  <2>3. QED
    BY <2>1, <2>2, <1>4, <1>5
<1>7. answers' \in Seq(ToSet(answers'))
  <2>1. \A n \in 1..Len(answers') : answers'[n] \in ToSet(answers')
    BY <1>3, <1>5 DEF ToSet
  <2>2. Len(answers') \in Nat /\ answers' \in [1..Len(answers') -> S]
    BY <1>3, LenProperties
  <2>3. answers' \in [1..Len(answers') -> ToSet(answers')]
    BY <2>1, <2>2
  <2>4. QED
    BY <2>2, <2>3, SeqDef
<1>8. AnswersInv'
  BY <1>6, <1>7 DEF AnswersInv
<1>9. QED
  BY <1>1, <1>8

\* Nothing has been asked and nothing is cached when the gateways start.
LEMMA RequestsInit == Init => RequestsInv
<1> SUFFICES ASSUME Init PROVE RequestsInv
  OBVIOUS
<1>1. answers = <<>> /\ cache = <<>> /\ call = Idle
  BY DEF Init
<1>2. AnswersInv
  BY <1>1, EmptySeq DEF AnswersInv
<1>3. CacheInv
  BY <1>1 DEF CacheInv
<1>4. QED
  BY <1>1, <1>2, <1>3 DEF RequestsInv, CallInv

\* A search over HTTP is refused or taken.
LEMMA HttpSearchInv ==
    ASSUME RequestsInv, NEW a \in SearchParams, HttpSearch(a)
    PROVE  RequestsInv'
<1> USE DEF RequestsInv
<1>1. cache' = cache /\ CacheInv'
  BY DEF HttpSearch, CacheInv
<1>2. CASE Takes("http", a)
  <2>1. Accept("http", a, try_from_params(a)) /\ ReadAs("http", a) = try_from_params(a)
    BY <1>2 DEF HttpSearch, Takes, ReadAs
  <2>2. try_from_params(a) \in SearchRequest
    BY <1>2, <2>1, TakesOnlySound DEF Gateways
  <2>3. CallInv' /\ AnswersInv'
    BY <1>2, <2>1, <2>2 DEF Accept, CallInv, SearchCall, AnswersInv, Gateways
  <2>4. QED
    BY <1>1, <2>3
<1>3. CASE ~Takes("http", a)
  <2> DEFINE told == [Blank EXCEPT !.ask = a, !.code = "400"]
  <2>1. Tell(told)
    BY <1>3 DEF HttpSearch, Takes, ReadAs
  <2>2. Told(told)
    BY <1>3, AsksAssumption DEF Blank, Gateways, Told
  <2> HIDE DEF told
  <2>3. QED
    BY <1>1, <2>1, <2>2, Telling
<1>4. QED
  BY <1>2, <1>3

\* So is one over MCP.
LEMMA McpSearchInv ==
    ASSUME RequestsInv, NEW a \in SearchParams, McpSearch(a)
    PROVE  RequestsInv'
<1> USE DEF RequestsInv
<1>1. cache' = cache /\ CacheInv'
  BY DEF McpSearch, CacheInv
<1>2. CASE Takes("mcp", a)
  <2>1. Accept("mcp", a, mcp_params(a)) /\ ReadAs("mcp", a) = mcp_params(a)
    BY <1>2 DEF McpSearch, Takes, ReadAs
  <2>2. mcp_params(a) \in SearchRequest
    BY <1>2, <2>1, TakesOnlySound DEF Gateways
  <2>3. CallInv' /\ AnswersInv'
    BY <1>2, <2>1, <2>2 DEF Accept, CallInv, SearchCall, AnswersInv, Gateways
  <2>4. QED
    BY <1>1, <2>3
<1>3. CASE ~Takes("mcp", a)
  <2> DEFINE told == [Blank EXCEPT !.gateway = "mcp", !.ask = a, !.code = "-32602"]
  <2>1. Tell(told)
    BY <1>3 DEF McpSearch, Takes, ReadAs
  <2>2. Told(told)
    BY <1>3, AsksAssumption DEF Blank, Gateways, Told
  <2> HIDE DEF told
  <2>3. QED
    BY <1>1, <2>1, <2>2, Telling
<1>4. QED
  BY <1>2, <1>3

\* An answer to anything but a search says nothing of searches.
LEMMA OtherAnswers ==
    ASSUME RequestsInv, NEW a, a.gateway \in Gateways, a.ask = Absent,
           a.response = Absent, Tell(a), cache' = cache
    PROVE  RequestsInv'
<1>1. Told(a)
  BY DEF Told
<1>2. CacheInv'
  BY DEF CacheInv, RequestsInv
<1>3. QED
  BY <1>1, <1>2, Telling DEF RequestsInv

\* So does a reply of MCP.
LEMMA McpReplies ==
    ASSUME RequestsInv, NEW code, cache' = cache,
           Tell([Blank EXCEPT !.gateway = "mcp", !.code = code])
    PROVE  RequestsInv'
<1> DEFINE told == [Blank EXCEPT !.gateway = "mcp", !.code = code]
<1>1. told.gateway \in Gateways /\ told.ask = Absent /\ told.response = Absent
  BY DEF Blank, Gateways
<1>2. Tell(told)
  OBVIOUS
<1> HIDE DEF told
<1>3. QED
  BY <1>1, <1>2, OtherAnswers

\* The call being served, in the stages after the checks.
LEMMA Serving ==
    ASSUME RequestsInv, call.stage # "idle"
    PROVE  /\ call \in SearchCall /\ call.req \in SearchRequest
           /\ call.gateway \in Gateways /\ call.ask \in SearchParams /\ call.ask # Absent
           /\ Takes(call.gateway, call.ask)
           /\ call.req = ReadAs(call.gateway, call.ask)
<1>1. call # Idle
  BY DEF Idle
<1>2. call \in SearchCall
  BY <1>1 DEF RequestsInv, CallInv
<1>3. call.ask # Absent
  BY <1>2, AsksAssumption DEF SearchCall
<1>4. QED
  BY <1>1, <1>2, <1>3 DEF RequestsInv, CallInv, SearchCall

\* A response that was made for the call's request may be served.
LEMMA ServingMade ==
    ASSUME RequestsInv, call.stage # "idle", NEW response,
           MadeFor(response, call.req), Serve(response)
    PROVE  CallInv' /\ AnswersInv'
<1> DEFINE told == [Blank EXCEPT !.gateway = call.gateway, !.ask = call.ask,
                                 !.req = call.req,
                                 !.code = SearchCode(call.gateway, "ParseEmpty"),
                                 !.response = response]
<1>1. /\ told.gateway = call.gateway /\ told.ask = call.ask /\ told.req = call.req
      /\ told.code = SearchCode(call.gateway, "ParseEmpty")
      /\ told.response = response /\ told.error = "none"
  BY DEF Blank
<1>2. Tell(told)
  BY DEF Serve
<1> HIDE DEF told
<1>3. Told(told)
  BY <1>1, Serving DEF Told
<1>4. QED
  BY <1>2, <1>3, Telling DEF RequestsInv

\* What the cache holds under the request's key was made for the request.
LEMMA LookupHitInv == ASSUME RequestsInv, LookupHit PROVE RequestsInv'
<1> DEFINE entry == cache[CacheKey(call.req)]
           response == [entry EXCEPT !.cached = TRUE]
<1>1. call.stage # "idle" /\ Serve(response) /\ cache' = cache
  BY DEF LookupHit
<1>2. MadeFor(entry, call.req)
  <2>1. Keyed(CacheKey(call.req)) = call.req
    BY <1>1, Serving, KeyedBack
  <2>2. QED
    BY <2>1 DEF LookupHit, RequestsInv, CacheInv
<1>3. MadeFor(response, call.req)
  <2>1. entry \in SearchResponse
    BY <1>2 DEF MadeFor
  <2>2. /\ response \in SearchResponse /\ response.results = entry.results
        /\ response.total = entry.total /\ response.page = entry.page
    BY <2>1 DEF SearchResponse
  <2> HIDE DEF response, entry
  <2>3. QED
    BY <1>2, <2>2 DEF MadeFor
<1>4. CallInv' /\ AnswersInv'
  <2> HIDE DEF response
  <2>1. QED
    BY <1>1, <1>3, ServingMade
<1>5. CacheInv'
  BY <1>1 DEF CacheInv, RequestsInv
<1>6. QED
  BY <1>4, <1>5 DEF RequestsInv

\* The engine's failure is told as what it is.
LEMMA EngineFailsInv == ASSUME RequestsInv, EngineFails PROVE RequestsInv'
<1>1. call.stage # "idle" /\ cache' = cache
  BY DEF EngineFails
<1>2. PICK error : /\ error # "none"
                   /\ Tell([Blank EXCEPT !.gateway = call.gateway, !.ask = call.ask,
                                         !.req = call.req, !.error = error,
                                         !.code = SearchCode(call.gateway, error)])
  BY DEF EngineFails
<1> DEFINE told == [Blank EXCEPT !.gateway = call.gateway, !.ask = call.ask,
                                 !.req = call.req, !.error = error,
                                 !.code = SearchCode(call.gateway, error)]
<1>3. /\ told.gateway = call.gateway /\ told.ask = call.ask /\ told.req = call.req
      /\ told.code = SearchCode(call.gateway, error)
      /\ told.response = Absent /\ told.error = error
  BY DEF Blank
<1> HIDE DEF told
<1>4. Told(told)
  BY <1>1, <1>2, <1>3, Serving DEF Told
<1>5. CallInv' /\ AnswersInv'
  <2>1. Tell(told)
    BY <1>2 DEF told
  <2>2. QED
    BY <1>4, <2>1, Telling DEF RequestsInv
<1>6. QED
  BY <1>1, <1>5 DEF RequestsInv, CacheInv

\* What the engine finds is served as it is cached, under its own key.
LEMMA EngineAnswersInv == ASSUME RequestsInv, EngineAnswers PROVE RequestsInv'
<1>1. call.stage # "idle"
  BY DEF EngineAnswers
<1> DEFINE made(reply) ==
               finalize_results(Parsed(reply, build_search_url(call.req)), call.req)
<1>2. PICK reply \in Replies :
         /\ Serve(made(reply))
         /\ cache' = [k \in DOMAIN cache \cup {CacheKey(call.req)} |->
                         IF k = CacheKey(call.req) THEN made(reply) ELSE cache[k]]
  BY DEF EngineAnswers
<1>3. call.req \in SearchRequest /\ Keyed(CacheKey(call.req)) = call.req
  BY <1>1, Serving, KeyedBack
<1>4. made(reply) \in SearchResponse /\ made(reply).page = call.req.page
  BY <1>3, Finalized
<1>5. MadeFor(made(reply), call.req)
  BY <1>4 DEF MadeFor
<1> HIDE DEF made
<1>6. CallInv' /\ AnswersInv'
  BY <1>1, <1>2, <1>5, ServingMade
<1>7. ASSUME NEW key \in DOMAIN cache' PROVE MadeFor(cache'[key], Keyed(key))
  <2>1. CASE key = CacheKey(call.req)
    BY <2>1, <1>2, <1>3, <1>5
  <2>2. CASE key # CacheKey(call.req)
    BY <2>2, <1>2 DEF RequestsInv, CacheInv
  <2>3. QED
    BY <2>1, <2>2
<1>8. CacheInv'
  BY <1>7 DEF CacheInv
<1>9. QED
  BY <1>6, <1>8 DEF RequestsInv

\* A line of MCP, whatever it asks.
LEMMA HandleMessageInv ==
    ASSUME RequestsInv, NEW m \in Lines, handle_message(m)
    PROVE  RequestsInv'
<1>1. ASSUME NEW code, McpReply(code) PROVE RequestsInv'
  BY <1>1, McpReplies DEF McpReply
<1>2. CASE m.ask # Absent /\ McpSearch(m.ask)
  <2>1. m.ask \in SearchParams
    BY <1>2, AsksAssumption
  <2>2. QED
    BY <1>2, <2>1, McpSearchInv
<1>3. CASE McpExtract(m.url)
  <2>1. PICK code : Tell([Blank EXCEPT !.gateway = "mcp", !.code = code]) /\ cache' = cache
    BY <1>3 DEF McpExtract
  <2>2. QED
    BY <2>1, McpReplies
<1>4. QED
  BY <1>1, <1>2, <1>3 DEF handle_message, handle_tools_call, UnknownTool

\* Every step keeps what is known of the call, the cache and the answers.
LEMMA RequestsNext == RequestsInv /\ [Next]_vars => RequestsInv'
<1> SUFFICES ASSUME RequestsInv, [Next]_vars PROVE RequestsInv'
  OBVIOUS
<1>1. ASSUME NEW a \in Asks, HttpSearch(a) PROVE RequestsInv'
  BY <1>1, HttpSearchInv, AsksAssumption
<1>2. ASSUME NEW u \in Urls, extract_handler(u) PROVE RequestsInv'
  <2>1. PICK code : Tell([Blank EXCEPT !.code = code]) /\ cache' = cache
    BY <1>2 DEF extract_handler
  <2> DEFINE told == [Blank EXCEPT !.code = code]
  <2>2. told.gateway \in Gateways /\ told.ask = Absent /\ told.response = Absent
    BY DEF Blank, Gateways
  <2> HIDE DEF told
  <2>3. Tell(told) /\ cache' = cache
    BY <2>1 DEF told
  <2>4. QED
    BY <2>2, <2>3, OtherAnswers
<1>3. ASSUME NEW m \in Lines, Notification(m) \/ Unparsable(m) PROVE RequestsInv'
  BY <1>3, McpReplies DEF Notification, Unparsable, McpReply
<1>4. ASSUME NEW m \in Lines, handle_message(m) PROVE RequestsInv'
  BY <1>4, HandleMessageInv
<1>5. CASE LookupMiss
  <2>1. call \in SearchCall /\ Takes(call.gateway, call.ask)
        /\ call.req = ReadAs(call.gateway, call.ask)
    BY <1>5, Serving DEF LookupMiss
  <2>2. CallInv'
    BY <1>5, <2>1 DEF LookupMiss, CallInv, SearchCall
  <2>3. CacheInv' /\ AnswersInv'
    BY <1>5 DEF LookupMiss, RequestsInv, CacheInv, AnswersInv
  <2>4. QED
    BY <2>2, <2>3 DEF RequestsInv
<1>6. ASSUME NEW k \in DOMAIN cache, Expire(k) PROVE RequestsInv'
  BY <1>6 DEF Expire, RequestsInv, CallInv, CacheInv, AnswersInv
<1>7. CASE UNCHANGED vars
  BY <1>7 DEF vars, RequestsInv, CallInv, CacheInv, AnswersInv
<1>8. QED
  BY <1>1, <1>2, <1>3, <1>4, <1>5, <1>6, <1>7, LookupHitInv, EngineFailsInv,
     EngineAnswersInv DEF Next

\* Whatever calls are made in whatever order, an answer is what its gateway's
\* reading of its parameters calls for.
THEOREM RequestsInvariance == Spec => []RequestsInv
BY RequestsInit, RequestsNext, PTL DEF Spec
\* What both gateways read values as that fit their types.
LEMMA ReadWithin ==
    ASSUME NEW g \in Gateways, NEW a \in SearchParams, Readable(a), Takes(g, a)
    PROVE  LET r == ReadAs(g, a)
           IN /\ r.page = OrElse(a.page, 1)
              /\ r.safe = OrElse(a.safe, IF g = "http" THEN SafeDefault ELSE 1)
              /\ r.query.text = a.query.text
              /\ a.lang # Absent => r.lang # Absent /\ r.lang.code = a.lang.code
<1> DEFINE r == ReadAs(g, a)
<1> USE LimitsAssumption, AsksAssumption
<1>1. r.page = OrElse(a.page, 1)
  <2>1. a.page \in Nat \cup {Absent} /\ (a.page # Absent => a.page < PageMod)
    BY DEF Readable, Fits, SearchParams, Counts
  <2>2. a.page # Absent => a.page % PageMod = a.page
    BY <2>1
  <2>3. QED
    BY <2>1, <2>2 DEF ReadAs, try_from_params, mcp_params, AsUnsigned, OrElse, Gateways
<1>2. r.safe = OrElse(a.safe, IF g = "http" THEN SafeDefault ELSE 1)
  <2>1. a.safe \in Nat \cup {Absent} /\ (a.safe # Absent => a.safe < SafeMod)
    BY DEF Readable, Fits, SearchParams, Counts
  <2>2. a.safe # Absent => a.safe % SafeMod = a.safe
    BY <2>1
  <2>3. QED
    BY <2>1, <2>2 DEF ReadAs, try_from_params, mcp_params, AsUnsigned, OrElse, Gateways
<1>3. r.query = Trim(a.query)
  BY DEF ReadAs, try_from_params, mcp_params
<1>4. r.query.text = a.query.text
  <2>1. a.query # Absent
    <3>1. r.query.length \in 1..QueryMax
      BY TakesOnlySound DEF SearchRequest
    <3>2. QED
      BY <1>3, <3>1 DEF Trim
  <2>2. a.query \in Queries
    BY <2>1 DEF SearchParams
  <2>3. QED
    BY <1>3, <2>1, <2>2 DEF Trim, Queries
<1>5. a.lang # Absent => r.lang # Absent /\ r.lang.code = a.lang.code
  <2>1. CASE a.lang \in Langs
    <3>1. r.lang \in Langs /\ r.lang.code = a.lang.code
      BY <2>1 DEF ReadAs, try_from_params, mcp_params, Langs
    <3>2. QED
      BY <3>1
  <2>2. QED
    BY <2>1 DEF SearchParams
<1>6. QED
  BY <1>1, <1>2, <1>4, <1>5

\* What is known of a response that was served.
LEMMA ServedFor ==
    ASSUME RequestsInv, NEW a \in Served
    PROVE  /\ a.gateway \in Gateways /\ a.ask \in SearchParams /\ Takes(a.gateway, a.ask)
           /\ a.req = ReadAs(a.gateway, a.ask) /\ a.req \in SearchRequest
           /\ MadeFor(a.response, a.req)
<1>1. Told(a) /\ a.response # Absent
  BY DEF Served, ToSet, RequestsInv, AnswersInv
<1>2. a.ask \in SearchParams /\ a.gateway \in Gateways /\ Takes(a.gateway, a.ask)
  BY <1>1 DEF Told
<1>3. QED
  BY <1>1, <1>2, TakesOnlySound, AsksAssumption DEF Told

\* Every hit served is one of the query's, of the region and within the level.
LEMMA AnswerFitsHolds == RequestsInv => AnswerFits
<1> SUFFICES ASSUME RequestsInv, NEW a \in Served, WithinWidth(a.ask)
             PROVE  LET hits == ToSet(a.response.results)
                    IN /\ a.response.page = OrElse(a.ask.page, 1)
                       /\ Len(a.response.results) <= MaxPerPage
                       /\ a.response.total >= Len(a.response.results)
                       /\ \A h \in hits :
                             /\ h \in ToSet(Corpus[a.ask.query.text])
                             /\ h.link = "web"
                             /\ a.ask.lang # Absent => h.kl = Region[a.ask.lang.code]
                             /\ LevelAsked(a) = 1 => (h.words \cup h.host) \cap Moderate = {}
                             /\ LevelAsked(a) = 2 => (h.words \cup h.host) \cap Strict = {}
  BY DEF AnswerFits
<1> DEFINE r == a.req
           list == Listing(build_search_url(r))
           results == a.response.results
<1>1. /\ a.gateway \in Gateways /\ a.ask \in SearchParams /\ Takes(a.gateway, a.ask)
      /\ r = ReadAs(a.gateway, a.ask) /\ r \in SearchRequest /\ MadeFor(a.response, r)
  BY ServedFor
<1>2. /\ r.page = OrElse(a.ask.page, 1) /\ r.safe = LevelAsked(a)
      /\ r.query.text = a.ask.query.text
      /\ a.ask.lang # Absent => r.lang # Absent /\ r.lang.code = a.ask.lang.code
  BY <1>1, ReadWithin DEF WithinWidth, LevelAsked
<1> HIDE DEF r
<1>3. PICK reply \in Replies :
         LET made == finalize_results(Parsed(reply, build_search_url(r)), r)
         IN /\ results = made.results
            /\ a.response.total = made.total
            /\ a.response.page = made.page
  BY <1>1 DEF MadeFor
<1> DEFINE part == Page(build_search_url(r), reply.batch)
<1>4. /\ a.response.page = r.page
      /\ Len(results) <= MaxPerPage /\ Len(results) <= a.response.total
      /\ \A k \in 1..Len(results) : \E j \in 1..Len(part) :
            results[k] = part[j] /\ part[j].link = "web" /\ Clear(part[j], r.safe)
  <2> DEFINE made == finalize_results(Parsed(reply, build_search_url(r)), r)
  <2>1. /\ made.page = r.page
        /\ Len(made.results) <= MaxPerPage /\ Len(made.results) <= made.total
        /\ \A k \in 1..Len(made.results) : \E j \in 1..Len(part) :
              made.results[k] = part[j] /\ part[j].link = "web" /\ Clear(part[j], r.safe)
    BY <1>1, Finalized DEF Sound, Taken
  <2>2. results = made.results /\ a.response.total = made.total /\ a.response.page = made.page
    BY <1>3
  <2> HIDE DEF made, results, part
  <2>3. QED
    BY <2>1, <2>2
<1>5. DOMAIN results = 1..Len(results) /\ Len(results) \in Nat /\ a.response.total \in Nat
  BY <1>1, LenProperties DEF MadeFor, SearchResponse
<1>6. \A j \in 1..Len(part) : \E p \in 1..Len(list) : part[j] = list[p]
  BY <1>1, Paged DEF Replies
<1>7. \A p \in 1..Len(list) :
         /\ list[p] \in ToSet(Corpus[r.query.text])
         /\ r.lang # Absent => list[p].kl = Region[r.lang.code]
  BY <1>1, Listed
<1> HIDE DEF results, part, list
<1>8. ASSUME NEW h \in ToSet(results)
      PROVE  /\ h \in ToSet(Corpus[a.ask.query.text])
             /\ h.link = "web"
             /\ a.ask.lang # Absent => h.kl = Region[a.ask.lang.code]
             /\ LevelAsked(a) = 1 => (h.words \cup h.host) \cap Moderate = {}
             /\ LevelAsked(a) = 2 => (h.words \cup h.host) \cap Strict = {}
  <2>1. PICK k \in 1..Len(results) : h = results[k]
    BY <1>5 DEF ToSet
  <2>2. PICK p \in 1..Len(list) : h = list[p]
    BY <1>4, <1>6, <2>1
  <2>3. h.link = "web" /\ Clear(h, r.safe)
    BY <1>4, <2>1
  <2>4. /\ LevelAsked(a) = 1 => (h.words \cup h.host) \cap Moderate = {}
        /\ LevelAsked(a) = 2 => (h.words \cup h.host) \cap Strict = {}
    BY <1>2, <2>3 DEF Clear, Blocklist
  <2>5. QED
    BY <1>2, <1>7, <2>2, <2>3, <2>4
<1>9. QED
  BY <1>2, <1>4, <1>5, <1>8 DEF results

\* What a page of results shows are the hits of its batch.
LEMMA PagesTileHolds == RequestsInv => PagesTile
<1> SUFFICES ASSUME RequestsInv, NEW a \in Served
             PROVE  LET url == build_search_url(a.req)
                        list == Listing(url)
                        shown(p) == list[p] \in ToSet(a.response.results)
                        sound(p) == /\ list[p].link = "web" /\ list[p].titled
                                    /\ Clear(list[p], a.req.safe)
                    IN /\ \E b \in Batches : \A p \in DOMAIN list :
                             /\ shown(p) => url.s < p /\ p <= url.s + b
                             /\ /\ sound(p) /\ a.response.total > 0
                                /\ url.s < p /\ p <= url.s + b /\ p <= url.s + MaxPerPage
                                => shown(p)
                       /\ \A p, q \in DOMAIN list :
                             url.s < p /\ p < q /\ shown(q) /\ sound(p) => shown(p)
  BY DEF PagesTile
<1> DEFINE r == a.req
           s == build_search_url(r).s
           list == Listing(build_search_url(r))
           results == a.response.results
<1>1. r \in SearchRequest /\ MadeFor(a.response, r)
  BY ServedFor
<1>2. PICK reply \in Replies :
         LET made == finalize_results(Parsed(reply, build_search_url(r)), r)
         IN results = made.results /\ a.response.total = made.total
  BY <1>1 DEF MadeFor
<1> DEFINE b == reply.batch
           part == Page(build_search_url(r), b)
<1>3. /\ \A k \in 1..Len(results) : \E j \in 1..Len(part) :
            /\ results[k] = part[j]
            /\ \A e \in 1..Len(part) : e <= j /\ Sound(part[e], r.safe) =>
                  \E m \in 1..Len(results) : results[m] = part[e]
      /\ a.response.total > 0 =>
            \A j \in 1..Len(part) : j <= MaxPerPage /\ Sound(part[j], r.safe) =>
                \E k \in 1..Len(results) : results[k] = part[j]
  BY <1>1, <1>2, Finalized
<1>4. DOMAIN results = 1..Len(results)
  BY <1>1, LenProperties DEF MadeFor, SearchResponse
<1>5. b \in Batches
  BY DEF Replies
<1>6. /\ s \in Nat /\ b \in Nat
      /\ \A k \in 1..Len(part) :
            k <= b /\ s + k \in 1..Len(list) /\ part[k] = list[s + k]
      /\ \A p \in 1..Len(list) : s < p /\ p <= s + b => p - s \in 1..Len(part)
  BY <1>1, <1>5, Paged
<1>7. /\ DOMAIN list = 1..Len(list) /\ Len(list) \in Nat
      /\ \A j, k \in 1..Len(list) : list[j] = list[k] => j = k
  BY <1>1, Listed, LenProperties
<1>8. Len(part) \in Nat /\ MaxPerPage \in Nat
  BY <1>1, <1>5, Paged, LenProperties, LimitsAssumption
<1> HIDE DEF results, list, part, s, r, b
<1>9. ASSUME NEW q \in DOMAIN list, list[q] \in ToSet(results)
      PROVE  /\ q - s \in 1..Len(part) /\ s < q /\ q <= s + b
             /\ \A e \in 1..Len(part) : e <= q - s /\ Sound(part[e], r.safe) =>
                   part[e] \in ToSet(results)
  <2>1. PICK k \in 1..Len(results) : list[q] = results[k]
    BY <1>4, <1>9 DEF ToSet
  <2>2. PICK j \in 1..Len(part) :
           /\ results[k] = part[j]
           /\ \A e \in 1..Len(part) : e <= j /\ Sound(part[e], r.safe) =>
                 \E m \in 1..Len(results) : results[m] = part[e]
    BY <1>3
  <2>3. j <= b /\ s + j \in 1..Len(list) /\ list[q] = list[s + j]
    BY <1>6, <2>1, <2>2
  <2>4. q = s + j
    BY <1>7, <2>3
  <2>5. q - s = j /\ s < q /\ q <= s + b
    BY <1>6, <1>8, <2>3, <2>4
  <2>6. \A m \in 1..Len(results) : results[m] \in ToSet(results)
    BY <1>4 DEF ToSet
  <2>7. QED
    BY <2>2, <2>5, <2>6
<1>10. ASSUME NEW p \in DOMAIN list, s < p, p <= s + b, p <= s + MaxPerPage,
              Sound(list[p], r.safe), a.response.total > 0
       PROVE  list[p] \in ToSet(results)
  <2>1. p - s \in 1..Len(part) /\ s + (p - s) = p /\ p - s <= MaxPerPage
    BY <1>6, <1>7, <1>8, <1>10
  <2>2. part[p - s] = list[p]
    BY <1>6, <2>1
  <2>3. PICK k \in 1..Len(results) : results[k] = part[p - s]
    BY <1>3, <1>10, <2>1, <2>2
  <2>4. QED
    BY <1>4, <2>2, <2>3 DEF ToSet
<1>11. ASSUME NEW p \in DOMAIN list, NEW q \in DOMAIN list, s < p, p < q,
              list[q] \in ToSet(results), Sound(list[p], r.safe)
       PROVE  list[p] \in ToSet(results)
  <2>1. p - s \in 1..Len(part) /\ p - s <= q - s /\ s + (p - s) = p
    BY <1>6, <1>7, <1>8, <1>9, <1>11
  <2>2. part[p - s] = list[p]
    BY <1>6, <2>1
  <2>3. QED
    BY <1>9, <1>11, <2>1, <2>2
<1>12. \A p \in DOMAIN list :
          /\ list[p] \in ToSet(results) => s < p /\ p <= s + b
          /\ /\ Sound(list[p], r.safe) /\ a.response.total > 0
             /\ s < p /\ p <= s + b /\ p <= s + MaxPerPage
             => list[p] \in ToSet(results)
  BY <1>9, <1>10
<1>13. \A p \in DOMAIN list :
          Sound(list[p], r.safe) <=> /\ list[p].link = "web" /\ list[p].titled
                                     /\ Clear(list[p], r.safe)
  BY DEF Sound, Taken
<1>14. QED
  BY <1>5, <1>11, <1>12, <1>13 DEF results, list, s, r

\* Values that both gateways can read are one search to both.
LEMMA ReadAlike ==
    ASSUME NEW a \in SearchParams, Readable(a),
           a.safe # Absent \/ SafeDefault = 1, a.lang = Absent \/ a.lang.tidy
    PROVE  ReadAs("http", a) = ReadAs("mcp", a)
<1> USE LimitsAssumption, AsksAssumption
<1>1. OrElse(a.page, 1) = AsUnsigned(a.page, PageMod)
  BY DEF OrElse, AsUnsigned, Readable, Fits, SearchParams, Counts
<1>2. OrElse(a.safe, SafeDefault) = AsUnsigned(a.safe, SafeMod)
  BY DEF OrElse, AsUnsigned, Readable, Fits, SearchParams, Counts
<1>3. a.lang # Absent => [a.lang EXCEPT !.tidy = TRUE] = a.lang
  BY DEF SearchParams, Langs
<1>4. QED
  BY <1>1, <1>2, <1>3 DEF ReadAs, try_from_params, mcp_params

\* The same parameters are refused by both or are the same search to both.
LEMMA GatewaysAgreeHolds == RequestsInv => GatewaysAgree
<1> SUFFICES ASSUME RequestsInv, NEW h \in ToSet(answers), NEW m \in ToSet(answers),
                    h.gateway = "http", m.gateway = "mcp",
                    h.ask # Absent, h.ask = m.ask, WithinWidth(h.ask),
                    h.ask.safe # Absent \/ SafeDefault = 1,
                    h.ask.lang = Absent \/ h.ask.lang.tidy
             PROVE  /\ h.req = m.req
                    /\ h.req = Absent => h.code = "400" /\ m.code = "-32602"
                    /\ h.error = m.error => <<h.code, m.code>> \in
                          {<<"200", "result">>, <<"400", "-32602">>,
                           <<"503", "-32000">>, <<"500", "-32603">>}
  BY DEF GatewaysAgree
<1>1. Told(h) /\ Told(m)
  BY DEF ToSet, RequestsInv, AnswersInv
<1>2. h.ask \in SearchParams
  BY <1>1 DEF Told
<1>3. ReadAs("http", h.ask) = ReadAs("mcp", h.ask)
  BY <1>2, ReadAlike DEF WithinWidth
<1>4. Takes("http", h.ask) <=> Takes("mcp", h.ask)
  BY <1>3 DEF Takes, WithinWidth
<1>5. CASE Takes("http", h.ask)
  <2>1. h.req = ReadAs("http", h.ask) /\ m.req = ReadAs("mcp", h.ask)
    BY <1>1, <1>4, <1>5 DEF Told
  <2>2. h.req = m.req /\ h.req # Absent
    BY <1>2, <1>3, <1>5, <2>1, TakesOnlySound DEF Gateways
  <2>3. QED
    BY <1>1, <1>4, <1>5, <2>2 DEF Told, SearchCode, HttpCode, McpCode
<1>6. CASE ~Takes("http", h.ask)
  BY <1>1, <1>4, <1>6 DEF Told
<1>7. QED
  BY <1>5, <1>6

\* A caller gets what was asked for, whichever gateway cached it.
THEOREM AnswersFit == Spec => []AnswerFits
BY RequestsInvariance, AnswerFitsHolds, PTL

\* A page shows what DuckDuckGo put on it and the level lets through, in order
\* and without a gap, until it is full: whatever the batches and the limit.
THEOREM PagesShowTheirBatches == Spec => []PagesTile
BY RequestsInvariance, PagesTileHolds, PTL

\* What both gateways can read, both understand alike.
THEOREM BothGatewaysAgree == Spec => []GatewaysAgree
BY RequestsInvariance, GatewaysAgreeHolds, PTL

-----------------------------------------------------------------------------
(* What the scanners around the extraction library write                   *)

Blanks == Space \cup {Marker}
Bytes == (UNION {ToSet(p) : p \in Pages}) \cup Blanks

\* The inductive invariant: a scanner is somewhere in what it reads, or just
\* past it, and has lost nothing of what is behind it.
ScanInv ==
    /\ input \in Seq(Bytes) /\ out \in Seq(Bytes)
    /\ i \in 1..(Len(input) + 1)
    /\ NothingLost

\* A set of places that is not empty has a first one.
LEMMA LeastOf ==
    ASSUME NEW n \in Nat, NEW S \in SUBSET (1..n), NEW default
    PROVE  IF S = {} THEN Least(default)[S] = default ELSE Least(default)[S] \in S
<1>1. Least(default)[S] = IF S = {} THEN default ELSE Min(S)
  BY DEF Least
<1>2. ASSUME S # {}
      PROVE  Min(S) \in S
  <2>1. /\ IsFiniteSet(S) /\ Cardinality(S) \in 0..n
        /\ \A p \in S : Rank(S, p) \in 1..Cardinality(S)
        /\ \A p, q \in S : Rank(S, p) = Rank(S, q) => p = q
        /\ \A k \in 1..Cardinality(S) : \E p \in S : Rank(S, p) = k
    BY Ranks
  <2>2. 1 \in 1..Cardinality(S)
    BY <1>2, <2>1, FS_EmptySet
  <2>3. PICK p \in S : Rank(S, p) = 1
    BY <2>1, <2>2
  <2>4. ASSUME NEW q \in S, q < p
        PROVE  FALSE
    <3>1. S \cap (1..q) \subseteq S \cap (1..p)
      BY <2>4
    <3>2. IsFiniteSet(S \cap (1..p))
      BY <2>1, FS_Subset
    <3>3. Rank(S, q) <= Rank(S, p)
      BY <3>1, <3>2, FS_Subset DEF Rank
    <3>4. Rank(S, q) = 1
      BY <2>1, <2>3, <3>3
    <3>5. QED
      BY <2>1, <2>3, <2>4, <3>4
  <2>5. p \in S /\ \A q \in S : p <= q
    BY <2>4
  <2>6. QED
    BY <2>5 DEF Min
<1>3. QED
  BY <1>1, <1>2

\* Where the scanners go lies between where they are and the end.
LEMMA TagEndWithin ==
    ASSUME NEW S, NEW s \in Seq(S), NEW k \in 1..(Len(s) + 1)
    PROVE  TagEnd(s, k) # 0 => TagEnd(s, k) \in k..Len(s)
<1>1. Len(s) \in Nat /\ k..Len(s) \subseteq 1..Len(s)
  BY LenProperties
<1>2. PICK T \in SUBSET (k..Len(s)) : TagEnd(s, k) = Least(0)[T]
  BY DEF TagEnd
<1>3. T \in SUBSET (1..Len(s))
  BY <1>1
<1>4. IF T = {} THEN Least(0)[T] = 0 ELSE Least(0)[T] \in T
  BY <1>1, <1>3, LeastOf
<1>5. QED
  BY <1>2, <1>4

\* So does the end of a closing tag.
LEMMA CloseEndWithin ==
    ASSUME NEW S, NEW s \in Seq(S), NEW k \in 1..(Len(s) + 1), NEW name
    PROVE  CloseEnd(s, k, name) # 0 => CloseEnd(s, k, name) \in k..Len(s)
<1> DEFINE T == {n \in (k + 3)..Len(s) : s[n] \notin Space}
           end == Least(0)[T]
<1>1. Len(s) \in Nat /\ T \in SUBSET (1..Len(s))
  BY LenProperties
<1>2. IF T = {} THEN Least(0)[T] = 0 ELSE Least(0)[T] \in T
  BY <1>1, LeastOf
<1>3. end # 0 => end \in k..Len(s)
  BY <1>1, <1>2
<1>4. CloseEnd(s, k, name) \in {0, end}
  BY DEF CloseEnd
<1>5. QED
  BY <1>3, <1>4

\* And the end of whichever closing tag ends a line.
LEMMA LineEndWithin ==
    ASSUME NEW S, NEW s \in Seq(S), NEW k \in 1..(Len(s) + 1)
    PROVE  LineEnd(s, k) # 0 => LineEnd(s, k) \in k..Len(s)
<1> DEFINE T == {CloseEnd(s, k, t) : t \in LineTags} \ {0}
<1>1. Len(s) \in Nat
  BY LenProperties
<1>2. T \subseteq k..Len(s)
  BY CloseEndWithin
<1>3. T \in SUBSET (1..Len(s))
  BY <1>1, <1>2
<1>4. IF T = {} THEN Least(0)[T] = 0 ELSE Least(0)[T] \in T
  BY <1>1, <1>3, LeastOf
<1>5. QED
  BY <1>2, <1>4 DEF LineEnd

\* The next "<" may also be missing: then the end is next.
LEMMA NextLtWithin ==
    ASSUME NEW S, NEW s \in Seq(S), NEW k \in 1..(Len(s) + 1)
    PROVE  NextLt(s, k) \in k..(Len(s) + 1)
<1> DEFINE T == {n \in k..Len(s) : s[n] = "<"}
<1>1. Len(s) \in Nat /\ T \in SUBSET (1..Len(s))
  BY LenProperties
<1>2. IF T = {} THEN Least(Len(s) + 1)[T] = Len(s) + 1 ELSE Least(Len(s) + 1)[T] \in T
  BY <1>1, LeastOf
<1>3. NextLt(s, k) = Least(Len(s) + 1)[T]
  BY DEF NextLt
<1>4. QED
  BY <1>1, <1>2, <1>3

\* The places of what stands behind m bytes.
Shifted(m, B) == {m + b : b \in B}

\* How many places there are in two stretches.
LEMMA TwoStretches ==
    ASSUME NEW m \in Nat, NEW A \in SUBSET (1..m),
           NEW B \in SUBSET (Nat \ {0}), IsFiniteSet(B)
    PROVE  Cardinality(A \cup Shifted(m, B)) = Cardinality(A) + Cardinality(B)
<1> DEFINE C == Shifted(m, B)
           shift == [b \in B |-> m + b]
<1>1. IsFiniteSet(A)
  BY Ranks
<1>2. /\ shift \in Bijection(B, C)
  BY DEF Shifted, Bijection, Injection, Surjection, IsInjective
<1>3. ExistsBijection(B, C)
  BY <1>2 DEF ExistsBijection
<1>4. IsFiniteSet(C) /\ Cardinality(C) = Cardinality(B)
  BY <1>1, <1>3, FS_Bijection
<1>5. A \cap C = {}
  BY DEF Shifted
<1>6. Cardinality(A \cap C) = 0
  BY <1>5, FS_EmptySet
<1>7. Cardinality(A) \in Nat /\ Cardinality(B) \in Nat
  BY <1>1, FS_CardinalityType
<1>8. Cardinality(A \cup C) = Cardinality(A) + Cardinality(C) - Cardinality(A \cap C)
  BY <1>1, <1>4, FS_Union
<1>9. QED
  BY <1>4, <1>6, <1>7, <1>8

\* The places of the visible bytes.
InkPlaces(s) == {k \in DOMAIN s : s[k] \notin Blanks}

\* They are what Ink keeps.
LEMMA InkKeeps ==
    ASSUME NEW S, NEW s \in Seq(S)
    PROVE  /\ Ink(s) = Keep(s)[InkPlaces(s)]
           /\ InkPlaces(s) \in SUBSET DOMAIN s
           /\ InkPlaces(s) \in SUBSET (1..Len(s))
<1>1. DOMAIN s = 1..Len(s)
  BY LenProperties
<1>2. QED
  BY <1>1 DEF Ink, InkPlaces, Blanks

\* The visible bytes of two texts in a row are those of the one and then
\* those of the other.
LEMMA InkConcat ==
    ASSUME NEW S, NEW s \in Seq(S), NEW t \in Seq(S)
    PROVE  /\ Ink(s \o t) = Ink(s) \o Ink(t)
           /\ Ink(s) \in Seq(S)
<1> DEFINE m == Len(s)
           n == Len(t)
           u == s \o t
           A == InkPlaces(s)
           B == InkPlaces(t)
           C == InkPlaces(u)
           a == Cardinality(A)
           b == Cardinality(B)
<1>1. /\ m \in Nat /\ n \in Nat
      /\ DOMAIN s = 1..m /\ DOMAIN t = 1..n
  BY LenProperties
<1>2. /\ u \in Seq(S) /\ Len(u) = m + n
      /\ \A k \in 1..(m + n) : u[k] = IF k <= m THEN s[k] ELSE t[k - m]
  BY ConcatProperties
<1>3. DOMAIN u = 1..(m + n)
  BY <1>2, LenProperties
<1>4. /\ A \in SUBSET (1..m) /\ B \in SUBSET (1..n)
      /\ A \in SUBSET DOMAIN s /\ B \in SUBSET DOMAIN t /\ C \in SUBSET DOMAIN u
      /\ Ink(s) = Keep(s)[A] /\ Ink(t) = Keep(t)[B] /\ Ink(u) = Keep(u)[C]
  BY <1>2, InkKeeps
<1>5. C = A \cup Shifted(m, B)
  <2>1. ASSUME NEW k \in 1..(m + n)
        PROVE  k \in C <=> k \in A \cup Shifted(m, B)
    <3>1. CASE k <= m
      <4>1. u[k] = s[k]
        BY <1>1, <1>2, <3>1
      <4>2. k \in C <=> k \in A
        BY <1>1, <1>3, <3>1, <4>1 DEF InkPlaces
      <4>3. k \notin Shifted(m, B)
        BY <1>1, <1>4, <3>1 DEF Shifted
      <4>4. QED
        BY <4>2, <4>3
    <3>2. CASE k > m
      <4>1. u[k] = t[k - m] /\ k - m \in 1..n
        BY <1>1, <1>2, <3>2
      <4>2. k \in C <=> k - m \in B
        BY <1>1, <1>3, <4>1 DEF InkPlaces
      <4>3. k - m \in B <=> k \in Shifted(m, B)
        BY <1>1, <1>4 DEF Shifted
      <4>4. k \notin A
        BY <1>1, <1>4, <3>2
      <4>5. QED
        BY <4>2, <4>3, <4>4
    <3>3. QED
      BY <1>1, <3>1, <3>2
  <2>2. A \cup Shifted(m, B) \subseteq 1..(m + n)
    BY <1>1, <1>4 DEF Shifted
  <2>3. QED
    BY <1>3, <1>4, <2>1, <2>2
<1> HIDE DEF u, A, B, C
<1>6. Cardinality(C) = a + b
  <2>1. m \in Nat /\ A \in SUBSET (1..m) /\ B \in SUBSET (Nat \ {0}) /\ IsFiniteSet(B)
    <3>1. n \in Nat /\ B \in SUBSET (1..n)
      BY <1>1, <1>4
    <3>2. IsFiniteSet(B)
      BY <3>1, Ranks
    <3>3. QED
      BY <1>1, <1>4, <3>1, <3>2
  <2> HIDE DEF m, n
  <2>2. Cardinality(A \cup Shifted(m, B)) = Cardinality(A) + Cardinality(B)
    BY <2>1, TwoStretches
  <2>3. QED
    BY <1>5, <2>2
<1>7. ASSUME NEW p \in A
      PROVE  Rank(C, p) = Rank(A, p)
  <2>1. C \cap (1..p) = A \cap (1..p)
    BY <1>1, <1>4, <1>5 DEF Shifted
  <2>2. QED
    BY <2>1 DEF Rank
<1>8. ASSUME NEW q \in B
      PROVE  Rank(C, m + q) = a + Rank(B, q)
  <2>1. q \in 1..n /\ B \cap (1..q) \in SUBSET (1..n)
    BY <1>4
  <2>2. C \cap (1..(m + q)) = A \cup Shifted(m, B \cap (1..q))
    BY <1>1, <1>4, <1>5, <2>1 DEF Shifted
  <2> HIDE DEF m, n
  <2>3. /\ m \in Nat /\ A \in SUBSET (1..m)
        /\ B \cap (1..q) \in SUBSET (Nat \ {0}) /\ IsFiniteSet(B \cap (1..q))
    BY <1>1, <1>4, <2>1, Ranks
  <2>4. Cardinality(A \cup Shifted(m, B \cap (1..q)))
           = Cardinality(A) + Cardinality(B \cap (1..q))
    BY <2>3, TwoStretches
  <2>5. QED
    BY <2>2, <2>4 DEF Rank
<1>9. /\ Ink(s) \in Seq(S) /\ Len(Ink(s)) = a
      /\ \A p \in A : Rank(A, p) \in 1..a /\ Ink(s)[Rank(A, p)] = s[p]
  <2> DEFINE kept == Keep(s)[A]
  <2>1. /\ kept \in Seq(S)
        /\ Len(kept) = Cardinality(A) /\ Len(kept) <= Len(s)
        /\ \A p \in A : Rank(A, p) \in 1..Len(kept)
        /\ \A p \in A : kept[Rank(A, p)] = s[p]
        /\ \A k \in 1..Len(kept) : \E p \in A : Rank(A, p) = k
    BY <1>4, KeepRanks
  <2>2. QED
    BY <1>4, <2>1
<1>10. /\ Ink(t) \in Seq(S) /\ Len(Ink(t)) = b
       /\ \A q \in B : Rank(B, q) \in 1..b /\ Ink(t)[Rank(B, q)] = t[q]
  <2> DEFINE kept == Keep(t)[B]
  <2>1. /\ kept \in Seq(S)
        /\ Len(kept) = Cardinality(B) /\ Len(kept) <= Len(t)
        /\ \A p \in B : Rank(B, p) \in 1..Len(kept)
        /\ \A p \in B : kept[Rank(B, p)] = t[p]
        /\ \A k \in 1..Len(kept) : \E p \in B : Rank(B, p) = k
    BY <1>4, KeepRanks
  <2>2. QED
    BY <1>4, <2>1
<1>11. /\ Ink(u) \in Seq(S) /\ Len(Ink(u)) = a + b
       /\ \A p \in C : Ink(u)[Rank(C, p)] = u[p]
       /\ \A k \in 1..(a + b) : \E p \in C : Rank(C, p) = k
  <2> DEFINE kept == Keep(u)[C]
  <2>1. /\ kept \in Seq(S)
        /\ Len(kept) = Cardinality(C) /\ Len(kept) <= Len(u)
        /\ \A p \in C : Rank(C, p) \in 1..Len(kept)
        /\ \A p \in C : kept[Rank(C, p)] = u[p]
        /\ \A k \in 1..Len(kept) : \E p \in C : Rank(C, p) = k
    BY <1>2, <1>4, KeepRanks
  <2>2. QED
    BY <1>4, <1>6, <2>1
<1>12. /\ Ink(s) \o Ink(t) \in Seq(S)
       /\ Len(Ink(s) \o Ink(t)) = a + b
       /\ \A k \in 1..(a + b) :
             (Ink(s) \o Ink(t))[k] = IF k <= a THEN Ink(s)[k] ELSE Ink(t)[k - a]
  <2>1. Ink(s) \in Seq(S) /\ Ink(t) \in Seq(S)
    BY <1>9, <1>10
  <2> HIDE DEF a, b
  <2>2. QED
    BY <1>9, <1>10, <2>1, ConcatProperties
<1>13. a \in Nat /\ b \in Nat
  BY <1>9, <1>10, LenProperties
<1>14. ASSUME NEW k \in 1..(a + b)
       PROVE  Ink(u)[k] = (Ink(s) \o Ink(t))[k]
  <2>1. PICK p \in C : Rank(C, p) = k
    BY <1>11
  <2>2. CASE p \in A
    <3>1. k = Rank(A, p) /\ k <= a
      BY <1>7, <1>9, <1>13, <2>1, <2>2
    <3>2. u[p] = s[p]
      BY <1>1, <1>2, <1>4, <2>2
    <3>3. QED
      BY <1>9, <1>11, <1>12, <2>1, <2>2, <3>1, <3>2
  <2>3. CASE p \notin A
    <3>1. PICK q \in B : p = m + q
      BY <1>5, <2>3 DEF Shifted
    <3>2. q \in 1..n /\ Rank(B, q) \in 1..b
      BY <1>4, <1>10
    <3>3. k = a + Rank(B, q) /\ ~(k <= a) /\ k - a = Rank(B, q)
      BY <1>8, <1>13, <2>1, <3>1, <3>2
    <3>4. u[p] = t[q]
      BY <1>1, <1>2, <3>1, <3>2
    <3>5. QED
      BY <1>10, <1>11, <1>12, <2>1, <3>2, <3>3, <3>4
  <2>4. QED
    BY <2>2, <2>3
<1>15. Ink(u) = Ink(s) \o Ink(t)
  <2> DEFINE x == Ink(u)
             y == Ink(s) \o Ink(t)
  <2>1. x \in Seq(S) /\ y \in Seq(S) /\ Len(x) = Len(y) /\ Len(x) = a + b
    BY <1>11, <1>12
  <2>2. \A k \in 1..Len(x) : x[k] = y[k]
    BY <1>14, <2>1
  <2> HIDE DEF x, y
  <2>3. x = y
    BY <2>1, <2>2, SeqEqual
  <2>4. QED
    BY <2>3 DEF x, y
<1>16. QED
  BY <1>9, <1>15 DEF u

\* White space and markers are not visible.
LEMMA InkBlank ==
    ASSUME NEW s, \A k \in DOMAIN s : s[k] \in Blanks
    PROVE  Ink(s) = <<>>
<1>1. InkPlaces(s) = {}
  BY DEF InkPlaces
<1>2. Ink(s) = Keep(s)[InkPlaces(s)]
  BY DEF Ink, InkPlaces, Blanks
<1>3. QED
  BY <1>1, <1>2, KeepNothing

\* What is written stands for what has been read up to a place, and still
\* does when both go on by the same visible bytes.
LEMMA Passed ==
    ASSUME NEW S, NEW s \in Seq(S), NEW o \in Seq(S), NEW t \in Seq(S),
           NEW p \in 0..Len(s), NEW k \in p..Len(s),
           Ink(o) = Ink(SubSeq(s, 1, p)), Ink(t) = Ink(SubSeq(s, p + 1, k))
    PROVE  o \o t \in Seq(S) /\ Ink(o \o t) = Ink(SubSeq(s, 1, k))
<1> DEFINE before == SubSeq(s, 1, p)
           next == SubSeq(s, p + 1, k)
<1>1. Len(s) \in Nat /\ \A n \in 1..Len(s) : s[n] \in S
  BY LenProperties
<1>2. before \in Seq(S) /\ next \in Seq(S)
  BY <1>1, SubSeqProperties
<1>3. before \o next = SubSeq(s, 1, k)
  BY <1>1, ConcatAdjacentSubSeq
<1>4. Ink(before \o next) = Ink(before) \o Ink(next)
  BY <1>2, InkConcat
<1>5. Ink(o \o t) = Ink(o) \o Ink(t)
  BY InkConcat
<1>6. QED
  BY <1>3, <1>4, <1>5, ConcatProperties

\* A stretch of blanks has no visible bytes.
LEMMA BlankStretch ==
    ASSUME NEW S, NEW s \in Seq(S), NEW j \in 1..(Len(s) + 1), NEW k \in (j - 1)..Len(s),
           \A n \in j..k : s[n] \in Blanks
    PROVE  Ink(SubSeq(s, j, k)) = <<>>
<1> DEFINE t == SubSeq(s, j, k)
<1>1. Len(s) \in Nat
  BY LenProperties
<1>2. /\ t \in Seq(Blanks)
      /\ Len(t) = IF j <= k THEN k - j + 1 ELSE 0
      /\ \A n \in 1..(k - j + 1) : t[n] = s[j + n - 1]
  BY <1>1, SubSeqProperties
<1>3. \A n \in DOMAIN t : t[n] \in Blanks
  BY <1>2, LenProperties
<1>4. QED
  BY <1>3, InkBlank

\* A blank by itself.
LEMMA OneBlank ==
    ASSUME NEW b \in Blanks
    PROVE  /\ <<b>> \in Seq(Bytes)
           /\ Ink(<<b>>) = <<>>
<1>1. b \in Bytes
  BY DEF Bytes
<1>2. <<b>> \in Seq(Bytes)
  BY <1>1
<1>3. \A k \in DOMAIN <<b>> : <<b>>[k] \in Blanks
  OBVIOUS
<1>4. QED
  BY <1>2, <1>3, InkBlank

\* A blank at the end may be taken away.
LEMMA BlankDropped ==
    ASSUME NEW o \in Seq(Bytes), o # <<>>, Last(o) \in Blanks
    PROVE  Front(o) \in Seq(Bytes) /\ Ink(Front(o)) = Ink(o)
<1> DEFINE m == Len(o)
           front == SubSeq(o, 1, m - 1)
           last == SubSeq(o, m, m)
<1>1. m \in Nat \ {0} /\ \A n \in 1..m : o[n] \in Bytes
  BY EmptySeq, LenProperties
<1>2. front \in Seq(Bytes) /\ last \in Seq(Bytes)
  BY <1>1, SubSeqProperties
<1>3. front \o last = o
  <2> DEFINE k == m - 1
  <2>1. k \in 0..m /\ k + 1 = m
    BY <1>1
  <2> HIDE DEF k
  <2>2. 1 \in 1..(m + 1) /\ k \in (1 - 1)..m /\ m \in k..m
    BY <1>1, <2>1
  <2>3. SubSeq(o, 1, k) \o SubSeq(o, k + 1, m) = SubSeq(o, 1, m)
    BY <2>2, ConcatAdjacentSubSeq
  <2>4. SubSeq(o, 1, m) = o
    BY SubSeqFull
  <2>5. QED
    BY <2>1, <2>3, <2>4 DEF k
<1>4. Ink(last) = <<>>
  BY <1>1, BlankStretch DEF Last
<1>5. /\ Ink(o) = Ink(front) \o Ink(last)
      /\ Ink(front) \in Seq(Bytes)
  BY <1>2, <1>3, InkConcat
<1>6. Ink(o) = Ink(front)
  BY <1>4, <1>5, ConcatEmptySeq
<1>7. QED
  BY <1>2, <1>6 DEF Front

\* A round of a scanner that has written for what it has read.
LEMMA Round ==
    ASSUME ScanInv, NEW k \in i..(Len(input) + 1), Goto(k),
           out' \in Seq(Bytes), Ink(out') = Ink(SubSeq(input, 1, k - 1))
    PROVE  ScanInv'
<1>1. Len(input) \in Nat
  BY LenProperties DEF ScanInv
<1>2. i' = k /\ input' = input /\ pass' = pass /\ page' = page
  BY DEF Goto
<1>3. i' \in 1..(Len(input') + 1)
  BY <1>1, <1>2 DEF ScanInv
<1>4. NothingLost'
  BY <1>2 DEF NothingLost, ScanInv
<1>5. QED
  BY <1>2, <1>3, <1>4 DEF ScanInv

\* Copying a stretch is such a round.
LEMMA Copied ==
    ASSUME ScanInv, NEW k \in (i - 1)..Len(input)
    PROVE  LET o == out \o SubSeq(input, i, k)
           IN o \in Seq(Bytes) /\ Ink(o) = Ink(SubSeq(input, 1, k))
<1> DEFINE t == SubSeq(input, i, k)
<1>1. /\ Len(input) \in Nat /\ i \in 1..(Len(input) + 1)
      /\ input \in Seq(Bytes) /\ out \in Seq(Bytes)
      /\ Ink(out) = Ink(SubSeq(input, 1, i - 1))
      /\ \A n \in 1..Len(input) : input[n] \in Bytes
  BY LenProperties DEF ScanInv, NothingLost
<1>2. t \in Seq(Bytes)
  BY <1>1, SubSeqProperties
<1>3. i - 1 \in 0..Len(input) /\ (i - 1) + 1 = i
  BY <1>1
<1>4. Ink(t) = Ink(SubSeq(input, (i - 1) + 1, k))
  BY <1>3
<1> HIDE DEF t
<1>5. out \o t \in Seq(Bytes) /\ Ink(out \o t) = Ink(SubSeq(input, 1, k))
  BY <1>1, <1>2, <1>3, <1>4, Passed
<1>6. QED
  BY <1>5 DEF t

\* Copying a stretch and going on behind it keeps the invariant.
LEMMA CopyToInv ==
    ASSUME ScanInv, NEW k \in (i - 1)..Len(input), CopyTo(k)
    PROVE  ScanInv'
<1> DEFINE o == out \o SubSeq(input, i, k)
<1>1. o \in Seq(Bytes) /\ Ink(o) = Ink(SubSeq(input, 1, k))
  BY Copied
<1>2. out' = o /\ Goto(k + 1)
  BY DEF CopyTo
<1>3. /\ Len(input) \in Nat /\ i \in 1..(Len(input) + 1)
  BY LenProperties DEF ScanInv
<1>4. k + 1 \in i..(Len(input) + 1) /\ (k + 1) - 1 = k
  BY <1>3
<1> HIDE DEF o
<1>5. out' \in Seq(Bytes) /\ Ink(out') = Ink(SubSeq(input, 1, (k + 1) - 1))
  BY <1>1, <1>2, <1>4
<1>6. QED
  BY <1>2, <1>4, <1>5, Round

\* A scanner starts anew on what it is given.
LEMMA AtStart ==
    ASSUME input' \in Seq(Bytes), i' = 1, out' = <<>>,
           pass' \in {"spans", "lines"} => Ink(input') = Ink(page')
    PROVE  ScanInv'
<1>1. out' \in Seq(Bytes) /\ Len(input') \in Nat
  BY EmptySeq, LenProperties
<1>2. SubSeq(input', 1, i' - 1) = out'
  BY SubSeqEmpty
<1>3. NothingLost'
  BY <1>2 DEF NothingLost
<1>4. QED
  BY <1>1, <1>3 DEF ScanInv

\* The library leaves nothing but bytes of the page and line breaks.
LEMMA LibraryWithin ==
    ASSUME NEW s \in Seq(Bytes)
    PROVE  LibraryText(s) \in Seq(Bytes)
<1> DEFINE edged == [k \in DOMAIN s |-> IF BlockEdge(s, k) THEN "nl" ELSE s[k]]
           Kept == {k \in DOMAIN s : BlockEdge(s, k) \/ ~(InTag(s, k) \/ InBlankSpan(s, k))}
<1>1. /\ Len(s) \in Nat /\ DOMAIN s = 1..Len(s)
      /\ \A k \in DOMAIN s : s[k] \in Bytes
  BY LenProperties
<1>2. "nl" \in Bytes
  BY DEF Bytes, Blanks, Space
<1>3. edged \in [1..Len(s) -> Bytes]
  BY <1>1, <1>2
<1>4. edged \in Seq(Bytes) /\ DOMAIN edged = DOMAIN s
  BY <1>1, <1>3, SeqDef
<1>5. Kept \in SUBSET DOMAIN edged
  BY <1>4
<1>6. LibraryText(s) = Keep(edged)[Kept]
  BY DEF LibraryText
<1> HIDE DEF edged, Kept
<1>7. Keep(edged)[Kept] \in Seq(Bytes)
  BY <1>4, <1>5, KeepElements
<1>8. QED
  BY <1>6, <1>7

\* A marker goes with a space on either side, and one space comes.
LEMMA RestoreMarkerInv ==
    ASSUME ScanInv, RestoreMarker
    PROVE  ScanInv'
<1> DEFINE m == Len(input)
           o == IF out # <<>> /\ Last(out) = " " THEN Front(out) ELSE out
           k == IF At(input, i + 1) = " " THEN i + 2 ELSE i + 1
           space == <<" ">>
<1>1. /\ m \in Nat /\ i \in 1..(m + 1)
      /\ input \in Seq(Bytes) /\ out \in Seq(Bytes)
      /\ Ink(out) = Ink(SubSeq(input, 1, i - 1))
      /\ DOMAIN input = 1..m
  BY LenProperties DEF ScanInv, NothingLost
<1>2. out' = o \o space /\ Goto(k) /\ At(input, i) = Marker
  BY DEF RestoreMarker
<1>3. " " \in Space /\ Space \subseteq Blanks /\ Marker \in Blanks
  BY Zenon DEF Space, Blanks
<1>4. Marker # "eof" /\ " " # "eof"
  BY DEF Marker
<1>5. o \in Seq(Bytes) /\ Ink(o) = Ink(out)
  BY <1>1, <1>3, BlankDropped
<1>6. i \in 1..m /\ input[i] \in Blanks
  BY <1>1, <1>2, <1>3, <1>4 DEF At
<1>7. k \in (i + 1)..(m + 1) /\ \A n \in i..(k - 1) : input[n] \in Blanks
  <2>1. CASE At(input, i + 1) = " "
    <3>1. i + 1 \in 1..m /\ input[i + 1] \in Blanks
      BY <1>1, <1>3, <1>4, <2>1 DEF At
    <3>2. k = i + 2
      BY <2>1
    <3> HIDE DEF k
    <3>3. \A n \in i..(i + 1) : n = i \/ n = i + 1
      BY <1>1
    <3>4. QED
      BY <1>1, <1>6, <3>1, <3>2, <3>3
  <2>2. CASE At(input, i + 1) # " "
    <3>1. k = i + 1
      BY <2>2
    <3> HIDE DEF k
    <3>2. QED
      BY <1>1, <1>6, <3>1
  <2>3. QED
    BY <2>1, <2>2
<1>8. space \in Seq(Bytes) /\ Ink(space) = <<>>
  BY <1>3, OneBlank
<1> HIDE DEF o, k, space
<1>9. Ink(SubSeq(input, i, k - 1)) = <<>>
  <2>1. i \in 1..(Len(input) + 1) /\ k - 1 \in (i - 1)..Len(input)
    BY <1>1, <1>6, <1>7
  <2>2. QED
    BY <1>1, <1>7, <2>1, BlankStretch
<1>10. out' \in Seq(Bytes) /\ Ink(out') = Ink(SubSeq(input, 1, k - 1))
  <2>1. i - 1 \in 0..Len(input) /\ k - 1 \in (i - 1)..Len(input) /\ (i - 1) + 1 = i
    BY <1>1, <1>6, <1>7
  <2>2. Ink(space) = Ink(SubSeq(input, (i - 1) + 1, k - 1))
    BY <1>8, <1>9, <2>1
  <2>3. o \o space \in Seq(Bytes) /\ Ink(o \o space) = Ink(SubSeq(input, 1, k - 1))
    BY <1>1, <1>5, <1>8, <2>1, <2>2, Passed
  <2>4. QED
    BY <1>2, <2>3
<1>11. k \in i..(Len(input) + 1)
  BY <1>1, <1>7
<1>12. QED
  BY <1>2, <1>10, <1>11, Round

\* Nothing has been read of the page, and nothing written.
LEMMA ScansInit == ScanInit => ScanInv
<1> SUFFICES ASSUME ScanInit
             PROVE  ScanInv
  OBVIOUS
<1>1. input \in Seq(Bytes)
  <2>1. page \in Seq(ToSet(page)) /\ page \in Pages
    BY FixupsAssumption DEF ScanInit
  <2>2. ToSet(page) \subseteq Bytes
    BY <2>1 DEF Bytes
  <2>3. page \in Seq(Bytes)
    BY <2>1, <2>2, SeqMonotonic
  <2>4. QED
    BY <2>3 DEF ScanInit
<1>2. i = 1 /\ out = <<>>
  BY DEF ScanInit
<1>3. out \in Seq(Bytes) /\ Len(input) \in Nat
  BY <1>1, <1>2, EmptySeq, LenProperties
<1>4. SubSeq(input, 1, i - 1) = out
  BY <1>2, SubSeqEmpty
<1>5. NothingLost
  BY <1>4 DEF NothingLost, ScanInit
<1>6. QED
  BY <1>1, <1>2, <1>3, <1>5 DEF ScanInv

\* Every scanner keeps the invariant, and so does the change from one to the
\* next.
LEMMA ScansNext == ScanInv /\ [ScanNext]_scanVars => ScanInv'
<1> SUFFICES ASSUME ScanInv, [ScanNext]_scanVars
             PROVE  ScanInv'
  OBVIOUS
<1> DEFINE m == Len(input)
<1>1. /\ m \in Nat /\ i \in 1..(m + 1) /\ i \in Nat
      /\ input \in Seq(Bytes) /\ out \in Seq(Bytes)
      /\ DOMAIN input = 1..m
      /\ \A n \in 1..m : input[n] \in Bytes
  BY LenProperties DEF ScanInv
<1>2. TagEnd(input, i) # 0 => TagEnd(input, i) \in i..m
  BY <1>1, TagEndWithin
<1>3. ASSUME At(input, i) # "eof"
      PROVE  i \in (i - 1)..m
  BY <1>1, <1>3 DEF At
<1>4. CASE CopyRun
  <2>1. NextLt(input, i) \in i..(m + 1)
    BY <1>1, NextLtWithin
  <2>2. NextLt(input, i) - 1 \in (i - 1)..m
    BY <1>1, <2>1
  <2>3. CopyTo(NextLt(input, i) - 1)
    BY <1>4 DEF CopyRun
  <2>4. QED
    BY <2>2, <2>3, CopyToInv
<1>5. CASE MarkBlankSpan
  <2> DEFINE e == TagEnd(input, i)
             j == NextLt(input, e + 1)
             c == BlankUpTo(input, e)
             o1 == out \o SubSeq(input, i, e)
             mark == <<Marker>>
             o2 == o1 \o mark
             o3 == o2 \o SubSeq(input, j, c)
  <2>1. e # 0 /\ c # 0 /\ out' = o3 /\ Goto(c + 1)
    BY <1>5 DEF MarkBlankSpan
  <2>2. e \in i..m
    BY <1>2, <2>1
  <2>3. e + 1 \in 1..(m + 1)
    BY <1>1, <2>2
  <2>4. j \in (e + 1)..(m + 1)
    BY <1>1, <2>3, NextLtWithin
  <2>5. /\ \A n \in (e + 1)..(j - 1) : input[n] \in Space
        /\ c = CloseEnd(input, j, "span")
    BY <2>1 DEF BlankUpTo
  <2>6. j \in 1..(m + 1)
    BY <1>1, <2>2, <2>4
  <2>7. c \in j..m
    BY <1>1, <2>1, <2>5, <2>6, CloseEndWithin
  <2> HIDE DEF m, e, j, c
  <2>8. o1 \in Seq(Bytes) /\ Ink(o1) = Ink(SubSeq(input, 1, e))
    <3>1. e \in (i - 1)..Len(input)
      BY <1>1, <2>2 DEF m
    <3>2. QED
      BY <3>1, Copied
  <2> HIDE DEF o1
  <2>9. o2 \in Seq(Bytes) /\ Ink(o2) = Ink(SubSeq(input, 1, j - 1))
    <3>1. mark \in Seq(Bytes) /\ Ink(mark) = <<>>
      BY OneBlank DEF Blanks
    <3> HIDE DEF mark
    <3>2. Ink(SubSeq(input, e + 1, j - 1)) = <<>>
      <4>1. /\ e + 1 \in 1..(Len(input) + 1)
            /\ j - 1 \in ((e + 1) - 1)..Len(input)
        BY <1>1, <2>2, <2>4 DEF m
      <4>2. \A n \in (e + 1)..(j - 1) : input[n] \in Blanks
        BY <2>5 DEF Blanks
      <4>3. QED
        BY <1>1, <4>1, <4>2, BlankStretch
    <3>3. e \in 0..Len(input) /\ j - 1 \in e..Len(input)
      BY <1>1, <2>2, <2>4 DEF m
    <3>4. QED
      BY <1>1, <2>8, <3>1, <3>2, <3>3, Passed
  <2> HIDE DEF o2
  <2>10. o3 \in Seq(Bytes) /\ Ink(o3) = Ink(SubSeq(input, 1, c))
    <3> DEFINE t == SubSeq(input, j, c)
    <3>1. t \in Seq(Bytes)
      <4>1. j \in Int /\ c \in Int /\ \A n \in j..c : input[n] \in Bytes
        BY <1>1, <2>6, <2>7
      <4>2. QED
        BY <4>1, SubSeqProperties
    <3>2. j - 1 \in 0..Len(input) /\ (j - 1) + 1 = j /\ c \in (j - 1)..Len(input)
      BY <1>1, <2>6, <2>7 DEF m
    <3>3. Ink(t) = Ink(SubSeq(input, (j - 1) + 1, c))
      BY <3>2
    <3> HIDE DEF t
    <3>4. o2 \o t \in Seq(Bytes) /\ Ink(o2 \o t) = Ink(SubSeq(input, 1, c))
      BY <1>1, <2>9, <3>1, <3>2, <3>3, Passed
    <3>5. QED
      BY <3>4 DEF t
  <2> HIDE DEF o3
  <2>11. c + 1 \in i..(Len(input) + 1) /\ (c + 1) - 1 = c
    BY <1>1, <2>2, <2>4, <2>7 DEF m
  <2>12. out' \in Seq(Bytes) /\ Ink(out') = Ink(SubSeq(input, 1, (c + 1) - 1))
    BY <2>1, <2>10, <2>11
  <2>13. QED
    BY <2>1, <2>11, <2>12, Round
<1>6. CASE KeepSpanTag
  <2>1. TagEnd(input, i) \in (i - 1)..m /\ CopyTo(TagEnd(input, i))
    BY <1>1, <1>2, <1>6 DEF KeepSpanTag
  <2>2. QED
    BY <2>1, CopyToInv
<1>7. CASE PlainLt
  <2>1. i \in (i - 1)..m /\ CopyTo(i)
    BY <1>3, <1>7 DEF PlainLt
  <2>2. QED
    BY <2>1, CopyToInv
<1>8. CASE SpansEnd
  <2>1. input' = out /\ i' = 1 /\ out' = <<>> /\ page' = page
    BY <1>8 DEF SpansEnd
  <2>2. Ink(out) = Ink(SubSeq(input, 1, i - 1)) /\ Ink(input) = Ink(page)
    BY <1>8 DEF SpansEnd, ScanInv, NothingLost
  <2>3. i - 1 = m
    BY <1>1, <1>8 DEF SpansEnd
  <2>4. SubSeq(input, 1, m) = input
    BY <1>1, SubSeqFull
  <2>5. Ink(input') = Ink(page')
    BY <2>1, <2>2, <2>3, <2>4
  <2>6. QED
    BY <1>1, <2>1, <2>5, AtStart
<1>9. CASE EnterPre
  <2>1. TagEnd(input, i) \in (i - 1)..m /\ CopyTo(TagEnd(input, i))
    BY <1>1, <1>2, <1>9 DEF EnterPre
  <2>2. QED
    BY <2>1, CopyToInv
<1>10. CASE LeavePre
  <2> DEFINE c == CloseEnd(input, i, "pre")
  <2>1. c # 0 /\ CopyTo(c)
    BY <1>10 DEF LeavePre, AtPreEnd
  <2>2. c \in i..m
    BY <1>1, <2>1, CloseEndWithin
  <2>3. c \in (i - 1)..m
    BY <1>1, <2>2
  <2>4. QED
    BY <2>1, <2>3, CopyToInv
<1>11. CASE EndLine
  <2> DEFINE e == LineEnd(input, i)
             o == out \o SubSeq(input, i, e)
             nl == IF NeedsBreak(input, e + 1) THEN <<"nl">> ELSE <<>>
  <2>1. e # 0 /\ out' = o \o nl /\ Goto(e + 1)
    BY <1>11 DEF EndLine, AtLineEnd
  <2>2. e \in i..m
    BY <1>1, <2>1, LineEndWithin
  <2>3. nl \in Seq(Bytes) /\ Ink(nl) = <<>>
    <3>1. <<"nl">> \in Seq(Bytes) /\ Ink(<<"nl">>) = <<>>
      BY OneBlank DEF Blanks, Space
    <3>2. <<>> \in Seq(Bytes) /\ Ink(<<>>) = <<>>
      BY EmptySeq, InkBlank
    <3>3. QED
      BY <3>1, <3>2
  <2> HIDE DEF m, e, nl
  <2>4. o \in Seq(Bytes) /\ Ink(o) = Ink(SubSeq(input, 1, e))
    <3>1. e \in (i - 1)..Len(input)
      BY <1>1, <2>2 DEF m
    <3>2. QED
      BY <3>1, Copied
  <2> HIDE DEF o
  <2>5. o \o nl \in Seq(Bytes) /\ Ink(o \o nl) = Ink(SubSeq(input, 1, e))
    <3>1. /\ e + 1 \in 1..(Len(input) + 1) /\ e \in ((e + 1) - 1)..Len(input)
          /\ e \in 0..Len(input) /\ e \in e..Len(input)
          /\ (e + 1)..e = {}
      BY <1>1, <2>2 DEF m
    <3>2. Ink(SubSeq(input, e + 1, e)) = <<>>
      BY <1>1, <3>1, BlankStretch
    <3>3. QED
      BY <1>1, <2>3, <2>4, <3>1, <3>2, Passed
  <2>6. e + 1 \in i..(Len(input) + 1) /\ (e + 1) - 1 = e
    BY <1>1, <2>2 DEF m
  <2>7. out' \in Seq(Bytes) /\ Ink(out') = Ink(SubSeq(input, 1, (e + 1) - 1))
    BY <2>1, <2>5, <2>6
  <2>8. QED
    BY <2>1, <2>6, <2>7, Round
<1>12. CASE OtherLt
  <2>1. i \in (i - 1)..m /\ CopyTo(i)
    BY <1>3, <1>12 DEF OtherLt
  <2>2. QED
    BY <2>1, CopyToInv
<1>13. CASE Extract
  <2>1. input' = LibraryText(out) /\ i' = 1 /\ out' = <<>> /\ pass' = "restore"
    BY <1>13 DEF Extract
  <2>2. LibraryText(out) \in Seq(Bytes)
    BY <1>1, LibraryWithin
  <2>3. QED
    BY <2>1, <2>2, AtStart
<1>14. CASE CopyChar
  <2>1. i \in (i - 1)..m /\ CopyTo(i)
    BY <1>1, <1>14 DEF CopyChar
  <2>2. QED
    BY <2>1, CopyToInv
<1>15. CASE RestoreMarker
  BY <1>15, RestoreMarkerInv
<1>16. CASE LinesEnd \/ RestoreEnds \/ UNCHANGED scanVars
  <2>1. UNCHANGED <<page, input, i, out>>
    BY <1>16 DEF LinesEnd, RestoreEnds, scanVars
  <2>2. pass' \in {"extract", "done"} \/ pass' = pass
    BY <1>16 DEF LinesEnd, RestoreEnds, scanVars
  <2>3. QED
    BY <2>1, <2>2 DEF ScanInv, NothingLost
<1>17. QED
  BY <1>4, <1>5, <1>6, <1>7, <1>8, <1>9, <1>10, <1>11, <1>12, <1>13, <1>14, <1>15,
     <1>16 DEF ScanNext

\* So, on a page of any length, every scanner always is within what it reads
\* and has written the visible bytes behind it.
THEOREM ScansInvariance == ScanSpec => []ScanInv
BY ScansInit, ScansNext, PTL DEF ScanSpec

\* No scanner loses, repeats or reorders a visible byte, on a page of any
\* length.
THEOREM NothingIsLost == ScanSpec => []NothingLost
<1>1. ScanInv => NothingLost
  BY DEF ScanInv
<1>2. QED
  BY <1>1, ScansInvariance, PTL

\* What a scanner's round may do: go forward in what it reads, or hand over
\* to the next of the passes.
Order ==
    {<<"spans", "lines">>, <<"lines", "extract">>, <<"lines", "done">>,
     <<"extract", "restore">>, <<"restore", "done">>}

Advance ==
    \/ pass' = pass /\ input' = input /\ i' \in (i + 1)..(Len(input) + 1)
    \/ <<pass, pass'>> \in Order

\* Going on behind a place is an advance.
LEMMA MovesOn ==
    ASSUME NEW k, k \in i..Len(input), i \in Nat, Len(input) \in Nat, Goto(k + 1)
    PROVE  Advance
<1>1. pass' = pass /\ input' = input /\ i' = k + 1
  BY DEF Goto
<1>2. QED
  BY <1>1 DEF Advance

\* Whatever a round finds, it goes on behind where it was.
LEMMA RoundAdvances == ScanInv /\ ScanNext => Advance
<1> SUFFICES ASSUME ScanInv, ScanNext
             PROVE  Advance
  OBVIOUS
<1> DEFINE m == Len(input)
<1>1. /\ m \in Nat /\ i \in 1..(m + 1) /\ i \in Nat
      /\ input \in Seq(Bytes)
      /\ DOMAIN input = 1..m
  BY LenProperties DEF ScanInv
<1>2. TagEnd(input, i) # 0 => TagEnd(input, i) \in i..m
  BY <1>1, TagEndWithin
<1>3. ASSUME At(input, i) # "eof"
      PROVE  i \in i..m
  BY <1>1, <1>3 DEF At
<1>4. CASE CopyRun
  <2> DEFINE j == NextLt(input, i)
             T == {n \in i..m : input[n] = "<"}
  <2>1. i \in 1..m /\ input[i] # "<" /\ Goto((j - 1) + 1)
    BY <1>1, <1>4 DEF CopyRun, CopyTo
  <2>2. j \in i..(m + 1)
    BY <1>1, NextLtWithin
  <2>3. T \in SUBSET (1..m) /\ j = Least(m + 1)[T]
    BY <1>1 DEF NextLt
  <2>4. IF T = {} THEN Least(m + 1)[T] = m + 1 ELSE Least(m + 1)[T] \in T
    BY <1>1, <2>3, LeastOf
  <2>5. j # i
    BY <1>1, <2>1, <2>3, <2>4
  <2>6. j - 1 \in i..Len(input)
    BY <1>1, <2>1, <2>2, <2>5
  <2>7. QED
    BY <1>1, <2>1, <2>6, MovesOn
<1>5. CASE MarkBlankSpan
  <2> DEFINE e == TagEnd(input, i)
             j == NextLt(input, e + 1)
             c == BlankUpTo(input, e)
  <2>1. e # 0 /\ c # 0 /\ Goto(c + 1)
    BY <1>5 DEF MarkBlankSpan
  <2>2. e \in i..m /\ e + 1 \in 1..(m + 1)
    BY <1>1, <1>2, <2>1
  <2>3. j \in (e + 1)..(m + 1)
    BY <1>1, <2>2, NextLtWithin
  <2>4. j \in 1..(m + 1) /\ c = CloseEnd(input, j, "span")
    BY <1>1, <2>1, <2>2, <2>3 DEF BlankUpTo
  <2>5. c \in j..m
    BY <1>1, <2>1, <2>4, CloseEndWithin
  <2>6. c \in i..Len(input)
    BY <1>1, <2>2, <2>3, <2>5
  <2>7. QED
    BY <1>1, <2>1, <2>6, MovesOn
<1>6. CASE KeepSpanTag \/ EnterPre
  <2>1. TagEnd(input, i) \in i..m /\ Goto(TagEnd(input, i) + 1)
    BY <1>2, <1>6 DEF KeepSpanTag, EnterPre, CopyTo
  <2>2. QED
    BY <1>1, <2>1, MovesOn
<1>7. CASE PlainLt \/ OtherLt \/ CopyChar
  <2>1. i \in i..m /\ Goto(i + 1)
    BY <1>1, <1>3, <1>7 DEF PlainLt, OtherLt, CopyChar, CopyTo
  <2>2. QED
    BY <1>1, <2>1, MovesOn
<1>8. CASE LeavePre
  <2> DEFINE c == CloseEnd(input, i, "pre")
  <2>1. c # 0 /\ Goto(c + 1)
    BY <1>8 DEF LeavePre, AtPreEnd, CopyTo
  <2>2. c \in i..m
    BY <1>1, <2>1, CloseEndWithin
  <2>3. QED
    BY <1>1, <2>1, <2>2, MovesOn
<1>9. CASE EndLine
  <2> DEFINE e == LineEnd(input, i)
  <2>1. e # 0 /\ Goto(e + 1)
    BY <1>9 DEF EndLine, AtLineEnd
  <2>2. e \in i..m
    BY <1>1, <2>1, LineEndWithin
  <2>3. QED
    BY <1>1, <2>1, <2>2, MovesOn
<1>10. CASE RestoreMarker
  <2>1. i \in 1..m
    <3>1. At(input, i) # "eof"
      BY <1>10 DEF RestoreMarker, Marker
    <3>2. QED
      BY <1>1, <1>3, <3>1
  <2>2. CASE At(input, i + 1) = " "
    <3>1. At(input, i + 1) # "eof"
      BY <2>2
    <3>2. i + 1 \in i..Len(input)
      BY <1>1, <3>1 DEF At
    <3>3. Goto(i + 2)
      BY <1>10, <2>2 DEF RestoreMarker
    <3>4. i + 2 = (i + 1) + 1
      BY <1>1
    <3>5. QED
      BY <1>1, <3>2, <3>3, <3>4, MovesOn
  <2>3. CASE At(input, i + 1) # " "
    <3>1. Goto(i + 1)
      BY <1>10, <2>3 DEF RestoreMarker
    <3>2. QED
      BY <1>1, <2>1, <3>1, MovesOn
  <2>4. QED
    BY <2>2, <2>3
<1>11. CASE SpansEnd \/ LinesEnd \/ Extract \/ RestoreEnds
  BY <1>11 DEF SpansEnd, LinesEnd, Extract, RestoreEnds, Advance, Order
<1>12. QED
  BY <1>4, <1>5, <1>6, <1>7, <1>8, <1>9, <1>10, <1>11 DEF ScanNext

\* The reason why the scanners end on every page: each round goes on by a
\* byte or more and never past the end, and no pass comes back.
THEOREM EachRoundMovesOn == ScanSpec => [][Advance]_scanVars
<1>1. ScanInv /\ [ScanNext]_scanVars => [Advance]_scanVars
  BY RoundAdvances
<1>2. QED
  BY <1>1, ScansInvariance, PTL DEF ScanSpec

\* The part of WordsKept that no choice of pages could spoil: on every page
\* the library has answered for, each marker that preserve_whitespace_only_spans
\* left, wherever it ended up, has become a space in what is served
\* (codespan_fixup.rs:217-234).
NoMarkerLeft ==
    pass = "restore" \/ (pass = "done" /\ page \in TidyPages)
        => \A n \in DOMAIN out : out[n] # Marker

\* Two texts without a marker make one.
LEMMA CleanJoin ==
    ASSUME NEW S, NEW s \in Seq(S), NEW t \in Seq(S),
           \A n \in DOMAIN s : s[n] # Marker, \A n \in DOMAIN t : t[n] # Marker
    PROVE  \A n \in DOMAIN (s \o t) : (s \o t)[n] # Marker
<1>1. /\ Len(s) \in Nat /\ Len(t) \in Nat
      /\ DOMAIN s = 1..Len(s) /\ DOMAIN t = 1..Len(t)
      /\ DOMAIN (s \o t) = 1..(Len(s) + Len(t))
      /\ \A n \in 1..(Len(s) + Len(t)) :
            (s \o t)[n] = IF n <= Len(s) THEN s[n] ELSE t[n - Len(s)]
  BY ConcatProperties, LenProperties
<1>2. QED
  BY <1>1

\* One round of a scanner leaves none behind.
LEMMA MarkerNext ==
    ASSUME ScanInv, NoMarkerLeft, [ScanNext]_scanVars
    PROVE  NoMarkerLeft'
<1> DEFINE Clean(s) == \A n \in DOMAIN s : s[n] # Marker
<1>0. Len(input) \in Nat /\ i \in 1..(Len(input) + 1)
  BY DEF ScanInv
<1>1. CASE CopyRun \/ MarkBlankSpan \/ KeepSpanTag \/ PlainLt \/ EnterPre \/ LeavePre
           \/ EndLine \/ OtherLt
  BY <1>1 DEF CopyRun, MarkBlankSpan, KeepSpanTag, PlainLt, EnterPre, LeavePre, EndLine,
              OtherLt, AtSpan, AtPre, AtPreEnd, AtLineEnd, CopyTo, Goto, NoMarkerLeft
<1>2. CASE SpansEnd \/ LinesEnd
  BY <1>2 DEF SpansEnd, LinesEnd, NoMarkerLeft
<1>3. CASE Extract
  BY <1>3 DEF Extract, NoMarkerLeft
<1>4. CASE CopyChar
  <2>1. pass = "restore" /\ i <= Len(input) /\ input[i] # Marker /\ pass' = pass
        /\ out' = out \o SubSeq(input, i, i)
    BY <1>4 DEF CopyChar, CopyTo, Goto
  <2>2. DOMAIN SubSeq(input, i, i) = 1..1 /\ SubSeq(input, i, i)[1] = input[i]
        /\ SubSeq(input, i, i) \in Seq(Bytes) /\ Len(SubSeq(input, i, i)) = 1
    <3>1. input \in Seq(Bytes) /\ i \in 1..Len(input)
      BY <2>1, <1>0 DEF ScanInv
    <3>2. QED
      BY <3>1, SubSeqProperties
  <2>3. Clean(out)
    BY <2>1 DEF NoMarkerLeft
  <2>4. Clean(out')
    <3> DEFINE t == SubSeq(input, i, i)
    <3>1. t \in Seq(Bytes) /\ Clean(t) /\ out \in Seq(Bytes)
      BY <2>1, <2>2 DEF ScanInv
    <3> HIDE DEF t
    <3>2. Clean(out \o t)
      BY <2>3, <3>1, CleanJoin
    <3>3. QED
      BY <2>1, <3>2 DEF t
  <2>5. QED
    BY <2>4 DEF NoMarkerLeft
<1>5. CASE RestoreMarker
  <2> DEFINE o == IF out # <<>> /\ Last(out) = " " THEN Front(out) ELSE out
  <2>1. pass = "restore" /\ out' = o \o <<" ">>
    BY <1>5 DEF RestoreMarker
  <2>2. Clean(out)
    BY <2>1 DEF NoMarkerLeft
  <2>3. o \in Seq(Bytes) /\ Clean(o)
    <3>1. CASE out # <<>> /\ Last(out) = " "
      <4>0. out \in Seq(Bytes)
        BY DEF ScanInv
      <4>1. Front(out) = SubSeq(out, 1, Len(out) - 1)
        BY DEF Front
      <4>2. Len(out) \in Nat \ {0}
        BY <3>1, <4>0, EmptySeq, LenProperties
      <4>3. SubSeq(out, 1, Len(out) - 1) \in Seq(Bytes)
            /\ \A n \in DOMAIN SubSeq(out, 1, Len(out) - 1) :
                  n \in DOMAIN out /\ SubSeq(out, 1, Len(out) - 1)[n] = out[n]
        BY <4>0, <4>2
      <4>4. QED
        BY <2>2, <3>1, <4>1, <4>3
    <3>2. CASE ~(out # <<>> /\ Last(out) = " ")
      BY <2>2, <3>2 DEF ScanInv
    <3>3. QED
      BY <3>1, <3>2
  <2> HIDE DEF o
  <2>4. <<" ">> \in Seq(Bytes) /\ Clean(<<" ">>)
    <3>1. " " \in Blanks
      BY Zenon DEF Space, Blanks
    <3>2. <<" ">> \in Seq(Bytes)
      BY <3>1, OneBlank
    <3>3. Clean(<<" ">>)
      <4>1. " " # Marker
        BY DEF Marker
      <4>2. \A b : \A n \in DOMAIN <<b>> : <<b>>[n] = b
        OBVIOUS
      <4>3. QED
        BY <4>1, <4>2
    <3>4. QED
      BY <3>2, <3>3
  <2>5. Clean(o \o <<" ">>)
    BY <2>3, <2>4, CleanJoin
  <2>6. QED
    BY <2>1, <2>5 DEF NoMarkerLeft
<1>6. CASE RestoreEnds
  BY <1>6 DEF RestoreEnds, NoMarkerLeft
<1>7. CASE UNCHANGED scanVars
  BY <1>7 DEF scanVars, NoMarkerLeft
<1>8. QED
  BY <1>1, <1>2, <1>3, <1>4, <1>5, <1>6, <1>7 DEF ScanNext

\* No marker ever reaches a caller, whatever text the library hands back.
THEOREM NoMarkerServed == ScanSpec => []NoMarkerLeft
<1>1. ScanInit => NoMarkerLeft
  BY DEF ScanInit, NoMarkerLeft
<1>2. QED
  BY ScansInvariance, MarkerNext, <1>1, PTL DEF ScanSpec
=============================================================================
