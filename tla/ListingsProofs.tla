---------------------------- MODULE ListingsProofs ----------------------------
(***************************************************************************)
(* What detail pages may do to the facts of a dog, for all pages the sites *)
(* may serve and all words the parsers know.                               *)
(***************************************************************************)
EXTENDS Listings, SequenceTheorems, TLAPS

Facts == {"name", "size", "sex", "species", "breed", "age", "fee", "status", "shelter"}

LEMMA UnknownFacts == DOMAIN Unknown = Facts
BY DEF Unknown, Facts

-----------------------------------------------------------------------------
(* Taking a phrase apart                                                   *)

\* A word that was found, as a phrase of its own.
Some(word) == IF word = None THEN <<>> ELSE <<word>>

\* A known first word and what follows it make up the phrase.
LEMMA FirstAndRest ==
    ASSUME NEW S, NEW words \in Seq(S), NEW known, None \notin known
    PROVE  /\ After(words, First(words, known)) \in Seq(S)
           /\ Some(First(words, known)) \in Seq(S)
           /\ words = Some(First(words, known)) \o After(words, First(words, known))
           /\ \A k \in DOMAIN Some(First(words, known)) : Some(First(words, known))[k] \in known
<1>1. CASE words # <<>> /\ words[1] \in known
  <2>1. First(words, known) = words[1] /\ words[1] # None
    BY <1>1 DEF First
  <2>2. After(words, First(words, known)) = Tail(words)
    BY <2>1 DEF After
  <2>3. Some(First(words, known)) = <<words[1]>>
    BY <2>1 DEF Some
  <2>4. words[1] \in S /\ Tail(words) \in Seq(S) /\ words = <<words[1]>> \o Tail(words)
    <3>1. Len(words) \in Nat \ {0}
      BY <1>1, EmptySeq
    <3>2. words[1] \in S /\ Tail(words) = SubSeq(words, 2, Len(words))
      BY <1>1, <3>1, ElementOfSeq, TailIsSubSeq
    <3>3. SubSeq(words, 1, Len(words)) = <<words[1]>> \o SubSeq(words, 2, Len(words))
      BY <3>1, SubSeqRecursiveFirst
    <3>4. QED
      BY <1>1, <3>2, <3>3, SubSeqFull, HeadTailProperties
  <2>5. QED
    BY <1>1, <2>2, <2>3, <2>4
<1>2. CASE ~(words # <<>> /\ words[1] \in known)
  <2>1. First(words, known) = None
    BY <1>2 DEF First
  <2>2. After(words, First(words, known)) = words /\ Some(First(words, known)) = <<>>
    BY <2>1 DEF After, Some
  <2>3. QED
    BY <2>2, ConcatEmptySeq
<1>3. QED
  BY <1>1, <1>2

\* The breed and the species noun that ends the phrase make it up.
LEMMA BreedAndSpecies ==
    ASSUME NEW S, NEW words \in Seq(S)
    PROVE  /\ WithoutTail(words) \in Seq(S)
           /\ Some(SpeciesOf(words)) \in Seq(S)
           /\ words = WithoutTail(words) \o Some(SpeciesOf(words))
<1>1. CASE words # <<>> /\ Last(words) \in SpeciesTail
  <2>1. SpeciesOf(words) = words[Len(words)] /\ SpeciesOf(words) # None
    BY <1>1, ListingAssumption DEF SpeciesOf, Last
  <2>2. WithoutTail(words) = SubSeq(words, 1, Len(words) - 1)
    BY <2>1 DEF WithoutTail, Front
  <2>3. Some(SpeciesOf(words)) = <<words[Len(words)]>>
    BY <2>1 DEF Some
  <2>4. Len(words) \in Nat \ {0}
    BY <1>1, EmptySeq
  <2>5. words[Len(words)] \in S
    BY <2>4, ElementOfSeq
  <2>6. SubSeq(words, 1, Len(words) - 1) \in Seq(S)
    <3>1. \A k \in 1..(Len(words) - 1) : words[k] \in S
      BY <2>4, ElementOfSeq
    <3>2. QED
      BY <2>4, <3>1, SubSeqProperties
  <2>7. words = SubSeq(words, 1, Len(words) - 1) \o <<words[Len(words)]>>
    BY <2>4, SubSeqRecursiveSecond, SubSeqFull
  <2>8. <<words[Len(words)]>> \in Seq(S)
    BY <2>5
  <2>9. QED
    BY <2>2, <2>3, <2>6, <2>7, <2>8
<1>2. CASE ~(words # <<>> /\ Last(words) \in SpeciesTail)
  <2>1. SpeciesOf(words) = None
    BY <1>2 DEF SpeciesOf
  <2>2. WithoutTail(words) = words /\ Some(SpeciesOf(words)) = <<>>
    BY <2>1 DEF WithoutTail, Some
  <2>3. QED
    BY <2>2, ConcatEmptySeq
<1>3. QED
  BY <1>1, <1>2

\* The species is read off the whole phrase, and dropped from its rest: it is the
\* same word, because no size or sex is a species.
LEMMA SameSpecies ==
    ASSUME NEW S, NEW head \in Seq(S), NEW rest \in Seq(S),
           \A k \in DOMAIN head : head[k] \notin SpeciesTail
    PROVE  SpeciesOf(head \o rest) = SpeciesOf(rest)
<1>1. /\ Len(head) \in Nat /\ Len(rest) \in Nat /\ DOMAIN head = 1..Len(head)
      /\ head \o rest \in Seq(S) /\ Len(head \o rest) = Len(head) + Len(rest)
      /\ \A i \in 1..(Len(head) + Len(rest)) : (head \o rest)[i] =
            IF i <= Len(head) THEN head[i] ELSE rest[i - Len(head)]
  BY LenProperties, ConcatProperties
<1>2. CASE rest = <<>>
  <2>1. head \o rest = head
    BY <1>2, ConcatEmptySeq
  <2>2. head = <<>> \/ Last(head) \notin SpeciesTail
    BY <1>1, EmptySeq DEF Last
  <2>3. QED
    BY <1>2, <2>1, <2>2 DEF SpeciesOf
<1>3. CASE rest # <<>>
  <2>1. Len(rest) > 0
    BY <1>1, <1>3, EmptySeq
  <2>2. Last(head \o rest) = Last(rest)
    BY <1>1, <2>1 DEF Last
  <2>3. head \o rest # <<>>
    BY <1>3, ConcatEqualIffEmpty
  <2>4. QED
    BY <1>3, <2>2, <2>3 DEF SpeciesOf
<1>4. QED
  BY <1>2, <1>3

LEMMA PhraseKeepsItsWords ==
    ASSUME NEW S, NEW phrase \in Seq(S)
    PROVE  LET split == SplitSpecies(phrase) IN
           phrase = Some(split.size) \o Some(split.sex) \o split.breed \o Some(SpeciesOf(phrase))
<1> DEFINE size == First(phrase, Sizes)
           unsized == After(phrase, size)
           sex == First(unsized, Sexes)
           rest == After(unsized, sex)
           head == Some(size) \o Some(sex)
<1>1. /\ unsized \in Seq(S) /\ Some(size) \in Seq(S) /\ phrase = Some(size) \o unsized
      /\ \A k \in DOMAIN Some(size) : Some(size)[k] \in Sizes
  <2>1. None \notin Sizes
    BY ListingAssumption
  <2>2. QED
    BY <2>1, FirstAndRest
<1>2. /\ rest \in Seq(S) /\ Some(sex) \in Seq(S) /\ unsized = Some(sex) \o rest
      /\ \A k \in DOMAIN Some(sex) : Some(sex)[k] \in Sexes
  <2>1. None \notin Sexes
    BY ListingAssumption
  <2> HIDE DEF unsized
  <2>2. /\ After(unsized, First(unsized, Sexes)) \in Seq(S)
        /\ Some(First(unsized, Sexes)) \in Seq(S)
        /\ unsized = Some(First(unsized, Sexes)) \o After(unsized, First(unsized, Sexes))
        /\ \A k \in DOMAIN Some(First(unsized, Sexes)) :
              Some(First(unsized, Sexes))[k] \in Sexes
    <3>1. unsized \in Seq(S)
      BY <1>1
    <3>2. QED
      BY <2>1, <3>1, FirstAndRest
  <2>3. QED
    BY <2>2
<1>3. SplitSpecies(phrase) = [size |-> size, sex |-> sex, breed |-> WithoutTail(rest)]
  BY DEF SplitSpecies
<1> HIDE DEF size, sex, unsized, rest
<1>4. head \in Seq(S) /\ phrase = head \o rest
  BY <1>1, <1>2, ConcatProperties, ConcatAssociative
<1>5. \A k \in DOMAIN head : head[k] \notin SpeciesTail
  <2>1. /\ Len(Some(size)) \in Nat /\ DOMAIN Some(size) = 1..Len(Some(size))
        /\ Len(Some(sex)) \in Nat /\ DOMAIN Some(sex) = 1..Len(Some(sex))
    BY <1>1, <1>2, LenProperties
  <2>2. DOMAIN head = 1..(Len(Some(size)) + Len(Some(sex)))
    BY <1>1, <1>2, <1>4, ConcatProperties, LenProperties
  <2>3. ASSUME NEW k \in DOMAIN head
        PROVE  head[k] \in Sizes \cup Sexes
    <3>1. head[k] = IF k <= Len(Some(size)) THEN Some(size)[k] ELSE Some(sex)[k - Len(Some(size))]
      BY <1>1, <1>2, <2>2, <2>3, ConcatProperties
    <3>2. QED
      BY <1>1, <1>2, <2>1, <2>2, <2>3, <3>1
  <2>4. QED
    BY <2>3, ListingAssumption
<1> HIDE DEF head
<1>6. SpeciesOf(phrase) = SpeciesOf(rest)
  BY <1>2, <1>4, <1>5, SameSpecies
<1>7. /\ WithoutTail(rest) \in Seq(S) /\ Some(SpeciesOf(rest)) \in Seq(S)
      /\ rest = WithoutTail(rest) \o Some(SpeciesOf(rest))
  BY <1>2, BreedAndSpecies
<1>8. phrase = (head \o WithoutTail(rest)) \o Some(SpeciesOf(rest))
  <2>1. head \o (WithoutTail(rest) \o Some(SpeciesOf(rest)))
          = (head \o WithoutTail(rest)) \o Some(SpeciesOf(rest))
    <3>1. \A s, t, u \in Seq(S) : s \o (t \o u) = (s \o t) \o u
      BY ConcatAssociative
    <3>2. QED
      BY <1>4, <1>7, <3>1
  <2>2. QED
    BY <1>4, <1>7, <2>1
<1>9. QED
  BY <1>3, <1>6, <1>8 DEF head

-----------------------------------------------------------------------------
(* The invariant                                                           *)

\* The last page was PetRescue's, if any page was read of one of its dogs. A card of
\* Wollongong says nothing of the sex, which its detail page writes anew, and none
\* of its pages knows a fee, which a page could then not take back.
ListingInv ==
    /\ DOMAIN card = Facts /\ DOMAIN dog = Facts
    /\ parser \in {"petrescue", "wollongong"}
    /\ parser = "petrescue" => page \in DetailPages \cup {NoPage}
    /\ parser = "wollongong" => card.sex = None /\ dog.fee = None
    /\ CardFactsStay
    /\ GoodPageTellsAll

LEMMA ListingInit == Init => ListingInv
BY UnknownFacts DEF Init, ListingInv, CardFactsStay, GoodPageTellsAll, Unknown

LEMMA CardedFacts ==
    ASSUME NEW item
    PROVE  /\ DOMAIN Carded(item) = Facts
           /\ parser = "wollongong" => Carded(item).sex = None /\ Carded(item).fee = None
BY UnknownFacts DEF Carded, Unknown, Facts

LEMMA NamedFacts ==
    ASSUME NEW listing, DOMAIN listing = Facts, NEW things
    PROVE  /\ DOMAIN Named(listing, things) = Facts
           /\ listing["name"] # None => Named(listing, things)["name"] = listing["name"]
           /\ \A fact \in Facts \ {"name"} : Named(listing, things)[fact] = listing[fact]
BY DEF Named, Name, Or, Facts

LEMMA EnrichedFacts ==
    ASSUME NEW listing, DOMAIN listing = Facts, NEW p, NEW phrase
    PROVE  LET new == Enriched(listing, p, phrase) IN
           /\ DOMAIN new = Facts
           /\ \A fact \in {"name", "size", "sex", "species"} :
                 listing[fact] # None => new[fact] = listing[fact]
           /\ Passing(new) = <<SplitSpecies(phrase).breed, p.fee, StatusOf(p), GroupName(p.group)>>
BY DEF Enriched, Fill, FeeOf, Or, Facts, Passing

LEMMA TabledFacts ==
    ASSUME NEW listing, DOMAIN listing = Facts, NEW p
    PROVE  LET new == Tabled(listing, p) IN
           /\ DOMAIN new = Facts
           /\ \A fact \in {"name", "size", "species"} : new[fact] = listing[fact]
           /\ new.breed = IF RowValue(p.breed) = None THEN <<>> ELSE <<RowValue(p.breed)>>
           /\ new.fee = listing.fee
           /\ new.status = "available" /\ new.shelter = "Wollongong Pet Connection"
BY DEF Tabled, Facts

-----------------------------------------------------------------------------
(* The steps                                                               *)

LEMMA ReadListKeeps ==
    ASSUME ListingInv, ReadList
    PROVE  ListingInv' /\ at' # "failed"
<1>1. parser' = parser /\ page' = page /\ at' \in {"drift", "empty", "listed"}
  BY DEF ReadList
<1>2. CASE card' = card /\ dog' = dog
  BY <1>1, <1>2 DEF ListingInv, CardFactsStay, GoodPageTellsAll
<1>3. ASSUME NEW item, card' = Carded(item), dog' = card'
      PROVE  ListingInv'
  BY <1>1, <1>3, CardedFacts DEF ListingInv, CardFactsStay, GoodPageTellsAll
<1>4. QED
  BY <1>1, <1>2, <1>3 DEF ReadList

LEMMA ReadDetailKeeps ==
    ASSUME ListingInv, ReadDetail
    PROVE  /\ ListingInv'
           /\ at' = "failed" =>
                 \A fact \in DOMAIN dog \ {"name"} : dog'[fact] = dog[fact]
<1> DEFINE things == Looked(page'.blocks)
           named == Named(dog, things)
           phrase == Last(things).description
<1>1. /\ parser = "petrescue" /\ parser' = parser /\ card' = card /\ page' \in DetailPages
      /\ \/ dog' = Enriched(named, page', phrase) /\ at' = "enriched"
         \/ dog' = named /\ at' = "failed"
  BY DEF ReadDetail
<1>2. /\ DOMAIN named = Facts
      /\ dog["name"] # None => named["name"] = dog["name"]
      /\ \A fact \in Facts \ {"name"} : named[fact] = dog[fact]
  BY NamedFacts DEF ListingInv
<1>3. \A fact \in {"name", "size", "sex", "species"} :
         card[fact] # None => named[fact] = card[fact] /\ dog[fact] = card[fact]
  BY <1>2 DEF ListingInv, CardFactsStay, Facts
<1>4. CASE dog' = named /\ at' = "failed"
  <2>1. ListingInv'
    BY <1>1, <1>2, <1>3, <1>4 DEF ListingInv, CardFactsStay, GoodPageTellsAll
  <2>2. \A fact \in DOMAIN dog \ {"name"} : dog'[fact] = dog[fact]
    BY <1>2, <1>4 DEF ListingInv
  <2>3. QED
    BY <2>1, <2>2
<1>5. CASE dog' = Enriched(named, page', phrase) /\ at' = "enriched"
  <2> HIDE DEF named, phrase
  <2>1. /\ DOMAIN dog' = Facts
        /\ \A fact \in {"name", "size", "sex", "species"} :
              named[fact] # None => dog'[fact] = named[fact]
        /\ Passing(dog') = <<SplitSpecies(phrase).breed, page'.fee, StatusOf(page'),
                             GroupName(page'.group)>>
    BY <1>2, <1>5, EnrichedFacts
  <2>2. Passing(Enriched(Unknown, page', phrase)) =
          <<SplitSpecies(phrase).breed, page'.fee, StatusOf(page'), GroupName(page'.group)>>
    BY UnknownFacts, EnrichedFacts
  <2>3. CardFactsStay'
    BY <1>1, <1>3, <2>1 DEF CardFactsStay
  <2>4. GoodPageTellsAll'
    BY <1>1, <2>1, <2>2 DEF GoodPageTellsAll, phrase
  <2>5. QED
    BY <1>1, <1>5, <2>1, <2>3, <2>4 DEF ListingInv
<1>6. QED
  BY <1>1, <1>4, <1>5

LEMMA ReadTableKeeps ==
    ASSUME ListingInv, ReadTable
    PROVE  /\ ListingInv'
           /\ at' = "failed" =>
                 \A fact \in DOMAIN dog \ {"name"} : dog'[fact] = dog[fact]
<1>1. /\ parser = "wollongong" /\ parser' = parser /\ card' = card
      /\ \/ dog' = Tabled(dog, page') /\ at' = "enriched"
         \/ dog' = dog /\ at' = "failed"
  BY DEF ReadTable
<1>2. CASE dog' = dog /\ at' = "failed"
  BY <1>1, <1>2 DEF ListingInv, CardFactsStay, GoodPageTellsAll
<1>3. CASE dog' = Tabled(dog, page') /\ at' = "enriched"
  <2>1. DOMAIN dog = Facts /\ card.sex = None /\ dog.fee = None /\ Unknown.fee = None
    BY <1>1 DEF ListingInv, Unknown
  <2>2. /\ DOMAIN dog' = Facts
        /\ \A fact \in {"name", "size", "species"} : dog'[fact] = dog[fact]
        /\ dog'.fee = None
    BY <1>3, <2>1, TabledFacts
  <2>3. Passing(dog') = Passing(Tabled(Unknown, page'))
    <3> DEFINE breed == IF RowValue(page'.breed) = None THEN <<>>
                        ELSE <<RowValue(page'.breed)>>
               told == <<breed, None, "available", "Wollongong Pet Connection">>
    <3>1. ASSUME NEW listing, DOMAIN listing = Facts, listing.fee = None
          PROVE  Passing(Tabled(listing, page')) = told
      BY <3>1, TabledFacts DEF Passing
    <3>2. Passing(Tabled(dog, page')) = told
      BY <2>1, <3>1
    <3>3. Passing(Tabled(Unknown, page')) = told
      BY <2>1, <3>1, UnknownFacts
    <3>4. QED
      BY <1>3, <3>2, <3>3
  <2>4. CardFactsStay'
    BY <1>1, <2>1, <2>2 DEF ListingInv, CardFactsStay
  <2>5. GoodPageTellsAll'
    BY <1>1, <2>3 DEF GoodPageTellsAll
  <2>6. QED
    BY <1>1, <1>3, <2>1, <2>2, <2>4, <2>5 DEF ListingInv
<1>4. QED
  BY <1>1, <1>2, <1>3

LEMMA ListingNext ==
    ASSUME ListingInv, [Next]_vars
    PROVE  ListingInv'
<1>1. CASE UNCHANGED vars
  BY <1>1 DEF vars, ListingInv, CardFactsStay, GoodPageTellsAll, Passing, Enriched, Tabled
<1>2. QED
  BY <1>1, ReadListKeeps, ReadDetailKeeps, ReadTableKeeps DEF Next

-----------------------------------------------------------------------------
(* The theorems                                                            *)

\* Whatever a dog's detail pages say, and in whatever order they come, what its card
\* told of it stays (parse_detail of both parsers).
THEOREM CardFactsStayHolds == Spec => []CardFactsStay
<1>1. ListingInv => CardFactsStay
  BY DEF ListingInv
<1>2. ListingInv /\ [Next]_vars => ListingInv'
  BY ListingNext
<1>3. QED
  BY <1>1, <1>2, ListingInit, PTL DEF Spec

\* After a page that parsed, a dog's breed, fee, status and shelter are the page's,
\* whatever earlier pages had told (parse_detail).
THEOREM GoodPageTellsAllHolds == Spec => []GoodPageTellsAll
<1>1. ListingInv => GoodPageTellsAll
  BY DEF ListingInv
<1>2. ListingInv /\ [Next]_vars => ListingInv'
  BY ListingNext
<1>3. QED
  BY <1>1, <1>2, ListingInit, PTL DEF Spec

\* A page that fails to parse leaves all but a missing name as it was (parse_detail).
THEOREM FailedPageTellsNothingHolds == Spec => FailedPageTellsNothing
<1>1. ListingInv /\ [Next]_vars => ListingInv'
  BY ListingNext
<1>2. ListingInv /\ [Next]_vars =>
        [at' = "failed" => \A fact \in DOMAIN dog \ {"name"} : dog'[fact] = dog[fact]]_vars
  BY ReadListKeeps, ReadDetailKeeps, ReadTableKeeps DEF Next
<1>3. QED
  BY <1>1, <1>2, ListingInit, PTL DEF Spec, FailedPageTellsNothing

\* For every phrase of any length: size, sex, breed and species put back together
\* are the phrase, so no word of a breed is lost (split_species, species_of).
THEOREM OnlyTheSpeciesIsDroppedHolds == Spec => []OnlyTheSpeciesIsDropped
<1>1. ASSUME ListingInv PROVE OnlyTheSpeciesIsDropped
  <2>1. SUFFICES ASSUME parser = "petrescue", NEW k \in DOMAIN page.blocks
                 PROVE  LET phrase == page.blocks[k].description
                            split == SplitSpecies(phrase)
                        IN phrase = Some(split.size) \o Some(split.sex) \o split.breed
                                      \o Some(SpeciesOf(phrase))
    BY DEF OnlyTheSpeciesIsDropped, Some
  <2>2. page \in DetailPages
    BY <1>1, <2>1 DEF ListingInv, NoPage
  <2>3. page.blocks[k].description \in Seq(STRING)
    BY <2>1, <2>2, ListingAssumption
  <2>4. QED
    BY <2>3, PhraseKeepsItsWords
<1>2. ListingInv /\ [Next]_vars => ListingInv'
  BY ListingNext
<1>3. QED
  BY <1>1, <1>2, ListingInit, PTL DEF Spec
=============================================================================
