------------------------------ MODULE Listings ------------------------------
(***************************************************************************)
(* What the site parsers make of a dog: a list page gives its card, and    *)
(* its detail page, read again on later runs, enriches the same Listing in *)
(* place (base.py, petrescue.py, wollongong.py).                           *)
(*                                                                         *)
(* The sites and the pipeline are external. A page is what the patterns    *)
(* find in it; a phrase is a sequence of words, their case left out, as    *)
(* are a listing's url and location, which a card sets once and nothing    *)
(* touches again.                                                          *)
(***************************************************************************)
EXTENDS SequencesExt

CONSTANTS
    Sizes, Sexes, SpeciesTail,   \* _SIZES, _SEXES, _SPECIES_TAIL
    ListPages,                   \* list pages: sequences of items
    DetailPages,                 \* PetRescue's detail pages
    TablePages                   \* Wollongong's detail pages

None == "none"

\* No size or sex is a species noun, in base.py as here; a description is of words.
ASSUME ListingAssumption ==
    /\ None \notin Sizes \cup Sexes \cup SpeciesTail
    /\ SpeciesTail \cap (Sizes \cup Sexes) = {}
    /\ \A p \in DetailPages : \A k \in DOMAIN p.blocks : p.blocks[k].description \in Seq(STRING)

NoPhrase == <<None>>   \* no description at all; <<>> is one of blanks only

Unknown == [name |-> None, size |-> None, sex |-> None, species |-> None, breed |-> <<>>,
            age |-> None, fee |-> None, status |-> None, shelter |-> None]

VARIABLES
    parser,    \* the site's parser
    items,     \* what the last list page showed
    card,      \* the listing as its card gave it
    dog,       \* the listing now
    page,      \* the last detail page read
    at         \* what the last reading came to

vars == <<parser, items, card, dog, page, at>>

-----------------------------------------------------------------------------
(* base.split_species and species_of                                       *)

Or(x, y) == IF x # None THEN x ELSE y

First(words, known) == IF words # <<>> /\ words[1] \in known THEN words[1] ELSE None

SpeciesOf(words) == IF words # <<>> /\ Last(words) \in SpeciesTail THEN Last(words) ELSE None

\* Mutant: every species noun goes, not the last one alone.
WithoutTailAll(words) == SelectSeq(words, LAMBDA w : w \notin SpeciesTail)

WithoutTail(words) == IF SpeciesOf(words) # None THEN Front(words) ELSE words

After(words, first) == IF first # None THEN Tail(words) ELSE words

SplitSpecies(words) ==
    LET size == First(words, Sizes)
        sex == First(After(words, size), Sexes)
    IN [size |-> size, sex |-> sex, breed |-> WithoutTail(After(After(words, size), sex))]

-----------------------------------------------------------------------------
(* parse_list                                                              *)

Cards == SelectSeq(items', LAMBDA item : item.markup = "card")

\* PetRescue: a card without a name. Wollongong: the marker, and no card.
ListDrifted ==
    IF parser = "petrescue" THEN \E k \in DOMAIN Cards : Cards[k].name = None
    ELSE Cards = <<>> /\ \E k \in DOMAIN items' : items'[k].markup = "marked"

Carded(item) ==
    IF parser = "petrescue"
    THEN LET split == SplitSpecies(item.phrase) IN
         [Unknown EXCEPT !.name = item.name, !.size = split.size, !.sex = split.sex,
                         !.species = SpeciesOf(item.phrase)]
    ELSE [Unknown EXCEPT !.name = item.name, !.species = "dog"]

ReadList ==
    /\ at \in {"start", "empty", "drift"}
    /\ items' \in ListPages
    /\ \/ ListDrifted /\ at' = "drift" /\ UNCHANGED <<card, dog>>
       \/ ~ListDrifted /\ Cards = <<>> /\ at' = "empty" /\ UNCHANGED <<card, dog>>
       \/ /\ ~ListDrifted
          /\ \E k \in DOMAIN Cards : card' = Carded(Cards[k]) /\ dog' = card'
          /\ at' = "listed"
    /\ UNCHANGED <<parser, page>>

-----------------------------------------------------------------------------
(* petrescue.parse_detail                                                  *)

Told(block) == block.kind = "thing" /\ block.description # NoPhrase

\* The blocks the loop looks at: none after one with a description. A block
\* that is no JSON, or no Thing, is passed over.
Looked(blocks) ==
    LET end(k) == Told(blocks[k]) /\ \A j \in 1..(k - 1) : ~Told(blocks[j])
    IN SelectSeq(SubSeq(blocks, 1, IF \E k \in DOMAIN blocks : end(k)
                                   THEN CHOOSE k \in DOMAIN blocks : end(k) ELSE Len(blocks)),
                 LAMBDA b : b.kind = "thing")

Name(listing, things) ==
    LET names == SelectSeq(things, LAMBDA b : b.name # None)
    IN Or(listing.name, IF names = <<>> THEN None ELSE names[1].name)

\* Mutant: what the last page told is cleared before this one is known to parse.
NamedCleared(listing, things) ==
    [listing EXCEPT !.name = Name(listing, things), !.fee = None, !.status = None, !.shelter = None]

\* The first name of a Thing, for a listing that has none, before the page is
\* known to parse.
Named(listing, things) == [listing EXCEPT !.name = Name(listing, things)]

\* The group's visible text, or else the name in its link, or none.
GroupName(group) == Or(group.text, group.slug)

StatusOf(p) == IF p.adopted THEN "adopted" ELSE IF p.onHold THEN "on-hold" ELSE "available"

\* Mutant: a fee once known is kept.
FeeOfKept(listing, p) == Or(p.fee, listing.fee)

FeeOf(listing, p) == p.fee

\* Mutant: the detail page's facts come first.
FillFresh(known, found) == Or(found, known)

\* listing.x = listing.x or x
Fill(known, found) == Or(known, found)

Enriched(listing, p, phrase) ==
    LET split == SplitSpecies(phrase) IN
    [listing EXCEPT
        !.size = Fill(@, split.size), !.sex = Fill(@, split.sex), !.breed = split.breed,
        !.species = Fill(@, SpeciesOf(phrase)), !.fee = FeeOf(listing, p),
        !.status = StatusOf(p), !.shelter = GroupName(p.group)]

Parses(p) == LET things == Looked(p.blocks) IN things # <<>> /\ Told(Last(things))

ReadDetail ==
    /\ parser = "petrescue"
    /\ at \in {"listed", "enriched", "failed"}
    /\ page' \in DetailPages
    /\ LET things == Looked(page'.blocks)
           named == Named(dog, things)
       IN IF Parses(page')
          THEN dog' = Enriched(named, page', Last(things).description) /\ at' = "enriched"
          ELSE dog' = named /\ at' = "failed"
    /\ UNCHANGED <<parser, items, card>>

-----------------------------------------------------------------------------
(* wollongong.parse_detail                                                 *)

\* The cell after the label, up to a line break.
RowValue(row) == IF row.there THEN row.text ELSE None

Tabled(listing, p) ==
    LET breed == RowValue(p.breed) IN
    [listing EXCEPT
        !.breed = IF breed = None THEN <<>> ELSE <<breed>>, !.sex = RowValue(p.sex),
        !.age = RowValue(p.age), !.status = "available", !.shelter = "Wollongong Pet Connection"]

ReadTable ==
    /\ parser = "wollongong"
    /\ at \in {"listed", "enriched", "failed"}
    /\ page' \in TablePages
    /\ IF \E row \in {page'.breed, page'.sex, page'.age} : RowValue(row) # None
       THEN dog' = Tabled(dog, page') /\ at' = "enriched"
       ELSE dog' = dog /\ at' = "failed"
    /\ UNCHANGED <<parser, items, card>>

-----------------------------------------------------------------------------
NoPage == [blocks |-> <<>>]

Init ==
    /\ parser \in {"petrescue", "wollongong"}
    /\ items = <<>>
    /\ card = Unknown
    /\ dog = Unknown
    /\ page = NoPage
    /\ at = "start"

Next == ReadList \/ ReadDetail \/ ReadTable

Spec == Init /\ [][Next]_vars

-----------------------------------------------------------------------------
(* Properties                                                              *)

\* What a card told of a dog stays, whatever its detail pages say later: an
\* animal whose card said dog does not turn into a cat (one whose card named no
\* species may).
CardFactsStay ==
    \A fact \in {"name", "size", "sex", "species"} : card[fact] # None => dog[fact] = card[fact]

\* A phrase is taken apart without losing a word but the species noun that
\* ends it: a breed that holds another noun keeps it.
OnlyTheSpeciesIsDropped ==
    parser = "petrescue" => \A k \in DOMAIN page.blocks :
        Told(page.blocks[k]) =>
            LET phrase == page.blocks[k].description
                split == SplitSpecies(phrase)
                some(word) == IF word = None THEN <<>> ELSE <<word>>
            IN phrase = some(split.size) \o some(split.sex) \o split.breed \o some(SpeciesOf(phrase))

\* A page that fails to parse changes nothing of a dog but a name it had not:
\* its status stays as the last good page told it.
FailedPageTellsNothing ==
    [][at' = "failed" => \A fact \in DOMAIN dog \ {"name"} : dog'[fact] = dog[fact]]_vars

\* The facts a dog's page may take back.
Passing(listing) == <<listing.breed, listing.fee, listing.status, listing.shelter>>

\* A page that parses tells all of a dog's passing facts anew, as it would of a
\* dog never read before: none is left over from an earlier page.
GoodPageTellsAll ==
    at = "enriched" =>
        Passing(dog) = Passing(IF parser = "petrescue"
                               THEN Enriched(Unknown, page, Last(Looked(page.blocks)).description)
                               ELSE Tabled(Unknown, page))
=============================================================================
