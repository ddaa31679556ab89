----------------------------- MODULE MCListings -----------------------------
(* Pages for TLC: every phrase of up to three words for a description, and    *)
(* lists and marks that tell the cases of the parsers apart.                  *)
EXTENDS Listings, Naturals

Phrases == UNION {[1..n -> {"small", "male", "kelpie", "dog", "cat"}] : n \in 0..3}

Item(markup, name, phrase) == [markup |-> markup, name |-> name, phrase |-> phrase]

Lists ==
    {<<Item("card", name, phrase)>> :
        name \in {"Bindi", None},
        phrase \in {<<>>, <<"dog">>, <<"small", "dog">>, <<"male", "cat">>, <<"small", "male", "kelpie">>}}
    \cup {<<>>, <<Item("marked", "Bindi", <<>>)>>, <<Item("other", "Bindi", <<>>)>>,
          <<Item("other", "Bindi", <<>>), Item("card", "Rex", <<"male", "dog">>)>>,
          <<Item("card", "Rex", <<"dog">>), Item("card", None, <<"dog">>)>>}

Thing(name, description) == [kind |-> "thing", name |-> name, description |-> description]
Other == [kind |-> "other", name |-> "Site", description |-> <<"cat">>]

Marks ==
    {[fee |-> f, adopted |-> a, onHold |-> h, group |-> g] :
        f \in {"$400", None}, a \in BOOLEAN, h \in BOOLEAN,
        g \in {[text |-> "Paws", slug |-> "RSPCA"], [text |-> None, slug |-> "RSPCA"],
               [text |-> None, slug |-> None]}}

Page(blocks, m) ==
    [blocks |-> blocks, fee |-> m.fee, adopted |-> m.adopted, onHold |-> m.onHold, group |-> m.group]

Plain == [fee |-> None, adopted |-> FALSE, onHold |-> FALSE, group |-> [text |-> "Paws", slug |-> None]]

Details ==
    {Page(<<Thing("Max", phrase)>>, Plain) : phrase \in Phrases}
    \cup {Page(<<Other, Thing("Ruby", <<"small", "dog">>)>>, m) : m \in Marks}
    \cup {Page(blocks, Plain) :
            blocks \in {<<>>, <<Other>>, <<Thing("Ruby", NoPhrase)>>,
                        <<Thing("Ruby", NoPhrase), Thing("Max", <<"male", "dog">>)>>,
                        <<Thing(None, <<"dog">>), Thing("Max", <<"male", "cat">>)>>}}

Row(there, text) == [there |-> there, text |-> text]

Tables ==
    {[blocks |-> <<>>, breed |-> b, sex |-> s, age |-> a] :
        b \in {Row(FALSE, None), Row(TRUE, None), Row(TRUE, "kelpie")},
        s \in {Row(FALSE, None), Row(TRUE, "male")},
        a \in {Row(FALSE, None), Row(TRUE, "2 years")}}
=============================================================================
