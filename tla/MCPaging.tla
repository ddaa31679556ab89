------------------------------ MODULE MCPaging ------------------------------
(* Registries and shelters for TLC: the registry as it is, and with the entry *)
(* of Wollongong, which registry.py has dropped until its site lifts a block. *)
EXTENDS Paging

PetRescue == <<"petrescue", ".", "com", ".", "au">>
Council == <<"wollongong", ".", "nsw", ".", "gov", ".", "au">>
Www == <<"www", ".">>

BaseHost == Www \o PetRescue

Only == <<[host |-> PetRescue, parser |-> "petrescue", kind |-> "petrescue"]>>
Both == Only \o <<[host |-> Council, parser |-> "wollongong", kind |-> "wollongong"]>>

Known == {Only, Both}

Names == {"size", "page", "per_page"}

Parts == Range(PetRescue) \cup Range(Council) \cup {"www", "sydney", ":443"}

Truth == [petrescue |-> {PetRescue, Www \o PetRescue}, wollongong |-> {Www \o Council}]

At(host, path) == [NoUrl EXCEPT !.host = host, !.path = path]

Paths == {"listings/search", "listings/search/dogs"}

Group == At(Www \o PetRescue, "groups/1")
Sized(n) ==
    [At(PetRescue, "listings/search") EXCEPT
        !.query = [@ EXCEPT !["size"] = <<1, 2>>, !["per_page"] = <<n>>, !["page"] = <<1>>]]
OfDogs == [Sized(60) EXCEPT !.capitals = TRUE, !.path = "listings/search/dogs"]
Lookalike == At(<<"www", ".", "sydney">> \o PetRescue, "listings/search")
Board == At(Www \o Council, "find-a-dog")
Ported == [Group EXCEPT !.port = <<":443">>]

KnownShelters ==
    {[listing |-> l, crosspost |-> c] :
        l \in {Group, Ported, Sized(20), OfDogs, Lookalike, Board, NoUrl},
        c \in {Group, NoUrl}}

Shared == [At(Www \o PetRescue, "dogs") EXCEPT !.fragment = "bindi"]

Listed ==
    [bindi |-> {Shared, [Shared EXCEPT !.slashes = 1], [Shared EXCEPT !.capitals = TRUE, !.slashes = 2]},
     rex |-> {[Shared EXCEPT !.fragment = "rex"], [Shared EXCEPT !.fragment = "rex", !.capitals = TRUE]},
     home |-> {[Shared EXCEPT !.path = "", !.fragment = ""],
               [Shared EXCEPT !.path = "", !.slashes = 1, !.fragment = ""]},
     ace |-> {[Shared EXCEPT !.host = Www \o Council],
              [Shared EXCEPT !.host = Www \o Council, !.slashes = 1]}]
=============================================================================
