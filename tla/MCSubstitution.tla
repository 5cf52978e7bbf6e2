-------------------------- MODULE MCSubstitution --------------------------
\* A name in two words, one in three with an odd blank and a word of the
\* dictionary, one in one word; a city, a date and a company; two synthetic
\* names, two cities and no company.  Custom entities in the run about them.
EXTENDS Substitution, TLC

\* The characters of a string.
Chars(str) == [i \in 1 .. Len(str) |-> SubSeq(str, i, i)]
E(type, str) == [type |-> type, text |-> Chars(str)]

MCPool == [person       |-> {Chars("Karim Hadji"), Chars("Sara Bouzid")},
           location     |-> {Chars("Alger"), Chars("Oran")},
           organization |-> {}]
MCHonorifics == <<Chars("Mme")>>
MCVerbatim == {"date", "monetary"}
MCSaltStart == Chars("3fa81c")

Names == {E("person", "Mohamed Benali"), E("person", "Ali  Ben Sara"), E("person", "Samia")}
Places == {E("location", "Blida"), E("date", "lundi"), E("organization", "Cevital")}
MCEntity == Names \cup Places
MCPlain == {Chars(" "), Chars("Orange ")}

Customs == {E("custom", "dossier"), E("custom", "contrat")}
=============================================================================
