------------------------------ MODULE MCImport ------------------------------
(* Instances of Import for TLC. *)
EXTENDS Import

CONSTANT siret

(* Names that need quoting: a quote and a delimiter, a line break. *)
ann == <<"a", QUOTE, COMMA, "n">>
bob == <<"b", LF, SEMI>>
MCNames == {ann, bob}
MCSirets == {siret}
MCRow == [name |-> ann, birth |-> 1990, start |-> 2026, contractType |-> "CDI",
          pay |-> "number", siret |-> None]
(* Twice the same person, the second time without a birth date; somebody   *)
(* twice, first with an establishment that may be unknown.                 *)
MCFiles == {<<MCRow, [MCRow EXCEPT !.birth = None], [MCRow EXCEPT !.start = Malformed]>>,
            <<[MCRow EXCEPT !.name = bob, !.siret = siret], [MCRow EXCEPT !.name = bob],
              [MCRow EXCEPT !.birth = 2015]>>}
(* Characters of one to four bytes, and texts that are not UTF-8. *)
MCBuffers == {<<65, 195, 169>>, <<224, 160, 128>>, <<240, 159, 152, 128>>, <<65, 233>>}
(* Fields whose names contain one another, and the headers of the model    *)
(* file (docs/modele-import-collaborateurs.csv) for them.                  *)
MCFields == <<<<"lastname", "nom", "nom de famille">>,
              <<"firstname", "prenom", "given name">>,
              <<"contracttype", "type de contrat", "contrat", "type">>,
              <<"workingtime", "temps de travail", "heures">>,
              <<"establishmentsiret", "siret", "siret etablissement", "etablissement">>>>
MCTemplate == <<"nom", "prenom", "type de contrat", "temps de travail (h/sem.)",
                "siret etablissement">>
MCIncludes == {<<"nom", "nom">>, <<"nom", "nom de famille">>, <<"prenom", "nom">>,
               <<"prenom", "prenom">>, <<"type de contrat", "type de contrat">>,
               <<"type de contrat", "contrat">>, <<"type de contrat", "type">>,
               <<"temps de travail (h/sem.)", "temps de travail">>,
               <<"siret etablissement", "siret">>, <<"siret etablissement", "etablissement">>,
               <<"siret etablissement", "siret etablissement">>}
MCBothStores == BOOLEAN
MCSymmetry == Permutations(Calls) \cup Permutations(Persons)
=============================================================================
