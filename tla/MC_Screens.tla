------------------------------- MODULE MC_Screens -------------------------------
(* Every screen on data of the smallest size at which its hazards show. *)
EXTENDS Screens, TLC

CONSTANTS r1, r2

\* One recording can fail in every way, the other goes well.
MCGuasti == (r1 :> {"ritento", "ferma", "duplicato"}) @@ (r2 :> {})

\* Two rankings that agree on the first page only at their whole depth; a tie; a
\* card that the depth cuts off; a question with nothing by the words.
MCRankings ==
    {[q1 |-> [testo |-> <<"a", "b", "c">>, senso |-> <<"c", "b", "a">>],
      q2 |-> [testo |-> <<"b">>, senso |-> <<"c", "b">>]],
     [q1 |-> [testo |-> <<"a", "b", "c">>, senso |-> <<"c", "b", "d">>],
      q2 |-> [testo |-> <<>>, senso |-> <<"a">>]]}

\* A category of both scopes, and one of a single card.
CONSTANTS t1, t2
MCArchivio == <<[id |-> 1, ambito |-> "LAVORO", tag |-> {t1}],
                [id |-> 2, ambito |-> "PERSONALE", tag |-> {t1, t2}],
                [id |-> 3, ambito |-> "LAVORO", tag |-> {}]>>

\* A story in order; steps misnumbered with a tie and a low confidence; a note with
\* no steps; two answers that are refused.
Racconto(titolo, ordini, azioni, confidenza, tipo) ==
    [forma |-> TRUE, titolo |-> titolo, costi |-> {[importoCent |-> 1600, iso |-> TRUE]},
     confidenza |-> confidenza, tipo |-> tipo,
     passi |-> [i \in DOMAIN ordini |-> [ordine |-> ordini[i], azione |-> azioni[i]]]]
MCRacconti ==
    {Racconto(20, <<1, 2>>, <<"andare", "pagare">>, 9, "PROCEDURA"),
     Racconto(80, <<2, 1, 1>>, <<"pagare", "andare", "firmare">>, 4, "PROCEDURA"),
     Racconto(12, <<>>, <<>>, 8, "NOTA_SEMPLICE"),
     Racconto(0, <<>>, <<>>, 2, "NON_CLASSIFICABILE"),
     [Racconto(20, <<1>>, <<"andare">>, 9, "PROCEDURA") EXCEPT !.forma = FALSE]}

\* Two stretches in a field, one inside another, and two data of one kind at one place.
MCTesti == [titolo |-> {<<"mario", "rossi", "a@b">>, <<"it60", "333", "mario">>},
            trigger |-> {<<"a@b">>, <<"c@d">>}]
MCDati == {[kind |-> "EMAIL", valore |-> <<"a@b">>, priorita |-> 2],
           [kind |-> "EMAIL", valore |-> <<"c@d">>, priorita |-> 2],
           [kind |-> "IBAN", valore |-> <<"it60", "333">>, priorita |-> 0],
           [kind |-> "TELEFONO", valore |-> <<"333">>, priorita |-> 3]}
MCSegnali == {[campo |-> "titolo", kind |-> "NOME_PERSONA", valore |-> <<"mario", "rossi">>],
              [campo |-> "titolo", kind |-> "NOME_PERSONA", valore |-> <<"mario">>],
              [campo |-> "titolo", kind |-> "IDENTIFICATIVO", valore |-> <<"it60">>]}
================================================================================
