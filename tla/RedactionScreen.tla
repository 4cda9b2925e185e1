---------------------------- MODULE RedactionScreen ----------------------------
(***************************************************************************)
(* The redaction of a card: the server reads its texts and proposes what   *)
(* to take away, a hand confirms some of the proposals, and the server     *)
(* finds them again in the texts as they are by then.  Half of the         *)
(* proposals are certain, made by the detectors; half are assisted, seen   *)
(* by a model that may not answer.  Nothing is kept between the two calls: *)
(* an id is all that joins what was looked at to what is taken away.       *)
(*                                                                         *)
(* A text is a sequence of words, and a datum is some words in a row; a    *)
(* field that is empty proposes nothing.                                   *)
(***************************************************************************)
EXTENDS UseAsync, SequencesExt

CONSTANTS
    Testi,      \* of each field, the texts a hand may write in it
    Dati,       \* what the detectors know: kind, valore and priorita
    Segnali,    \* what the model may say it has seen: campo, kind and valore
    MaxEdits,   \* edits of other hands
    MaxApply    \* applications under way at a time

VARIABLES
    server,   \* the texts of the card, and how many times another hand wrote them
    page

redactionVars == <<server, page>>

------------------------------------------------------------------------------
Campi == DOMAIN Testi

Slice(testo, start, len) == SubSeq(testo, start, start + len - 1)
Occorrenze(testo, valore) ==
    {i \in 1..(Len(testo) - Len(valore) + 1) : Slice(testo, i, Len(valore)) = valore}

\* A stretch of text: where it starts, how long it is, what takes its place.
Tratto(start, valore, kind) == [start |-> start, len |-> Len(valore), kind |-> kind]
Overlap(s, t) == s.start < t.start + t.len /\ t.start < s.start + s.len

\* Who comes first keeps the place of those it overlaps: of the candidates that are
\* free the first is taken, until none is.
Greedy(presi, candidati, prima) ==
    LET liberi(tratti) == {c \in candidati : \A s \in tratti : ~Overlap(s, c)}
        primi(tratti) == {c \in liberi(tratti) : \A d \in liberi(tratti) : <<d, c>> \notin prima}
        scelti[n \in 0..Cardinality(candidati)] ==
            IF n = 0 THEN presi
            ELSE scelti[n - 1] \cup
                     (IF primi(scelti[n - 1]) = {} THEN {}
                      ELSE {CHOOSE c \in primi(scelti[n - 1]) : TRUE})
    IN scelti[Cardinality(candidati)]

------------------------------------------------------------------------------
(* The proposals. *)

Priorita(kind) == (CHOOSE d \in Dati : d.kind = kind).priorita

\* The strongest detector first, then in the order of the text, then the longest.
DetectSensitive(testo) ==
    LET candidati == UNION {{Tratto(i, d.valore, d.kind) : i \in Occorrenze(testo, d.valore)} :
                               d \in Dati}
        before(a, b) ==
            \/ Priorita(a.kind) < Priorita(b.kind)
            \/ /\ Priorita(a.kind) = Priorita(b.kind)
               /\ a.start < b.start \/ (a.start = b.start /\ a.len > b.len)
    IN Greedy({}, candidati, {p \in candidati \X candidati : before(p[1], p[2])})

\* An id says where and of what kind; the assisted ones say the words too, by
\* their number and fingerprint.
Id(campo, tratto, parole) ==
    [campo |-> campo, start |-> tratto.start, kind |-> tratto.kind, parole |-> parole]
Certa == <<>>

Proposta(campo, tratto, testo, parole) ==
    [id |-> Id(campo, tratto, parole), valore |-> Slice(testo, tratto.start, tratto.len)]

ProposteDi(riga) ==
    UNION {{Proposta(campo, t, riga[campo], Certa) : t \in DetectSensitive(riga[campo])} :
              campo \in Campi}

\* Mutant: the detectors keep nothing of what they have taken.
OccupatiMutant(testo) == {}
\* What an assisted proposal may not overlap.
Occupati(testo) == DetectSensitive(testo)

\* The longest finding first, in the order of the text.
Assistite(campo, testo, findings) ==
    LET candidati == UNION {{Tratto(i, f.valore, f.kind) : i \in Occorrenze(testo, f.valore)} :
                               f \in {x \in findings : x.campo = campo}}
        before(a, b) == a.len > b.len \/ (a.len = b.len /\ a.start < b.start)
        prima == {p \in candidati \X candidati : before(p[1], p[2])}
    IN Greedy(Occupati(testo), candidati, prima) \ Occupati(testo)

ProposteAssistiteDi(riga, findings) ==
    UNION {{Proposta(campo, t, riga[campo], Slice(riga[campo], t.start, t.len)) :
               t \in Assistite(campo, riga[campo], findings)} : campo \in Campi}

\* A report remembers the row it was computed from: the page does not know it.
Report(riga, findings) ==
    [riga |-> riga, proposte |-> ProposteDi(riga) \cup ProposteAssistiteDi(riga, findings)]

------------------------------------------------------------------------------
(* The application. *)

\* Where a confirmation falls today: nowhere, or one stretch.
TrattoDi(riga, id) ==
    IF id.parole = Certa
      THEN {t \in DetectSensitive(riga[id.campo]) : t.start = id.start /\ t.kind = id.kind}
      ELSE {t \in {Tratto(id.start, id.parole, id.kind)} :
                id.start \in Occorrenze(riga[id.campo], id.parole)}

\* All or nothing: SCADUTE, or SOVRAPPOSTE, or the stretches of each field.
Spans(riga, ids, campo) == UNION {TrattoDi(riga, id) : id \in {x \in ids : x.campo = campo}}
Scadute(riga, ids) == \E id \in ids : TrattoDi(riga, id) = {}
Sovrapposte(riga, ids) ==
    \E i, j \in ids : /\ i # j /\ i.campo = j.campo
                      /\ \E s \in TrattoDi(riga, i), t \in TrattoDi(riga, j) : Overlap(s, t)
Applicabili(riga, ids) == ~Scadute(riga, ids) /\ ~Sovrapposte(riga, ids)

Replace(testo, t) ==
    SubSeq(testo, 1, t.start - 1) \o <<t.kind>> \o SubSeq(testo, t.start + t.len, Len(testo))

Starting(spans, i) == {s \in spans : s.start = i}
Redatto(testo, spans, i) ==
    IF Starting(spans, i) = {} THEN testo ELSE Replace(testo, CHOOSE s \in Starting(spans, i) : TRUE)

\* Mutant: from the first stretch to the last.
ApplyRedactionsMutant(testo, spans) ==
    LET risultato[n \in 0..Len(testo)] ==
            IF n = 0 THEN testo ELSE Redatto(risultato[n - 1], spans, n)
    IN risultato[Len(testo)]

\* From the last stretch to the first: a replacement moves what follows it.
ApplyRedactions(testo, spans) ==
    LET risultato[n \in 0..Len(testo)] ==
            IF n = 0 THEN testo ELSE Redatto(risultato[n - 1], spans, Len(testo) - n + 1)
    IN risultato[Len(testo)]

\* The PATCH holds only the fields that are touched, as they were read.
PatchDiRedazione(riga, ids) ==
    [campo \in {id.campo : id \in ids} |-> ApplyRedactions(riga[campo], Spans(riga, ids, campo))]

------------------------------------------------------------------------------
(* The screen. *)

NoRiga == [campo \in {} |-> <<>>]

\* `ascoltata': the page still waits for its answer.
Applicazione(confermate) ==
    [confermate |-> confermate, stato |-> "andata", riga |-> NoRiga, patch |-> NoRiga,
     ascoltata |-> TRUE]

Init ==
    /\ \E riga \in [Campi -> UNION {Testi[campo] : campo \in Campi}] :
           /\ \A campo \in Campi : riga[campo] \in Testi[campo]
           /\ server = [riga |-> riga, edits |-> 0]
    /\ page = [report |-> Mount("proposte"), volo |-> {}, uscita |-> FALSE]

\* Another hand edits a field of the card.
EditElsewhere(campo) ==
    /\ server.edits < MaxEdits
    /\ \E testo \in Testi[campo] \ {server.riga[campo]} :
           server' = [riga |-> [server.riga EXCEPT ![campo] = testo], edits |-> server.edits + 1]
    /\ UNCHANGED page

\* The model answers with some of what there is to see, or does not answer.
ServeReport ==
    /\ \E r \in Unserved(page.report), findings \in SUBSET Segnali :
           page' = [page EXCEPT !.report = Serve(@, r, Report(server.riga, findings))]
    /\ UNCHANGED server

AnswerReport ==
    /\ ~page.uscita
    /\ \E r \in Served(page.report) : page' = [page EXCEPT !.report = Resolve(@, r)]
    /\ UNCHANGED server

FailReport ==
    /\ ~page.uscita
    /\ \E r \in page.report.reads : page' = [page EXCEPT !.report = Reject(@, r)]
    /\ UNCHANGED server

Passata == page.report.kind = "pronto" /\ ~page.uscita
Attesa == \E g \in page.volo : g.ascoltata

\* What can be ticked: any of the proposals.
Scelte == SUBSET page.report.dato.proposte

\* The choices live as long as the passata does: a report that is read again
\* starts with none.
Applica ==
    /\ Passata /\ ~Attesa /\ Cardinality(page.volo) < MaxApply
    /\ \E scelte \in Scelte \ {{}} :
           page' = [page EXCEPT !.volo = @ \cup {Applicazione(scelte)}]
    /\ UNCHANGED server

Ids(g) == {p.id : p \in g.confermate}

\* A call nobody waits for any more leaves no trace of its answer.
Settle(g, esito) ==
    page' = [page EXCEPT !.volo = (@ \ {g}) \cup (IF g.ascoltata THEN {esito} ELSE {})]

\* applyRedaction reads the row and makes the patch, or answers 409.
LeggiConferme(g) ==
    /\ g.stato = "andata"
    /\ IF Applicabili(server.riga, Ids(g))
         THEN page' = [page EXCEPT !.volo = (@ \ {g}) \cup
                          {[g EXCEPT !.stato = "scrive", !.riga = server.riga,
                                     !.patch = PatchDiRedazione(server.riga, Ids(g))]}]
         ELSE Settle(g, [g EXCEPT !.stato = "rifiutata"])
    /\ UNCHANGED server

\* aggiorna: the fields of the patch are written, whatever they have become.
Scrivi(g) ==
    /\ g.stato = "scrive"
    /\ server' = [server EXCEPT !.riga = [campo \in Campi |->
                     IF campo \in DOMAIN g.patch THEN g.patch[campo] ELSE @[campo]]]
    /\ Settle(g, [g EXCEPT !.stato = "fatta", !.riga = NoRiga, !.patch = NoRiga])

\* The screen goes back to the card.
AnswerApplica(g) ==
    /\ g.stato = "fatta" /\ g.ascoltata
    /\ page' = [page EXCEPT !.volo = @ \ {g}, !.uscita = TRUE]
    /\ UNCHANGED server

\* Refused, or its reply lost, or given up while the server is still at it: the
\* proposals are asked for again.
FailApplica(g) ==
    /\ g.ascoltata
    /\ page' = [page EXCEPT !.report = Ricarica(@),
                            !.volo = (@ \ {g}) \cup
                                (IF g.stato \in {"andata", "scrive"}
                                   THEN {[g EXCEPT !.ascoltata = FALSE]} ELSE {})]
    /\ UNCHANGED server

Lascia ==
    /\ Passata /\ ~Attesa
    /\ page' = [page EXCEPT !.uscita = TRUE]
    /\ UNCHANGED server

Next ==
    \/ \E campo \in Campi : EditElsewhere(campo)
    \/ ServeReport \/ AnswerReport \/ FailReport
    \/ Applica \/ Lascia
    \/ \E g \in page.volo : LeggiConferme(g) \/ Scrivi(g) \/ AnswerApplica(g) \/ FailApplica(g)

RedactionSpec == Init /\ [][Next]_redactionVars

------------------------------------------------------------------------------
Writing == {g \in page.volo : g.stato = "scrive"}

\* A text without some stretches, word by word: the words that stay are in their order,
\* and where a stretch started there is its kind.
Erased(esito, testo, spans) ==
    LET restano == {i \in DOMAIN testo : \A s \in spans : ~(s.start < i /\ i < s.start + s.len)}
        posto(i) == Cardinality({j \in restano : j <= i})
    IN /\ Len(esito) = Cardinality(restano)
       /\ \A i \in restano :
              /\ Starting(spans, i) = {} => esito[posto(i)] = testo[i]
              /\ \A s \in Starting(spans, i) : esito[posto(i)] = s.kind

(* What an application writes is the text it read without one stretch for  *)
(* each confirmation, of the kind and at the place confirmed: no word more *)
(* and none less, and no field nobody confirmed anything in; and where a   *)
(* model saw it, the stretch is the very words that were looked at.        *)
OnlyTheConfirmedGoes ==
    \A g \in Writing :
        /\ DOMAIN g.patch = {p.id.campo : p \in g.confermate}
        /\ \A campo \in DOMAIN g.patch :
               LET spans == Spans(g.riga, Ids(g), campo)
               IN /\ Erased(g.patch[campo], g.riga[campo], spans)
                  /\ {<<s.start, s.kind>> : s \in spans}
                        = {<<p.id.start, p.id.kind>> : p \in {x \in g.confermate : x.id.campo = campo}}
        /\ \A p \in g.confermate :
               p.id.parole # Certa =>
                   Slice(g.riga[p.id.campo], p.id.start, Len(p.valore)) = p.valore

(* As long as the card is as it was read, whatever is chosen among its     *)
(* proposals is accepted, and takes away the words the proposals showed.   *)
FreshReportApplies ==
    page.report.kind = "pronto" /\ page.report.dato.riga = server.riga =>
        \A scelte \in Scelte :
            /\ Applicabili(server.riga, {p.id : p \in scelte})
            /\ \A p \in scelte : \A t \in TrattoDi(server.riga, p.id) :
                   Slice(server.riga[p.id.campo], t.start, t.len) = p.valore

(* Either exactly what the user looked at is taken away, or nothing is     *)
(* (proposals.ts:320-322).                                                 *)
OnlyWhatWasSeenGoes ==
    \A g \in Writing : \A p \in g.confermate :
        \E t \in TrattoDi(g.riga, p.id) :
            Slice(g.riga[p.id.campo], t.start, t.len) = p.valore
================================================================================
