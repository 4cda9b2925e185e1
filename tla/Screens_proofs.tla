----------------------------- MODULE Screens_proofs -----------------------------
(***************************************************************************)
(* What the screens keep to, for any number of devices, recordings, cards, *)
(* queries, categories and words, and any bound on what is under way.      *)
(*                                                                         *)
(* About late answers every argument is in two parts: what a hook keeps    *)
(* listening to is one read, made after the last gesture that was answered *)
(* (the hook lemmas); and what a screen was told is still so when that     *)
(* read is served (one invariant per screen).  Then come the steps of a    *)
(* review, the pages of the list and of a search, and the redaction: what  *)
(* counting, ordering and replacing make of data of any size, and an       *)
(* invariant that says the screen shows what was made of them.             *)
(***************************************************************************)
EXTENDS Screens, FiniteSetTheorems, SequenceTheorems, WellFoundedInduction, TLAPS

U == INSTANCE UseAsync

------------------------------------------------------------------------------
(* The hook. *)

\* A hook that asks the questions of Q, to which the answers are of Dato.
Reading(Q, Dato) == [question : Q, silenzioso : BOOLEAN, dato : Dato \cup {NoDato}]
Hook(Q, Dato) ==
    [kind : {"attesa", "pronto", "errore"}, dato : Dato \cup {NoDato}, question : Q,
     reads : SUBSET Reading(Q, Dato)]

\* One read is listened to, of the question asked now; what is shown was answered.
Tidy(h) ==
    /\ \A a, b \in h.reads : a = b
    /\ \A a \in h.reads : a.question = h.question
    /\ h.kind = "pronto" => h.dato # NoDato

LEMMA FreshRead ==
    ASSUME NEW Q, NEW Dato, NEW q \in Q
    PROVE  LET loud == U!Read(q, FALSE)
               quiet == U!Read(q, TRUE)
           IN /\ loud \in Reading(Q, Dato) /\ loud.question = q /\ loud.dato = NoDato
              /\ quiet \in Reading(Q, Dato) /\ quiet.question = q /\ quiet.dato = NoDato
              /\ quiet.silenzioso
    BY DEF U!Read, Reading

\* A hook that waits, with one loud read.
LEMMA WaitingHook ==
    ASSUME NEW Q, NEW Dato, NEW q \in Q
    PROVE  LET e == [kind |-> "attesa", dato |-> NoDato, question |-> q,
                     reads |-> {U!Read(q, FALSE)}] IN
           /\ e \in Hook(Q, Dato) /\ Tidy(e) /\ e.kind = "attesa" /\ e.question = q
           /\ \A a \in e.reads : a.dato = NoDato
    <1> DEFINE l == U!Read(q, FALSE)
    <1>1. l \in Reading(Q, Dato) /\ l.question = q /\ l.dato = NoDato
        BY FreshRead
    <1> HIDE DEF l
    <1>2. {l} \in SUBSET Reading(Q, Dato)
        BY <1>1
    <1> DEFINE e == [kind |-> "attesa", dato |-> NoDato, question |-> q, reads |-> {l}]
    <1>3. e \in Hook(Q, Dato) /\ e.kind = "attesa" /\ e.question = q /\ e.reads = {l}
        BY <1>2 DEF Hook
    <1>4. Tidy(e)
        BY <1>1, <1>3 DEF Tidy
    <1> QED
        BY <1>1, <1>3, <1>4 DEF l

LEMMA MountedHook ==
    ASSUME NEW Q, NEW Dato, NEW q \in Q
    PROVE  LET e == U!Mount(q) IN
           /\ e \in Hook(Q, Dato) /\ Tidy(e) /\ e.kind = "attesa" /\ e.question = q
           /\ \A a \in e.reads : a.dato = NoDato
    BY WaitingHook DEF U!Mount

\* A loud effect forgets what was shown and what was being read.
LEMMA LoudEffect ==
    ASSUME NEW Q, NEW Dato, NEW h, NEW q \in Q
    PROVE  LET e == U!Effect(h, q, FALSE) IN
           /\ e \in Hook(Q, Dato) /\ Tidy(e) /\ e.kind = "attesa" /\ e.question = q
           /\ \A a \in e.reads : a.dato = NoDato
    <1>1. U!Effect(h, q, FALSE)
              = [kind |-> "attesa", dato |-> NoDato, question |-> q, reads |-> {U!Read(q, FALSE)}]
        BY DEF U!Effect
    <1> QED
        BY <1>1, WaitingHook

LEMMA Reloaded ==
    ASSUME NEW Q, NEW Dato, NEW h \in Hook(Q, Dato)
    PROVE  LET e == U!Ricarica(h) IN
           /\ e \in Hook(Q, Dato) /\ Tidy(e) /\ e.kind = "attesa" /\ e.question = h.question
           /\ \A a \in e.reads : a.dato = NoDato
    <1>1. h.question \in Q
        BY DEF Hook
    <1>2. U!Ricarica(h) = U!Effect(h, h.question, FALSE)
        BY DEF U!Ricarica
    <1> DEFINE q == h.question
    <1> HIDE DEF q
    <1>3. LET e == U!Effect(h, q, FALSE) IN
          /\ e \in Hook(Q, Dato) /\ Tidy(e) /\ e.kind = "attesa" /\ e.question = q
          /\ \A a \in e.reads : a.dato = NoDato
        BY <1>1, LoudEffect DEF q
    <1> QED
        BY <1>2, <1>3 DEF q

\* A quiet one forgets what was being read only.
LEMMA Refreshed ==
    ASSUME NEW Q, NEW Dato, NEW h \in Hook(Q, Dato), Tidy(h)
    PROVE  LET e == U!Aggiorna(h) IN
           /\ e \in Hook(Q, Dato) /\ Tidy(e) /\ e.kind = h.kind /\ e.dato = h.dato
           /\ e.question = h.question
           /\ \A a \in e.reads : a.dato = NoDato /\ a.silenzioso
    <1> DEFINE l == U!Read(h.question, TRUE)
               e == U!Aggiorna(h)
    <1>1. h.question \in Q
        BY DEF Hook
    <1>2. l \in Reading(Q, Dato) /\ l.question = h.question /\ l.dato = NoDato /\ l.silenzioso
        BY <1>1, FreshRead
    <1>3. e = [kind |-> h.kind, dato |-> h.dato, question |-> h.question, reads |-> {l}]
        BY DEF U!Aggiorna, U!Effect
    <1> HIDE DEF l, e
    <1>4. {l} \in SUBSET Reading(Q, Dato)
        BY <1>2
    <1>5. e \in Hook(Q, Dato) /\ e.kind = h.kind /\ e.dato = h.dato /\ e.question = h.question
              /\ e.reads = {l}
        BY <1>3, <1>4 DEF Hook
    <1>6. Tidy(e)
        BY <1>2, <1>5 DEF Tidy
    <1> QED
        BY <1>2, <1>5, <1>6 DEF e

LEMMA ServedRead ==
    ASSUME NEW Q, NEW Dato, NEW h \in Hook(Q, Dato), Tidy(h), NEW r \in h.reads, NEW d \in Dato
    PROVE  LET e == U!Serve(h, r, d) IN
           /\ e \in Hook(Q, Dato) /\ Tidy(e) /\ e.kind = h.kind /\ e.dato = h.dato
           /\ e.question = h.question
           /\ \A a \in e.reads : a.dato = d /\ a.silenzioso = r.silenzioso
    <1> DEFINE s == [r EXCEPT !.dato = d]
    <1>1. r \in Reading(Q, Dato)
        BY DEF Hook
    <1>2. s \in Reading(Q, Dato) /\ s.dato = d /\ s.silenzioso = r.silenzioso
              /\ s.question = r.question
        BY <1>1 DEF Reading
    <1>3. h.reads \ {r} = {}
        BY DEF Tidy
    <1> HIDE DEF s
    <1>4. U!Serve(h, r, d) = [h EXCEPT !.reads = (h.reads \ {r}) \cup {s}]
        BY DEF U!Serve, s
    <1> QED
        BY <1>1, <1>2, <1>3, <1>4 DEF Hook, Tidy

LEMMA ResolvedRead ==
    ASSUME NEW Q, NEW Dato, NEW h \in Hook(Q, Dato), Tidy(h), NEW r \in U!Served(h)
    PROVE  LET e == U!Resolve(h, r) IN
           /\ e \in Hook(Q, Dato) /\ Tidy(e) /\ e.kind = "pronto" /\ e.dato = r.dato
           /\ e.question = h.question /\ e.reads = {}
           /\ r \in h.reads /\ r.dato \in Dato /\ r.dato # NoDato /\ r.question = h.question
    <1>1. r \in h.reads /\ r \in Reading(Q, Dato) /\ r.dato # NoDato
        BY DEF U!Served, Hook
    <1>2. h.reads \ {r} = {}
        BY <1>1 DEF Tidy
    <1>3. r.dato \in Dato
        BY <1>1 DEF Reading
    <1> QED
        BY <1>1, <1>2, <1>3 DEF U!Resolve, Hook, Tidy

\* A read that fails says so, unless it was quiet and there is something to show.
LEMMA RejectedRead ==
    ASSUME NEW Q, NEW Dato, NEW h \in Hook(Q, Dato), Tidy(h), NEW r \in h.reads
    PROVE  LET e == U!Reject(h, r) IN
           /\ e \in Hook(Q, Dato) /\ Tidy(e) /\ e.question = h.question /\ e.reads = {}
           /\ \/ e.kind = "errore"
              \/ r.silenzioso /\ e.kind = "pronto" /\ h.kind = "pronto" /\ e.dato = h.dato
           /\ r.silenzioso /\ h.kind = "pronto" => e.kind = "pronto"
    <1>1. h.reads \ {r} = {}
        BY DEF Tidy
    <1> QED
        BY <1>1 DEF U!Reject, Hook, Tidy

------------------------------------------------------------------------------
(* One screen at a time: the route never changes. *)

LEMMA RouteStays ==
    ASSUME [Next]_screensVars
    PROVE  route' = route
    BY DEF Next, screensVars, Cestino, Lista, Elenco, Conto, Scheda, Revisione, Cerca, Redazione

------------------------------------------------------------------------------
(* AccountScreen. *)

AccountCall ==
    [gesto : {"una", "altre", "cambia", "conto"}, device : Devices \cup {NoDevice},
     stato : {"andata", "fatta", "rifiutata"}, chiuse : SUBSET Devices]
AccountPage ==
    [elenco : Hook({"sessioni"}, SUBSET Devices), conPassword : BOOLEAN, prova : BOOLEAN,
     inVolo : Devices \cup {NoDevice}, chiesta : BOOLEAN, volo : SUBSET AccountCall,
     chiuse : SUBSET Devices, coda : BOOLEAN]
AccountServer == [sessione : [Devices -> {"aperta", "chiusa"}], conto : BOOLEAN]

\* What the page was told, or will be told, is so: the account is gone, a session closed.
Told ==
    /\ \A g \in page.volo : g.gesto = "conto" /\ g.stato = "fatta" => ~server.conto
    /\ \A g \in page.volo : g.chiuse \cap A!Open = {}
    /\ page.chiuse \cap A!Open = {}

\* The list, shown or on its way, is younger than the closures the page was told.
ListIsYoung ==
    /\ \A a \in page.elenco.reads : a.dato # NoDato => a.dato \cap page.chiuse = {}
    /\ A!OwnClosuresStayGone

AccountInv ==
    /\ server \in AccountServer /\ page \in AccountPage /\ Tidy(page.elenco)
    /\ Told /\ ListIsYoung /\ A!QueueOutlivesTheAccount

LEMMA AccountHook ==
    ASSUME NEW h, NEW r, NEW d
    PROVE  /\ A!Mount(d) = U!Mount(d)
           /\ A!Serve(h, r, d) = U!Serve(h, r, d)
           /\ A!Unserved(h) \subseteq h.reads
           /\ A!Served(h) = U!Served(h)
           /\ A!Resolve(h, r) = U!Resolve(h, r)
           /\ A!Reject(h, r) = U!Reject(h, r)
           /\ A!Ricarica(h) = U!Ricarica(h)
    BY DEF A!Mount, U!Mount, A!Read, U!Read, A!Serve, U!Serve, A!Unserved, A!Served, U!Served,
           A!Resolve, U!Resolve, A!Reject, U!Reject, A!Ricarica, U!Ricarica, A!Effect, U!Effect

LEMMA AccountInit ==
    ASSUME A!Init
    PROVE  AccountInv
    <1> DEFINE h == U!Mount("sessioni")
    <1>1. /\ h \in Hook({"sessioni"}, SUBSET Devices) /\ Tidy(h) /\ h.kind = "attesa"
          /\ \A a \in h.reads : a.dato = NoDato
        BY MountedHook
    <1> HIDE DEF h
    <1>2. server = [sessione |-> [d \in Devices |-> "aperta"], conto |-> TRUE]
        BY DEF A!Init
    <1>3. PICK b \in BOOLEAN :
            page = [elenco |-> h, conPassword |-> b,
                 prova |-> FALSE, inVolo |-> NoDevice, chiesta |-> FALSE,
                 volo |-> {}, chiuse |-> {}, coda |-> TRUE]
        BY AccountHook DEF A!Init, h
    <1>4. server \in AccountServer /\ page \in AccountPage
        BY <1>1, <1>2, <1>3 DEF AccountServer, AccountPage
    <1>5. page.volo = {} /\ page.chiuse = {} /\ page.coda /\ page.elenco = h
        BY <1>3
    <1> QED
        BY <1>1, <1>4, <1>5
        DEF AccountInv, Told, ListIsYoung, A!OwnClosuresStayGone, A!Listed,
            A!QueueOutlivesTheAccount

\* The fields an argument is about, after a step.
AccountStays ==
    /\ page'.elenco = page.elenco /\ page'.volo = page.volo /\ page'.chiuse = page.chiuse
    /\ page'.coda = page.coda

\* A button, a field: nothing the invariant speaks of.
LEMMA AccountHandStep ==
    ASSUME AccountInv, A!ScriviPassword \/ A!ConfermaGoogle \/ A!VoglioCancellare \/ A!LasciaStare
    PROVE  AccountInv'
    <1>1. server' = server /\ AccountStays /\ page' \in AccountPage
        <2>1. CASE A!ScriviPassword
            <3> DEFINE b == ~page.prova
            <3>1. b \in BOOLEAN
                OBVIOUS
            <3> HIDE DEF b
            <3>2. page' = [page EXCEPT !.prova = b] /\ server' = server
                BY <2>1 DEF A!ScriviPassword, b
            <3> QED
                BY <3>1, <3>2 DEF AccountInv, AccountPage, AccountStays
        <2>2. CASE A!ConfermaGoogle
            BY <2>2 DEF A!ConfermaGoogle, AccountInv, AccountPage, AccountStays
        <2>3. CASE A!VoglioCancellare
            BY <2>3 DEF A!VoglioCancellare, AccountInv, AccountPage, AccountStays
        <2>4. CASE A!LasciaStare
            BY <2>4 DEF A!LasciaStare, AccountInv, AccountPage, AccountStays
        <2> QED
            BY <2>1, <2>2, <2>3, <2>4
    <1> QED
        BY <1>1
        DEF AccountStays, AccountInv, Told, ListIsYoung, A!Open, A!Listed, A!OwnClosuresStayGone,
            A!QueueOutlivesTheAccount

\* Elsewhere sessions only close, and the account only goes.
LEMMA AccountElsewhereStep ==
    ASSUME AccountInv, (\E d \in Devices : A!LeaveElsewhere(d)) \/ A!CancellaElsewhere
    PROVE  AccountInv'
    <1>1. /\ page' = page /\ server' \in AccountServer
          /\ \A d \in Devices : server'.sessione[d] = "aperta" => server.sessione[d] = "aperta"
          /\ server'.conto => server.conto
        <2>1. CASE \E d \in Devices : A!LeaveElsewhere(d)
            BY <2>1 DEF A!LeaveElsewhere, AccountInv, AccountServer
        <2>2. CASE A!CancellaElsewhere
            BY <2>2 DEF A!CancellaElsewhere, AccountInv, AccountServer
        <2> QED
            BY <2>1, <2>2
    <1> QED
        BY <1>1
        DEF AccountInv, Told, ListIsYoung, A!Open, A!Listed, A!OwnClosuresStayGone,
            A!QueueOutlivesTheAccount

\* A read is served what is open now, which is none of what the page saw closed.
LEMMA AccountReadStep ==
    ASSUME AccountInv, A!ServeElenco \/ A!AnswerElenco \/ A!FailElenco
    PROVE  AccountInv'
    <1> DEFINE Hooks == Hook({"sessioni"}, SUBSET Devices)
               Young(h) ==
                  /\ h \in Hooks /\ Tidy(h)
                  /\ \A a \in h.reads : a.dato # NoDato => a.dato \cap page.chiuse = {}
                  /\ h.kind = "pronto" => h.dato \cap page.chiuse = {}
    <1>1. page.elenco \in Hooks /\ Tidy(page.elenco) /\ Young(page.elenco)
        BY DEF AccountInv, AccountPage, ListIsYoung, A!OwnClosuresStayGone, A!Listed
    <1> HIDE DEF Hooks
    <1>2. server' = server /\ \E h \in Hooks : page' = [page EXCEPT !.elenco = h] /\ Young(h)
        <2>1. CASE A!ServeElenco
            <3>1. PICK r \in A!Unserved(page.elenco) :
                    page' = [page EXCEPT !.elenco = A!Serve(page.elenco, r, A!Open)]
                BY <2>1 DEF A!ServeElenco
            <3>2. r \in page.elenco.reads
                BY AccountHook
            <3>3. A!Open \in SUBSET Devices /\ A!Open \cap page.chiuse = {}
                BY DEF A!Open, AccountInv, Told
            <3> DEFINE d == A!Open
                       h == U!Serve(page.elenco, r, d)
            <3> HIDE DEF d
            <3>4. /\ h \in Hooks /\ Tidy(h) /\ h.kind = page.elenco.kind /\ h.dato = page.elenco.dato
                  /\ \A a \in h.reads : a.dato = d
                BY <1>1, <3>2, <3>3, ServedRead DEF Hooks, d
            <3>5. page' = [page EXCEPT !.elenco = h]
                BY <3>1, AccountHook DEF d
            <3> QED
                BY <1>1, <2>1, <3>3, <3>4, <3>5 DEF A!ServeElenco, d
        <2>2. CASE A!AnswerElenco
            <3>1. PICK r \in A!Served(page.elenco) :
                    page' = [page EXCEPT !.elenco = A!Resolve(page.elenco, r)]
                BY <2>2 DEF A!AnswerElenco
            <3> DEFINE h == U!Resolve(page.elenco, r)
            <3>2. /\ h \in Hooks /\ Tidy(h) /\ h.dato = r.dato /\ h.reads = {}
                  /\ r \in page.elenco.reads /\ r.dato # NoDato
                BY <1>1, <3>1, AccountHook, ResolvedRead DEF Hooks
            <3>3. page' = [page EXCEPT !.elenco = h]
                BY <3>1, AccountHook
            <3> QED
                BY <1>1, <2>2, <3>2, <3>3 DEF A!AnswerElenco
        <2>3. CASE A!FailElenco
            <3>1. PICK r \in page.elenco.reads :
                    page' = [page EXCEPT !.elenco = A!Reject(page.elenco, r)]
                BY <2>3 DEF A!FailElenco
            <3> DEFINE h == U!Reject(page.elenco, r)
            <3>2. /\ h \in Hooks /\ Tidy(h) /\ h.reads = {}
                  /\ h.kind = "pronto" => page.elenco.kind = "pronto" /\ h.dato = page.elenco.dato
                BY <1>1, <3>1, RejectedRead DEF Hooks
            <3>3. page' = [page EXCEPT !.elenco = h]
                BY <3>1, AccountHook
            <3> QED
                BY <1>1, <2>3, <3>2, <3>3 DEF A!FailElenco
        <2> QED
            BY <2>1, <2>2, <2>3
    <1>3. PICK h \in Hooks : page' = [page EXCEPT !.elenco = h] /\ Young(h)
        BY <1>2
    <1>4. /\ page' \in AccountPage /\ page'.elenco = h /\ page'.volo = page.volo
          /\ page'.chiuse = page.chiuse /\ page'.coda = page.coda
        BY <1>3 DEF AccountInv, AccountPage, Hooks
    <1> QED
        BY <1>2, <1>3, <1>4
        DEF AccountInv, Told, ListIsYoung, A!Open, A!Listed, A!OwnClosuresStayGone,
            A!QueueOutlivesTheAccount

\* A call is sent: nothing is closed for it yet.
LEMMA AccountSendStep ==
    ASSUME AccountInv,
           \/ \E d \in Devices : A!ChiudiUna(d)
           \/ A!ScollegaAltri \/ A!CambiaPassword \/ A!CancellaConto
    PROVE  AccountInv'
    <1>1. \E gesto \in {"una", "altre", "cambia", "conto"}, device \in Devices \cup {NoDevice},
             p \in AccountPage :
             /\ A!Send(p, gesto, device)
             /\ p.elenco = page.elenco /\ p.volo = page.volo /\ p.chiuse = page.chiuse
             /\ p.coda = page.coda
        <2>1. page \in AccountPage
            BY DEF AccountInv
        <2>2. CASE \E d \in Devices : A!ChiudiUna(d)
            <3>1. PICK d \in Devices : A!ChiudiUna(d)
                BY <2>2
            <3> DEFINE p == [page EXCEPT !.inVolo = d]
            <3>2. /\ p \in AccountPage /\ p.elenco = page.elenco /\ p.volo = page.volo
                  /\ p.chiuse = page.chiuse /\ p.coda = page.coda
                BY <2>1 DEF AccountPage
            <3>3. A!Send(p, "una", d)
                BY <3>1 DEF A!ChiudiUna
            <3> QED
                BY <3>2, <3>3
        <2>3. CASE A!ScollegaAltri
            BY <2>1, <2>3 DEF A!ScollegaAltri
        <2>4. CASE A!CambiaPassword
            BY <2>1, <2>4 DEF A!CambiaPassword
        <2>5. CASE A!CancellaConto
            BY <2>1, <2>5 DEF A!CancellaConto
        <2> QED
            BY <2>2, <2>3, <2>4, <2>5
    <1>2. PICK gesto \in {"una", "altre", "cambia", "conto"}, device \in Devices \cup {NoDevice},
             p \in AccountPage :
             /\ A!Send(p, gesto, device)
             /\ p.elenco = page.elenco /\ p.volo = page.volo /\ p.chiuse = page.chiuse
             /\ p.coda = page.coda
        BY <1>1
    <1> DEFINE c == A!Call(gesto, device)
    <1>3. c \in AccountCall /\ c.chiuse = {} /\ c.stato = "andata"
        BY DEF A!Call, AccountCall
    <1> HIDE DEF c
    <1>4. server' = server /\ page' = [p EXCEPT !.volo = p.volo \cup {c}]
        BY <1>2 DEF A!Send, c
    <1>5. /\ page' \in AccountPage /\ page'.elenco = page.elenco
          /\ page'.volo = page.volo \cup {c}
          /\ page'.chiuse = page.chiuse /\ page'.coda = page.coda
        BY <1>2, <1>3, <1>4 DEF AccountPage
    <1> QED
        BY <1>3, <1>4, <1>5
        DEF AccountInv, Told, ListIsYoung, A!Open, A!Listed, A!OwnClosuresStayGone,
            A!QueueOutlivesTheAccount

\* The server closes sessions, or the account, and its answer says which.
LEMMA AccountServerStep ==
    ASSUME AccountInv, NEW g \in page.volo, A!Handle(g) \/ A!Refuse(g)
    PROVE  AccountInv'
    <1>1. g \in AccountCall /\ page \in AccountPage /\ server \in AccountServer
        BY DEF AccountInv, AccountPage
    <1>2. /\ server' \in AccountServer
          /\ \A d \in Devices : server'.sessione[d] = "aperta" => server.sessione[d] = "aperta"
          /\ server'.conto => server.conto
          /\ \E e \in AccountCall :
                /\ page' = [page EXCEPT !.volo = (page.volo \ {g}) \cup {e}]
                /\ \A d \in e.chiuse : server'.sessione[d] # "aperta"
                /\ e.gesto = "conto" /\ e.stato = "fatta" => ~server'.conto
        <2>1. CASE A!Handle(g)
            <3> DEFINE k == A!Closes(g)
                       e == [g EXCEPT !.stato = "fatta", !.chiuse = k]
                       sessione == [d \in Devices |-> IF d \in k THEN "chiusa"
                                                      ELSE server.sessione[d]]
            <3>1. k \in SUBSET Devices
                BY <1>1 DEF A!Closes, A!Open, AccountCall
            <3> HIDE DEF k
            <3>2. e \in AccountCall /\ e.chiuse = k /\ e.gesto = g.gesto
                BY <1>1, <3>1 DEF AccountCall
            <3>3. page' = [page EXCEPT !.volo = (page.volo \ {g}) \cup {e}]
                BY <2>1 DEF A!Handle, A!Settle, k
            <3>4. sessione \in [Devices -> {"aperta", "chiusa"}]
                BY <1>1 DEF AccountServer
            <3>5. server' = [sessione |-> sessione, conto |-> g.gesto # "conto"] /\ server.conto
                BY <2>1 DEF A!Handle, k
            <3> HIDE DEF e
            <3>6. server' \in AccountServer /\ server'.sessione = sessione
                      /\ server'.conto = (g.gesto # "conto")
                BY <3>4, <3>5 DEF AccountServer
            <3>7. \A d \in Devices : d \in k => sessione[d] = "chiusa"
                OBVIOUS
            <3>8. \A d \in Devices : sessione[d] = "aperta" => server.sessione[d] = "aperta"
                OBVIOUS
            <3> HIDE DEF sessione
            <3> QED
                BY <3>1, <3>2, <3>3, <3>5, <3>6, <3>7, <3>8
        <2>2. CASE A!Refuse(g)
            <3> DEFINE e == [g EXCEPT !.stato = "rifiutata"]
            <3>1. e \in AccountCall /\ e.chiuse = g.chiuse /\ e.stato = "rifiutata"
                BY <1>1 DEF AccountCall
            <3>2. page' = [page EXCEPT !.volo = (page.volo \ {g}) \cup {e}] /\ server' = server
                BY <2>2 DEF A!Refuse, A!Settle
            <3> HIDE DEF e
            <3>3. \A d \in g.chiuse : server.sessione[d] # "aperta"
                BY <1>1 DEF AccountInv, Told, A!Open, AccountCall
            <3> QED
                BY <1>1, <3>1, <3>2, <3>3
        <2> QED
            BY <2>1, <2>2
    <1>3. PICK e \in AccountCall :
            /\ page' = [page EXCEPT !.volo = (page.volo \ {g}) \cup {e}]
            /\ \A d \in e.chiuse : server'.sessione[d] # "aperta"
            /\ e.gesto = "conto" /\ e.stato = "fatta" => ~server'.conto
        BY <1>2
    <1>4. /\ page' \in AccountPage /\ page'.elenco = page.elenco
          /\ page'.volo = (page.volo \ {g}) \cup {e}
          /\ page'.chiuse = page.chiuse /\ page'.coda = page.coda
        BY <1>1, <1>3 DEF AccountPage
    <1> QED
        BY <1>2, <1>3, <1>4
        DEF AccountInv, Told, ListIsYoung, A!Open, A!Listed, A!OwnClosuresStayGone,
            A!QueueOutlivesTheAccount

\* The answers.  The one that tells of a closure has the list read again; the one
\* that empties the queue is of an account that is gone.
LEMMA AccountAnswerStep ==
    ASSUME AccountInv, NEW g \in page.volo,
           A!AnswerChiusura(g) \/ A!AnswerCambio(g) \/ A!AnswerCancellazione(g) \/ A!FailCall(g)
    PROVE  AccountInv'
    <1>1. g \in AccountCall /\ page \in AccountPage /\ server \in AccountServer /\ server' = server
        BY DEF AccountInv, AccountPage, A!AnswerChiusura, A!AnswerCambio, A!AnswerCancellazione,
               A!FailCall
    <1>2. CASE A!AnswerChiusura(g)
        <2> DEFINE h == U!Ricarica(page.elenco)
                   inVolo == IF g.gesto = "una" THEN NoDevice ELSE page.inVolo
        <2>1. /\ h \in Hook({"sessioni"}, SUBSET Devices) /\ Tidy(h) /\ h.kind = "attesa"
              /\ \A a \in h.reads : a.dato = NoDato
            BY <1>1, Reloaded DEF AccountPage
        <2>2. inVolo \in Devices \cup {NoDevice}
            BY <1>1 DEF AccountPage
        <2> HIDE DEF h, inVolo
        <2>3. page' = [page EXCEPT !.volo = page.volo \ {g}, !.prova = FALSE,
                                   !.chiuse = page.chiuse \cup g.chiuse,
                                   !.inVolo = inVolo, !.elenco = h]
            BY <1>2, AccountHook DEF A!AnswerChiusura, A!Closed, h, inVolo
        <2>4. g.chiuse \in SUBSET Devices
            BY <1>1 DEF AccountCall
        <2>5. /\ page' \in AccountPage /\ page'.elenco = h /\ page'.volo = page.volo \ {g}
              /\ page'.chiuse = page.chiuse \cup g.chiuse /\ page'.coda = page.coda
            BY <1>1, <2>1, <2>2, <2>3, <2>4 DEF AccountPage
        <2> QED
            BY <1>1, <2>1, <2>5
            DEF AccountInv, Told, ListIsYoung, A!Open, A!Listed, A!OwnClosuresStayGone,
                A!QueueOutlivesTheAccount
    <1>3. CASE A!AnswerCambio(g) \/ A!AnswerCancellazione(g) \/ A!FailCall(g)
        <2>1. /\ page' \in AccountPage /\ page'.elenco = page.elenco
              /\ page'.volo = page.volo \ {g} /\ page'.chiuse = page.chiuse
              /\ page'.coda # page.coda => ~server.conto
            <3>1. CASE A!AnswerCambio(g)
                <4> DEFINE b == page.prova /\ page.conPassword
                <4>1. b \in BOOLEAN
                    OBVIOUS
                <4> HIDE DEF b
                <4>2. page' = [page EXCEPT !.volo = page.volo \ {g}, !.conPassword = TRUE, !.prova = b]
                    BY <3>1 DEF A!AnswerCambio, b
                <4> QED
                    BY <1>1, <4>1, <4>2 DEF AccountPage
            <3>2. CASE A!AnswerCancellazione(g)
                <4>1. page' = [page EXCEPT !.volo = page.volo \ {g}, !.coda = FALSE]
                          /\ g.gesto = "conto" /\ g.stato = "fatta"
                    BY <3>2 DEF A!AnswerCancellazione
                <4> QED
                    BY <1>1, <4>1 DEF AccountPage, AccountInv, Told
            <3>3. CASE A!FailCall(g)
                <4> DEFINE b == page.prova /\ (page.conPassword \/ g.gesto \notin {"una", "altre"})
                           inVolo == IF g.gesto = "una" THEN NoDevice ELSE page.inVolo
                <4>1. b \in BOOLEAN /\ inVolo \in Devices \cup {NoDevice}
                    BY <1>1 DEF AccountPage
                <4> HIDE DEF b, inVolo
                <4>2. page' = [page EXCEPT !.volo = page.volo \ {g}, !.prova = b, !.inVolo = inVolo]
                    BY <3>3 DEF A!FailCall, b, inVolo
                <4> QED
                    BY <1>1, <4>1, <4>2 DEF AccountPage
            <3> QED
                BY <1>3, <3>1, <3>2, <3>3
        <2> QED
            BY <1>1, <2>1
            DEF AccountInv, Told, ListIsYoung, A!Open, A!Listed, A!OwnClosuresStayGone,
                A!QueueOutlivesTheAccount
    <1> QED
        BY <1>2, <1>3

LEMMA AccountStep ==
    ASSUME AccountInv, A!Next
    PROVE  AccountInv'
    BY AccountHandStep, AccountElsewhereStep, AccountReadStep, AccountSendStep, AccountServerStep,
       AccountAnswerStep
    DEF A!Next

LEMMA AccountSafe == ScreensSpec => [](route = "conto" => AccountInv)
    <1>1. Init => (route = "conto" => AccountInv)
        BY AccountInit DEF Init
    <1>2. (route = "conto" => AccountInv) /\ [Next]_screensVars => (route = "conto" => AccountInv)'
        <2> SUFFICES ASSUME route = "conto", AccountInv, [Next]_screensVars
                     PROVE  AccountInv'
            BY RouteStays
        <2>1. CASE A!Next
            BY <2>1, AccountStep
        <2>2. CASE UNCHANGED <<server, page>>
            BY <2>2
            DEF AccountInv, Told, ListIsYoung, A!Open, A!Listed, A!OwnClosuresStayGone,
                A!QueueOutlivesTheAccount
        <2> QED
            BY <2>1, <2>2
            DEF Next, screensVars, Cestino, Lista, Elenco, Conto, Scheda, Revisione, Cerca, Redazione
    <1> QED
        BY <1>1, <1>2, PTL DEF ScreensSpec

(* AccountScreen: the queue of this device is emptied only of an account    *)
(* that is gone, whichever calls are refused, lost or answered late         *)
(* (AccountScreen.tsx:485-524).                                             *)
THEOREM QueueOutlives == ScreensSpec => []QueueOutlivesTheAccount
    <1>1. (route = "conto" => AccountInv) => QueueOutlivesTheAccount
        BY DEF AccountInv, QueueOutlivesTheAccount
    <1> QED
        BY <1>1, AccountSafe, PTL

------------------------------------------------------------------------------
(* DetailScreen. *)

DetailCard == [tag : SUBSET Tags, vocale : BOOLEAN]
DetailCall ==
    [sezione : {"categorie", "conferma", "elimina"}, prossime : SUBSET Tags, nuovi : SUBSET Tags,
     stato : {"andata", "fatta", "rifiutata"}, montata : BOOLEAN]
DetailPage ==
    [scheda : Hook({"scheda"}, DetailCard), volo : SUBSET DetailCall, salvati : SUBSET Tags,
     buttato : BOOLEAN, solo : BOOLEAN]

\* A voice the page was told is gone: on the server, and in what the page shows or waits for.
VoiceGone ==
    /\ page.buttato => ~server.vocale
    /\ \A g \in page.volo : g.sezione = "elimina" /\ g.stato = "fatta" => ~server.vocale
    /\ \A a \in page.scheda.reads : a.dato # NoDato /\ page.buttato => ~a.dato.vocale
    /\ D!OwnDeletionStaysGone

\* Whoever is alone has one call under way at most, and only on a card that is shown:
\* whatever was saved is in what that call writes, and in every card the page works on.
Alone ==
    page.solo =>
        /\ D!LoneHandKeepsItsTags
        /\ \A g, k \in page.volo : g = k
        /\ \A g \in page.volo :
              /\ D!Pronta /\ g.montata /\ g.sezione = "categorie"
              /\ page.salvati \cup g.nuovi \subseteq g.prossime
              /\ g.stato = "fatta" => server.tag = g.prossime
        /\ D!Pronta => page.salvati \subseteq D!P.tag
        /\ \A a \in page.scheda.reads : a.dato # NoDato => page.salvati \subseteq a.dato.tag

\* No section reads quietly: what is shown is not being read.
DetailInv ==
    /\ server \in DetailCard /\ page \in DetailPage /\ Tidy(page.scheda)
    /\ D!Pronta => page.scheda.reads = {}
    /\ VoiceGone /\ Alone

LEMMA DetailHook ==
    ASSUME NEW h, NEW r, NEW d
    PROVE  /\ D!Mount(d) = U!Mount(d)
           /\ D!Serve(h, r, d) = U!Serve(h, r, d)
           /\ D!Unserved(h) \subseteq h.reads
           /\ D!Served(h) = U!Served(h)
           /\ D!Resolve(h, r) = U!Resolve(h, r)
           /\ D!Reject(h, r) = U!Reject(h, r)
           /\ D!Ricarica(h) = U!Ricarica(h)
    BY DEF D!Mount, U!Mount, D!Read, U!Read, D!Serve, U!Serve, D!Unserved, D!Served, U!Served,
           D!Resolve, U!Resolve, D!Reject, U!Reject, D!Ricarica, U!Ricarica, D!Effect, U!Effect

LEMMA DetailInit ==
    ASSUME D!Init
    PROVE  DetailInv
    <1> DEFINE h == U!Mount("scheda")
    <1>1. /\ h \in Hook({"scheda"}, DetailCard) /\ Tidy(h) /\ h.kind = "attesa"
          /\ \A a \in h.reads : a.dato = NoDato
        BY MountedHook
    <1> HIDE DEF h
    <1>2. /\ server = [tag |-> {}, vocale |-> TRUE]
          /\ page = [scheda |-> h, volo |-> {}, salvati |-> {}, buttato |-> FALSE, solo |-> TRUE]
        BY DetailHook DEF D!Init, h
    <1>3. server \in DetailCard /\ page \in DetailPage
        BY <1>1, <1>2 DEF DetailCard, DetailPage
    <1>4. page.volo = {} /\ page.salvati = {} /\ ~page.buttato /\ page.scheda = h
        BY <1>2
    <1> QED
        BY <1>1, <1>3, <1>4
        DEF DetailInv, VoiceGone, Alone, D!OwnDeletionStaysGone, D!LoneHandKeepsItsTags, D!Pronta, D!P

LEMMA DetailElsewhereStep ==
    ASSUME DetailInv, (\E tag \in SUBSET Tags : D!TagElsewhere(tag)) \/ D!DeleteElsewhere
    PROVE  DetailInv'
    <1>1. CASE \E tag \in SUBSET Tags : D!TagElsewhere(tag)
        <2>1. PICK tag \in SUBSET Tags :
                /\ server' = [server EXCEPT !.tag = tag]
                /\ page' = [page EXCEPT !.solo = FALSE]
            BY <1>1 DEF D!TagElsewhere
        <2>2. /\ server' \in DetailCard /\ server'.vocale = server.vocale
              /\ page' \in DetailPage /\ ~page'.solo /\ page'.scheda = page.scheda
              /\ page'.volo = page.volo /\ page'.buttato = page.buttato
            BY <2>1 DEF DetailInv, DetailCard, DetailPage
        <2> QED
            BY <2>2
            DEF DetailInv, VoiceGone, Alone, D!OwnDeletionStaysGone, D!LoneHandKeepsItsTags, D!Pronta, D!P
    <1>2. CASE D!DeleteElsewhere
        <2>1. /\ server' \in DetailCard /\ ~server'.vocale /\ server'.tag = server.tag
              /\ page' = page
            BY <1>2 DEF D!DeleteElsewhere, DetailInv, DetailCard
        <2> QED
            BY <2>1
            DEF DetailInv, VoiceGone, Alone, D!OwnDeletionStaysGone, D!LoneHandKeepsItsTags, D!Pronta, D!P
    <1> QED
        BY <1>1, <1>2

\* The sections are drawn again: a call keeps everything but its place.
LEMMA Redrawn ==
    ASSUME NEW p \in DetailPage, NEW h \in Hook({"scheda"}, DetailCard)
    PROVE  LET q == D!Render(p, h) IN
           /\ q \in DetailPage /\ q.scheda = h /\ q.salvati = p.salvati
           /\ q.buttato = p.buttato /\ q.solo = p.solo
           /\ p.volo = {} => q.volo = {}
           /\ \A k \in q.volo : \E g \in p.volo :
                 /\ k.sezione = g.sezione /\ k.stato = g.stato
                 /\ k.prossime = g.prossime /\ k.nuovi = g.nuovi
    <1> DEFINE m(g) == g.montata /\ h.kind = "pronto"
               drawn(g) == [g EXCEPT !.montata = m(g)]
               volo == {drawn(g) : g \in p.volo}
    <1>1. ASSUME NEW g \in p.volo
          PROVE  /\ drawn(g) \in DetailCall /\ drawn(g).sezione = g.sezione
                 /\ drawn(g).stato = g.stato /\ drawn(g).prossime = g.prossime
                 /\ drawn(g).nuovi = g.nuovi
        <2> DEFINE b == m(g)
        <2>1. b \in BOOLEAN
            OBVIOUS
        <2>2. g \in DetailCall
            BY DEF DetailPage
        <2> HIDE DEF b
        <2>3. drawn(g) = [g EXCEPT !.montata = b]
            BY DEF b
        <2> HIDE DEF drawn
        <2> QED
            BY <2>1, <2>2, <2>3 DEF DetailCall
    <1>2. D!Render(p, h) = [p EXCEPT !.scheda = h, !.volo = volo]
        BY DEF D!Render
    <1> HIDE DEF drawn
    <1>3. volo \in SUBSET DetailCall
        BY <1>1
    <1> HIDE DEF volo
    <1>4. LET q == [p EXCEPT !.scheda = h, !.volo = volo] IN
          /\ q \in DetailPage /\ q.scheda = h /\ q.salvati = p.salvati
          /\ q.buttato = p.buttato /\ q.solo = p.solo /\ q.volo = volo
        BY <1>3 DEF DetailPage
    <1>5. p.volo = {} => volo = {}
        BY DEF volo
    <1>6. \A k \in volo : \E g \in p.volo :
            /\ k.sezione = g.sezione /\ k.stato = g.stato
            /\ k.prossime = g.prossime /\ k.nuovi = g.nuovi
        BY <1>1 DEF volo
    <1> QED
        BY <1>2, <1>4, <1>5, <1>6

\* The card is read as it is; whoever is alone has no call under way meanwhile.
LEMMA DetailReadStep ==
    ASSUME DetailInv, D!ServeScheda \/ D!AnswerScheda \/ D!FailScheda
    PROVE  DetailInv'
    <1> DEFINE Hooks == Hook({"scheda"}, DetailCard)
    <1>1. page.scheda \in Hooks /\ Tidy(page.scheda) /\ page \in DetailPage /\ server' = server
              /\ server \in DetailCard
        BY DEF DetailInv, DetailPage, D!ServeScheda, D!AnswerScheda, D!FailScheda
    <1> HIDE DEF Hooks
    <1>2. CASE D!ServeScheda
        <2>1. PICK r \in D!Unserved(page.scheda) :
                page' = [page EXCEPT !.scheda = D!Serve(page.scheda, r, server)]
            BY <1>2 DEF D!ServeScheda
        <2>2. r \in page.scheda.reads
            BY DetailHook
        <2> DEFINE h == U!Serve(page.scheda, r, server)
        <2>3. /\ h \in Hooks /\ Tidy(h) /\ h.kind = page.scheda.kind /\ h.dato = page.scheda.dato
              /\ \A a \in h.reads : a.dato = server
            BY <1>1, <2>2, ServedRead DEF Hooks
        <2>4. page' = [page EXCEPT !.scheda = h]
            BY <2>1, DetailHook
        <2> HIDE DEF h
        <2>5. /\ page' \in DetailPage /\ page'.scheda = h /\ page'.volo = page.volo
              /\ page'.salvati = page.salvati /\ page'.buttato = page.buttato
              /\ page'.solo = page.solo
            BY <1>1, <2>3, <2>4 DEF DetailPage, Hooks
        <2>6. ~D!Pronta
            BY <2>2 DEF DetailInv
        <2> QED
            BY <1>1, <2>3, <2>5, <2>6
            DEF DetailInv, VoiceGone, Alone, D!OwnDeletionStaysGone, D!LoneHandKeepsItsTags, D!Pronta, D!P
    <1>3. CASE D!AnswerScheda \/ D!FailScheda
        <2>1. \E h \in Hooks :
                /\ page' = D!Render(page, h)
                /\ Tidy(h) /\ h.reads = {}
                /\ ~D!Pronta
                /\ h.kind = "pronto" =>
                      \E a \in page.scheda.reads : a.dato # NoDato /\ h.dato = a.dato
            <3>1. CASE D!AnswerScheda
                <4>1. PICK r \in D!Served(page.scheda) : page' = D!Render(page, D!Resolve(page.scheda, r))
                    BY <3>1 DEF D!AnswerScheda
                <4> DEFINE h == U!Resolve(page.scheda, r)
                <4>2. /\ h \in Hooks /\ Tidy(h) /\ h.dato = r.dato /\ h.reads = {}
                      /\ r \in page.scheda.reads /\ r.dato # NoDato
                    BY <1>1, <4>1, DetailHook, ResolvedRead DEF Hooks
                <4>3. page' = D!Render(page, h)
                    BY <4>1, DetailHook
                <4> QED
                    BY <4>2, <4>3 DEF DetailInv
            <3>2. CASE D!FailScheda
                <4>1. PICK r \in page.scheda.reads : page' = D!Render(page, D!Reject(page.scheda, r))
                    BY <3>2 DEF D!FailScheda
                <4> DEFINE h == U!Reject(page.scheda, r)
                <4>2. ~D!Pronta
                    BY <4>1 DEF DetailInv
                <4>3. /\ h \in Hooks /\ Tidy(h) /\ h.reads = {}
                      /\ h.kind = "errore" \/ page.scheda.kind = "pronto"
                    BY <1>1, <4>1, RejectedRead DEF Hooks
                <4>4. page' = D!Render(page, h)
                    BY <4>1, DetailHook
                <4> QED
                    BY <4>2, <4>3, <4>4 DEF D!Pronta
            <3> QED
                BY <1>3, <3>1, <3>2
        <2>2. PICK h \in Hooks :
                /\ page' = D!Render(page, h)
                /\ Tidy(h) /\ h.reads = {}
                /\ ~D!Pronta
                /\ h.kind = "pronto" =>
                      \E a \in page.scheda.reads : a.dato # NoDato /\ h.dato = a.dato
            BY <2>1
        <2> DEFINE q == D!Render(page, h)
        <2>3. page \in DetailPage /\ h \in Hook({"scheda"}, DetailCard)
            BY <1>1, <2>2 DEF Hooks
        <2>4. /\ q \in DetailPage /\ q.scheda = h /\ q.salvati = page.salvati
              /\ q.buttato = page.buttato /\ q.solo = page.solo
              /\ page.volo = {} => q.volo = {}
              /\ \A k \in q.volo : \E g \in page.volo :
                    /\ k.sezione = g.sezione /\ k.stato = g.stato
                    /\ k.prossime = g.prossime /\ k.nuovi = g.nuovi
            BY <2>3, Redrawn
        <2> HIDE DEF q
        <2>5. /\ page' = q /\ ~D!Pronta /\ Tidy(h) /\ h.reads = {}
              /\ h.kind = "pronto" =>
                    \E a \in page.scheda.reads : a.dato # NoDato /\ h.dato = a.dato
            BY <2>2 DEF q
        <2>6. page.solo => page.volo = {}
            BY <2>5 DEF DetailInv, Alone
        <2>7. VoiceGone'
            BY <1>1, <2>4, <2>5
            DEF DetailInv, VoiceGone, D!OwnDeletionStaysGone, D!Pronta, D!P
        <2>8. Alone'
            BY <1>1, <2>4, <2>5, <2>6
            DEF DetailInv, Alone, D!LoneHandKeepsItsTags, D!Pronta, D!P
        <2> QED
            BY <1>1, <2>4, <2>5, <2>7, <2>8 DEF DetailInv, D!Pronta
    <1> QED
        BY <1>2, <1>3

\* A section that has no call under way sends one, built on the card that is shown.
LEMMA DetailTagStep ==
    ASSUME DetailInv, NEW t \in Tags, D!Aggiungi(t) \/ D!Togli(t)
    PROVE  DetailInv'
    <1>1. page \in DetailPage /\ server' = server /\ D!Pronta /\ ~D!Attesa("categorie")
        BY DEF DetailInv, D!Aggiungi, D!Togli, D!PuoAggiungere, D!Send
    <1>2. D!P \in DetailCard
        BY <1>1 DEF DetailInv, DetailPage, Tidy, Hook, D!Pronta, D!P
    <1>3. page.solo => page.volo = {}
        BY <1>1 DEF DetailInv, Alone, D!Attesa
    <1> DEFINE Sends(salvati, prossime, nuovi) ==
                /\ page' = [page EXCEPT !.salvati = salvati,
                                        !.volo = page.volo \cup {D!Call("categorie", prossime, nuovi)}]
                /\ page.salvati \subseteq D!P.tag => salvati \cup nuovi \subseteq prossime
    <1>4. \E salvati \in SUBSET page.salvati : \E prossime \in SUBSET Tags : \E nuovi \in SUBSET Tags :
            Sends(salvati, prossime, nuovi)
        <2>1. CASE D!Aggiungi(t)
            <3>1. page' = [page EXCEPT !.volo = page.volo \cup {D!Call("categorie", D!P.tag \cup {t}, {t})}]
                BY <2>1 DEF D!Aggiungi, D!Send
            <3>2. [page EXCEPT !.volo = page.volo \cup {D!Call("categorie", D!P.tag \cup {t}, {t})}]
                    = [page EXCEPT !.salvati = page.salvati,
                              !.volo = page.volo \cup {D!Call("categorie", D!P.tag \cup {t}, {t})}]
                BY <1>1 DEF DetailPage
            <3>3. Sends(page.salvati, D!P.tag \cup {t}, {t})
                BY <3>1, <3>2
            <3>4. D!P.tag \cup {t} \in SUBSET Tags /\ {t} \in SUBSET Tags
                BY <1>2 DEF DetailCard
            <3> HIDE DEF Sends
            <3>5. page.salvati \in SUBSET page.salvati
                OBVIOUS
            <3> QED
                BY <3>3, <3>4, <3>5
        <2>2. CASE D!Togli(t)
            <3>1. page' = [page EXCEPT !.salvati = page.salvati \ {t},
                              !.volo = page.volo \cup {D!Call("categorie", D!P.tag \ {t}, {})}]
                BY <1>1, <2>2 DEF D!Togli, D!Send, DetailPage
            <3>2. Sends(page.salvati \ {t}, D!P.tag \ {t}, {})
                BY <3>1
            <3>3. D!P.tag \ {t} \in SUBSET Tags /\ {} \in SUBSET Tags
                BY <1>2 DEF DetailCard
            <3> HIDE DEF Sends
            <3>4. page.salvati \ {t} \in SUBSET page.salvati
                OBVIOUS
            <3> QED
                BY <3>2, <3>3, <3>4
        <2> QED
            BY <2>1, <2>2
    <1>5. PICK salvati \in SUBSET page.salvati, prossime \in SUBSET Tags, nuovi \in SUBSET Tags :
            Sends(salvati, prossime, nuovi)
        BY <1>4
    <1> DEFINE c == D!Call("categorie", prossime, nuovi)
    <1>6. /\ c \in DetailCall /\ c.sezione = "categorie" /\ c.stato = "andata" /\ c.montata
          /\ c.prossime = prossime /\ c.nuovi = nuovi
        BY DEF D!Call, DetailCall
    <1> HIDE DEF c
    <1>7. page' = [page EXCEPT !.salvati = salvati, !.volo = page.volo \cup {c}]
        BY <1>5 DEF c
    <1>8. /\ page' \in DetailPage /\ page'.scheda = page.scheda /\ page'.salvati = salvati
          /\ page'.volo = page.volo \cup {c} /\ page'.buttato = page.buttato
          /\ page'.solo = page.solo
        BY <1>1, <1>6, <1>7 DEF DetailPage
    <1> QED
        BY <1>1, <1>3, <1>5, <1>6, <1>8
        DEF DetailInv, VoiceGone, Alone, D!OwnDeletionStaysGone, D!LoneHandKeepsItsTags, D!Pronta, D!P

\* Another section is used: whoever does is no more the lone hand of the claim.
LEMMA DetailSendStep ==
    ASSUME DetailInv, D!Invia \/ D!Elimina
    PROVE  DetailInv'
    <1>1. \E sezione \in {"conferma", "elimina"} :
            /\ page' = [page EXCEPT !.solo = FALSE, !.volo = page.volo \cup {D!Call(sezione, {}, {})}]
            /\ server' = server
        BY DEF D!Invia, D!Elimina, D!Send, DetailInv, DetailPage
    <1>2. PICK sezione \in {"conferma", "elimina"} :
            /\ page' = [page EXCEPT !.solo = FALSE, !.volo = page.volo \cup {D!Call(sezione, {}, {})}]
            /\ server' = server
        BY <1>1
    <1> DEFINE c == D!Call(sezione, {}, {})
    <1>3. c \in DetailCall /\ c.stato = "andata"
        BY DEF D!Call, DetailCall
    <1> HIDE DEF c
    <1>4. page' = [page EXCEPT !.solo = FALSE, !.volo = page.volo \cup {c}]
        BY <1>2 DEF c
    <1>5. /\ page' \in DetailPage /\ page'.scheda = page.scheda
          /\ page'.volo = page.volo \cup {c} /\ page'.buttato = page.buttato /\ ~page'.solo
        BY <1>3, <1>4 DEF DetailPage, DetailInv
    <1> QED
        BY <1>2, <1>3, <1>5
        DEF DetailInv, VoiceGone, Alone, D!OwnDeletionStaysGone, D!LoneHandKeepsItsTags, D!Pronta, D!P

\* The server does what a call asks.
LEMMA DetailServerStep ==
    ASSUME DetailInv, NEW g \in page.volo, D!Handle(g) \/ D!Refuse(g)
    PROVE  DetailInv'
    <1>1. g \in DetailCall /\ page \in DetailPage /\ server \in DetailCard
        BY DEF DetailInv, DetailPage
    <1>2. \E stato \in {"fatta", "rifiutata"} :
            /\ page' = [page EXCEPT !.volo = (page.volo \ {g}) \cup {[g EXCEPT !.stato = stato]}]
            /\ \/ stato = "fatta" /\ D!Handle(g)
               \/ stato = "rifiutata" /\ server' = server
        BY DEF D!Handle, D!Refuse, D!Settle
    <1>3. PICK stato \in {"fatta", "rifiutata"} :
            /\ page' = [page EXCEPT !.volo = (page.volo \ {g}) \cup {[g EXCEPT !.stato = stato]}]
            /\ \/ stato = "fatta" /\ D!Handle(g)
               \/ stato = "rifiutata" /\ server' = server
        BY <1>2
    <1> DEFINE e == [g EXCEPT !.stato = stato]
    <1>4. /\ e \in DetailCall /\ e.sezione = g.sezione /\ e.stato = stato
          /\ e.prossime = g.prossime /\ e.nuovi = g.nuovi /\ e.montata = g.montata
        BY <1>1 DEF DetailCall
    <1> HIDE DEF e
    <1>5. page' = [page EXCEPT !.volo = (page.volo \ {g}) \cup {e}]
        BY <1>3 DEF e
    <1>6. /\ page' \in DetailPage /\ page'.scheda = page.scheda
          /\ page'.volo = (page.volo \ {g}) \cup {e} /\ page'.salvati = page.salvati
          /\ page'.buttato = page.buttato /\ page'.solo = page.solo
        BY <1>1, <1>4, <1>5 DEF DetailPage
    <1>7. /\ server' \in DetailCard
          /\ server'.vocale => server.vocale
          /\ stato = "fatta" => /\ g.sezione = "elimina" => ~server'.vocale
                                /\ g.sezione = "categorie" => server'.tag = g.prossime
          /\ stato = "rifiutata" => server' = server
        <2>1. CASE stato = "rifiutata"
            BY <1>1, <1>3, <2>1
        <2>2. CASE stato = "fatta"
            <3> DEFINE tag == IF g.sezione = "categorie" THEN g.prossime ELSE server.tag
                       vocale == server.vocale /\ g.sezione # "elimina"
            <3>1. tag \in SUBSET Tags /\ vocale \in BOOLEAN
                BY <1>1 DEF DetailCall, DetailCard
            <3>2. server' = [tag |-> tag, vocale |-> vocale]
                BY <1>3, <2>2 DEF D!Handle
            <3> HIDE DEF vocale
            <3>3. server' \in DetailCard /\ server'.tag = tag /\ server'.vocale = vocale
                BY <3>1, <3>2 DEF DetailCard
            <3> QED
                BY <2>2, <3>3 DEF vocale
        <2> QED
            BY <2>1, <2>2
    <1> QED
        BY <1>3, <1>4, <1>6, <1>7
        DEF DetailInv, VoiceGone, Alone, D!OwnDeletionStaysGone, D!LoneHandKeepsItsTags, D!Pronta, D!P

\* Answered, the card is read again; given up, the call is forgotten.
LEMMA DetailAnswerStep ==
    ASSUME DetailInv, NEW g \in page.volo, D!AnswerCall(g) \/ D!FailCall(g)
    PROVE  DetailInv'
    <1>1. g \in DetailCall /\ page \in DetailPage /\ server \in DetailCard /\ server' = server
        BY DEF DetailInv, DetailPage, D!AnswerCall, D!FailCall
    <1>2. CASE D!AnswerCall(g)
        <2> DEFINE h == U!Ricarica(page.scheda)
                   b == page.buttato \/ g.sezione = "elimina"
                   p == [page EXCEPT !.volo = page.volo \ {g},
                                     !.salvati = page.salvati \cup g.nuovi, !.buttato = b]
        <2>1. /\ h \in Hook({"scheda"}, DetailCard) /\ Tidy(h) /\ h.kind = "attesa"
              /\ \A a \in h.reads : a.dato = NoDato
            BY <1>1, Reloaded DEF DetailPage
        <2>2. b \in BOOLEAN /\ g.nuovi \in SUBSET Tags
            BY <1>1 DEF DetailCall
        <2>3. page' = D!Render(p, h) /\ g.stato = "fatta"
            BY <1>2, DetailHook DEF D!AnswerCall
        <2> HIDE DEF h, b
        <2>4. /\ p \in DetailPage /\ p.volo = page.volo \ {g}
              /\ p.salvati = page.salvati \cup g.nuovi /\ p.buttato = b /\ p.solo = page.solo
            BY <1>1, <2>2 DEF DetailPage
        <2> HIDE DEF p
        <2>5. /\ page' \in DetailPage /\ page'.scheda = h /\ page'.salvati = p.salvati
              /\ page'.buttato = b /\ page'.solo = page.solo
              /\ p.volo = {} => page'.volo = {}
              /\ \A k \in page'.volo : \E x \in p.volo : k.sezione = x.sezione /\ k.stato = x.stato
            BY <2>1, <2>3, <2>4, Redrawn
        <2>6. b => ~server.vocale
            BY <2>3 DEF b, DetailInv, VoiceGone
        <2>7. page.solo => p.volo = {} /\ p.salvati \subseteq server.tag
            BY <2>3, <2>4 DEF DetailInv, Alone
        <2> QED
            BY <1>1, <2>1, <2>4, <2>5, <2>6, <2>7
            DEF DetailInv, VoiceGone, Alone, D!OwnDeletionStaysGone, D!LoneHandKeepsItsTags, D!Pronta, D!P
    <1>3. CASE D!FailCall(g)
        <2> DEFINE b == page.solo /\ g.stato # "andata"
        <2>1. b \in BOOLEAN
            OBVIOUS
        <2>2. page' = [page EXCEPT !.volo = page.volo \ {g}, !.solo = b]
            BY <1>3 DEF D!FailCall
        <2>3. b => page.solo
            OBVIOUS
        <2> HIDE DEF b
        <2>4. /\ page' \in DetailPage /\ page'.scheda = page.scheda /\ page'.volo = page.volo \ {g}
              /\ page'.salvati = page.salvati /\ page'.buttato = page.buttato /\ page'.solo = b
            BY <1>1, <2>1, <2>2 DEF DetailPage
        <2> QED
            BY <1>1, <2>3, <2>4
            DEF DetailInv, VoiceGone, Alone, D!OwnDeletionStaysGone, D!LoneHandKeepsItsTags, D!Pronta, D!P
    <1> QED
        BY <1>2, <1>3

LEMMA DetailStep ==
    ASSUME DetailInv, D!Next
    PROVE  DetailInv'
    BY DetailElsewhereStep, DetailReadStep, DetailTagStep, DetailSendStep, DetailServerStep,
       DetailAnswerStep
    DEF D!Next

LEMMA DetailSafe == ScreensSpec => [](route = "scheda" => DetailInv)
    <1>1. Init => (route = "scheda" => DetailInv)
        BY DetailInit DEF Init
    <1>2. (route = "scheda" => DetailInv) /\ [Next]_screensVars => (route = "scheda" => DetailInv)'
        <2> SUFFICES ASSUME route = "scheda", DetailInv, [Next]_screensVars
                     PROVE  DetailInv'
            BY RouteStays
        <2>1. CASE D!Next
            BY <2>1, DetailStep
        <2>2. CASE UNCHANGED <<server, page>>
            BY <2>2
            DEF DetailInv, VoiceGone, Alone, D!OwnDeletionStaysGone,
                D!LoneHandKeepsItsTags, D!Pronta, D!P
        <2> QED
            BY <2>1, <2>2
            DEF Next, screensVars, Cestino, Lista, Elenco, Conto, Scheda, Revisione, Cerca, Redazione
    <1> QED
        BY <1>1, <1>2, PTL DEF ScreensSpec

(* DetailScreen: the categories are sent whole, as the page shows them with *)
(* one more or one less, and yet whoever only does that loses none that was *)
(* saved, replies lost or not: the field waits for the call before it, and  *)
(* for the card to be read again (DetailScreen.tsx, Categorie).             *)
THEOREM LoneHandKeeps == ScreensSpec => []LoneHandKeepsItsTags
    <1>1. (route = "scheda" => DetailInv) => LoneHandKeepsItsTags
        BY DEF DetailInv, Alone, LoneHandKeepsItsTags, D!LoneHandKeepsItsTags
    <1> QED
        BY <1>1, DetailSafe, PTL

------------------------------------------------------------------------------
(* A hook, whatever it asks and is answered. *)

IsHook(h) == \E Q, Dato : h \in Hook(Q, Dato)

\* Nothing is shown, and the one read has not been served.
Waits(h, q) ==
    /\ IsHook(h) /\ Tidy(h) /\ h.kind = "attesa" /\ h.question = q
    /\ \A a \in h.reads : a.dato = NoDato

LEMMA AnyMounted ==
    ASSUME NEW q
    PROVE  Waits(U!Mount(q), q)
    <1> DEFINE e == U!Mount(q)
    <1>1. q \in {q}
        OBVIOUS
    <1>2. /\ e \in Hook({q}, {}) /\ Tidy(e) /\ e.kind = "attesa" /\ e.question = q
          /\ \A a \in e.reads : a.dato = NoDato
        BY <1>1, MountedHook
    <1> HIDE DEF e
    <1>3. Waits(e, q)
        BY <1>2 DEF Waits, IsHook
    <1> QED
        BY <1>3 DEF e

LEMMA AnyAsked ==
    ASSUME NEW h, NEW q
    PROVE  Waits(U!Effect(h, q, FALSE), q)
    <1> DEFINE e == U!Effect(h, q, FALSE)
    <1>1. q \in {q}
        OBVIOUS
    <1>2. /\ e \in Hook({q}, {}) /\ Tidy(e) /\ e.kind = "attesa" /\ e.question = q
          /\ \A a \in e.reads : a.dato = NoDato
        BY <1>1, LoudEffect
    <1> HIDE DEF e
    <1>3. Waits(e, q)
        BY <1>2 DEF Waits, IsHook
    <1> QED
        BY <1>3 DEF e

LEMMA AnyServed ==
    ASSUME NEW h, IsHook(h), Tidy(h), NEW r \in h.reads, NEW d
    PROVE  LET e == U!Serve(h, r, d) IN
           /\ IsHook(e) /\ Tidy(e) /\ e.kind = h.kind /\ e.dato = h.dato /\ e.question = h.question
           /\ \A a \in e.reads : a.dato = d
           /\ r.question = h.question
    <1> DEFINE e == U!Serve(h, r, d)
    <1>1. PICK Q, Prima : h \in Hook(Q, Prima)
        BY DEF IsHook
    <1> DEFINE Dato == Prima \cup {d}
    <1>2. Reading(Q, Prima) \subseteq Reading(Q, Dato)
        BY DEF Reading
    <1>3. h \in Hook(Q, Dato) /\ d \in Dato
        BY <1>1, <1>2 DEF Hook
    <1> HIDE DEF Dato
    <1>4. /\ e \in Hook(Q, Dato) /\ Tidy(e) /\ e.kind = h.kind /\ e.dato = h.dato
          /\ e.question = h.question /\ \A a \in e.reads : a.dato = d
        BY <1>3, ServedRead
    <1> HIDE DEF e
    <1>5. r.question = h.question
        BY DEF Tidy
    <1>6. IsHook(e)
        BY <1>4 DEF IsHook
    <1> QED
        BY <1>4, <1>5, <1>6 DEF e

LEMMA AnyResolved ==
    ASSUME NEW h, IsHook(h), Tidy(h), NEW r \in U!Served(h)
    PROVE  LET e == U!Resolve(h, r) IN
           /\ IsHook(e) /\ Tidy(e) /\ e.dato = r.dato /\ e.question = h.question /\ e.reads = {}
           /\ r \in h.reads /\ r.dato # NoDato /\ r.question = h.question
    <1> DEFINE e == U!Resolve(h, r)
    <1>1. PICK Q, Dato : h \in Hook(Q, Dato)
        BY DEF IsHook
    <1>2. /\ e \in Hook(Q, Dato) /\ Tidy(e) /\ e.dato = r.dato /\ e.question = h.question
          /\ e.reads = {} /\ r \in h.reads /\ r.dato # NoDato /\ r.question = h.question
        BY <1>1, ResolvedRead
    <1> HIDE DEF e
    <1>3. IsHook(e)
        BY <1>2 DEF IsHook
    <1> QED
        BY <1>2, <1>3 DEF e

LEMMA AnyRejected ==
    ASSUME NEW h, IsHook(h), Tidy(h), NEW r \in h.reads
    PROVE  LET e == U!Reject(h, r) IN
           /\ IsHook(e) /\ Tidy(e) /\ e.question = h.question /\ e.reads = {}
           /\ e.kind = "pronto" => h.kind = "pronto" /\ e.dato = h.dato
    <1> DEFINE e == U!Reject(h, r)
    <1>1. PICK Q, Dato : h \in Hook(Q, Dato)
        BY DEF IsHook
    <1>2. /\ e \in Hook(Q, Dato) /\ Tidy(e) /\ e.question = h.question /\ e.reads = {}
          /\ \/ e.kind = "errore"
             \/ r.silenzioso /\ e.kind = "pronto" /\ h.kind = "pronto" /\ e.dato = h.dato
        BY <1>1, RejectedRead
    <1> HIDE DEF e
    <1>3. IsHook(e)
        BY <1>2 DEF IsHook
    <1> QED
        BY <1>2, <1>3 DEF e

------------------------------------------------------------------------------
(* TrashScreen. *)

TrashCall ==
    [card : Cards \cup {NoCard}, gesto : {"ripristina", "cancella", "svuota"},
     stato : {"andata", "fatta", "rifiutata"}, montata : BOOLEAN, tolte : SUBSET Cards,
     prima : BOOLEAN]
TrashPage(p) ==
    /\ p = [offset |-> p.offset, hook |-> p.hook, voci |-> p.voci, svuota |-> p.svuota,
            volo |-> p.volo, cancellate |-> p.cancellate, nonRilette |-> p.nonRilette]
    /\ p.volo \subseteq TrashCall
TrashServer(s) ==
    /\ s = [cestino |-> s.cestino, via |-> s.via]
    /\ DOMAIN s.cestino \subseteq Cards /\ DOMAIN s.cestino \cap s.via = {}

\* Neither shown nor on its way.
NoneOf(h, tolte) ==
    /\ \A a \in h.reads : a.dato # NoDato => a.dato.items \cap tolte = {}
    /\ h.kind = "pronto" => h.dato.items \cap tolte = {}

\* What the page deleted, or will be told it did, is gone for good.  What it has asked for
\* nothing after may still be shown.
TrashInv ==
    /\ TrashServer(server) /\ TrashPage(page) /\ IsHook(page.hook) /\ Tidy(page.hook)
    /\ page.cancellate \subseteq server.via
    /\ \A g \in page.volo : g.tolte \subseteq server.via
    /\ NoneOf(page.hook, page.cancellate \ page.nonRilette)

LEMMA TrashHook ==
    ASSUME NEW h, NEW q, NEW r, NEW d
    PROVE  /\ T!Mount(q) = U!Mount(q)
           /\ T!Serve(h, r, d) = U!Serve(h, r, d)
           /\ T!Unserved(h) \subseteq h.reads
           /\ T!Served(h) = U!Served(h)
           /\ T!Resolve(h, r) = U!Resolve(h, r)
           /\ T!Reject(h, r) = U!Reject(h, r)
           /\ T!Ricarica(h) = U!Effect(h, h.question, FALSE)
           /\ T!Effect(h, q, FALSE) = U!Effect(h, q, FALSE)
    BY DEF T!Mount, U!Mount, T!Read, U!Read, T!Serve, U!Serve, T!Unserved, T!Served, U!Served,
           T!Resolve, U!Resolve, T!Reject, U!Reject, T!Ricarica, T!Effect, U!Effect

LEMMA TrashInit ==
    ASSUME T!Init
    PROVE  TrashInv
    <1> DEFINE h == U!Mount(0)
    <1>1. Waits(h, 0)
        BY AnyMounted
    <1> HIDE DEF h
    <1>2. page = [offset |-> 0, hook |-> h, voci |-> [c \in Cards |-> T!Idle], svuota |-> T!Idle,
                  volo |-> {}, cancellate |-> {}, nonRilette |-> {}]
        BY TrashHook DEF T!Init, h
    <1>3. TrashPage(page) /\ page.hook = h /\ page.volo = {} /\ page.cancellate = {}
        BY <1>2 DEF TrashPage
    <1>4. PICK cestino : DOMAIN cestino \subseteq Cards /\ server = [cestino |-> cestino, via |-> {}]
        BY DEF T!Init
    <1>5. TrashServer(server)
        BY <1>4 DEF TrashServer
    <1> QED
        BY <1>1, <1>3, <1>5 DEF TrashInv, NoneOf, Waits

LEMMA Kept ==
    ASSUME NEW tolte
    PROVE  DOMAIN T!Without(tolte) = DOMAIN server.cestino \ tolte
    BY DEF T!Without, T!Archived

\* Elsewhere nothing that is gone is archived again, and the page hears of nothing.
LEMMA TrashElsewhereStep ==
    ASSUME TrashInv, NEW c \in Cards, T!Archive(c) \/ T!RestoreElsewhere(c) \/ T!DeleteElsewhere(c)
    PROVE  TrashInv'
    <1>1. /\ page' = page /\ TrashServer(server') /\ server.via \subseteq server'.via
        <2>1. CASE T!Archive(c)
            <3> DEFINE cestino == [d \in T!Archived \cup {c} |-> IF d = c THEN 0 ELSE server.cestino[d] + 1]
            <3>1. DOMAIN cestino = DOMAIN server.cestino \cup {c}
                BY DEF T!Archived
            <3>2. server' = [server EXCEPT !.cestino = cestino] /\ page' = page /\ c \notin server.via
                BY <2>1 DEF T!Archive
            <3> HIDE DEF cestino
            <3> QED
                BY <3>1, <3>2 DEF TrashInv, TrashServer
        <2>2. CASE T!RestoreElsewhere(c)
            <3> DEFINE cestino == T!Without({c})
            <3>1. server' = [server EXCEPT !.cestino = cestino] /\ page' = page
                BY <2>2 DEF T!RestoreElsewhere
            <3>2. DOMAIN cestino = DOMAIN server.cestino \ {c}
                BY Kept
            <3> HIDE DEF cestino
            <3> QED
                BY <3>1, <3>2 DEF TrashInv, TrashServer
        <2>3. CASE T!DeleteElsewhere(c)
            <3> DEFINE cestino == T!Without({c})
            <3>1. server' = [cestino |-> cestino, via |-> server.via \cup {c}] /\ page' = page
                BY <2>3 DEF T!DeleteElsewhere
            <3>2. DOMAIN cestino = DOMAIN server.cestino \ {c}
                BY Kept
            <3> HIDE DEF cestino
            <3> QED
                BY <3>1, <3>2 DEF TrashInv, TrashServer
        <2> QED
            BY <2>1, <2>2, <2>3
    <1> QED
        BY <1>1 DEF TrashInv

\* The server does what a gesture asks: what it deletes is gone when it says so.
LEMMA TrashServerStep ==
    ASSUME TrashInv, NEW g \in page.volo,
           T!ServeRipristina(g) \/ T!ServeCancella(g) \/ T!ServeSvuota(g)
    PROVE  TrashInv'
    <1>1. g \in TrashCall /\ TrashPage(page) /\ TrashServer(server)
        BY DEF TrashInv, TrashPage
    <1> DEFINE Settles(stato, tolte) ==
                  page' = [page EXCEPT !.volo = (page.volo \ {g})
                                             \cup {[g EXCEPT !.stato = stato, !.tolte = tolte]}]
               Serves ==
                  \E stato \in {"fatta", "rifiutata"}, tolte \in SUBSET Cards :
                      /\ Settles(stato, tolte) /\ tolte \subseteq server'.via
                      /\ TrashServer(server') /\ server.via \subseteq server'.via
    <1>2. T!Refused(g) = [page EXCEPT !.volo = (page.volo \ {g})
                             \cup {[g EXCEPT !.stato = "rifiutata", !.tolte = g.tolte]}]
        <2>1. [g EXCEPT !.stato = "rifiutata"] = [g EXCEPT !.stato = "rifiutata", !.tolte = g.tolte]
            BY <1>1 DEF TrashCall
        <2> QED
            BY <2>1 DEF T!Refused
    <1>3. Serves
        <2>1. CASE page' = T!Refused(g) /\ server' = server
            <3>1. Settles("rifiutata", g.tolte)
                BY <1>2, <2>1
            <3>2. g.tolte \in SUBSET Cards /\ g.tolte \subseteq server.via
                BY <1>1 DEF TrashCall, TrashInv
            <3> HIDE DEF Settles
            <3> QED
                BY <1>1, <2>1, <3>1, <3>2
        <2>2. CASE T!ServeRipristina(g) /\ g.card \notin server.via
            <3> DEFINE cestino == T!Without({g.card})
            <3>1. server' = [server EXCEPT !.cestino = cestino] /\ Settles("fatta", {})
                BY <2>2 DEF T!ServeRipristina, T!Done
            <3>2. DOMAIN cestino = DOMAIN server.cestino \ {g.card}
                BY Kept
            <3> HIDE DEF cestino, Settles
            <3>3. TrashServer(server') /\ server'.via = server.via
                BY <1>1, <3>1, <3>2 DEF TrashServer
            <3> QED
                BY <3>1, <3>3
        <2>3. ASSUME NEW tolte \in SUBSET T!Archived, page' = T!Done(g, tolte),
                     server' = [cestino |-> T!Without(tolte), via |-> server.via \cup tolte]
              PROVE  Serves
            <3> DEFINE cestino == T!Without(tolte)
            <3>1. server' = [cestino |-> cestino, via |-> server.via \cup tolte] /\ Settles("fatta", tolte)
                BY <2>3 DEF T!Done
            <3>2. DOMAIN cestino = DOMAIN server.cestino \ tolte
                BY Kept
            <3> HIDE DEF cestino, Settles
            <3>3. /\ TrashServer(server') /\ tolte \in SUBSET Cards
                  /\ server'.via = server.via \cup tolte
                BY <1>1, <3>1, <3>2 DEF TrashServer, T!Archived
            <3> QED
                BY <3>1, <3>3
        <2>4. CASE T!ServeCancella(g) /\ g.card \in T!Archived
            <3>1. {g.card} \in SUBSET T!Archived
                BY <2>4
            <3> QED
                BY <2>3, <2>4, <3>1 DEF T!ServeCancella
        <2>5. CASE T!ServeSvuota(g)
            BY <2>3, <2>5 DEF T!ServeSvuota
        <2> QED
            BY <2>1, <2>2, <2>4, <2>5 DEF T!ServeRipristina, T!ServeCancella
    <1>4. PICK stato \in {"fatta", "rifiutata"}, tolte \in SUBSET Cards :
            /\ Settles(stato, tolte) /\ tolte \subseteq server'.via
            /\ TrashServer(server') /\ server.via \subseteq server'.via
        BY <1>3
    <1> DEFINE k == [g EXCEPT !.stato = stato, !.tolte = tolte]
    <1>5. k \in TrashCall /\ k.tolte = tolte
        BY <1>1 DEF TrashCall
    <1>6. page' = [page EXCEPT !.volo = (page.volo \ {g}) \cup {k}]
        BY <1>4
    <1> HIDE DEF k
    <1>7. /\ TrashPage(page') /\ page'.hook = page.hook /\ page'.cancellate = page.cancellate
          /\ page'.nonRilette = page.nonRilette /\ page'.volo = (page.volo \ {g}) \cup {k}
        BY <1>1, <1>5, <1>6 DEF TrashPage
    <1> QED
        BY <1>4, <1>5, <1>7 DEF TrashInv

\* The rows are drawn again: a call keeps what it deleted.
LEMMA TrashRendered ==
    ASSUME NEW p, TrashPage(p), NEW h
    PROVE  LET q == T!Render(p, h) IN
           /\ TrashPage(q) /\ q.hook = h /\ q.cancellate = p.cancellate
           /\ q.nonRilette = p.nonRilette
           /\ \A k \in q.volo : \E g \in p.volo : k.tolte = g.tolte
    <1> DEFINE m(g) == g.montata /\ g.card \in T!Shown(h) \cup {NoCard}
               drawn(g) == [g EXCEPT !.montata = m(g)]
               volo == {drawn(g) : g \in p.volo}
               voci == [c \in Cards |-> IF c \in T!Shown(h) THEN p.voci[c] ELSE T!Idle]
    <1>1. ASSUME NEW g \in p.volo
          PROVE  drawn(g) \in TrashCall /\ drawn(g).tolte = g.tolte
        <2> DEFINE b == m(g)
        <2>1. b \in BOOLEAN
            OBVIOUS
        <2>2. g \in TrashCall
            BY DEF TrashPage
        <2> HIDE DEF b
        <2>3. drawn(g) = [g EXCEPT !.montata = b]
            BY DEF b
        <2> HIDE DEF drawn
        <2> QED
            BY <2>1, <2>2, <2>3 DEF TrashCall
    <1>2. T!Render(p, h) = [p EXCEPT !.hook = h, !.voci = voci, !.volo = volo]
        BY DEF T!Render
    <1> HIDE DEF drawn, voci
    <1>3. volo \subseteq TrashCall /\ \A k \in volo : \E g \in p.volo : k.tolte = g.tolte
        BY <1>1
    <1> HIDE DEF volo
    <1> QED
        BY <1>2, <1>3 DEF TrashPage

\* Whatever the page comes to read or to show, if it was asked for after the last answer
\* about a deletion.
LEMMA TrashShows ==
    ASSUME TrashInv, server' = server, NEW p, TrashPage(p), NEW h, IsHook(h), Tidy(h),
           p.cancellate \subseteq server.via, \A g \in p.volo : g.tolte \subseteq server.via,
           NoneOf(h, p.cancellate \ p.nonRilette), page' = T!Render(p, h)
    PROVE  TrashInv'
    <1> DEFINE q == T!Render(p, h)
    <1>1. /\ TrashPage(q) /\ q.hook = h /\ q.cancellate = p.cancellate
          /\ q.nonRilette = p.nonRilette
          /\ \A k \in q.volo : \E g \in p.volo : k.tolte = g.tolte
        BY TrashRendered
    <1> HIDE DEF q
    <1>2. page' = q
        BY DEF q
    <1> QED
        BY <1>1, <1>2 DEF TrashInv

LEMMA TrashReadStep ==
    ASSUME TrashInv, T!ServePage \/ T!AnswerPage \/ T!FailPage
    PROVE  TrashInv'
    <1>1. server' = server /\ TrashPage(page) /\ IsHook(page.hook) /\ Tidy(page.hook)
        BY DEF TrashInv, T!ServePage, T!AnswerPage, T!FailPage
    <1>2. CASE T!ServePage
        <2>1. PICK r \in T!Unserved(page.hook) :
                page' = [page EXCEPT !.hook = T!Serve(page.hook, r, T!Window(r.question))]
            BY <1>2 DEF T!ServePage
        <2>2. r \in page.hook.reads
            BY TrashHook
        <2> DEFINE d == T!Window(r.question)
                   h == U!Serve(page.hook, r, d)
        <2>3. d.items \subseteq T!Archived
            BY DEF T!Window
        <2>4. d.items \cap page.cancellate = {}
            BY <2>3 DEF TrashInv, TrashServer, T!Archived
        <2>5. page' = [page EXCEPT !.hook = h]
            BY <2>1, TrashHook
        <2> HIDE DEF d
        <2>6. /\ IsHook(h) /\ Tidy(h) /\ h.kind = page.hook.kind /\ h.dato = page.hook.dato
              /\ \A a \in h.reads : a.dato = d
            BY <1>1, <2>2, AnyServed
        <2> HIDE DEF h
        <2>7. /\ TrashPage(page') /\ page'.hook = h /\ page'.volo = page.volo
              /\ page'.cancellate = page.cancellate /\ page'.nonRilette = page.nonRilette
            BY <1>1, <2>5 DEF TrashPage
        <2>8. NoneOf(h, page.cancellate \ page.nonRilette)
            BY <2>4, <2>6 DEF TrashInv, NoneOf
        <2> QED
            BY <1>1, <2>6, <2>7, <2>8 DEF TrashInv
    <1>3. CASE T!AnswerPage
        <2>1. PICK r \in U!Served(page.hook) : page' = T!Render(page, U!Resolve(page.hook, r))
            BY <1>3, TrashHook DEF T!AnswerPage
        <2> DEFINE h == U!Resolve(page.hook, r)
        <2>2. /\ IsHook(h) /\ Tidy(h) /\ h.dato = r.dato /\ h.reads = {}
              /\ r \in page.hook.reads /\ r.dato # NoDato
            BY <1>1, AnyResolved
        <2>3. page' = T!Render(page, h)
            BY <2>1
        <2> HIDE DEF h
        <2>4. NoneOf(h, page.cancellate \ page.nonRilette)
            BY <2>2 DEF TrashInv, NoneOf
        <2> QED
            BY <1>1, <2>2, <2>3, <2>4, TrashShows DEF TrashInv
    <1>4. CASE T!FailPage
        <2>1. PICK r \in page.hook.reads : page' = T!Render(page, U!Reject(page.hook, r))
            BY <1>4, TrashHook DEF T!FailPage
        <2> DEFINE h == U!Reject(page.hook, r)
        <2>2. /\ IsHook(h) /\ Tidy(h) /\ h.reads = {}
              /\ h.kind = "pronto" => page.hook.kind = "pronto" /\ h.dato = page.hook.dato
            BY <1>1, AnyRejected
        <2>3. page' = T!Render(page, h)
            BY <2>1
        <2> HIDE DEF h
        <2>4. NoneOf(h, page.cancellate \ page.nonRilette)
            BY <2>2 DEF TrashInv, NoneOf
        <2> QED
            BY <1>1, <2>2, <2>3, <2>4, TrashShows DEF TrashInv
    <1> QED
        BY <1>2, <1>3, <1>4

\* A page that asks again, or asks for another window, listens to no older read.
LEMMA TrashAsks ==
    ASSUME TrashInv, server' = server, NEW p, TrashPage(p), NEW h, NEW q, Waits(h, q),
           p.cancellate \subseteq server.via, \A g \in p.volo : g.tolte \subseteq server.via,
           \/ page' = T!Asks(p, h)
           \/ \E offset : page' = [T!Asks(p, h) EXCEPT !.offset = offset]
    PROVE  TrashInv'
    <1> DEFINE s == T!Render(p, h)
               n == [s EXCEPT !.nonRilette = {}]
    <1>1. /\ TrashPage(s) /\ s.hook = h /\ s.cancellate = p.cancellate
          /\ \A k \in s.volo : \E g \in p.volo : k.tolte = g.tolte
        BY TrashRendered
    <1> HIDE DEF s
    <1>2. TrashPage(n) /\ n.hook = h /\ n.cancellate = p.cancellate /\ n.volo = s.volo
        BY <1>1 DEF TrashPage
    <1>3. page' = n \/ \E offset : page' = [n EXCEPT !.offset = offset]
        BY DEF s, T!Asks
    <1> HIDE DEF n
    <1>4. /\ TrashPage(page') /\ page'.hook = h /\ page'.cancellate = p.cancellate
          /\ page'.volo = s.volo
        BY <1>2, <1>3 DEF TrashPage
    <1>5. NoneOf(h, p.cancellate \ page'.nonRilette)
        BY DEF Waits, NoneOf
    <1> QED
        BY <1>1, <1>4, <1>5 DEF TrashInv, Waits

LEMMA TrashWindowStep ==
    ASSUME TrashInv, T!Precedenti \/ T!Successive
    PROVE  TrashInv'
    <1>1. server' = server /\ \E o : page' = T!SetOffset(page, o)
        BY DEF T!Precedenti, T!Successive
    <1>2. PICK o : page' = T!SetOffset(page, o)
        BY <1>1
    <1> DEFINE h == U!Effect(page.hook, o, FALSE)
    <1>3. Waits(h, o)
        BY AnyAsked
    <1>4. page' = [T!Asks(page, h) EXCEPT !.offset = o]
        BY <1>2, TrashHook DEF T!SetOffset
    <1> HIDE DEF h
    <1> QED
        BY <1>1, <1>3, <1>4, TrashAsks DEF TrashInv

\* The answer to a gesture: what it deleted is told, and the trash is asked for again, or
\* what it deleted is added to what may still be shown.
LEMMA TrashAnswerStep ==
    ASSUME TrashInv, NEW g \in page.volo, T!AnswerVoce(g) \/ T!AnswerSvuota(g)
    PROVE  TrashInv'
    <1>1. server' = server /\ TrashPage(page)
        BY DEF TrashInv, T!AnswerVoce, T!AnswerSvuota
    <1> DEFINE told == T!Settled(g)
               idle == [told EXCEPT !.svuota = T!Idle]
               Keeps(p) ==
                  /\ TrashPage(p) /\ p.hook = page.hook /\ p.cancellate \subseteq server.via
                  /\ p.cancellate = page.cancellate \cup g.tolte /\ p.nonRilette = page.nonRilette
                  /\ \A k \in p.volo : k.tolte \subseteq server.via
    <1>2. Keeps(told) /\ Keeps(idle)
        <2>1. /\ TrashPage(told) /\ told.hook = page.hook /\ told.volo = page.volo \ {g}
              /\ told.cancellate = page.cancellate \cup g.tolte /\ told.nonRilette = page.nonRilette
            <3> DEFINE volo == page.volo \ {g}
                       cancellate == page.cancellate \cup g.tolte
            <3>1. told = [page EXCEPT !.volo = volo, !.cancellate = cancellate]
                BY DEF T!Settled
            <3>2. volo \subseteq TrashCall
                BY <1>1 DEF TrashPage
            <3> HIDE DEF volo, cancellate, told
            <3>3. /\ TrashPage(told) /\ told.hook = page.hook /\ told.volo = volo
                  /\ told.cancellate = cancellate /\ told.nonRilette = page.nonRilette
                BY <1>1, <3>1, <3>2 DEF TrashPage
            <3> QED
                BY <3>3 DEF volo, cancellate
        <2> HIDE DEF told
        <2>2. /\ TrashPage(idle) /\ idle.hook = told.hook /\ idle.volo = told.volo
              /\ idle.cancellate = told.cancellate /\ idle.nonRilette = told.nonRilette
            BY <2>1 DEF TrashPage
        <2> HIDE DEF idle
        <2> QED
            BY <2>1, <2>2 DEF TrashInv
    <1> DEFINE again == U!Effect(page.hook, page.hook.question, FALSE)
               first == U!Effect(page.hook, 0, FALSE)
    <1>3. Waits(again, page.hook.question) /\ Waits(first, 0)
        BY AnyAsked
    <1> DEFINE mute == page.nonRilette \cup g.tolte
    <1>4. \/ page' = T!Asks(told, again)
          \/ page' = T!Asks(idle, again)
          \/ page' = [T!Asks(idle, first) EXCEPT !.offset = 0]
          \/ page' = [idle EXCEPT !.nonRilette = mute]
        <2> HIDE DEF told, idle
        <2>1. /\ told.hook = page.hook /\ idle.hook = page.hook
              /\ idle.nonRilette = page.nonRilette
              /\ T!Ricarica(page.hook) = again /\ T!Effect(page.hook, 0, FALSE) = first
            BY <1>2, TrashHook
        <2> HIDE DEF again, first, Keeps
        <2>2. CASE T!AnswerVoce(g)
            BY <2>1, <2>2 DEF T!AnswerVoce, T!OnCambiata, told
        <2>3. CASE T!AnswerSvuota(g)
            <3>1. page' = T!OnSvuotato(idle, g)
                BY <2>3 DEF T!AnswerSvuota, told, idle
            <3> QED
                BY <2>1, <3>1 DEF T!OnSvuotato, T!OnCambiata, T!SetOffset
        <2> QED
            BY <2>2, <2>3
    <1> HIDE DEF told, idle, again, first
    <1>5. CASE page' = T!Asks(told, again)
        BY <1>1, <1>2, <1>3, <1>5, TrashAsks
    <1>6. CASE page' = T!Asks(idle, again)
        BY <1>1, <1>2, <1>3, <1>6, TrashAsks
    <1>7. CASE page' = [T!Asks(idle, first) EXCEPT !.offset = 0]
        BY <1>1, <1>2, <1>3, <1>7, TrashAsks
    <1>8. CASE page' = [idle EXCEPT !.nonRilette = mute]
        <2> HIDE DEF mute
        <2>1. /\ TrashPage(page') /\ page'.hook = page.hook /\ page'.volo = idle.volo
              /\ page'.cancellate = page.cancellate \cup g.tolte /\ page'.nonRilette = mute
            BY <1>2, <1>8 DEF TrashPage
        <2>2. page'.cancellate \ page'.nonRilette \subseteq page.cancellate \ page.nonRilette
            BY <2>1 DEF mute
        <2>3. NoneOf(page.hook, page'.cancellate \ page'.nonRilette)
            BY <2>2 DEF TrashInv, NoneOf
        <2>4. page'.cancellate \subseteq server.via /\ \A k \in page'.volo : k.tolte \subseteq server.via
            BY <2>1, <1>2
        <2> QED
            BY <1>1, <2>1, <2>3, <2>4 DEF TrashInv
    <1> QED
        BY <1>4, <1>5, <1>6, <1>7, <1>8

\* A button, or the failure of a call: nothing is told, nothing is asked.
LEMMA TrashHandStep ==
    ASSUME TrashInv,
           \/ \E c \in Cards : T!AskConferma(c) \/ T!Ripristina(c) \/ T!Cancella(c)
           \/ T!AskSvuota \/ T!Svuota
           \/ \E g \in page.volo : T!FailGesture(g)
    PROVE  TrashInv'
    <1> DEFINE Stays(p) ==
                  /\ TrashPage(p) /\ p.hook = page.hook /\ p.cancellate = page.cancellate
                  /\ p.nonRilette = page.nonRilette
                  /\ \A k \in p.volo : k.tolte = {} \/ k \in page.volo
    <1>1. TrashPage(page)
        BY DEF TrashInv
    <1>2. server' = server
        BY DEF T!AskConferma, T!Ripristina, T!Cancella, T!AskSvuota, T!Svuota, T!FailGesture
    <1>3. Stays(page')
        <2>1. CASE (\E c \in Cards : T!AskConferma(c)) \/ T!AskSvuota
            BY <1>1, <2>1 DEF T!AskConferma, T!AskSvuota, TrashPage
        <2>2. ASSUME NEW c \in Cards \cup {NoCard}, NEW gesto \in {"ripristina", "cancella", "svuota"}
              PROVE  T!Gesture(c, gesto) \in TrashCall /\ T!Gesture(c, gesto).tolte = {}
            <3> DEFINE prima == (gesto = "svuota" => page.offset = 0)
            <3>1. prima \in BOOLEAN
                OBVIOUS
            <3>2. T!Gesture(c, gesto) = [card |-> c, gesto |-> gesto, stato |-> "andata", montata |-> TRUE,
                                         tolte |-> {}, prima |-> prima]
                BY DEF T!Gesture
            <3> HIDE DEF prima
            <3> QED
                BY <3>1, <3>2 DEF TrashCall
        <2>3. CASE (\E c \in Cards : T!Ripristina(c) \/ T!Cancella(c)) \/ T!Svuota
            <3> DEFINE Sends(c, gesto) ==
                          \E voci, svuota :
                              page' = [page EXCEPT !.voci = voci, !.svuota = svuota,
                                                   !.volo = page.volo \cup {T!Gesture(c, gesto)}]
            <3>1. \E c \in Cards \cup {NoCard}, gesto \in {"ripristina", "cancella", "svuota"} :
                    Sends(c, gesto)
                <4>1. ASSUME NEW c, NEW gesto, NEW voci,
                             page' = [page EXCEPT !.voci = voci, !.volo = page.volo \cup {T!Gesture(c, gesto)}]
                      PROVE  Sends(c, gesto)
                    <5>1. page' = [page EXCEPT !.voci = voci, !.svuota = page.svuota,
                                               !.volo = page.volo \cup {T!Gesture(c, gesto)}]
                        BY <1>1, <4>1 DEF TrashPage
                    <5> QED
                        BY <5>1
                <4>2. ASSUME NEW c, NEW gesto, NEW svuota,
                             page' = [page EXCEPT !.svuota = svuota, !.volo = page.volo \cup {T!Gesture(c, gesto)}]
                      PROVE  Sends(c, gesto)
                    <5>1. page' = [page EXCEPT !.voci = page.voci, !.svuota = svuota,
                                               !.volo = page.volo \cup {T!Gesture(c, gesto)}]
                        BY <1>1, <4>2 DEF TrashPage
                    <5> QED
                        BY <5>1
                <4>3. ASSUME NEW c \in Cards, T!Ripristina(c)
                      PROVE  Sends(c, "ripristina")
                    BY <4>1, <4>3 DEF T!Ripristina
                <4>4. ASSUME NEW c \in Cards, T!Cancella(c)
                      PROVE  Sends(c, "cancella")
                    BY <4>1, <4>4 DEF T!Cancella
                <4>5. ASSUME T!Svuota
                      PROVE  Sends(NoCard, "svuota")
                    BY <4>2, <4>5 DEF T!Svuota
                <4> HIDE DEF Sends
                <4> QED
                    BY <2>3, <4>3, <4>4, <4>5
            <3>2. PICK c \in Cards \cup {NoCard}, gesto \in {"ripristina", "cancella", "svuota"} : Sends(c, gesto)
                BY <3>1
            <3>3. PICK voci, svuota :
                    page' = [page EXCEPT !.voci = voci, !.svuota = svuota,
                                         !.volo = page.volo \cup {T!Gesture(c, gesto)}]
                BY <3>2
            <3> DEFINE k == T!Gesture(c, gesto)
            <3>4. k \in TrashCall /\ k.tolte = {}
                BY <2>2
            <3> HIDE DEF k
            <3>5. page' = [page EXCEPT !.voci = voci, !.svuota = svuota, !.volo = page.volo \cup {k}]
                BY <3>3 DEF k
            <3> QED
                BY <1>1, <3>4, <3>5 DEF TrashPage
        <2>4. CASE \E g \in page.volo : T!FailGesture(g)
            <3>1. PICK g \in page.volo : T!FailGesture(g)
                BY <2>4
            <3> DEFINE told == [page EXCEPT !.volo = page.volo \ {g}]
            <3>2. /\ TrashPage(told) /\ told.hook = page.hook /\ told.cancellate = page.cancellate
                  /\ told.nonRilette = page.nonRilette /\ told.volo = page.volo \ {g}
                BY <1>1 DEF TrashPage
            <3>3. \/ page' = told
                  \/ \E svuota : page' = [told EXCEPT !.svuota = svuota]
                  \/ \E voci : page' = [told EXCEPT !.voci = voci]
                BY <3>1 DEF T!FailGesture
            <3> HIDE DEF told
            <3> QED
                BY <3>2, <3>3 DEF TrashPage
        <2> QED
            BY <2>1, <2>3, <2>4
    <1> QED
        BY <1>2, <1>3 DEF TrashInv

LEMMA TrashStep ==
    ASSUME TrashInv, T!Next
    PROVE  TrashInv'
    BY TrashElsewhereStep, TrashServerStep, TrashReadStep, TrashWindowStep, TrashAnswerStep,
       TrashHandStep
    DEF T!Next

LEMMA TrashSafe == ScreensSpec => [](route = "cestino" => TrashInv)
    <1>1. Init => (route = "cestino" => TrashInv)
        BY TrashInit DEF Init
    <1>2. (route = "cestino" => TrashInv) /\ [Next]_screensVars => (route = "cestino" => TrashInv)'
        <2> SUFFICES ASSUME route = "cestino", TrashInv, [Next]_screensVars
                     PROVE  TrashInv'
            BY RouteStays
        <2>1. CASE T!Next
            BY <2>1, TrashStep
        <2>2. CASE UNCHANGED <<server, page>>
            BY <2>2 DEF TrashInv
        <2> QED
            BY <2>1, <2>2
            DEF Next, screensVars, Cestino, Lista, Elenco, Conto, Scheda, Revisione, Cerca, Redazione
    <1> QED
        BY <1>1, <1>2, PTL DEF ScreensSpec

------------------------------------------------------------------------------
(* ListScreen. *)

ListPage(p) ==
    p = [domanda |-> p.domanda, lista |-> p.lista, tag |-> p.tag, letti |-> p.letti,
         cambi |-> p.cambi]

\* An answer is of a question: its page, and cards of its scope and category.
OfQuestion(d, q) == d.offset = q.offset /\ \A c \in d.items : L!Where(c, q)
AllOfQuestion(h) ==
    /\ \A a \in h.reads : a.dato # NoDato => OfQuestion(a.dato, a.question)
    /\ h.kind = "pronto" => OfQuestion(h.dato, h.question)

ListInv ==
    /\ ListPage(page) /\ IsHook(page.lista) /\ Tidy(page.lista) /\ AllOfQuestion(page.lista)
    /\ page.lista.question = page.domanda

LEMMA ListHook ==
    ASSUME NEW h, NEW q, NEW r, NEW d
    PROVE  /\ L!Mount(q) = U!Mount(q)
           /\ L!Serve(h, r, d) = U!Serve(h, r, d)
           /\ L!Unserved(h) \subseteq h.reads
           /\ L!Served(h) = U!Served(h)
           /\ L!Resolve(h, r) = U!Resolve(h, r)
           /\ L!Reject(h, r) = U!Reject(h, r)
           /\ L!Ricarica(h) = U!Effect(h, h.question, FALSE)
           /\ L!Effect(h, q, FALSE) = U!Effect(h, q, FALSE)
    BY DEF L!Mount, U!Mount, L!Read, U!Read, L!Serve, U!Serve, L!Unserved, L!Served, U!Served,
           L!Resolve, U!Resolve, L!Reject, U!Reject, L!Ricarica, L!Effect, U!Effect

LEMMA ListInit ==
    ASSUME L!Init
    PROVE  ListInv
    <1> DEFINE h == U!Mount(L!Prima)
    <1>1. Waits(h, L!Prima)
        BY AnyMounted
    <1>2. page = [domanda |-> L!Prima, lista |-> h, tag |-> L!Mount(L!Tutte), letti |-> {}, cambi |-> 0]
        BY ListHook DEF L!Init
    <1> HIDE DEF h
    <1>3. ListPage(page) /\ page.lista = h /\ page.domanda = L!Prima
        BY <1>2 DEF ListPage
    <1> QED
        BY <1>1, <1>3 DEF ListInv, AllOfQuestion, Waits

LEMMA ListReadStep ==
    ASSUME ListInv, L!ServeLista \/ L!AnswerLista \/ L!FailLista
    PROVE  ListInv'
    <1>1. ListPage(page) /\ IsHook(page.lista) /\ Tidy(page.lista)
        BY DEF ListInv
    <1>2. CASE L!ServeLista
        <2>1. PICK r \in L!Unserved(page.lista) :
                page' = [page EXCEPT !.lista = L!Serve(page.lista, r, L!ListProcedures(r.question))]
            BY <1>2 DEF L!ServeLista
        <2>2. r \in page.lista.reads
            BY ListHook
        <2> DEFINE d == L!ListProcedures(r.question)
                   h == U!Serve(page.lista, r, d)
        <2>3. OfQuestion(d, r.question)
            BY DEF OfQuestion, L!ListProcedures
        <2>4. page' = [page EXCEPT !.lista = h]
            BY <2>1, ListHook
        <2> HIDE DEF d
        <2>5. /\ IsHook(h) /\ Tidy(h) /\ h.kind = page.lista.kind /\ h.dato = page.lista.dato
              /\ h.question = page.lista.question /\ \A a \in h.reads : a.dato = d
              /\ r.question = page.lista.question
            BY <1>1, <2>2, AnyServed
        <2> HIDE DEF h
        <2>6. AllOfQuestion(h)
            BY <2>3, <2>5 DEF ListInv, AllOfQuestion, Tidy
        <2>7. ListPage(page') /\ page'.lista = h /\ page'.domanda = page.domanda
            BY <1>1, <2>4 DEF ListPage
        <2> QED
            BY <2>5, <2>6, <2>7 DEF ListInv
    <1>3. CASE L!AnswerLista
        <2>1. PICK r \in L!Served(page.lista) :
                page' = [page EXCEPT !.lista = L!Resolve(page.lista, r),
                                     !.letti = {x \in page.letti : x.offset < r.dato.offset}
                                        \cup [offset : {r.dato.offset}, card : r.dato.items]]
            BY <1>3 DEF L!AnswerLista
        <2> DEFINE letti == {x \in page.letti : x.offset < r.dato.offset}
                               \cup [offset : {r.dato.offset}, card : r.dato.items]
        <2>2. page' = [page EXCEPT !.lista = U!Resolve(page.lista, r), !.letti = letti]
            BY <2>1, ListHook
        <2> HIDE DEF letti
        <2>3. r \in U!Served(page.lista)
            BY ListHook
        <2> DEFINE h == U!Resolve(page.lista, r)
        <2>4. /\ IsHook(h) /\ Tidy(h) /\ h.dato = r.dato /\ h.question = page.lista.question
              /\ h.reads = {} /\ r \in page.lista.reads /\ r.dato # NoDato
              /\ r.question = page.lista.question
            BY <1>1, <2>3, AnyResolved
        <2>5. page' = [page EXCEPT !.lista = h, !.letti = letti]
            BY <2>2
        <2> HIDE DEF h
        <2>6. AllOfQuestion(h)
            BY <2>4 DEF ListInv, AllOfQuestion
        <2>7. ListPage(page') /\ page'.lista = h /\ page'.domanda = page.domanda
            BY <1>1, <2>5 DEF ListPage
        <2> QED
            BY <2>4, <2>6, <2>7 DEF ListInv
    <1>4. CASE L!FailLista
        <2>1. PICK r \in page.lista.reads : page' = [page EXCEPT !.lista = U!Reject(page.lista, r)]
            BY <1>4, ListHook DEF L!FailLista
        <2> DEFINE h == U!Reject(page.lista, r)
        <2>2. /\ IsHook(h) /\ Tidy(h) /\ h.question = page.lista.question /\ h.reads = {}
              /\ h.kind = "pronto" => page.lista.kind = "pronto" /\ h.dato = page.lista.dato
            BY <1>1, AnyRejected
        <2>3. page' = [page EXCEPT !.lista = h]
            BY <2>1
        <2> HIDE DEF h
        <2>4. AllOfQuestion(h)
            BY <2>2 DEF ListInv, AllOfQuestion
        <2>5. ListPage(page') /\ page'.lista = h /\ page'.domanda = page.domanda
            BY <1>1, <2>3 DEF ListPage
        <2> QED
            BY <2>2, <2>4, <2>5 DEF ListInv
    <1> QED
        BY <1>2, <1>3, <1>4

\* A new question stops listening to the answers to the older one.
LEMMA ListAsks ==
    ASSUME ListInv, NEW q, L!Chiedi(q)
    PROVE  ListInv'
    <1> DEFINE h == IF q = page.lista.question THEN page.lista ELSE U!Effect(page.lista, q, FALSE)
               e == U!Effect(page.lista, q, FALSE)
    <1>1. ListPage(page)
        BY DEF ListInv
    <1>2. PICK tag : page' = [page EXCEPT !.domanda = q, !.lista = h, !.tag = tag]
        BY ListHook DEF L!Chiedi
    <1>3. Waits(e, q)
        BY AnyAsked
    <1>4. \/ h = e
          \/ h = page.lista /\ q = page.lista.question
        OBVIOUS
    <1> HIDE DEF h, e
    <1>5. ListPage(page') /\ page'.lista = h /\ page'.domanda = q
        BY <1>1, <1>2 DEF ListPage
    <1> QED
        BY <1>3, <1>4, <1>5 DEF ListInv, AllOfQuestion, Waits

LEMMA ListStep ==
    ASSUME ListInv, L!Next
    PROVE  ListInv'
    <1>1. ListPage(page)
        BY DEF ListInv
    <1>2. CASE \E i \in DOMAIN server : L!Touch(i) \/ L!Archive(i) \/ \E tag \in SUBSET Tags : L!Retag(i, tag)
        <2>1. \E cambi : page' = [page EXCEPT !.cambi = cambi]
            BY <1>2 DEF L!Touch, L!Archive, L!Retag, L!ChangeElsewhere
        <2>2. ListPage(page') /\ page'.lista = page.lista /\ page'.domanda = page.domanda
            BY <1>1, <2>1 DEF ListPage
        <2> QED
            BY <2>2 DEF ListInv
    <1>3. CASE L!ServeLista \/ L!AnswerLista \/ L!FailLista
        BY <1>3, ListReadStep
    <1>4. CASE L!ServeTag \/ L!AnswerTag \/ L!FailTag
        <2>1. \E tag : page' = [page EXCEPT !.tag = tag]
            BY <1>4 DEF L!ServeTag, L!AnswerTag, L!FailTag
        <2>2. ListPage(page') /\ page'.lista = page.lista /\ page'.domanda = page.domanda
            BY <1>1, <2>1 DEF ListPage
        <2> QED
            BY <2>2 DEF ListInv
    <1>5. CASE \/ \E ambito \in Ambiti \cup {L!Tutte} : L!ScegliAmbito(ambito)
               \/ \E t \in Tags \cup {L!Tutte} : L!ScegliCategoria(t)
               \/ L!Precedenti \/ L!Successive
        <2>1. \E q : L!Chiedi(q)
            BY <1>5 DEF L!ScegliAmbito, L!ScegliCategoria, L!Precedenti, L!Successive
        <2> QED
            BY <2>1, ListAsks
    <1>6. CASE L!RicaricaTutto
        <2> DEFINE h == U!Effect(page.lista, page.lista.question, FALSE)
        <2>1. Waits(h, page.lista.question)
            BY AnyAsked
        <2>2. PICK tag : page' = [page EXCEPT !.lista = h, !.tag = tag]
            BY <1>6, ListHook DEF L!RicaricaTutto
        <2> HIDE DEF h
        <2>3. ListPage(page') /\ page'.lista = h /\ page'.domanda = page.domanda
            BY <1>1, <2>2 DEF ListPage
        <2> QED
            BY <2>1, <2>3 DEF ListInv, AllOfQuestion, Waits
    <1> QED
        BY <1>2, <1>3, <1>4, <1>5, <1>6 DEF L!Next

LEMMA ListSafe == ScreensSpec => [](route = "elenco" => ListInv)
    <1>1. Init => (route = "elenco" => ListInv)
        BY ListInit DEF Init
    <1>2. (route = "elenco" => ListInv) /\ [Next]_screensVars => (route = "elenco" => ListInv)'
        <2> SUFFICES ASSUME route = "elenco", ListInv, [Next]_screensVars
                     PROVE  ListInv'
            BY RouteStays
        <2>1. CASE L!Next
            BY <2>1, ListStep
        <2>2. CASE UNCHANGED <<server, page>>
            BY <2>2 DEF ListInv
        <2> QED
            BY <2>1, <2>2
            DEF Next, screensVars, Cestino, Lista, Elenco, Conto, Scheda, Revisione, Cerca, Redazione
    <1> QED
        BY <1>1, <1>2, PTL DEF ScreensSpec

------------------------------------------------------------------------------
(* SearchScreen. *)

SearchPageOf(p) ==
    p = [testo |-> p.testo, timer |-> p.timer, query |-> p.query, offset |-> p.offset,
         hook |-> p.hook, viste |-> p.viste]

\* An answer is of the question its read asked.
Answers(h) ==
    /\ \A a \in h.reads :
          a.dato # NoDato => a.dato.q = a.question[1] /\ a.dato.offset = a.question[2]
    /\ h.kind = "pronto" => h.dato.q = h.question[1] /\ h.dato.offset = h.question[2]

\* The hook asks what the page says; with nothing to ask the page is the first.
SearchInv ==
    /\ SearchPageOf(page) /\ IsHook(page.hook) /\ Tidy(page.hook) /\ Answers(page.hook)
    /\ page.hook.question = <<page.query, page.offset>>
    /\ page.query = S!NoQuery => page.offset = 0

LEMMA SearchHook ==
    ASSUME NEW h, NEW q, NEW r, NEW d
    PROVE  /\ S!Mount(q) = U!Mount(q)
           /\ S!Serve(h, r, d) = U!Serve(h, r, d)
           /\ S!Unserved(h) \subseteq h.reads
           /\ S!Served(h) = U!Served(h)
           /\ S!Resolve(h, r) = U!Resolve(h, r)
           /\ S!Reject(h, r) = U!Reject(h, r)
           /\ S!Effect(h, q, FALSE) = U!Effect(h, q, FALSE)
    BY DEF S!Mount, U!Mount, S!Read, U!Read, S!Serve, U!Serve, S!Unserved, S!Served, U!Served,
           S!Resolve, U!Resolve, S!Reject, U!Reject, S!Effect, U!Effect

LEMMA SearchInit ==
    ASSUME S!Init
    PROVE  SearchInv
    <1> DEFINE q == <<S!NoQuery, 0>>
               h == U!Mount(q)
    <1>1. Waits(h, q)
        BY AnyMounted
    <1>2. page = [testo |-> S!NoQuery, timer |-> TRUE, query |-> S!NoQuery, offset |-> 0,
                  hook |-> h, viste |-> {}]
        BY SearchHook DEF S!Init, S!Question
    <1> HIDE DEF h
    <1>3. SearchPageOf(page) /\ page.hook = h /\ page.query = S!NoQuery /\ page.offset = 0
        BY <1>2 DEF SearchPageOf
    <1> QED
        BY <1>1, <1>3 DEF SearchInv, Answers, Waits

\* A read is served what it asks; the empty question has nothing after its first page.
LEMMA SearchServeStep ==
    ASSUME SearchInv, S!ServeNothing \/ S!ServeSearch
    PROVE  SearchInv'
    <1>1. \E r, d :
            /\ r \in S!Unserved(page.hook)
            /\ page' = [page EXCEPT !.hook = S!Serve(page.hook, r, d)]
            /\ d.q = r.question[1] /\ d.offset = r.question[2]
        <2>1. CASE S!ServeNothing
            <3>1. PICK r \in S!Unserved(page.hook) :
                    /\ r.question[1] = S!NoQuery
                    /\ page' = [page EXCEPT !.hook = S!Serve(page.hook, r, S!Nullo)]
                BY <2>1 DEF S!ServeNothing
            <3>2. r.question = <<page.query, page.offset>>
                BY SearchHook DEF SearchInv, Tidy
            <3>3. r.question[2] = 0
                BY <3>1, <3>2 DEF SearchInv
            <3>4. S!Nullo.q = S!NoQuery /\ S!Nullo.offset = 0
                BY DEF S!Nullo
            <3> QED
                BY <3>1, <3>3, <3>4
        <2>2. CASE S!ServeSearch
            <3>1. PICK r \in S!Unserved(page.hook), degradata \in BOOLEAN,
                       sparite \in SUBSET (S!Ids \ server.via) :
                    page' = [page EXCEPT !.hook =
                                S!Serve(page.hook, r,
                                        S!Result(r.question[1], r.question[2], degradata, sparite))]
                BY <2>2 DEF S!ServeSearch
            <3> DEFINE d == S!Result(r.question[1], r.question[2], degradata, sparite)
            <3>2. d.q = r.question[1] /\ d.offset = r.question[2]
                BY DEF S!Result
            <3> HIDE DEF d
            <3>3. page' = [page EXCEPT !.hook = S!Serve(page.hook, r, d)]
                BY <3>1 DEF d
            <3> QED
                BY <3>2, <3>3
        <2> QED
            BY <2>1, <2>2
    <1>2. PICK r, d :
            /\ r \in S!Unserved(page.hook)
            /\ page' = [page EXCEPT !.hook = S!Serve(page.hook, r, d)]
            /\ d.q = r.question[1] /\ d.offset = r.question[2]
        BY <1>1
    <1> DEFINE h == U!Serve(page.hook, r, d)
    <1>3. SearchPageOf(page) /\ IsHook(page.hook) /\ Tidy(page.hook) /\ r \in page.hook.reads
        BY <1>2, SearchHook DEF SearchInv
    <1>4. /\ IsHook(h) /\ Tidy(h) /\ h.kind = page.hook.kind /\ h.dato = page.hook.dato
          /\ h.question = page.hook.question /\ \A a \in h.reads : a.dato = d
          /\ r.question = page.hook.question
        BY <1>3, AnyServed
    <1>5. page' = [page EXCEPT !.hook = h]
        BY <1>2, SearchHook
    <1> HIDE DEF h
    <1>6. /\ SearchPageOf(page') /\ page'.hook = h /\ page'.query = page.query
          /\ page'.offset = page.offset
        BY <1>3, <1>5 DEF SearchPageOf
    <1>7. Answers(h)
        BY <1>2, <1>4 DEF Answers, Tidy, SearchInv
    <1> QED
        BY <1>4, <1>6, <1>7 DEF SearchInv

\* The answer of the one read reaches the page, or does not.
LEMMA SearchAnswerStep ==
    ASSUME SearchInv, S!AnswerSearch \/ S!FailSearch
    PROVE  SearchInv'
    <1>1. SearchPageOf(page) /\ IsHook(page.hook) /\ Tidy(page.hook)
        BY DEF SearchInv
    <1>2. CASE S!AnswerSearch
        <2>1. PICK r \in S!Served(page.hook) :
                page' = [page EXCEPT !.hook = S!Resolve(page.hook, r), !.viste = S!Pages(r.dato)]
            BY <1>2 DEF S!AnswerSearch
        <2> DEFINE h == U!Resolve(page.hook, r)
        <2>2. r \in U!Served(page.hook)
            BY SearchHook
        <2>3. /\ IsHook(h) /\ Tidy(h) /\ h.dato = r.dato /\ h.question = page.hook.question
              /\ h.reads = {} /\ r \in page.hook.reads /\ r.dato # NoDato
              /\ r.question = page.hook.question
            BY <1>1, <2>2, AnyResolved
        <2>4. page' = [page EXCEPT !.hook = h, !.viste = S!Pages(r.dato)]
            BY <2>1, SearchHook
        <2> HIDE DEF h
        <2>5. /\ SearchPageOf(page') /\ page'.hook = h /\ page'.query = page.query
              /\ page'.offset = page.offset
            BY <1>1, <2>4 DEF SearchPageOf
        <2>6. Answers(h)
            BY <2>3 DEF Answers, SearchInv
        <2> QED
            BY <2>3, <2>5, <2>6 DEF SearchInv
    <1>3. CASE S!FailSearch
        <2>1. PICK r \in page.hook.reads : page' = [page EXCEPT !.hook = U!Reject(page.hook, r)]
            BY <1>3, SearchHook DEF S!FailSearch
        <2> DEFINE h == U!Reject(page.hook, r)
        <2>2. /\ IsHook(h) /\ Tidy(h) /\ h.question = page.hook.question /\ h.reads = {}
              /\ h.kind = "pronto" => page.hook.kind = "pronto" /\ h.dato = page.hook.dato
            BY <1>1, AnyRejected
        <2>3. page' = [page EXCEPT !.hook = h]
            BY <2>1
        <2> HIDE DEF h
        <2>4. /\ SearchPageOf(page') /\ page'.hook = h /\ page'.query = page.query
              /\ page'.offset = page.offset
            BY <1>1, <2>3 DEF SearchPageOf
        <2>5. Answers(h)
            BY <2>2 DEF Answers, SearchInv
        <2> QED
            BY <2>2, <2>4, <2>5 DEF SearchInv
    <1> QED
        BY <1>2, <1>3

\* Asking a new question stops listening to the answers to the older one.
LEMMA SearchAsks ==
    ASSUME SearchInv, NEW p, SearchPageOf(p), p.hook = page.hook, NEW query, NEW offset,
           query = S!NoQuery => offset = 0, page' = S!Ask(p, query, offset)
    PROVE  SearchInv'
    <1> DEFINE q == <<query, offset>>
               e == U!Effect(page.hook, q, FALSE)
               h == IF q = page.hook.question THEN page.hook ELSE e
    <1>1. Waits(e, q)
        BY AnyAsked
    <1>2. page' = [p EXCEPT !.query = query, !.offset = offset, !.hook = h]
        BY SearchHook DEF S!Ask, S!Question
    <1>3. \/ h = e
          \/ h = page.hook /\ q = page.hook.question
        OBVIOUS
    <1> HIDE DEF h, e
    <1>4. /\ SearchPageOf(page') /\ page'.hook = h /\ page'.query = query
          /\ page'.offset = offset
        BY <1>2 DEF SearchPageOf
    <1> QED
        BY <1>1, <1>3, <1>4 DEF SearchInv, Answers, Waits

LEMMA SearchHandStep ==
    ASSUME SearchInv,
           (\E t \in S!Texts : S!Scrivi(t)) \/ S!Scade \/ S!Precedenti \/ S!Successive
    PROVE  SearchInv'
    <1>1. SearchPageOf(page)
        BY DEF SearchInv
    <1>2. CASE \E t \in S!Texts : S!Scrivi(t)
        <2>1. PICK t \in S!Texts : page' = [page EXCEPT !.testo = t, !.timer = TRUE]
            BY <1>2 DEF S!Scrivi
        <2>2. /\ SearchPageOf(page') /\ page'.hook = page.hook /\ page'.query = page.query
              /\ page'.offset = page.offset
            BY <1>1, <2>1 DEF SearchPageOf
        <2> QED
            BY <2>2 DEF SearchInv
    <1>3. CASE S!Scade
        <2> DEFINE spento == FALSE
                   p == [page EXCEPT !.timer = spento]
        <2>1. page' = S!Ask(p, page.testo, 0)
            BY <1>3 DEF S!Scade
        <2>2. spento \in BOOLEAN
            OBVIOUS
        <2> HIDE DEF spento
        <2>3. SearchPageOf(p) /\ p.hook = page.hook
            BY <1>1, <2>2 DEF SearchPageOf
        <2> HIDE DEF p
        <2> QED
            BY <2>1, <2>3, SearchAsks
    <1>4. CASE S!Precedenti \/ S!Successive
        <2>1. \E offset : page' = S!Ask(page, page.query, offset)
            BY <1>4 DEF S!Precedenti, S!Successive
        <2>2. page.query # S!NoQuery
            BY <1>4 DEF SearchInv, Answers, S!Precedenti, S!Successive, S!Pronto, S!Risultato
        <2> QED
            BY <1>1, <2>1, <2>2, SearchAsks
    <1> QED
        BY <1>2, <1>3, <1>4

LEMMA SearchStep ==
    ASSUME SearchInv, S!Next
    PROVE  SearchInv'
    <1>1. CASE \E c \in S!Ids : S!DeleteElsewhere(c)
        <2>1. page' = page
            BY <1>1 DEF S!DeleteElsewhere
        <2> QED
            BY <2>1 DEF SearchInv
    <1>2. CASE S!ServeNothing \/ S!ServeSearch
        BY <1>2, SearchServeStep
    <1>3. CASE S!AnswerSearch \/ S!FailSearch
        BY <1>3, SearchAnswerStep
    <1>4. CASE (\E t \in S!Texts : S!Scrivi(t)) \/ S!Scade \/ S!Precedenti \/ S!Successive
        BY <1>4, SearchHandStep
    <1> QED
        BY <1>1, <1>2, <1>3, <1>4 DEF S!Next

LEMMA SearchSafe == ScreensSpec => [](route = "cerca" => SearchInv)
    <1>1. Init => (route = "cerca" => SearchInv)
        BY SearchInit DEF Init
    <1>2. (route = "cerca" => SearchInv) /\ [Next]_screensVars => (route = "cerca" => SearchInv)'
        <2> SUFFICES ASSUME route = "cerca", SearchInv, [Next]_screensVars
                     PROVE  SearchInv'
            BY RouteStays
        <2>1. CASE S!Next
            BY <2>1, SearchStep
        <2>2. CASE UNCHANGED <<server, page>>
            BY <2>2 DEF SearchInv
        <2> QED
            BY <2>1, <2>2
            DEF Next, screensVars, Cestino, Lista, Elenco, Conto, Scheda, Revisione, Cerca, Redazione
    <1> QED
        BY <1>1, <1>2, PTL DEF ScreensSpec

------------------------------------------------------------------------------
(* HomeScreen. *)

\* What the recorder, the worker and the calls of the page make of a recording.
HomeServer == [Recordings -> {"mai", "via", "scheda"} \cup H!Pending]

RowStates ==
    [status : {"BOZZA_AUDIO", "IN_ELABORAZIONE", "ESTRAZIONE_FALLITA", "DUPLICATO_SOSPETTO"},
     lastError : BOOLEAN]
SectionRows == UNION {[rows -> RowStates] : rows \in SUBSET Recordings}
Voce == [attesa : BOOLEAN, conferma : BOOLEAN]
HomeTap == [riga : Recordings, gesto : {"riprova", "elimina"}, fatta : BOOLEAN]
HomePage ==
    [lista : Hook({"schede"}, SUBSET Recordings), sospesi : Hook({"sospesi"}, SectionRows),
     visti : SUBSET (Recordings \cup {NoDato}), mostrati : SUBSET Recordings,
     voci : [Recordings -> Voce], volo : SUBSET HomeTap]

Unborn == {r \in Recordings : server[r] = "mai"}
\* No recording comes back from being a card, or from being deleted.
Left == {r \in Recordings : server[r] \in {"scheda", "via"}}
\* The section showed them, and does so no more.
Lost == page.mostrati \ page.visti

\* An answer on its way to the section has what is waiting of the recordings it showed;
\* the clock's reads are quiet.
SectionKnows ==
    /\ page.mostrati \cap Unborn = {}
    /\ page.visti = H!NotSeen => page.mostrati = {}
    /\ \A a \in page.sospesi.reads : a.dato # NoDato =>
          /\ DOMAIN a.dato \cap Unborn = {}
          /\ page.mostrati \ DOMAIN a.dato \subseteq Left
    /\ page.sospesi.kind = "pronto" => \A a \in page.sospesi.reads : a.silenzioso

\* A list on its way was asked for after the cards of the lost recordings were there.
ListKnows ==
    /\ Lost \subseteq Left
    /\ \A a \in page.lista.reads : a.dato # NoDato => Lost \cap H!Schede \subseteq a.dato
    /\ page.lista.kind = "pronto" => Lost \cap H!Schede \subseteq page.lista.dato

HomeInv ==
    /\ server \in HomeServer /\ page \in HomePage /\ Tidy(page.lista) /\ Tidy(page.sospesi)
    /\ SectionKnows /\ ListKnows

LEMMA HomeHook ==
    ASSUME NEW h, NEW r, NEW d
    PROVE  /\ H!Mount(d) = U!Mount(d)
           /\ H!Serve(h, r, d) = U!Serve(h, r, d)
           /\ H!Unserved(h) \subseteq h.reads
           /\ H!Served(h) = U!Served(h)
           /\ H!Resolve(h, r) = U!Resolve(h, r)
           /\ H!Reject(h, r) = U!Reject(h, r)
           /\ H!Ricarica(h) = U!Ricarica(h)
           /\ H!Aggiorna(h) = U!Aggiorna(h)
    BY DEF H!Mount, U!Mount, H!Read, U!Read, H!Serve, U!Serve, H!Unserved, H!Served, U!Served,
           H!Resolve, U!Resolve, H!Reject, U!Reject, H!Ricarica, U!Ricarica, H!Aggiorna, U!Aggiorna,
           H!Effect, U!Effect

\* What the server answers: the rows of what is waiting.
LEMMA PendingAnswer ==
    ASSUME server \in HomeServer
    PROVE  /\ H!PendingRows \in SectionRows
           /\ DOMAIN H!PendingRows = {r \in Recordings : server[r] \in H!Pending}
    <1> DEFINE rows == {r \in Recordings : server[r] \in H!Pending}
    <1>1. ASSUME NEW stato \in H!Pending
          PROVE  H!ToRecordingState(stato) \in RowStates
        <2> DEFINE b == stato \in {"ritento", "ferma"}
        <2>1. b \in BOOLEAN
            OBVIOUS
        <2> HIDE DEF b
        <2>2. \E s \in {"BOZZA_AUDIO", "IN_ELABORAZIONE", "ESTRAZIONE_FALLITA", "DUPLICATO_SOSPETTO"} :
                H!ToRecordingState(stato) = [status |-> s, lastError |-> b]
            <3>1. CASE stato \in {"coda", "ritento"}
                BY <3>1 DEF H!ToRecordingState, b
            <3>2. CASE stato = "lavoro"
                BY <3>2 DEF H!ToRecordingState, b
            <3>3. CASE stato = "ferma"
                BY <3>3 DEF H!ToRecordingState, b
            <3>4. CASE stato = "duplicato"
                BY <3>4 DEF H!ToRecordingState, b
            <3> QED
                BY <3>1, <3>2, <3>3, <3>4 DEF H!Pending, H!Waiting
        <2> QED
            BY <2>1, <2>2 DEF RowStates
    <1>2. H!PendingRows = [r \in rows |-> H!ToRecordingState(server[r])]
        BY DEF H!PendingRows
    <1>3. rows \in SUBSET Recordings /\ \A r \in rows : server[r] \in H!Pending
        OBVIOUS
    <1> HIDE DEF rows
    <1>4. [r \in rows |-> H!ToRecordingState(server[r])] \in [rows -> RowStates]
        BY <1>1, <1>3
    <1>5. H!PendingRows \in SectionRows
        BY <1>2, <1>3, <1>4 DEF SectionRows
    <1> QED
        BY <1>2, <1>5 DEF rows

LEMMA AnswerOfRecordings ==
    ASSUME NEW d \in SectionRows
    PROVE  DOMAIN d \subseteq Recordings
    BY DEF SectionRows

LEMMA HomeInit ==
    ASSUME H!Init
    PROVE  HomeInv
    <1> DEFINE l == U!Mount("schede")
               s == U!Mount("sospesi")
               voci == [r \in Recordings |-> H!Quiet]
    <1>1. /\ l \in Hook({"schede"}, SUBSET Recordings) /\ Tidy(l) /\ l.kind = "attesa"
          /\ \A a \in l.reads : a.dato = NoDato
        BY MountedHook
    <1>2. /\ s \in Hook({"sospesi"}, SectionRows) /\ Tidy(s) /\ s.kind = "attesa"
          /\ \A a \in s.reads : a.dato = NoDato
        BY MountedHook
    <1> HIDE DEF l, s
    <1>3. voci \in [Recordings -> Voce]
        BY DEF H!Quiet, Voce
    <1> HIDE DEF voci
    <1>4. page = [lista |-> l, sospesi |-> s, visti |-> H!NotSeen, mostrati |-> {},
                  voci |-> voci, volo |-> {}]
        BY HomeHook DEF H!Init, l, s, voci
    <1>5. page \in HomePage
        BY <1>1, <1>2, <1>3, <1>4 DEF HomePage, H!NotSeen
    <1>6. server \in HomeServer
        BY DEF H!Init, HomeServer
    <1>7. page.lista = l /\ page.sospesi = s /\ page.mostrati = {}
        BY <1>4
    <1> QED
        BY <1>1, <1>2, <1>5, <1>6, <1>7 DEF HomeInv, SectionKnows, ListKnows, Lost

\* What the reads and the list depend on of the page.
HomeStays ==
    /\ page' \in HomePage /\ page'.lista = page.lista /\ page'.sospesi = page.sospesi
    /\ page'.visti = page.visti /\ page'.mostrati = page.mostrati

\* And of the server: recordings are born, and those that left stay what they are.
Onward ==
    /\ server' \in HomeServer
    /\ \A r \in Recordings :
          /\ server'[r] = "mai" => server[r] = "mai"
          /\ server[r] \in {"scheda", "via"} => server'[r] = server[r]

LEMMA NothingAsked ==
    ASSUME HomeInv, HomeStays, Onward
    PROVE  HomeInv'
    <1>1. Unborn' \subseteq Unborn /\ Left \subseteq Left' /\ Left \cap H!Schede' \subseteq H!Schede
        BY DEF Onward, Unborn, Left, H!Schede
    <1>2. Lost' = Lost
        BY DEF HomeStays, Lost
    <1>3. SectionKnows'
        BY <1>1 DEF HomeInv, SectionKnows, HomeStays
    <1>4. ListKnows'
        BY <1>1, <1>2 DEF HomeInv, ListKnows, HomeStays
    <1> QED
        BY <1>3, <1>4 DEF HomeInv, HomeStays, Onward

\* The recorder, the worker, and the calls of the rows on the server.
LEMMA HomeServerStep ==
    ASSUME HomeInv,
           \/ \E r \in Recordings : H!Create(r) \/ H!Take(r) \/ H!Finish(r)
           \/ \E r \in Recordings : \E esito \in Guasti[r] : H!GiveUp(r, esito)
           \/ \E g \in page.volo : H!ServeRiprova(g) \/ H!ServeElimina(g)
    PROVE  HomeInv'
    <1>1. server \in HomeServer /\ page \in HomePage
        BY DEF HomeInv
    <1>2. ASSUME NEW r \in Recordings, NEW stato \in {"mai", "via", "scheda"} \cup H!Pending,
                 server' = [server EXCEPT ![r] = stato], stato # "mai",
                 server[r] \in {"scheda", "via"} => stato = server[r]
          PROVE  Onward
        BY <1>1, <1>2 DEF Onward, HomeServer
    <1>3. ASSUME NEW g \in page.volo, page' = H!Done(g)
          PROVE  HomeStays
        <2> DEFINE k == [g EXCEPT !.fatta = TRUE]
        <2>1. g \in HomeTap
            BY <1>1 DEF HomePage
        <2>2. k \in HomeTap
            BY <2>1 DEF HomeTap
        <2>3. page' = [page EXCEPT !.volo = (page.volo \ {g}) \cup {k}]
            BY <1>3 DEF H!Done
        <2> HIDE DEF k
        <2> QED
            BY <1>1, <2>2, <2>3 DEF HomeStays, HomePage
    <1>4. page' = page => HomeStays
        BY <1>1 DEF HomeStays
    <1>5. CASE \E r \in Recordings : H!Create(r) \/ H!Take(r) \/ H!Finish(r)
        <2>1. page' = page
            BY <1>5 DEF H!Create, H!Take, H!Finish
        <2>2. PICK r \in Recordings : H!Create(r) \/ H!Take(r) \/ H!Finish(r)
            BY <1>5
        <2>3. PICK stato \in {"mai", "via", "scheda"} \cup H!Pending :
                /\ server' = [server EXCEPT ![r] = stato] /\ stato # "mai"
                /\ server[r] \notin {"scheda", "via"}
            BY <2>2 DEF H!Create, H!Take, H!Finish, H!Pending, H!Waiting
        <2>4. Onward
            BY <1>2, <2>3
        <2> QED
            BY <1>4, <2>1, <2>4, NothingAsked
    <1>6. CASE \E r \in Recordings : \E esito \in Guasti[r] : H!GiveUp(r, esito)
        <2>1. PICK r \in Recordings : \E esito \in Guasti[r] : H!GiveUp(r, esito)
            BY <1>6
        <2>2. PICK esito \in Guasti[r] : H!GiveUp(r, esito)
            BY <2>1
        <2>3. esito \in {"ritento", "ferma", "duplicato"}
            BY GuastiAssumption
        <2>4. /\ esito \in {"mai", "via", "scheda"} \cup H!Pending /\ esito # "mai"
              /\ server' = [server EXCEPT ![r] = esito] /\ page' = page
              /\ server[r] \notin {"scheda", "via"}
            BY <2>2, <2>3 DEF H!GiveUp, H!Pending, H!Waiting
        <2>5. Onward
            BY <1>2, <2>4
        <2> QED
            BY <1>4, <2>4, <2>5, NothingAsked
    <1>7. CASE \E g \in page.volo : H!ServeRiprova(g) \/ H!ServeElimina(g)
        <2>1. PICK g \in page.volo : H!ServeRiprova(g) \/ H!ServeElimina(g)
            BY <1>7
        <2>2. HomeStays
            BY <1>3, <2>1 DEF H!ServeRiprova, H!ServeElimina
        <2>3. g.riga \in Recordings
            BY <1>1 DEF HomePage, HomeTap
        <2> DEFINE r == g.riga
        <2>4. PICK stato \in {"mai", "via", "scheda"} \cup H!Pending :
                /\ server' = [server EXCEPT ![r] = stato] /\ stato # "mai"
                /\ server[r] \in {"scheda", "via"} => stato = server[r]
            <3>1. CASE H!ServeRiprova(g)
                BY <3>1 DEF H!ServeRiprova, H!Pending, H!Waiting
            <3>2. CASE H!ServeElimina(g)
                <4>1. CASE server[r] = "scheda"
                    BY <3>2, <4>1 DEF H!ServeElimina
                <4>2. CASE server[r] # "scheda"
                    BY <3>2, <4>2 DEF H!ServeElimina
                <4> QED
                    BY <4>1, <4>2
            <3> QED
                BY <2>1, <3>1, <3>2
        <2>5. Onward
            BY <1>2, <2>3, <2>4
        <2> QED
            BY <2>2, <2>5, NothingAsked
    <1> QED
        BY <1>5, <1>6, <1>7

\* A row is touched, or learns that its call failed.
LEMMA HomeTapStep ==
    ASSUME HomeInv,
           \/ \E r \in Recordings : H!Riprova(r) \/ H!AskElimina(r) \/ H!Elimina(r)
           \/ \E g \in page.volo : H!FailTap(g)
    PROVE  HomeInv'
    <1>1. server \in HomeServer /\ page \in HomePage /\ server' = server
        BY DEF HomeInv, H!Riprova, H!AskElimina, H!Elimina, H!FailTap
    <1>2. Onward
        BY <1>1 DEF Onward
    <1> DEFINE Touches ==
                \E voci \in [Recordings -> Voce], volo \in SUBSET HomeTap :
                    page' = [page EXCEPT !.voci = voci, !.volo = volo]
    <1>3. Touches
        <2>1. ASSUME NEW r \in Recordings, NEW gesto \in {"riprova", "elimina"}, H!Tap(r, gesto)
              PROVE  Touches
            <3> DEFINE voci == [page.voci EXCEPT ![r] = [page.voci[r] EXCEPT !.attesa = TRUE]]
                       k == [riga |-> r, gesto |-> gesto, fatta |-> FALSE]
                       volo == page.volo \cup {k}
            <3>1. voci \in [Recordings -> Voce]
                BY <1>1 DEF HomePage, Voce
            <3>2. k \in HomeTap
                BY DEF HomeTap
            <3>3. page' = [page EXCEPT !.voci = voci, !.volo = volo]
                BY <2>1 DEF H!Tap
            <3> HIDE DEF voci, k
            <3>4. volo \in SUBSET HomeTap
                BY <1>1, <3>2 DEF HomePage
            <3> QED
                BY <3>1, <3>3, <3>4
        <2>2. ASSUME NEW r \in Recordings, H!AskElimina(r)
              PROVE  Touches
            <3> DEFINE b == ~page.voci[r].conferma
                       voci == [page.voci EXCEPT ![r] = [page.voci[r] EXCEPT !.conferma = b]]
            <3>1. b \in BOOLEAN
                OBVIOUS
            <3>2. page' = [page EXCEPT !.voci = voci]
                BY <2>2 DEF H!AskElimina
            <3> HIDE DEF b
            <3>3. voci \in [Recordings -> Voce]
                BY <1>1, <3>1 DEF HomePage, Voce
            <3> HIDE DEF voci
            <3>4. page.volo \in SUBSET HomeTap /\ page' = [page EXCEPT !.voci = voci, !.volo = page.volo]
                BY <1>1, <3>2 DEF HomePage
            <3> QED
                BY <3>3, <3>4
        <2>3. ASSUME NEW g \in page.volo, H!FailTap(g)
              PROVE  Touches
            <3> DEFINE voce == IF g.riga \notin H!Sospese(page.sospesi) THEN H!Quiet
                               ELSE IF g.gesto = "elimina" THEN H!Quiet
                               ELSE [page.voci[g.riga] EXCEPT !.attesa = FALSE]
                       voci == [page.voci EXCEPT ![g.riga] = voce]
                       volo == page.volo \ {g}
            <3>1. g.riga \in Recordings
                BY <1>1 DEF HomePage, HomeTap
            <3>2. page.voci[g.riga] \in Voce
                BY <1>1, <3>1 DEF HomePage
            <3>3. voce \in Voce
                BY <3>2 DEF Voce, H!Quiet
            <3>4. page' = [page EXCEPT !.voci = voci, !.volo = volo]
                BY <2>3 DEF H!FailTap
            <3> HIDE DEF voce
            <3>5. voci \in [Recordings -> Voce]
                BY <1>1, <3>3 DEF HomePage
            <3>6. volo \in SUBSET HomeTap
                BY <1>1 DEF HomePage
            <3> QED
                BY <3>4, <3>5, <3>6
        <2> QED
            BY <2>1, <2>2, <2>3 DEF H!Riprova, H!Elimina
    <1>4. HomeStays
        BY <1>1, <1>3 DEF HomeStays, HomePage
    <1> QED
        BY <1>2, <1>4, NothingAsked

\* The list is read: a card that is there is in what it is served.
LEMMA HomeListStep ==
    ASSUME HomeInv, H!ServeLista \/ H!AnswerLista \/ H!FailLista
    PROVE  HomeInv'
    <1> DEFINE Hooks == Hook({"schede"}, SUBSET Recordings)
               Knows(h) ==
                  /\ h \in Hooks /\ Tidy(h)
                  /\ \A a \in h.reads : a.dato # NoDato => Lost \cap H!Schede \subseteq a.dato
                  /\ h.kind = "pronto" => Lost \cap H!Schede \subseteq h.dato
    <1>1. /\ page.lista \in Hooks /\ Tidy(page.lista) /\ Knows(page.lista)
          /\ server \in HomeServer /\ page \in HomePage /\ server' = server
        BY DEF HomeInv, HomePage, ListKnows, H!ServeLista, H!AnswerLista, H!FailLista
    <1> HIDE DEF Hooks
    <1>2. \E h \in Hooks : page' = [page EXCEPT !.lista = h] /\ Knows(h)
        <2>1. CASE H!ServeLista
            <3>1. PICK r \in H!Unserved(page.lista) :
                    page' = [page EXCEPT !.lista = H!Serve(page.lista, r, H!Schede)]
                BY <2>1 DEF H!ServeLista
            <3>2. r \in page.lista.reads
                BY HomeHook
            <3> DEFINE d == H!Schede
                       h == U!Serve(page.lista, r, d)
            <3>3. d \in SUBSET Recordings
                BY DEF H!Schede
            <3>4. page' = [page EXCEPT !.lista = h]
                BY <3>1, HomeHook
            <3> HIDE DEF d
            <3>5. /\ h \in Hooks /\ Tidy(h) /\ h.kind = page.lista.kind /\ h.dato = page.lista.dato
                  /\ \A a \in h.reads : a.dato = d
                BY <1>1, <3>2, <3>3, ServedRead DEF Hooks
            <3> HIDE DEF h
            <3>6. Knows(h)
                BY <1>1, <3>5 DEF d
            <3> QED
                BY <3>4, <3>5, <3>6
        <2>2. CASE H!AnswerLista
            <3>1. PICK r \in U!Served(page.lista) : page' = [page EXCEPT !.lista = U!Resolve(page.lista, r)]
                BY <2>2, HomeHook DEF H!AnswerLista
            <3> DEFINE h == U!Resolve(page.lista, r)
            <3>2. /\ h \in Hooks /\ Tidy(h) /\ h.dato = r.dato /\ h.reads = {}
                  /\ r \in page.lista.reads /\ r.dato # NoDato
                BY <1>1, ResolvedRead DEF Hooks
            <3>3. page' = [page EXCEPT !.lista = h]
                BY <3>1
            <3> HIDE DEF h
            <3> QED
                BY <1>1, <3>2, <3>3
        <2>3. CASE H!FailLista
            <3>1. PICK r \in page.lista.reads : page' = [page EXCEPT !.lista = U!Reject(page.lista, r)]
                BY <2>3, HomeHook DEF H!FailLista
            <3> DEFINE h == U!Reject(page.lista, r)
            <3>2. /\ h \in Hooks /\ Tidy(h) /\ h.reads = {}
                  /\ \/ h.kind = "errore"
                     \/ r.silenzioso /\ h.kind = "pronto" /\ page.lista.kind = "pronto"
                           /\ h.dato = page.lista.dato
                BY <1>1, RejectedRead DEF Hooks
            <3>3. page' = [page EXCEPT !.lista = h]
                BY <3>1
            <3> HIDE DEF h
            <3>4. Knows(h)
                BY <1>1, <3>2
            <3> QED
                BY <3>2, <3>3, <3>4
        <2> QED
            BY <2>1, <2>2, <2>3
    <1>3. PICK h \in Hooks : page' = [page EXCEPT !.lista = h] /\ Knows(h)
        BY <1>2
    <1>4. /\ page' \in HomePage /\ page'.lista = h /\ page'.sospesi = page.sospesi
          /\ page'.visti = page.visti /\ page'.mostrati = page.mostrati
        BY <1>1, <1>3 DEF HomePage, Hooks
    <1>5. Lost' = Lost /\ H!Schede' = H!Schede /\ Unborn' = Unborn /\ Left' = Left
        BY <1>1, <1>4 DEF Lost, H!Schede, Unborn, Left
    <1>6. SectionKnows'
        BY <1>4, <1>5 DEF HomeInv, SectionKnows
    <1>7. ListKnows'
        BY <1>3, <1>4, <1>5 DEF HomeInv, ListKnows
    <1> QED
        BY <1>1, <1>3, <1>4, <1>6, <1>7 DEF HomeInv

LEMMA RowsKept ==
    ASSUME page \in HomePage, NEW h
    PROVE  H!Rows(h) \in [Recordings -> Voce]
    <1>1. H!Quiet \in Voce
        BY DEF H!Quiet, Voce
    <1>2. \A r \in Recordings : page.voci[r] \in Voce
        BY DEF HomePage
    <1> QED
        BY <1>1, <1>2 DEF H!Rows

\* The section is read by the clock or after a gesture; what it shows has not changed yet.
LEMMA HomeSectionStep ==
    ASSUME HomeInv,
           \/ H!Poll \/ H!ServeSospesi \/ H!FailSospesi
           \/ \E g \in page.volo : H!AnswerTap(g)
    PROVE  HomeInv'
    <1> DEFINE Hooks == Hook({"sospesi"}, SectionRows)
               Knows(h) ==
                  /\ h \in Hooks /\ Tidy(h)
                  /\ \A a \in h.reads : a.dato # NoDato =>
                        /\ DOMAIN a.dato \cap Unborn = {}
                        /\ page.mostrati \ DOMAIN a.dato \subseteq Left
                  /\ h.kind = "pronto" => \A a \in h.reads : a.silenzioso
               Becomes(h) ==
                  \E voci \in [Recordings -> Voce], volo \in SUBSET HomeTap :
                      page' = [page EXCEPT !.sospesi = h, !.voci = voci, !.volo = volo]
    <1>1. /\ page.sospesi \in Hooks /\ Tidy(page.sospesi) /\ Knows(page.sospesi)
          /\ server \in HomeServer /\ page \in HomePage /\ server' = server
          /\ page.voci \in [Recordings -> Voce] /\ page.volo \in SUBSET HomeTap
        BY DEF HomeInv, HomePage, SectionKnows, H!Poll, H!ServeSospesi, H!FailSospesi, H!AnswerTap
    <1>2. ASSUME NEW h, page' = [page EXCEPT !.sospesi = h]
          PROVE  Becomes(h)
        <2>1. page' = [page EXCEPT !.sospesi = h, !.voci = page.voci, !.volo = page.volo]
            BY <1>1, <1>2 DEF HomePage
        <2> QED
            BY <1>1, <2>1
    <1> HIDE DEF Hooks
    <1>3. \E h \in Hooks : Becomes(h) /\ Knows(h)
        <2>1. CASE H!Poll
            <3> DEFINE h == U!Aggiorna(page.sospesi)
            <3>1. page' = [page EXCEPT !.sospesi = h]
                BY <2>1, HomeHook DEF H!Poll
            <3>2. /\ h \in Hooks /\ Tidy(h) /\ \A a \in h.reads : a.dato = NoDato /\ a.silenzioso
                BY <1>1, Refreshed DEF Hooks
            <3> HIDE DEF h
            <3>3. Knows(h)
                BY <3>2
            <3>4. Becomes(h)
                BY <1>2, <3>1
            <3> HIDE DEF Knows, Becomes
            <3> QED
                BY <3>2, <3>3, <3>4
        <2>2. CASE H!ServeSospesi
            <3>1. PICK r \in H!Unserved(page.sospesi) :
                    page' = [page EXCEPT !.sospesi = H!Serve(page.sospesi, r, H!PendingRows)]
                BY <2>2 DEF H!ServeSospesi
            <3>2. r \in page.sospesi.reads
                BY HomeHook
            <3> DEFINE d == H!PendingRows
                       h == U!Serve(page.sospesi, r, d)
            <3>3. d \in SectionRows /\ DOMAIN d = {x \in Recordings : server[x] \in H!Pending}
                BY <1>1, PendingAnswer
            <3>4. page' = [page EXCEPT !.sospesi = h]
                BY <3>1, HomeHook
            <3> HIDE DEF d
            <3>5. /\ h \in Hooks /\ Tidy(h) /\ h.kind = page.sospesi.kind
                  /\ \A a \in h.reads : a.dato = d /\ a.silenzioso = r.silenzioso
                BY <1>1, <3>2, <3>3, ServedRead DEF Hooks
            <3> HIDE DEF h
            <3>6. DOMAIN d \cap Unborn = {}
                BY <3>3 DEF Unborn, H!Pending, H!Waiting
            <3>7. page.mostrati \ DOMAIN d \subseteq Left
                <4>1. \A x \in Recordings : server[x] \in {"mai", "via", "scheda"} \cup H!Pending
                    BY <1>1 DEF HomeServer
                <4>2. page.mostrati \subseteq Recordings /\ page.mostrati \cap Unborn = {}
                    BY <1>1 DEF HomePage, HomeInv, SectionKnows
                <4> QED
                    BY <3>3, <4>1, <4>2 DEF Unborn, Left
            <3>8. Knows(h)
                BY <1>1, <3>2, <3>5, <3>6, <3>7
            <3>9. Becomes(h)
                BY <1>2, <3>4
            <3> HIDE DEF Knows, Becomes
            <3> QED
                BY <3>5, <3>8, <3>9
        <2>3. CASE H!FailSospesi
            <3>1. PICK r \in page.sospesi.reads :
                    page' = [page EXCEPT !.sospesi = H!Reject(page.sospesi, r),
                                         !.voci = H!Rows(H!Reject(page.sospesi, r))]
                BY <2>3 DEF H!FailSospesi
            <3> DEFINE h == U!Reject(page.sospesi, r)
                       voci == H!Rows(h)
            <3>2. h \in Hooks /\ Tidy(h) /\ h.reads = {}
                BY <1>1, RejectedRead DEF Hooks
            <3>3. page' = [page EXCEPT !.sospesi = h, !.voci = voci]
                BY <3>1, HomeHook
            <3>4. voci \in [Recordings -> Voce]
                BY <1>1, RowsKept
            <3> HIDE DEF h, voci
            <3>5. page' = [page EXCEPT !.sospesi = h, !.voci = voci, !.volo = page.volo]
                BY <1>1, <3>3 DEF HomePage
            <3>6. Becomes(h)
                BY <1>1, <3>4, <3>5
            <3>7. Knows(h)
                BY <3>2
            <3> HIDE DEF Knows, Becomes
            <3> QED
                BY <3>2, <3>6, <3>7
        <2>4. CASE \E g \in page.volo : H!AnswerTap(g)
            <3>1. PICK g \in page.volo :
                    page' = [page EXCEPT !.volo = page.volo \ {g}, !.sospesi = H!Ricarica(page.sospesi),
                                         !.voci = H!Rows(H!Ricarica(page.sospesi))]
                BY <2>4 DEF H!AnswerTap
            <3> DEFINE h == U!Ricarica(page.sospesi)
                       voci == H!Rows(h)
                       volo == page.volo \ {g}
            <3>2. h \in Hooks /\ Tidy(h) /\ h.kind = "attesa" /\ \A a \in h.reads : a.dato = NoDato
                BY <1>1, Reloaded DEF Hooks
            <3>3. page' = [page EXCEPT !.volo = volo, !.sospesi = h, !.voci = voci]
                BY <3>1, HomeHook
            <3>4. voci \in [Recordings -> Voce] /\ volo \in SUBSET HomeTap
                BY <1>1, RowsKept
            <3> HIDE DEF h, voci, volo
            <3>5. page' = [page EXCEPT !.sospesi = h, !.voci = voci, !.volo = volo]
                BY <1>1, <3>3 DEF HomePage
            <3>6. Becomes(h)
                BY <3>4, <3>5
            <3>7. Knows(h)
                BY <3>2
            <3> HIDE DEF Knows, Becomes
            <3> QED
                BY <3>2, <3>6, <3>7
        <2> QED
            BY <2>1, <2>2, <2>3, <2>4
    <1>4. PICK h \in Hooks : Becomes(h) /\ Knows(h)
        BY <1>3
    <1>5. /\ page' \in HomePage /\ page'.sospesi = h /\ page'.lista = page.lista
          /\ page'.visti = page.visti /\ page'.mostrati = page.mostrati
        BY <1>1, <1>4 DEF HomePage, Hooks
    <1>6. Lost' = Lost /\ H!Schede' = H!Schede /\ Unborn' = Unborn /\ Left' = Left
        BY <1>1, <1>5 DEF Lost, H!Schede, Unborn, Left
    <1>7. SectionKnows'
        BY <1>4, <1>5, <1>6 DEF HomeInv, SectionKnows
    <1>8. ListKnows'
        BY <1>5, <1>6 DEF HomeInv, ListKnows
    <1> QED
        BY <1>1, <1>4, <1>5, <1>7, <1>8 DEF HomeInv

\* The section shows a new answer: if it lost a row, the list is asked for again.
LEMMA HomeAnswerStep ==
    ASSUME HomeInv, H!AnswerSospesi
    PROVE  HomeInv'
    <1>1. PICK r \in U!Served(page.sospesi) : page' = H!Settle(U!Resolve(page.sospesi, r))
        BY HomeHook DEF H!AnswerSospesi
    <1>2. server' = server /\ server \in HomeServer /\ page \in HomePage
        BY DEF H!AnswerSospesi, HomeInv
    <1>3. page.sospesi \in Hook({"sospesi"}, SectionRows) /\ page.lista \in Hook({"schede"}, SUBSET Recordings)
          /\ page.mostrati \subseteq Recordings /\ Tidy(page.lista) /\ Tidy(page.sospesi)
        BY DEF HomeInv, HomePage
    <1> DEFINE h == U!Resolve(page.sospesi, r)
               adesso == DOMAIN r.dato
               voci == H!Rows(h)
               l == IF H!Sparita(page.visti, adesso) THEN U!Ricarica(page.lista) ELSE page.lista
               mostrati == page.mostrati \cup adesso
    <1>4. /\ h \in Hook({"sospesi"}, SectionRows) /\ Tidy(h) /\ h.kind = "pronto" /\ h.dato = r.dato
          /\ h.reads = {} /\ r \in page.sospesi.reads /\ r.dato \in SectionRows /\ r.dato # NoDato
        BY <1>3, ResolvedRead
    <1>5. /\ adesso \subseteq Recordings /\ adesso \cap Unborn = {}
          /\ page.mostrati \ adesso \subseteq Left
        BY <1>4, AnswerOfRecordings DEF HomeInv, SectionKnows
    <1>6. H!Sospese(h) = adesso
        BY <1>4 DEF H!Sospese
    <1>7. voci \in [Recordings -> Voce]
        BY <1>2, RowsKept
    <1>8. page' = [page EXCEPT !.sospesi = h, !.voci = voci, !.visti = adesso, !.mostrati = mostrati,
                               !.lista = l]
        BY <1>1, <1>6, HomeHook DEF H!Settle
    <1> HIDE DEF h, voci
    <1>9. /\ l \in Hook({"schede"}, SUBSET Recordings) /\ Tidy(l)
          /\ \/ l = page.lista /\ ~H!Sparita(page.visti, adesso)
             \/ l.kind = "attesa" /\ \A a \in l.reads : a.dato = NoDato
        <2>1. CASE H!Sparita(page.visti, adesso)
            <3> DEFINE e == U!Ricarica(page.lista)
            <3>1. /\ e \in Hook({"schede"}, SUBSET Recordings) /\ Tidy(e) /\ e.kind = "attesa"
                  /\ \A a \in e.reads : a.dato = NoDato
                BY <1>3, Reloaded
            <3>2. l = e
                BY <2>1
            <3> HIDE DEF e, l
            <3> QED
                BY <3>1, <3>2
        <2>2. CASE ~H!Sparita(page.visti, adesso)
            BY <1>3, <2>2
        <2> QED
            BY <2>1, <2>2
    <1> HIDE DEF l, adesso, mostrati
    <1>10. mostrati \subseteq Recordings /\ mostrati = page.mostrati \cup adesso
        BY <1>3, <1>5 DEF mostrati
    <1>11. /\ page' \in HomePage /\ page'.sospesi = h /\ page'.visti = adesso
           /\ page'.mostrati = mostrati /\ page'.lista = l
        BY <1>2, <1>4, <1>5, <1>7, <1>8, <1>9, <1>10 DEF HomePage
    <1>12. H!Schede' = H!Schede /\ Unborn' = Unborn /\ Left' = Left
        BY <1>2 DEF H!Schede, Unborn, Left
    <1>13. Lost' = page.mostrati \ adesso
        BY <1>10, <1>11 DEF Lost
    <1>14. SectionKnows'
        <2>1. mostrati \cap Unborn = {}
            BY <1>5, <1>10 DEF HomeInv, SectionKnows
        <2>2. adesso # H!NotSeen
            BY <1>5, NamesAssumption DEF H!NotSeen
        <2> QED
            BY <1>4, <1>11, <1>12, <2>1, <2>2 DEF SectionKnows
    <1>15. ListKnows'
        <2>1. Lost' \subseteq Left'
            BY <1>5, <1>12, <1>13
        <2>2. CASE l.kind = "attesa" /\ \A a \in l.reads : a.dato = NoDato
            BY <1>11, <2>1, <2>2 DEF ListKnows
        <2>3. CASE l = page.lista /\ ~H!Sparita(page.visti, adesso)
            <3>1. Lost' \subseteq Lost
                <4>1. CASE page.visti = H!NotSeen
                    BY <1>13, <4>1 DEF HomeInv, SectionKnows
                <4>2. CASE page.visti # H!NotSeen
                    BY <1>13, <2>3, <4>2 DEF H!Sparita, Lost
                <4> QED
                    BY <4>1, <4>2
            <3> QED
                BY <1>11, <1>12, <2>1, <2>3, <3>1 DEF HomeInv, ListKnows
        <2> QED
            BY <1>9, <2>2, <2>3
    <1> QED
        BY <1>2, <1>4, <1>9, <1>11, <1>14, <1>15 DEF HomeInv

LEMMA HomeStep ==
    ASSUME HomeInv, H!Next
    PROVE  HomeInv'
    BY HomeServerStep, HomeTapStep, HomeListStep, HomeSectionStep, HomeAnswerStep DEF H!Next

LEMMA HomeStutter ==
    ASSUME HomeInv, UNCHANGED <<server, page>>
    PROVE  HomeInv'
    <1>1. Onward /\ HomeStays
        BY DEF HomeInv, Onward, HomeStays
    <1> QED
        BY <1>1, NothingAsked

LEMMA HomeSafe == ScreensSpec => [](route = "lista" => HomeInv)
    <1>1. Init => (route = "lista" => HomeInv)
        BY HomeInit DEF Init
    <1>2. (route = "lista" => HomeInv) /\ [Next]_screensVars => (route = "lista" => HomeInv)'
        <2> SUFFICES ASSUME route = "lista", HomeInv, [Next]_screensVars
                     PROVE  HomeInv'
            BY RouteStays
        <2>1. CASE H!Next
            BY <2>1, HomeStep
        <2>2. CASE UNCHANGED <<server, page>>
            BY <2>2, HomeStutter
        <2> QED
            BY <2>1, <2>2
            DEF Next, screensVars, Cestino, Lista, Elenco, Conto, Scheda, Revisione, Cerca, Redazione
    <1> QED
        BY <1>1, <1>2, PTL DEF ScreensSpec

(* HomeScreen: the card born of a recording that has left the section is   *)
(* in the list, or the list is being asked for again (ListScreen.tsx's     *)
(* onSparita), whatever the two hooks are answered and in whichever order. *)
THEOREM NoneIsMissed == ScreensSpec => []NoCardIsMissed
    <1>1. (route = "lista" => HomeInv) => NoCardIsMissed
        BY DEF HomeInv, HomePage, ListKnows, Lost, NoCardIsMissed, H!NoCardIsMissed, H!Schede
    <1> QED
        BY <1>1, HomeSafe, PTL

\* What leaves the section and the question of a row as they are leaves the row asked.
LEMMA StillAsked ==
    ASSUME NEW r \in Recordings, H!Asked(r),
           page'.sospesi.kind = page.sospesi.kind, page'.sospesi.dato = page.sospesi.dato,
           page'.voci[r].conferma = page.voci[r].conferma
    PROVE  H!Asked(r)'
    BY DEF H!Asked, H!Sospese

LEMMA QuestionStep ==
    ASSUME HomeInv, H!Next
    PROVE  H!QuestionKept
    <1> SUFFICES ASSUME NEW r \in Recordings, H!Asked(r), ~H!Asked(r)'
                 PROVE  \/ page'.sospesi.kind = "pronto" /\ r \notin DOMAIN page'.sospesi.dato
                        \/ page'.volo # page.volo
                        \/ page' = [page EXCEPT !.voci[r].conferma = FALSE]
        BY DEF H!QuestionKept
    <1>1. /\ page \in HomePage /\ Tidy(page.sospesi)
          /\ page.sospesi \in Hook({"sospesi"}, SectionRows)
          /\ page.sospesi.kind = "pronto" /\ r \in DOMAIN page.sospesi.dato
          /\ page.voci \in [Recordings -> Voce] /\ page.voci[r].conferma
          /\ \A a \in page.sospesi.reads : a.silenzioso
        BY DEF HomeInv, HomePage, SectionKnows, H!Asked, H!Sospese
    <1>2. ~(page'.sospesi = page.sospesi /\ page'.voci = page.voci)
        BY StillAsked
    <1>3. CASE \/ \E x \in Recordings : H!Create(x) \/ H!Take(x) \/ H!Finish(x)
               \/ \E x \in Recordings : \E esito \in Guasti[x] : H!GiveUp(x, esito)
        BY <1>2, <1>3 DEF H!Create, H!Take, H!Finish, H!GiveUp
    <1>4. CASE H!ServeLista \/ H!AnswerLista \/ H!FailLista
        <2>1. page'.sospesi = page.sospesi /\ page'.voci = page.voci
            BY <1>1, <1>4 DEF H!ServeLista, H!AnswerLista, H!FailLista, HomePage
        <2> QED
            BY <1>2, <2>1
    <1>5. CASE H!Poll
        <2> DEFINE h == U!Aggiorna(page.sospesi)
        <2>1. h.kind = page.sospesi.kind /\ h.dato = page.sospesi.dato
            BY <1>1, Refreshed
        <2>2. page' = [page EXCEPT !.sospesi = h]
            BY <1>5, HomeHook DEF H!Poll
        <2> HIDE DEF h
        <2>3. page'.sospesi = h /\ page'.voci = page.voci
            BY <1>1, <2>2 DEF HomePage
        <2> QED
            BY <2>1, <2>3, StillAsked
    <1>6. CASE H!ServeSospesi
        <2>1. PICK a \in H!Unserved(page.sospesi) :
                page' = [page EXCEPT !.sospesi = H!Serve(page.sospesi, a, H!PendingRows)]
            BY <1>6 DEF H!ServeSospesi
        <2> DEFINE h == H!Serve(page.sospesi, a, H!PendingRows)
        <2>2. h.kind = page.sospesi.kind /\ h.dato = page.sospesi.dato
            BY <1>1 DEF H!Serve, Hook
        <2> HIDE DEF h
        <2>3. page'.sospesi = h /\ page'.voci = page.voci
            BY <1>1, <2>1 DEF HomePage, h
        <2> QED
            BY <2>2, <2>3, StillAsked
    <1>7. CASE H!AnswerSospesi
        <2>1. PICK a \in U!Served(page.sospesi) : page' = H!Settle(U!Resolve(page.sospesi, a))
            BY <1>7, HomeHook DEF H!AnswerSospesi
        <2> DEFINE h == U!Resolve(page.sospesi, a)
        <2>2. h.kind = "pronto"
            BY <1>1, ResolvedRead
        <2> HIDE DEF h
        <2>3. page'.sospesi = h /\ page'.voci = H!Rows(h)
            BY <1>1, <2>1 DEF H!Settle, HomePage, h
        <2>4. CASE r \in DOMAIN h.dato
            <3>1. page'.voci[r] = page.voci[r]
                BY <2>2, <2>3, <2>4 DEF H!Rows, H!Sospese
            <3> QED
                BY <1>1, <2>2, <2>3, <2>4, <3>1 DEF H!Asked, H!Sospese
        <2> QED
            BY <2>2, <2>3, <2>4
    <1>8. CASE H!FailSospesi
        <2>1. PICK a \in page.sospesi.reads :
                page' = [page EXCEPT !.sospesi = H!Reject(page.sospesi, a),
                                     !.voci = H!Rows(H!Reject(page.sospesi, a))]
            BY <1>8 DEF H!FailSospesi
        <2> DEFINE h == H!Reject(page.sospesi, a)
        <2>2. h.kind = "pronto" /\ h.dato = page.sospesi.dato
            BY <1>1 DEF H!Reject, Hook
        <2> HIDE DEF h
        <2>3. page'.sospesi = h /\ page'.voci = H!Rows(h)
            BY <1>1, <2>1 DEF HomePage, h
        <2>4. page'.voci[r] = page.voci[r]
            BY <1>1, <2>2, <2>3 DEF H!Rows, H!Sospese
        <2> QED
            BY <1>1, <2>2, <2>3, <2>4, StillAsked
    <1>9. CASE \E x \in Recordings : H!Riprova(x) \/ H!Elimina(x)
        <2>1. PICK x \in Recordings, gesto \in {"riprova", "elimina"} : H!Tap(x, gesto)
            BY <1>9 DEF H!Riprova, H!Elimina
        <2> DEFINE voci == [page.voci EXCEPT ![x] = [page.voci[x] EXCEPT !.attesa = TRUE]]
        <2>2. page'.sospesi = page.sospesi /\ page'.voci = voci
            BY <1>1, <2>1 DEF H!Tap, HomePage
        <2>3. voci[r].conferma = page.voci[r].conferma
            BY <1>1 DEF Voce
        <2> QED
            BY <2>2, <2>3, StillAsked
    <1>10. CASE \E x \in Recordings : H!AskElimina(x)
        <2>1. PICK x \in Recordings : page' = [page EXCEPT !.voci[x].conferma = ~page.voci[x].conferma]
            BY <1>10 DEF H!AskElimina
        <2>2. CASE x = r
            <3>1. page.voci[r].conferma = TRUE
                BY <1>1 DEF Voce
            <3> QED
                BY <2>1, <2>2, <3>1
        <2>3. CASE x # r
            <3>1. page'.sospesi = page.sospesi /\ page'.voci[r] = page.voci[r]
                BY <1>1, <2>1, <2>3 DEF HomePage
            <3> QED
                BY <3>1, StillAsked
        <2> QED
            BY <2>2, <2>3
    <1>11. CASE \E g \in page.volo : H!ServeRiprova(g) \/ H!ServeElimina(g)
        <2>1. page'.sospesi = page.sospesi /\ page'.voci = page.voci
            BY <1>1, <1>11 DEF H!ServeRiprova, H!ServeElimina, H!Done, HomePage
        <2> QED
            BY <1>2, <2>1
    <1>12. CASE \E g \in page.volo : H!AnswerTap(g) \/ H!FailTap(g)
        <2>1. PICK g \in page.volo : page'.volo = page.volo \ {g}
            BY <1>1, <1>12 DEF H!AnswerTap, H!FailTap, HomePage
        <2> QED
            BY <2>1
    <1> QED
        BY <1>3, <1>4, <1>5, <1>6, <1>7, <1>8, <1>9, <1>10, <1>11, <1>12 DEF H!Next

(* HomeScreen: a question under somebody's eyes goes away by a gesture, or  *)
(* with its recording: no poll, and no poll that fails, takes it away.     *)
THEOREM QuestionsOutlivePolls == ScreensSpec => QuestionOutlivesThePoll
    <1>1. (route = "lista" => HomeInv) /\ [Next]_screensVars
              => [route = "lista" => H!QuestionKept]_screensVars
        <2> SUFFICES ASSUME route = "lista", HomeInv, Next
                     PROVE  H!QuestionKept
            OBVIOUS
        <2>1. H!Next
            BY DEF Next, Cestino, Lista, Elenco, Conto, Scheda, Revisione, Cerca, Redazione
        <2> QED
            BY <2>1, QuestionStep
    <1> QED
        BY <1>1, HomeSafe, PTL DEF ScreensSpec, QuestionOutlivesThePoll

------------------------------------------------------------------------------
(* useAsync: no read answered late puts back what was there before.  What  *)
(* a gesture of the page deleted or closed is never shown by it again, and *)
(* the cards shown are those of the question asked, on the five screens    *)
(* that read the API with the hook, for any order of the answers.  The     *)
(* cards of an emptying of the trash that was pressed on a later page and  *)
(* answered on the first, after which nothing is read again, are left out  *)
(* until the next read (TrashScreen, onSvuotato).                          *)
THEOREM NothingOldIsShown == ScreensSpec => []NoOlderReadWins
    <1>1. (route = "cestino" => TrashInv) => (route = "cestino" => T!OwnDeletionsStayGone)
        BY DEF TrashInv, NoneOf, T!OwnDeletionsStayGone, T!Shown
    <1>2. (route = "conto" => AccountInv) => (route = "conto" => A!OwnClosuresStayGone)
        BY DEF AccountInv, ListIsYoung
    <1>3. (route = "scheda" => DetailInv) => (route = "scheda" => D!OwnDeletionStaysGone)
        BY DEF DetailInv, VoiceGone
    <1>4. (route = "elenco" => ListInv) => (route = "elenco" => L!ShownIsWhatIsAsked)
        BY DEF ListInv, AllOfQuestion, OfQuestion, L!ShownIsWhatIsAsked, L!Mostrata, L!Lista
    <1>5. (route = "cerca" => SearchInv) => (route = "cerca" => S!ResultsAnswerTheQuestion)
        BY DEF SearchInv, Answers, S!ResultsAnswerTheQuestion, S!Risultato
    <1>6. /\ route = "cestino" => TrashInv
          /\ route = "conto" => AccountInv
          /\ route = "scheda" => DetailInv
          /\ route = "elenco" => ListInv
          /\ route = "cerca" => SearchInv
          => NoOlderReadWins
        BY <1>1, <1>2, <1>3, <1>4, <1>5 DEF NoOlderReadWins
    <1> QED
        BY <1>6, TrashSafe, AccountSafe, DetailSafe, ListSafe, SearchSafe, PTL

------------------------------------------------------------------------------
(* Places in an order, by counting. *)

LEMMA SameCount ==
    /\ \A X : V!Cardinality(X) = Cardinality(X)
    BY DEF V!Cardinality, Cardinality, V!IsFiniteSet, IsFiniteSet

\* Different places for each, no more places than elements: every place is taken.
LEMMA EveryPlaceIsTaken ==
    ASSUME NEW X, IsFiniteSet(X), NEW f \in [X -> 1..Cardinality(X)],
           \A x, y \in X : f[x] = f[y] => x = y
    PROVE  \A m \in 1..Cardinality(X) : \E x \in X : f[x] = m
    <1> DEFINE n == Cardinality(X)
    <1>1. n \in Nat
        BY FS_CardinalityType
    <1>2. IsFiniteSet(1..n) /\ Cardinality(1..n) = n
        BY <1>1, FS_Interval
    <1>3. f \in Injection(X, 1..n)
        BY DEF Injection, IsInjective
    <1> HIDE DEF n
    <1>4. f \in Surjection(X, 1..n)
        BY <1>2, <1>3, FS_Injection DEF n
    <1> QED
        BY <1>4 DEF Surjection, n

\* Whoever comes after one counts it, and all it counts.
LEMMA MoreBefore ==
    ASSUME NEW X, IsFiniteSet(X), NEW Y \in SUBSET X, NEW x \in X, x \notin Y
    PROVE  Cardinality(Y) < Cardinality(X)
    BY FS_Subset, FS_CardinalityType

------------------------------------------------------------------------------
(* ReviewScreen. *)

LEMMA ElementsOfASequence ==
    ASSUME NEW X, NEW s \in Seq(X)
    PROVE  \A i \in DOMAIN s : s[i] \in X
    OBVIOUS

List(s) == \E n \in Nat : DOMAIN s = 1..n /\ s = [i \in 1..n |-> s[i]]

LEMMA RowsAreInOrder ==
    ASSUME NEW w, List(w)
    PROVE  /\ V!Azioni(V!Rows(w)) = w
           /\ IsFiniteSet(V!Rows(w))
           /\ \A p, q \in V!Rows(w) : p.ordine = q.ordine => p = q
           /\ {p.ordine : p \in V!Rows(w)} = 1..Cardinality(V!Rows(w))
    <1> DEFINE rows == V!Rows(w)
               row(i) == [ordine |-> i, azione |-> w[i]]
    <1>1. PICK n \in Nat : DOMAIN w = 1..n /\ w = [i \in 1..n |-> w[i]]
        BY DEF List
    <1>2. rows = {row(i) : i \in 1..n}
        BY <1>1 DEF V!Rows
    <1>3. \A i \in 1..n : row(i).ordine = i /\ row(i).azione = w[i]
        OBVIOUS
    <1> HIDE DEF rows, row
    <1>4. ASSUME NEW m \in 0..n
          PROVE  /\ IsFiniteSet({q \in rows : q.ordine <= m})
                 /\ V!Cardinality({q \in rows : q.ordine <= m}) = m
        <2> DEFINE few == {q \in rows : q.ordine <= m}
                   f == [i \in 1..m |-> row(i)]
        <2>1. few = {row(i) : i \in 1..m}
            BY <1>1, <1>2, <1>3
        <2>2. f \in Bijection(1..m, few)
            BY <1>1, <1>3, <2>1 DEF Bijection, Injection, Surjection, IsInjective
        <2> HIDE DEF f, few
        <2>3. ExistsBijection(1..m, few)
            BY <2>2 DEF ExistsBijection
        <2>4. IsFiniteSet(1..m) /\ Cardinality(1..m) = m
            BY <1>1, FS_Interval
        <2> QED
            BY <2>3, <2>4, FS_Bijection, SameCount DEF few
    <1>5. {q \in rows : q.ordine <= n} = rows
        BY <1>1, <1>2, <1>3
    <1>6. IsFiniteSet(rows) /\ Cardinality(rows) = n
        <2>1. n \in 0..n
            BY <1>1
        <2> QED
            BY <1>4, <1>5, <2>1, SameCount
    <1>7. \A p, q \in rows : p.ordine = q.ordine => p = q
        BY <1>2, <1>3
    <1>8. {p.ordine : p \in rows} = 1..n
        BY <1>2, <1>3
    <1> DEFINE posto(p) == V!Cardinality({q \in rows : q.ordine <= p.ordine})
    <1>9. \A p \in rows : posto(p) = p.ordine
        <2> SUFFICES ASSUME NEW p \in rows
                     PROVE  posto(p) = p.ordine
            OBVIOUS
        <2>1. p.ordine \in 0..n
            BY <1>1, <1>8
        <2> QED
            BY <1>4, <2>1
    <1> HIDE DEF posto
    <1>10. ASSUME NEW i \in 1..n
           PROVE  (CHOOSE p \in rows : posto(p) = i).azione = w[i]
        <2>1. row(i) \in rows /\ posto(row(i)) = i
            BY <1>2, <1>3, <1>9
        <2>2. \A p \in rows : posto(p) = i => p = row(i)
            BY <1>3, <1>7, <1>9, <2>1
        <2> QED
            BY <1>3, <2>1, <2>2
    <1>11. V!Azioni(rows) = [i \in 1..n |-> (CHOOSE p \in rows : posto(p) = i).azione]
        <2>1. V!Cardinality(rows) = n
            BY <1>6, SameCount
        <2> QED
            BY <2>1 DEF V!Azioni, posto
    <1>12. V!Azioni(rows) = [i \in 1..n |-> w[i]]
        BY <1>10, <1>11
    <1> QED
        BY <1>1, <1>6, <1>7, <1>8, <1>12 DEF rows

\* The steps that are left are in an order, whichever were taken away.
LEMMA SomeAreInOrder ==
    ASSUME NEW steps, IsFiniteSet(steps)
    PROVE  List(V!Azioni(steps))
    <1>1. Cardinality(steps) \in Nat
        BY FS_CardinalityType
    <1> QED
        BY <1>1, SameCount DEF List, V!Azioni

------------------------------------------------------------------------------
Before(passi, i, j) ==
    \/ passi[i].ordine < passi[j].ordine
    \/ passi[i].ordine = passi[j].ordine /\ i < j

\* A story is numbered anew in the order of its numbers.
LEMMA NumbersKeepTheOrder ==
    ASSUME NEW passi \in Seq([ordine : Int, azione : STRING])
    PROVE  LET story == V!NormalizeSteps(passi) IN
           /\ DOMAIN story = DOMAIN passi
           /\ \A i \in DOMAIN passi :
                  /\ V!Place(passi, i) \in DOMAIN passi
                  /\ story[V!Place(passi, i)]
                         = [ordine |-> V!Place(passi, i), azione |-> passi[i].azione]
           /\ \A m \in DOMAIN passi : \E i \in DOMAIN passi : V!Place(passi, i) = m
           /\ \A i, j \in DOMAIN passi :
                  passi[i].ordine < passi[j].ordine => V!Place(passi, i) < V!Place(passi, j)
           /\ \A i, j \in DOMAIN passi : V!Place(passi, i) = V!Place(passi, j) => i = j
    <1> DEFINE I == DOMAIN passi
               upTo(i) == {j \in I : \/ passi[j].ordine < passi[i].ordine
                                     \/ passi[j].ordine = passi[i].ordine /\ j <= i}
               story == V!NormalizeSteps(passi)
    <1>1. PICK n \in Nat : I = 1..n
        <2>1. Len(passi) \in Nat /\ I = 1..Len(passi)
            OBVIOUS
        <2> QED
            BY <2>1
    <1>2. IsFiniteSet(I) /\ Cardinality(I) = n
        BY <1>1, FS_Interval
    <1>3. \A i \in I : passi[i] \in [ordine : Int, azione : STRING] /\ passi[i].ordine \in Int
        <2> SUFFICES ASSUME NEW i \in I
                     PROVE  passi[i] \in [ordine : Int, azione : STRING] /\ passi[i].ordine \in Int
            OBVIOUS
        <2>1. passi[i] \in [ordine : Int, azione : STRING]
            BY ElementsOfASequence
        <2> QED
            BY <2>1
    <1>4. \A i \in I : V!Place(passi, i) = Cardinality(upTo(i))
        BY SameCount DEF V!Place
    <1>5. \A i \in I : upTo(i) \in SUBSET I /\ i \in upTo(i)
        BY <1>1, <1>3
    <1>6. \A i, j \in I : Before(passi, i, j) => upTo(i) \in SUBSET upTo(j) /\ j \notin upTo(i)
        BY <1>1, <1>3 DEF Before
    <1>7. \A i, j \in I : i # j => Before(passi, i, j) \/ Before(passi, j, i)
        BY <1>1, <1>3 DEF Before
    <1> HIDE DEF upTo, I
    <1>8. \A i \in I : IsFiniteSet(upTo(i)) /\ V!Place(passi, i) \in 1..n
        <2> SUFFICES ASSUME NEW i \in I
                     PROVE  IsFiniteSet(upTo(i)) /\ V!Place(passi, i) \in 1..n
            OBVIOUS
        <2>1. IsFiniteSet(upTo(i)) /\ Cardinality(upTo(i)) <= n
            BY <1>2, <1>5, FS_Subset
        <2>2. Cardinality(upTo(i)) \in Nat /\ Cardinality(upTo(i)) # 0
            BY <1>5, <2>1, FS_CardinalityType, FS_EmptySet
        <2> QED
            BY <1>4, <2>1, <2>2
    <1>9. \A i, j \in I : Before(passi, i, j) => V!Place(passi, i) < V!Place(passi, j)
        <2> SUFFICES ASSUME NEW i \in I, NEW j \in I, Before(passi, i, j)
                     PROVE  Cardinality(upTo(i)) < Cardinality(upTo(j))
            BY <1>4
        <2> QED
            BY <1>5, <1>6, <1>8, MoreBefore
    <1>10. \A i, j \in I : V!Place(passi, i) = V!Place(passi, j) => i = j
        BY <1>7, <1>8, <1>9
    <1>11. \A m \in I : \E i \in I : V!Place(passi, i) = m
        <2> DEFINE f == [i \in I |-> V!Place(passi, i)]
        <2>1. f \in [I -> 1..n] /\ \A i, j \in I : f[i] = f[j] => i = j
            BY <1>8, <1>10
        <2> HIDE DEF f
        <2>2. \A m \in 1..n : \E i \in I : f[i] = m
            BY <1>2, <2>1, EveryPlaceIsTaken
        <2> QED
            BY <1>1, <2>2 DEF f
    <1>12. story = [m \in I |-> [passi[CHOOSE i \in I : V!Place(passi, i) = m] EXCEPT !.ordine = m]]
        BY DEF V!NormalizeSteps, I
    <1>13. ASSUME NEW i \in I
           PROVE  story[V!Place(passi, i)]
                      = [ordine |-> V!Place(passi, i), azione |-> passi[i].azione]
        <2> DEFINE m == V!Place(passi, i)
        <2>1. m \in I
            BY <1>1, <1>8
        <2>2. (CHOOSE k \in I : V!Place(passi, k) = m) = i
            BY <1>10
        <2>3. story[m] = [passi[i] EXCEPT !.ordine = m]
            BY <1>12, <2>1, <2>2
        <2> HIDE DEF m
        <2> QED
            BY <1>3, <2>3 DEF m
    <1>14. DOMAIN story = I
        BY <1>12
    <1> HIDE DEF story
    <1> QED
        <2>1. \A i \in I : V!Place(passi, i) \in I
            BY <1>1, <1>8
        <2>2. \A i, j \in I : passi[i].ordine < passi[j].ordine => V!Place(passi, i) < V!Place(passi, j)
            BY <1>9 DEF Before
        <2> QED
            BY <1>10, <1>11, <1>13, <1>14, <2>1, <2>2 DEF I, story

------------------------------------------------------------------------------
\* What somebody who works alone finds: the story, in the order of its numbers, then
\* notes, each once; and what was saved is there.
Storia(passi) == [m \in DOMAIN passi |-> V!NormalizeSteps(passi)[m].azione]
Faithful(p, w) ==
    /\ List(w)
    /\ \A i, j \in DOMAIN w : w[i] = w[j] => i = j
    /\ \A m \in DOMAIN p.racconto : m \in DOMAIN w /\ w[m] = Storia(p.racconto)[m]
    /\ \A x \in p.salvate : \E i \in DOMAIN w : w[i] = x

ReviewPage(p) ==
    /\ p = [schermo |-> p.schermo, volo |-> p.volo, racconto |-> p.racconto,
            salvate |-> p.salvate, solo |-> p.solo]
    /\ p.schermo = [dati |-> p.schermo.dati, note |-> p.schermo.note,
                    attesa |-> p.schermo.attesa]
ReviewCall(g) ==
    /\ g = [patch |-> [steps |-> g.patch.steps, status |-> g.patch.status], nota |-> g.nota,
            stato |-> g.stato]
    /\ \/ g.patch.steps = {} /\ g.nota = V!NessunaNota
       \/ \E v : List(v) /\ g.patch.steps = {v} /\ \E i \in DOMAIN v : v[i] = g.nota

ReviewServer(s) == s = [status |-> s.status, steps |-> s.steps]

Lettura == page.schermo.dati

\* Whoever is alone builds what is saved on a card that is still so.
AloneInReview ==
    page.solo =>
        /\ \A w : List(w) /\ server.steps = V!Rows(w) => Faithful(page, w)
        /\ \A a \in Lettura.reads : a.dato # NoDato => Faithful(page, a.dato.steps)
        /\ Lettura.kind = "pronto" => Faithful(page, Lettura.dato.steps)
        /\ \A g \in page.volo : \A v \in g.patch.steps : Faithful(page, v)
        /\ \A g \in page.volo : \A w :
              g.stato = "fatta" /\ g.nota # V!NessunaNota /\ List(w) /\ server.steps = V!Rows(w) =>
                  \E i \in DOMAIN w : w[i] = g.nota

ReviewInv ==
    /\ ReviewPage(page) /\ IsHook(Lettura) /\ Tidy(Lettura)
    /\ page.racconto \in {raw.passi : raw \in Racconti}
    /\ ReviewServer(server) /\ \E w : List(w) /\ server.steps = V!Rows(w)
    /\ \A a \in Lettura.reads : a.dato # NoDato => List(a.dato.steps)
    /\ Lettura.kind = "pronto" => List(Lettura.dato.steps) /\ Lettura.reads = {}
    /\ page.schermo.note # V!NessunaNota =>
           /\ Lettura.kind = "pronto"
           /\ \A i \in DOMAIN Lettura.dato.steps : Lettura.dato.steps[i] # page.schermo.note
    /\ \A g \in page.volo : ReviewCall(g)
    /\ \A g, k \in page.volo : g = k
    /\ AloneInReview

LEMMA ReviewHook ==
    ASSUME NEW h, NEW r, NEW d
    PROVE  /\ V!Mount(d) = U!Mount(d)
           /\ V!Serve(h, r, d) = U!Serve(h, r, d)
           /\ V!Unserved(h) \subseteq h.reads
           /\ V!Served(h) = U!Served(h)
           /\ V!Resolve(h, r) = U!Resolve(h, r)
           /\ V!Reject(h, r) = U!Reject(h, r)
    BY DEF V!Mount, U!Mount, V!Read, U!Read, V!Serve, U!Serve, V!Unserved, V!Served, U!Served,
           V!Resolve, U!Resolve, V!Reject, U!Reject

LEMMA SameRows ==
    ASSUME NEW v, NEW w, List(v), List(w), V!Rows(v) = V!Rows(w)
    PROVE  v = w
    BY RowsAreInOrder

LongerBy(v, w, x) ==
    /\ List(v)
    /\ \A i \in DOMAIN w : i \in DOMAIN v /\ v[i] = w[i]
    /\ \E k \in DOMAIN v : v[k] = x /\ \A i \in DOMAIN v : i # k => i \in DOMAIN w

LEMMA Appended ==
    ASSUME NEW w, List(w), NEW x
    PROVE  LongerBy(Append(w, x), w, x)
    <1>1. PICK n \in Nat : DOMAIN w = 1..n /\ w = [i \in 1..n |-> w[i]]
        BY DEF List
    <1> DEFINE X == {w[i] : i \in 1..n} \cup {x}
    <1>2. w \in [1..n -> X] /\ x \in X
        BY <1>1
    <1>3. w \in Seq(X) /\ Len(w) = n
        BY <1>1, <1>2
    <1> HIDE DEF X
    <1>4. /\ Append(w, x) \in Seq(X) /\ Len(Append(w, x)) = n + 1
          /\ Append(w, x)[n + 1] = x /\ \A i \in 1..n : Append(w, x)[i] = w[i]
        BY <1>2, <1>3
    <1> DEFINE v == Append(w, x)
    <1>5. DOMAIN v = 1..(n + 1) /\ v = [i \in 1..(n + 1) |-> v[i]]
        <2>1. v \in Seq(X) /\ Len(v) = n + 1
            BY <1>4
        <2> HIDE DEF v
        <2>2. DOMAIN v = 1..(n + 1)
            BY <2>1
        <2>3. v = [i \in DOMAIN v |-> v[i]]
            BY <2>1
        <2> QED
            BY <2>2, <2>3
    <1> HIDE DEF v
    <1>6. List(v)
        BY <1>1, <1>5 DEF List
    <1>7. n + 1 \in DOMAIN v /\ \A i \in DOMAIN v : i # n + 1 => i \in DOMAIN w
        BY <1>1, <1>5
    <1> QED
        BY <1>1, <1>4, <1>5, <1>6, <1>7 DEF v, LongerBy

LEMMA FaithfulStays ==
    ASSUME NEW p, NEW q, q.racconto = p.racconto, q.salvate = p.salvate, NEW w, Faithful(p, w)
    PROVE  Faithful(q, w)
    BY DEF Faithful

LEMMA ReviewInit ==
    ASSUME V!Init
    PROVE  ReviewInv
    <1> DEFINE h == U!Mount("revisione")
    <1>1. Waits(h, "revisione")
        BY AnyMounted
    <1>2. PICK raw \in Racconti :
            /\ server = V!CardOf(raw)
            /\ page = [schermo |-> [dati |-> h, note |-> V!NessunaNota, attesa |-> FALSE], volo |-> {},
                       racconto |-> raw.passi, salvate |-> {}, solo |-> TRUE]
        BY ReviewHook DEF V!Init, V!Accettati, V!Fresca
    <1> HIDE DEF h
    <1> DEFINE passi == raw.passi
               w == Storia(passi)
               story == V!NormalizeSteps(passi)
    <1>3. /\ passi \in Seq([ordine : Int, azione : STRING])
          /\ \A i, j \in DOMAIN passi : passi[i].azione = passi[j].azione => i = j
        BY RaccontiAssumption
    <1>4. /\ DOMAIN story = DOMAIN passi
          /\ \A m \in DOMAIN passi : \E i \in DOMAIN passi :
                 V!Place(passi, i) = m /\ story[m] = [ordine |-> m, azione |-> passi[i].azione]
        BY <1>3, NumbersKeepTheOrder
    <1>5. DOMAIN w = DOMAIN passi /\ \A m \in DOMAIN passi : w[m] = story[m].azione
        BY DEF Storia
    <1>6. List(w)
        <2>1. Len(passi) \in Nat /\ DOMAIN passi = 1..Len(passi)
            BY <1>3
        <2> QED
            BY <2>1 DEF List, Storia
    <1>7. \A m, n \in DOMAIN w : w[m] = w[n] => m = n
        <2> SUFFICES ASSUME NEW m \in DOMAIN w, NEW n \in DOMAIN w, w[m] = w[n]
                     PROVE  m = n
            OBVIOUS
        <2>1. PICK i \in DOMAIN passi : 
                V!Place(passi, i) = m /\ story[m] = [ordine |-> m, azione |-> passi[i].azione]
            BY <1>4, <1>5
        <2>2. PICK j \in DOMAIN passi : 
                V!Place(passi, j) = n /\ story[n] = [ordine |-> n, azione |-> passi[j].azione]
            BY <1>4, <1>5
        <2>3. passi[i].azione = passi[j].azione
            BY <1>5, <2>1, <2>2
        <2> QED
            BY <1>3, <2>1, <2>2, <2>3
    <1>8. V!Rows(w) = {story[m] : m \in DOMAIN passi}
        <2>1. ASSUME NEW m \in DOMAIN passi
              PROVE  story[m] = [ordine |-> m, azione |-> w[m]]
            <3>1. PICK i \in DOMAIN passi : story[m] = [ordine |-> m, azione |-> passi[i].azione]
                BY <1>4
            <3>2. w[m] = story[m].azione
                BY <1>5
            <3> HIDE DEF w, story, passi
            <3> QED
                BY <3>1, <3>2
        <2> QED
            BY <1>5, <2>1 DEF V!Rows
    <1>9. server.steps = V!Rows(w)
        BY <1>2, <1>4, <1>8 DEF V!CardOf, V!Range
    <1>13. ReviewServer(server)
        BY <1>2 DEF ReviewServer, V!CardOf
    <1> HIDE DEF story
    <1>10. /\ ReviewPage(page) /\ Lettura = h /\ page.schermo.note = V!NessunaNota /\ page.volo = {}
           /\ page.salvate = {} /\ page.racconto = passi
        BY <1>2 DEF ReviewPage, Lettura
    <1>11. Faithful(page, w)
        BY <1>5, <1>6, <1>7, <1>10 DEF Faithful
    <1>12. \A v : List(v) /\ server.steps = V!Rows(v) => Faithful(page, v)
        BY <1>6, <1>9, <1>11, SameRows
    <1>14. page.racconto \in {r.passi : r \in Racconti}
        BY <1>10
    <1> HIDE DEF w, passi
    <1>15. AloneInReview
        BY <1>1, <1>10, <1>12 DEF AloneInReview, Waits
    <1> QED
        BY <1>1, <1>6, <1>9, <1>10, <1>13, <1>14, <1>15 DEF ReviewInv, Waits

LEMMA ReviewElsewhereStep ==
    ASSUME ReviewInv, NEW p \in server.steps, V!EditElsewhere(p)
    PROVE  ReviewInv'
    <1>1. PICK w : List(w) /\ server.steps = V!Rows(w)
        BY DEF ReviewInv
    <1>2. IsFiniteSet(server.steps \ {p})
        BY <1>1, RowsAreInOrder, FS_RemoveElement
    <1> DEFINE v == V!Azioni(server.steps \ {p})
    <1>3. List(v)
        BY <1>2, SomeAreInOrder
    <1>4. server' = [server EXCEPT !.steps = V!Rows(v)]
        BY DEF V!EditElsewhere
    <1> HIDE DEF v
    <1>5. ReviewServer(server) /\ ReviewPage(page)
        BY DEF ReviewInv
    <1>6. server'.steps = V!Rows(v) /\ ReviewServer(server')
        BY <1>4, <1>5 DEF ReviewServer
    <1>9. page' = [page EXCEPT !.solo = FALSE]
        BY DEF V!EditElsewhere
    <1> DEFINE no == FALSE
    <1>10. no \in BOOLEAN /\ ~no
        OBVIOUS
    <1>11. page' = [page EXCEPT !.solo = no]
        BY <1>9
    <1> HIDE DEF no
    <1>7. /\ ReviewPage(page') /\ ~page'.solo /\ page'.schermo = page.schermo /\ page'.volo = page.volo
          /\ page'.racconto = page.racconto
        BY <1>5, <1>10, <1>11 DEF ReviewPage
    <1>8. Lettura' = Lettura
        BY <1>7 DEF Lettura
    <1> QED
        BY <1>3, <1>6, <1>7, <1>8 DEF ReviewInv, AloneInReview

LEMMA FreshScreen ==
    LET fresca == V!Fresca IN
    fresca = [dati |-> fresca.dati, note |-> fresca.note, attesa |-> fresca.attesa]
    BY DEF V!Fresca

LEMMA ReviewLeaves ==
    ASSUME ReviewInv, server' = server,
           ReviewPage(page'), page'.schermo = V!Fresca, page'.volo = {},
           page'.racconto = page.racconto, page'.solo => page.solo,
           \A w : page'.solo /\ List(w) /\ server.steps = V!Rows(w) =>
                   \A x \in page'.salvate : \E i \in DOMAIN w : w[i] = x
    PROVE  ReviewInv'
    <1> DEFINE h == U!Mount("revisione")
    <1>1. Waits(h, "revisione")
        BY AnyMounted
    <1>2. V!Fresca = [dati |-> h, note |-> V!NessunaNota, attesa |-> FALSE]
        BY ReviewHook DEF V!Fresca
    <1> HIDE DEF h
    <1>6. page'.schermo = [dati |-> h, note |-> V!NessunaNota, attesa |-> FALSE]
        BY <1>2
    <1>7. page'.schermo.dati = h /\ page'.schermo.note = V!NessunaNota
        BY <1>6
    <1>3. Lettura' = h /\ page'.schermo.note = V!NessunaNota
        BY <1>7 DEF Lettura
    <1>4. ASSUME page'.solo, NEW w, List(w), server.steps = V!Rows(w)
          PROVE  Faithful(page', w)
        <2>1. Faithful(page, w)
            BY <1>4 DEF ReviewInv, AloneInReview
        <2>2. \A x \in page'.salvate : \E i \in DOMAIN w : w[i] = x
            BY <1>4
        <2> QED
            BY <2>1, <2>2 DEF Faithful
    <1>5. AloneInReview'
        BY <1>1, <1>3, <1>4 DEF AloneInReview, Waits
    <1> QED
        BY <1>1, <1>3, <1>5 DEF ReviewInv, Waits

\* The card is read: what is read is what is written.
LEMMA ReviewReadStep ==
    ASSUME ReviewInv, V!ServeDati \/ V!AnswerDati \/ V!FailDati
    PROVE  ReviewInv'
    <1>1. ReviewPage(page) /\ IsHook(Lettura) /\ Tidy(Lettura)
        BY DEF ReviewInv
    <1>2. server' = server
        BY DEF V!ServeDati, V!AnswerDati, V!FailDati
    <1>3. CASE V!ServeDati
        <2>1. PICK r \in V!Unserved(Lettura) :
                page' = [page EXCEPT !.schermo.dati = V!Serve(Lettura, r, V!Detail)]
            BY <1>3 DEF V!ServeDati, V!S, Lettura
        <2>2. r \in Lettura.reads
            BY ReviewHook
        <2> DEFINE d == V!Detail
                   h == U!Serve(Lettura, r, d)
        <2>3. PICK w : List(w) /\ server.steps = V!Rows(w)
            BY DEF ReviewInv
        <2>4. d.steps = w
            BY <2>3, RowsAreInOrder DEF V!Detail
        <2>5. page' = [page EXCEPT !.schermo.dati = h]
            BY <2>1, ReviewHook
        <2> HIDE DEF d
        <2>6. /\ IsHook(h) /\ Tidy(h) /\ h.kind = Lettura.kind /\ h.dato = Lettura.dato
              /\ \A a \in h.reads : a.dato = d
            BY <1>1, <2>2, AnyServed
        <2> HIDE DEF h
        <2>7. /\ ReviewPage(page') /\ Lettura' = h /\ page'.schermo.note = page.schermo.note
              /\ page'.volo = page.volo /\ page'.salvate = page.salvate
              /\ page'.racconto = page.racconto /\ page'.solo = page.solo
            BY <1>1, <2>5 DEF ReviewPage, Lettura
        <2>8. Lettura.kind # "pronto"
            BY <2>2 DEF ReviewInv
        <2>10. \A v : Faithful(page, v) => Faithful(page', v)
            BY <2>7, FaithfulStays
        <2>9. AloneInReview'
            BY <1>2, <2>3, <2>4, <2>6, <2>7, <2>8, <2>10 DEF ReviewInv, AloneInReview
        <2> QED
            BY <1>2, <2>3, <2>4, <2>6, <2>7, <2>8, <2>9 DEF ReviewInv
    <1>4. CASE V!AnswerDati
        <2>1. PICK r \in V!Served(Lettura) :
                page' = [page EXCEPT !.schermo.dati = V!Resolve(Lettura, r)]
            BY <1>4 DEF V!AnswerDati, V!S, Lettura
        <2> DEFINE h == U!Resolve(Lettura, r)
        <2>2. page' = [page EXCEPT !.schermo.dati = h] /\ r \in U!Served(Lettura)
            BY <2>1, ReviewHook
        <2>3. /\ IsHook(h) /\ Tidy(h) /\ h.dato = r.dato /\ h.reads = {}
              /\ r \in Lettura.reads /\ r.dato # NoDato
            BY <1>1, <2>2, AnyResolved
        <2> HIDE DEF h
        <2>4. /\ ReviewPage(page') /\ Lettura' = h /\ page'.schermo.note = page.schermo.note
              /\ page'.volo = page.volo /\ page'.salvate = page.salvate
              /\ page'.racconto = page.racconto /\ page'.solo = page.solo
            BY <1>1, <2>2 DEF ReviewPage, Lettura
        <2>5. Lettura.kind # "pronto" /\ page.schermo.note = V!NessunaNota
            BY <2>3 DEF ReviewInv
        <2>7. \A v : Faithful(page, v) => Faithful(page', v)
            BY <2>4, FaithfulStays
        <2>6. AloneInReview'
            BY <1>2, <2>3, <2>4, <2>5, <2>7 DEF ReviewInv, AloneInReview
        <2> QED
            BY <1>2, <2>3, <2>4, <2>5, <2>6 DEF ReviewInv
    <1>5. CASE V!FailDati
        <2>1. PICK r \in Lettura.reads : page' = [page EXCEPT !.schermo.dati = U!Reject(Lettura, r)]
            BY <1>5, ReviewHook DEF V!FailDati, V!S, Lettura
        <2> DEFINE h == U!Reject(Lettura, r)
        <2>2. /\ IsHook(h) /\ Tidy(h) /\ h.reads = {}
              /\ h.kind = "pronto" => Lettura.kind = "pronto" /\ h.dato = Lettura.dato
            BY <1>1, AnyRejected
        <2>3. page' = [page EXCEPT !.schermo.dati = h]
            BY <2>1
        <2> HIDE DEF h
        <2>4. /\ ReviewPage(page') /\ Lettura' = h /\ page'.schermo.note = page.schermo.note
              /\ page'.volo = page.volo /\ page'.salvate = page.salvate
              /\ page'.racconto = page.racconto /\ page'.solo = page.solo
            BY <1>1, <2>3 DEF ReviewPage, Lettura
        <2>5. Lettura.kind # "pronto" /\ page.schermo.note = V!NessunaNota
            BY <2>1 DEF ReviewInv
        <2>7. \A v : Faithful(page, v) => Faithful(page', v)
            BY <2>4, FaithfulStays
        <2>6. AloneInReview'
            BY <1>2, <2>2, <2>4, <2>5, <2>7 DEF ReviewInv, AloneInReview
        <2> QED
            BY <1>2, <2>2, <2>4, <2>5, <2>6 DEF ReviewInv
    <1> QED
        BY <1>3, <1>4, <1>5

\* By hand: a note that is not among the steps that are shown.
LEMMA ReviewWriteStep ==
    ASSUME ReviewInv, NEW nota, V!ScriviNota(nota)
    PROVE  ReviewInv'
    <1>1. ReviewPage(page) /\ IsHook(Lettura) /\ Tidy(Lettura)
        BY DEF ReviewInv
    <1>2. /\ server' = server /\ page' = [page EXCEPT !.schermo.note = nota]
          /\ Lettura.kind = "pronto" /\ \A i \in DOMAIN Lettura.dato.steps : Lettura.dato.steps[i] # nota
        BY DEF V!ScriviNota, V!Pronto, V!S, Lettura, V!Range
    <1>3. /\ ReviewPage(page') /\ Lettura' = Lettura /\ page'.schermo.note = nota
          /\ page'.volo = page.volo /\ page'.salvate = page.salvate
          /\ page'.racconto = page.racconto /\ page'.solo = page.solo
        BY <1>1, <1>2 DEF ReviewPage, Lettura
    <1>4. \A v : Faithful(page, v) => Faithful(page', v)
        BY <1>3, FaithfulStays
    <1>5. AloneInReview'
        BY <1>2, <1>3, <1>4 DEF ReviewInv, AloneInReview
    <1> QED
        BY <1>2, <1>3, <1>5 DEF ReviewInv

\* Buttons that leave the screen: what nobody waits for any more may still be handled.
LEMMA ReviewGoes ==
    ASSUME ReviewInv, server' = server, page' = V!Via(page)
    PROVE  ReviewInv'
    <1> DEFINE solo == page.solo /\ ~V!Andata(page.volo)
    <1>1. ReviewPage(page)
        BY DEF ReviewInv
    <1>2. page' = [page EXCEPT !.schermo = V!Fresca, !.volo = {}, !.solo = solo]
        BY DEF V!Via
    <1>3. solo \in BOOLEAN /\ (solo => page.solo)
        OBVIOUS
    <1> HIDE DEF solo
    <1>4. /\ ReviewPage(page') /\ page'.schermo = V!Fresca /\ page'.volo = {}
          /\ page'.racconto = page.racconto /\ page'.salvate = page.salvate /\ page'.solo = solo
        <2>1. page' = [page EXCEPT !.schermo = V!Fresca, !.volo = {}, !.salvate = page.salvate,
                                   !.solo = solo]
            BY <1>1, <1>2 DEF ReviewPage
        <2> DEFINE fresca == V!Fresca
        <2>2. page' = [page EXCEPT !.schermo = fresca, !.volo = {}, !.salvate = page.salvate,
                                   !.solo = solo]
            BY <2>1
        <2>3. fresca = [dati |-> fresca.dati, note |-> fresca.note, attesa |-> fresca.attesa]
            BY FreshScreen
        <2> HIDE DEF fresca
        <2>4. /\ ReviewPage(page') /\ page'.schermo = fresca /\ page'.volo = {}
              /\ page'.racconto = page.racconto /\ page'.salvate = page.salvate /\ page'.solo = solo
            BY <1>1, <2>2, <2>3 DEF ReviewPage
        <2> QED
            BY <2>4 DEF fresca
    <1>5. page'.solo => page.solo
        BY <1>3, <1>4
    <1>6. ASSUME NEW w, page'.solo, List(w), server.steps = V!Rows(w)
          PROVE  \A x \in page'.salvate : \E i \in DOMAIN w : w[i] = x
        <2>1. Faithful(page, w)
            BY <1>5, <1>6 DEF ReviewInv, AloneInReview
        <2> QED
            BY <1>4, <2>1 DEF Faithful
    <1> QED
        BY <1>4, <1>5, <1>6, ReviewLeaves

\* What is saved: the steps that were read, and the note at the end.
LEMMA ReviewSendStep ==
    ASSUME ReviewInv, NEW completa \in BOOLEAN, V!Salva(completa)
    PROVE  ReviewInv'
    <1> DEFINE patch == V!Patch(completa)
               nota == page.schermo.note
               letti == Lettura.dato.steps
               g == [patch |-> patch, nota |-> nota, stato |-> "andata"]
    <1>1. /\ ReviewPage(page) /\ IsHook(Lettura) /\ Tidy(Lettura) /\ server' = server
          /\ Lettura.kind = "pronto" /\ List(letti)
        BY DEF ReviewInv, V!Salva, V!Pronto, V!S, Lettura
    <1>2. CASE V!Vuota(patch)
        <2>1. page' = V!Via(page)
            BY <1>2 DEF V!Salva
        <2> QED
            BY <1>1, <2>1, ReviewGoes
    <1>3. CASE ~V!Vuota(patch)
        <2>1. page' = [page EXCEPT !.schermo.attesa = TRUE, !.volo = {g}]
            BY <1>3 DEF V!Salva, V!S
        <2>2. /\ patch = [steps |-> patch.steps, status |-> patch.status]
              /\ patch.steps = IF nota = V!NessunaNota THEN {} ELSE {Append(letti, nota)}
            BY DEF V!Patch, V!S, Lettura
        <2>3. ReviewCall(g)
            <3>1. CASE nota = V!NessunaNota
                BY <2>2, <3>1 DEF ReviewCall
            <3>2. CASE nota # V!NessunaNota
                <4>1. patch.steps = {Append(letti, nota)}
                    BY <2>2, <3>2
                <4> HIDE DEF patch, letti, nota
                <4>2. LongerBy(Append(letti, nota), letti, nota)
                    BY <1>1, Appended
                <4> QED
                    BY <2>2, <4>1, <4>2 DEF ReviewCall, LongerBy
            <3> QED
                BY <3>1, <3>2
        <2>4. ASSUME page.solo, nota # V!NessunaNota
              PROVE  Faithful(page, Append(letti, nota))
            <3> DEFINE v == Append(letti, nota)
            <3>1. Faithful(page, letti)
                BY <1>1, <2>4 DEF ReviewInv, AloneInReview
            <3>3. \A i \in DOMAIN letti : letti[i] # nota
                BY <2>4 DEF ReviewInv
            <3> HIDE DEF letti, nota
            <3>2. LongerBy(v, letti, nota)
                BY <1>1, Appended
            <3> HIDE DEF v
            <3>4. \A i, j \in DOMAIN v : v[i] = v[j] => i = j
                BY <3>1, <3>2, <3>3 DEF Faithful, LongerBy
            <3> QED
                BY <3>1, <3>2, <3>4 DEF Faithful, LongerBy, v
        <2>5. g.stato = "andata" /\ g.nota = nota /\ g.patch = patch
            OBVIOUS
        <2> HIDE DEF g
        <2> DEFINE yes == TRUE
        <2>6. page' = [page EXCEPT !.schermo.attesa = yes, !.volo = {g}]
            BY <2>1
        <2> HIDE DEF yes
        <2>7. /\ ReviewPage(page') /\ Lettura' = Lettura /\ page'.schermo.note = nota
              /\ page'.volo = {g} /\ page'.salvate = page.salvate
              /\ page'.racconto = page.racconto /\ page'.solo = page.solo
            BY <1>1, <2>6 DEF ReviewPage, Lettura
        <2>8. \A w : Faithful(page, w) => Faithful(page', w)
            BY <2>7, FaithfulStays
        <2>9. \A v \in patch.steps : nota # V!NessunaNota /\ v = Append(letti, nota)
            BY <2>2
        <2> HIDE DEF patch, letti, nota
        <2>10. AloneInReview'
            <3>1. ASSUME page.solo
                  PROVE  \A k \in page'.volo : \A v \in k.patch.steps : Faithful(page', v)
                BY <2>4, <2>5, <2>7, <2>8, <2>9, <3>1
            <3>2. \A k \in page'.volo : k.stato # "fatta"
                BY <2>5, <2>7
            <3> QED
                BY <1>1, <2>7, <2>8, <3>1, <3>2 DEF ReviewInv, AloneInReview
        <2> QED
            BY <1>1, <2>3, <2>7, <2>10 DEF ReviewInv, nota, letti
    <1> QED
        BY <1>2, <1>3

\* The card is written: all the steps of the saving, numbered by the place they have.
LEMMA ReviewHandleStep ==
    ASSUME ReviewInv, NEW g \in page.volo, V!Handle(g)
    PROVE  ReviewInv'
    <1> DEFINE k == [g EXCEPT !.stato = "fatta"]
               s == V!Update(server, g.patch)
    <1>1. ReviewPage(page) /\ ReviewServer(server) /\ ReviewCall(g)
        BY DEF ReviewInv
    <1>2. server' = s /\ page' = [page EXCEPT !.volo = {k}]
        BY DEF V!Handle
    <1>3. ReviewCall(k) /\ k.nota = g.nota /\ k.patch = g.patch
        BY <1>1 DEF ReviewCall
    <1> HIDE DEF k
    <1>4. /\ ReviewPage(page') /\ page'.schermo = page.schermo
          /\ page'.volo = {k} /\ page'.salvate = page.salvate
          /\ page'.racconto = page.racconto /\ page'.solo = page.solo
        BY <1>1, <1>2 DEF ReviewPage
    <1>5. Lettura' = Lettura
        BY <1>4 DEF Lettura
    <1>6. \A w : Faithful(page, w) => Faithful(page', w)
        BY <1>4, FaithfulStays
    <1>7. ReviewServer(s)
        BY DEF V!Update, ReviewServer
    <1>8. CASE g.patch.steps = {} /\ g.nota = V!NessunaNota
        <2>1. s.steps = server.steps
            BY <1>8 DEF V!Update
        <2> HIDE DEF s
        <2>2. server'.steps = server.steps
            BY <1>2, <2>1
        <2>3. AloneInReview'
            BY <1>3, <1>4, <1>5, <1>6, <1>8, <2>2 DEF ReviewInv, AloneInReview
        <2> QED
            BY <1>2, <1>3, <1>4, <1>5, <1>7, <2>2, <2>3 DEF ReviewInv
    <1>9. ASSUME NEW v, List(v), g.patch.steps = {v}, \E i \in DOMAIN v : v[i] = g.nota
          PROVE  ReviewInv'
        <2>1. s.steps = V!Rows(v)
            <3>1. V!Written(<<>>, {v}) = v
                BY DEF V!Written
            <3> QED
                BY <1>9, <3>1 DEF V!Update
        <2> HIDE DEF s
        <2>2. server'.steps = V!Rows(v)
            BY <1>2, <2>1
        <2>3. \A w : List(w) /\ server'.steps = V!Rows(w) => w = v
            BY <1>9, <2>2, SameRows
        <2>4. page.solo => Faithful(page', v)
            BY <1>6, <1>9 DEF ReviewInv, AloneInReview
        <2>5. AloneInReview'
            <3>1. ASSUME page.solo
                  PROVE  /\ \A w : List(w) /\ server'.steps = V!Rows(w) => Faithful(page', w)
                         /\ \A w : List(w) /\ server'.steps = V!Rows(w) =>
                               \E i \in DOMAIN w : w[i] = g.nota
                BY <1>9, <2>3, <2>4, <3>1
            <3>2. page.solo => \A x \in g.patch.steps : Faithful(page', x)
                BY <1>9, <2>4
            <3> QED
                BY <1>3, <1>4, <1>5, <1>6, <3>1, <3>2 DEF ReviewInv, AloneInReview
        <2> QED
            BY <1>2, <1>3, <1>4, <1>5, <1>7, <1>9, <2>2, <2>5 DEF ReviewInv
    <1> QED
        BY <1>1, <1>8, <1>9 DEF ReviewCall

\* A saving that went well leaves the screen: its note is on the card.
LEMMA ReviewAnswerStep ==
    ASSUME ReviewInv, NEW g \in page.volo, V!AnswerSalva(g)
    PROVE  ReviewInv'
    <1> DEFINE salvate == page.salvate \cup ({g.nota} \ {V!NessunaNota})
               p == [page EXCEPT !.volo = {}, !.salvate = salvate]
               solo == page.solo /\ ~V!Andata({})
    <1>1. ReviewPage(page) /\ server' = server /\ g.stato = "fatta" /\ page' = V!Via(p)
        BY DEF ReviewInv, V!AnswerSalva
    <1>2. p.volo = {} /\ p.solo = page.solo
        BY <1>1 DEF ReviewPage
    <1>3. page' = [p EXCEPT !.schermo = V!Fresca, !.volo = {}, !.solo = solo]
        BY <1>1, <1>2 DEF V!Via
    <1>4. solo \in BOOLEAN /\ (solo => page.solo)
        OBVIOUS
    <1> HIDE DEF solo, salvate
    <1>8. page' = [page EXCEPT !.schermo = V!Fresca, !.volo = {}, !.salvate = salvate,
                               !.solo = solo]
        BY <1>1, <1>3 DEF ReviewPage
    <1> HIDE DEF p
    <1>5. /\ ReviewPage(page') /\ page'.schermo = V!Fresca /\ page'.volo = {}
          /\ page'.racconto = page.racconto /\ page'.salvate = salvate /\ page'.solo = solo
        <2> DEFINE fresca == V!Fresca
        <2>1. page' = [page EXCEPT !.schermo = fresca, !.volo = {}, !.salvate = salvate,
                                   !.solo = solo]
            BY <1>8
        <2>2. fresca = [dati |-> fresca.dati, note |-> fresca.note, attesa |-> fresca.attesa]
            BY FreshScreen
        <2> HIDE DEF fresca
        <2>3. /\ ReviewPage(page') /\ page'.schermo = fresca /\ page'.volo = {}
              /\ page'.racconto = page.racconto /\ page'.salvate = salvate /\ page'.solo = solo
            BY <1>1, <2>1, <2>2 DEF ReviewPage
        <2> QED
            BY <2>3 DEF fresca
    <1>6. page'.solo => page.solo
        BY <1>4, <1>5
    <1>7. ASSUME NEW w, page'.solo, List(w), server.steps = V!Rows(w)
          PROVE  \A x \in page'.salvate : \E i \in DOMAIN w : w[i] = x
        <2>1. Faithful(page, w)
            BY <1>6, <1>7 DEF ReviewInv, AloneInReview
        <2>2. g.nota # V!NessunaNota => \E i \in DOMAIN w : w[i] = g.nota
            BY <1>1, <1>6, <1>7 DEF ReviewInv, AloneInReview
        <2> QED
            BY <1>5, <2>1, <2>2 DEF Faithful, salvate
    <1> QED
        BY <1>1, <1>5, <1>6, <1>7, ReviewLeaves

\* A saving that failed: the page may try it again on the same reading.
LEMMA ReviewFailStep ==
    ASSUME ReviewInv, NEW g \in page.volo, V!FailSalva(g)
    PROVE  ReviewInv'
    <1>1. ReviewPage(page) /\ server' = server
        BY DEF ReviewInv, V!FailSalva
    <1>2. PICK rifiutata \in BOOLEAN :
            page' = [page EXCEPT !.volo = {}, !.schermo.attesa = FALSE,
                                 !.solo = @ /\ (g.stato = "fatta" \/ rifiutata)]
        BY DEF V!FailSalva
    <1> DEFINE solo == page.solo /\ (g.stato = "fatta" \/ rifiutata)
               no == FALSE
    <1>3. page' = [page EXCEPT !.volo = {}, !.schermo.attesa = no, !.solo = solo]
        BY <1>2
    <1>4. solo \in BOOLEAN /\ (solo => page.solo)
        OBVIOUS
    <1> HIDE DEF solo, no
    <1>5. /\ ReviewPage(page') /\ Lettura' = Lettura /\ page'.schermo.note = page.schermo.note
          /\ page'.volo = {} /\ page'.salvate = page.salvate
          /\ page'.racconto = page.racconto /\ page'.solo = solo
        BY <1>1, <1>3 DEF ReviewPage, Lettura
    <1>6. page'.solo => page.solo
        BY <1>4, <1>5
    <1>7. \A v : Faithful(page, v) => Faithful(page', v)
        BY <1>5, FaithfulStays
    <1>8. AloneInReview'
        BY <1>1, <1>5, <1>6, <1>7 DEF ReviewInv, AloneInReview
    <1> QED
        BY <1>1, <1>5, <1>8 DEF ReviewInv

LEMMA ReviewStep ==
    ASSUME ReviewInv, V!Next
    PROVE  ReviewInv'
    <1>1. server' = server /\ page' = V!Via(page) => ReviewInv'
        BY ReviewGoes
    <1> QED
        BY <1>1, ReviewElsewhereStep, ReviewReadStep, ReviewWriteStep, ReviewSendStep,
           ReviewHandleStep, ReviewAnswerStep, ReviewFailStep
           DEF V!Next, V!VaBeneCosi, V!Indietro

LEMMA ReviewSafe == ScreensSpec => [](route = "revisione" => ReviewInv)
    <1>1. Init => (route = "revisione" => ReviewInv)
        BY ReviewInit DEF Init
    <1>2. (route = "revisione" => ReviewInv) /\ [Next]_screensVars
              => (route = "revisione" => ReviewInv)'
        <2> SUFFICES ASSUME route = "revisione", ReviewInv, [Next]_screensVars
                     PROVE  ReviewInv'
            BY RouteStays
        <2>1. CASE V!Next
            BY <2>1, ReviewStep
        <2>2. CASE UNCHANGED <<server, page>>
            BY <2>2 DEF ReviewInv, AloneInReview, Lettura
        <2> QED
            BY <2>1, <2>2
            DEF Next, screensVars, Cestino, Lista, Elenco, Conto, Scheda, Revisione, Cerca, Redazione
    <1> QED
        BY <1>1, <1>2, PTL DEF ScreensSpec

\* A list begins as it is, up to any of its places.
LEMMA Beginning ==
    ASSUME NEW w, List(w), NEW n \in Nat, \A m \in 1..n : m \in DOMAIN w
    PROVE  SubSeq(w, 1, n) = [m \in 1..n |-> w[m]]
    <1>1. PICK k \in Nat : DOMAIN w = 1..k /\ w = [i \in 1..k |-> w[i]]
        BY DEF List
    <1> DEFINE X == {w[i] : i \in 1..k}
    <1>2. w \in Seq(X) /\ Len(w) = k
        BY <1>1
    <1>3. n <= k
        BY <1>1
    <1> QED
        BY <1>2, <1>3

\* Whoever is alone finds the story, in its order, and what was saved.
LEMMA FaithfulTells ==
    ASSUME ReviewInv, NEW w, List(w), Faithful(page, w), server.steps = V!Rows(w)
    PROVE  V!StoryThenNotes
    <1> DEFINE passi == page.racconto
               story == V!NormalizeSteps(passi)
    <1>1. V!Azioni(server.steps) = w
        BY RowsAreInOrder
    <1>2. /\ passi \in Seq([ordine : Int, azione : STRING])
          /\ \A i, j \in DOMAIN passi : passi[i].azione = passi[j].azione => i = j
        BY RaccontiAssumption DEF ReviewInv
    <1>3. Len(passi) \in Nat /\ DOMAIN passi = 1..Len(passi)
        BY <1>2
    <1>4. /\ \A i \in DOMAIN passi :
                 /\ V!Place(passi, i) \in DOMAIN passi
                 /\ story[V!Place(passi, i)]
                        = [ordine |-> V!Place(passi, i), azione |-> passi[i].azione]
          /\ \A m \in DOMAIN passi : \E i \in DOMAIN passi : V!Place(passi, i) = m
          /\ \A i, j \in DOMAIN passi :
                 passi[i].ordine < passi[j].ordine => V!Place(passi, i) < V!Place(passi, j)
        BY <1>2, NumbersKeepTheOrder
    <1> HIDE DEF story
    <1>5. \A m \in DOMAIN passi : m \in DOMAIN w /\ w[m] = story[m].azione
        BY DEF Faithful, Storia, story
    <1>6. \A i \in DOMAIN passi : w[V!Place(passi, i)] = passi[i].azione
        <2> SUFFICES ASSUME NEW i \in DOMAIN passi
                     PROVE  w[V!Place(passi, i)] = passi[i].azione
            OBVIOUS
        <2> DEFINE m == V!Place(passi, i)
        <2>1. m \in DOMAIN passi /\ story[m] = [ordine |-> m, azione |-> passi[i].azione]
            BY <1>4
        <2> HIDE DEF m
        <2>2. w[m] = passi[i].azione
            BY <1>5, <2>1
        <2> QED
            BY <2>2 DEF m
    <1>7. V!Range(SubSeq(w, 1, Len(passi))) = {passi[i].azione : i \in DOMAIN passi}
        <2>1. SubSeq(w, 1, Len(passi)) = [m \in 1..Len(passi) |-> w[m]]
            BY <1>3, <1>5, Beginning
        <2>2. V!Range(SubSeq(w, 1, Len(passi))) = {w[m] : m \in DOMAIN passi}
            BY <1>3, <2>1 DEF V!Range
        <2> DEFINE scritti == {w[m] : m \in DOMAIN passi}
                   detti == {passi[i].azione : i \in DOMAIN passi}
        <2>3. \A i \in DOMAIN passi : passi[i].azione \in scritti
            BY <1>4, <1>6
        <2>4. \A m \in DOMAIN passi : w[m] \in detti
            BY <1>4, <1>6
        <2>5. detti \subseteq scritti
            BY <2>3
        <2>6. scritti \subseteq detti
            BY <2>4
        <2> HIDE DEF scritti, detti
        <2>7. scritti = detti
            BY <2>5, <2>6
        <2> QED
            BY <2>2, <2>7 DEF scritti, detti
    <1>8. ASSUME NEW i \in DOMAIN passi, NEW j \in DOMAIN passi, NEW m \in DOMAIN w, NEW n \in DOMAIN w,
                 w[m] = passi[i].azione, w[n] = passi[j].azione, passi[i].ordine < passi[j].ordine
          PROVE  m < n
        <2>1. \A h, k \in DOMAIN w : w[h] = w[k] => h = k
            BY DEF Faithful
        <2>2. V!Place(passi, i) \in DOMAIN w /\ V!Place(passi, j) \in DOMAIN w
            BY <1>4, <1>5
        <2>3. m = V!Place(passi, i)
            BY <1>6, <1>8, <2>1, <2>2
        <2>4. n = V!Place(passi, j)
            BY <1>6, <1>8, <2>1, <2>2
        <2> QED
            BY <1>4, <1>8, <2>3, <2>4
    <1>9. page.salvate \subseteq V!Range(w)
        BY DEF Faithful, V!Range
    <1>10. \A i, j \in DOMAIN w : w[i] = w[j] => i = j
        BY DEF Faithful
    <1> QED
        BY <1>1, <1>7, <1>8, <1>9, <1>10 DEF V!StoryThenNotes

(* ReviewScreen: the card's steps are numbered from one, each number once,  *)
(* whoever writes it; and whoever reviews a card alone finds the steps of   *)
(* the story in the order of its numbers, then every note that was saved,   *)
(* once, however often a saving failed and was tried again on the steps     *)
(* that were read (ReviewScreen.tsx's salva, cards' replaceSteps).          *)
THEOREM TheReviewLosesNoStep == ScreensSpec => []LoneHandLosesNoStep
    <1>1. ASSUME ReviewInv
          PROVE  V!LoneHandLosesNoStep
        <2>1. PICK w : List(w) /\ server.steps = V!Rows(w)
            BY <1>1 DEF ReviewInv
        <2>2. V!StepsAreNumbered
            BY <2>1, RowsAreInOrder, SameCount DEF V!StepsAreNumbered
        <2>3. page.solo => V!StoryThenNotes
            <3> SUFFICES ASSUME page.solo
                         PROVE  V!StoryThenNotes
                OBVIOUS
            <3>1. Faithful(page, w)
                BY <1>1, <2>1 DEF ReviewInv, AloneInReview
            <3> QED
                BY <1>1, <2>1, <3>1, FaithfulTells
        <2> QED
            BY <2>2, <2>3 DEF V!LoneHandLosesNoStep
    <1>2. (route = "revisione" => ReviewInv) => LoneHandLosesNoStep
        BY <1>1 DEF LoneHandLosesNoStep
    <1> QED
        BY <1>2, ReviewSafe, PTL

------------------------------------------------------------------------------
(* ListScreen: leafing through the pages. *)

\* The offsets of pages of p.
Multiples(p) == {k * p : k \in Nat}

LEMMA MultiplesApart ==
    ASSUME NEW p \in Nat \ {0}, NEW a \in Multiples(p), NEW b \in Multiples(p), a < b
    PROVE  a + p <= b
    <1>1. PICK k \in Nat : a = k * p
        BY DEF Multiples
    <1>2. PICK j \in Nat : b = j * p
        BY DEF Multiples
    <1>3. k < j
        BY <1>1, <1>2
    <1>4. (k + 1) * p <= j * p
        BY <1>3
    <1>5. (k + 1) * p = k * p + p
        OBVIOUS
    <1> QED
        BY <1>1, <1>2, <1>4, <1>5

LEMMA MultiplesFollow ==
    ASSUME NEW p \in Nat \ {0}, NEW a \in Multiples(p)
    PROVE  /\ a \in Nat /\ a % p = 0 /\ a + p \in Multiples(p) /\ 0 \in Multiples(p)
           /\ a # 0 => a >= p /\ a - p \in Multiples(p)
    <1>1. PICK k \in Nat : a = k * p
        BY DEF Multiples
    <1>2. a \in Nat /\ 0 = 0 * p
        BY <1>1
    <1>3. a + p = (k + 1) * p /\ k + 1 \in Nat
        BY <1>1
    <1>4. a # 0 => k - 1 \in Nat
        BY <1>1
    <1>5. a - p = (k - 1) * p
        BY <1>1
    <1>6. 0 \in Multiples(p) /\ a + p \in Multiples(p)
        BY <1>2, <1>3 DEF Multiples
    <1>7. a # 0 => a - p \in Multiples(p)
        BY <1>4, <1>5 DEF Multiples
    <1>8. a # 0 => a >= p
        <2> SUFFICES ASSUME a # 0
                     PROVE  a >= p
            OBVIOUS
        <2>1. 0 < a
            BY <1>2
        <2> QED
            BY <1>2, <1>6, <2>1, MultiplesApart
    <1>9. a % p = 0
        <2>1. (k * p) % p = 0
            OBVIOUS
        <2> QED
            BY <1>1, <2>1
    <1> QED
        BY <1>2, <1>6, <1>7, <1>8, <1>9

LEMMA EveryPlaceHasAMultiple ==
    ASSUME NEW p \in Nat \ {0}, NEW n \in Nat
    PROVE  \E a \in Multiples(p) : a <= n /\ n < a + p
    <1> DEFINE k == n \div p
    <1>1. k \in Nat /\ k * p <= n /\ n < k * p + p
        OBVIOUS
    <1> QED
        BY <1>1 DEF Multiples

\* The offsets of the pages.
Offsets == Multiples(PageSize)

LEMMA PagesApart ==
    ASSUME NEW a \in Offsets, NEW b \in Offsets, a < b
    PROVE  a + PageSize <= b
    BY PagesAssumption, MultiplesApart DEF Offsets

LEMMA PagesFollow ==
    ASSUME NEW a \in Offsets
    PROVE  /\ a \in Nat /\ a + PageSize \in Offsets /\ 0 \in Offsets
           /\ a # 0 => a >= PageSize /\ a - PageSize \in Offsets
    BY PagesAssumption, MultiplesFollow DEF Offsets

LEMMA EveryPlaceHasAPage ==
    ASSUME NEW p \in Nat
    PROVE  \E a \in Offsets : a <= p /\ p < a + PageSize
    BY PagesAssumption, EveryPlaceHasAMultiple DEF Offsets

------------------------------------------------------------------------------
\* The cards of a question, and how many of them come before each.
Rows(q) == {i \in DOMAIN Archivio : L!Where(Archivio[i], q)}
Posto(i, q) == Cardinality({j \in Rows(q) : j < i})

\* What somebody has met who leafed through the first n cards of a question.
Met(q, n) ==
    {x \in [offset : Offsets, card : {Archivio[i] : i \in DOMAIN Archivio}] :
        \E i \in Rows(q) : /\ x.card = Archivio[i] /\ Posto(i, q) < n
                           /\ x.offset <= Posto(i, q) /\ Posto(i, q) < x.offset + PageSize}

Sheet(q) ==
    [items |-> {Archivio[i] : i \in {i \in Rows(q) : q.offset <= Posto(i, q)
                                                /\ Posto(i, q) < q.offset + PageSize}},
     total |-> Cardinality(Rows(q)), offset |-> q.offset]

Labels(ambito) ==
    LET cards(t) == {c \in {Archivio[i] : i \in DOMAIN Archivio} :
                        L!Where(c, [ambito |-> ambito, categoria |-> t])}
    IN [t \in {t \in Tags : cards(t) # {}} |-> Cardinality(cards(t))]

Question(q) ==
    /\ q = [ambito |-> q.ambito, categoria |-> q.categoria, offset |-> q.offset]
    /\ q.offset \in Offsets

LEMMA SameCountList == \A X : L!Cardinality(X) = Cardinality(X)
    BY DEF L!Cardinality, Cardinality, L!IsFiniteSet, IsFiniteSet

LEMMA RowsAreFew ==
    ASSUME NEW q
    PROVE  /\ IsFiniteSet(Rows(q)) /\ Rows(q) \subseteq Nat
           /\ \A i, j \in Rows(q) : Archivio[i] = Archivio[j] => i = j
    <1>1. Len(Archivio) \in Nat /\ DOMAIN Archivio = 1..Len(Archivio)
        BY ArchivioAssumption
    <1>2. IsFiniteSet(DOMAIN Archivio)
        BY <1>1, FS_Interval
    <1>3. IsFiniteSet(Rows(q))
        BY <1>2, FS_Subset DEF Rows
    <1>4. \A i, j \in Rows(q) : Archivio[i] = Archivio[j] => i = j
        BY ArchivioAssumption DEF Rows
    <1> QED
        BY <1>1, <1>3, <1>4 DEF Rows

LEMMA PlacesAreTold ==
    ASSUME NEW q
    PROVE  /\ \A i \in Rows(q) : Posto(i, q) \in Nat /\ Posto(i, q) < Cardinality(Rows(q))
           /\ \A i, j \in Rows(q) : Posto(i, q) = Posto(j, q) => i = j
    <1> DEFINE before(i) == {j \in Rows(q) : j < i}
    <1>1. IsFiniteSet(Rows(q)) /\ Rows(q) \subseteq Nat
        BY RowsAreFew
    <1>2. \A i \in Rows(q) : before(i) \in SUBSET Rows(q) /\ i \notin before(i)
        BY <1>1
    <1>3. \A i, j \in Rows(q) : i < j => before(i) \in SUBSET before(j) /\ i \in before(j)
        BY <1>1
    <1>4. \A i \in Rows(q) : Posto(i, q) = Cardinality(before(i))
        BY DEF Posto
    <1> HIDE DEF before
    <1>5. \A i \in Rows(q) : IsFiniteSet(before(i))
        BY <1>1, <1>2, FS_Subset
    <1>6. \A i \in Rows(q) : Posto(i, q) \in Nat /\ Posto(i, q) < Cardinality(Rows(q))
        BY <1>1, <1>2, <1>4, <1>5, FS_CardinalityType, MoreBefore
    <1>7. \A i, j \in Rows(q) : i < j => Posto(i, q) < Posto(j, q)
        BY <1>2, <1>3, <1>4, <1>5, MoreBefore
    <1>8. \A i, j \in Rows(q) : Posto(i, q) = Posto(j, q) => i = j
        <2> SUFFICES ASSUME NEW i \in Rows(q), NEW j \in Rows(q), Posto(i, q) = Posto(j, q)
                     PROVE  i = j
            OBVIOUS
        <2>1. i \in Nat /\ j \in Nat
            BY <1>1
        <2> QED
            BY <1>6, <1>7, <2>1
    <1> QED
        BY <1>6, <1>8

\* The server, as long as nobody changes a card.
LEMMA SheetIsServed ==
    ASSUME server = Archivio, NEW q, q.offset \in Nat
    PROVE  L!ListProcedures(q) = Sheet(q)
    <1> DEFINE righe == {i \in DOMAIN server : L!Where(server[i], q)}
               place(i) == L!Cardinality({j \in righe : j < i})
               window == {i \in righe : place(i) \in q.offset..(q.offset + PageSize - 1)}
    <1>1. righe = Rows(q)
        BY DEF Rows
    <1> HIDE DEF righe
    <1>2. \A i \in Rows(q) : place(i) = Posto(i, q)
        BY <1>1, SameCountList DEF Posto
    <1> HIDE DEF place
    <1>3. window = {i \in Rows(q) : q.offset <= Posto(i, q) /\ Posto(i, q) < q.offset + PageSize}
        <2>1. ASSUME NEW i \in Rows(q)
              PROVE  place(i) \in q.offset..(q.offset + PageSize - 1)
                        <=> q.offset <= Posto(i, q) /\ Posto(i, q) < q.offset + PageSize
            <3>1. Posto(i, q) \in Nat
                BY PlacesAreTold
            <3> QED
                BY <1>2, <3>1, PagesAssumption
        <2> QED
            BY <1>1, <2>1
    <1>4. L!ListProcedures(q) = [items |-> {server[i] : i \in window},
                                 total |-> L!Cardinality(righe), offset |-> q.offset]
        BY DEF L!ListProcedures, righe, place
    <1> HIDE DEF window
    <1>5. L!ListProcedures(q) = [items |-> {Archivio[i] : i \in window},
                                 total |-> Cardinality(Rows(q)), offset |-> q.offset]
        BY <1>1, <1>4, SameCountList
    <1> QED
        BY <1>3, <1>5 DEF Sheet

LEMMA LabelsAreServed ==
    ASSUME server = Archivio, NEW ambito
    PROVE  L!ListTags(ambito) = Labels(ambito)
    BY SameCountList DEF L!ListTags, Labels, L!Range

\* The page that is asked for is what leafing one page further meets.
LEMMA OnePageMore ==
    ASSUME NEW q, Question(q)
    PROVE  /\ Met(q, q.offset + PageSize)
                  = Met(q, q.offset) \cup [offset : {q.offset}, card : Sheet(q).items]
           /\ {x \in Met(q, q.offset + PageSize) : x.offset < q.offset} = Met(q, q.offset)
           /\ {x \in Met(q, q.offset + PageSize) : x.offset < q.offset + PageSize}
                  = Met(q, q.offset + PageSize)
    <1> DEFINE o == q.offset
               P == PageSize
               Cs == {Archivio[i] : i \in DOMAIN Archivio}
               at(x, i) == /\ i \in Rows(q) /\ x.card = Archivio[i]
                           /\ x.offset <= Posto(i, q) /\ Posto(i, q) < x.offset + P
               all == [offset : Offsets, card : Cs]
    <1>1. P \in Nat \ {0} /\ o \in Offsets /\ o \in Nat
        BY PagesAssumption, PagesFollow DEF Question
    <1>2. \A n : Met(q, n) = {x \in all : \E i : at(x, i) /\ Posto(i, q) < n}
        BY DEF Met
    <1>3. \A i \in Rows(q) : Posto(i, q) \in Nat /\ Archivio[i] \in Cs
        BY PlacesAreTold DEF Rows
    <1>4. \A x \in all : x.offset \in Offsets /\ x.offset \in Nat /\ x.card \in Cs
        BY PagesFollow
    <1>5. \A x : \A i : at(x, i) => i \in Rows(q)
        OBVIOUS
    <1>6. \A x \in all : \A i : at(x, i) => 
                /\ (Posto(i, q) < o <=> x.offset < o)
                /\ (Posto(i, q) < o + P /\ ~(x.offset < o) <=> x.offset = o)
                /\ Posto(i, q) < o + P => x.offset < o + P
        <2> SUFFICES ASSUME NEW x \in all, NEW i, at(x, i)
                     PROVE  /\ (Posto(i, q) < o <=> x.offset < o)
                            /\ (Posto(i, q) < o + P /\ ~(x.offset < o) <=> x.offset = o)
                            /\ Posto(i, q) < o + P => x.offset < o + P
            OBVIOUS
        <2> DEFINE a == x.offset
                   n == Posto(i, q)
        <2>1. a \in Offsets /\ a \in Nat /\ n \in Nat /\ a <= n /\ n < a + P
            BY <1>3, <1>4
        <2>2. (a < o => a + P <= o) /\ (o < a => o + P <= a)
            BY <1>1, <2>1, PagesApart
        <2> HIDE DEF a, n, o, P
        <2>3. /\ (n < o <=> a < o) /\ (n < o + P /\ ~(a < o) <=> a = o)
              /\ n < o + P => a < o + P
            BY <1>1, <2>1, <2>2
        <2> QED
            BY <2>3 DEF a, n
    <1>7. Sheet(q).items = {Archivio[i] : i \in {i \in Rows(q) : o <= Posto(i, q) /\ Posto(i, q) < o + P}}
        BY DEF Sheet
    <1>8. \A x : x \in [offset : {o}, card : Sheet(q).items]
                    <=> x \in all /\ x.offset = o /\ \E i : at(x, i)
        BY <1>1, <1>3, <1>7
    <1> HIDE DEF at, all, o, P, Cs
    <1>9. Met(q, o + P) = Met(q, o) \cup [offset : {o}, card : Sheet(q).items]
        <2>1. \A x \in all : (\E i : at(x, i) /\ Posto(i, q) < o + P)
                                <=> \/ \E i : at(x, i) /\ Posto(i, q) < o
                                    \/ x.offset = o /\ \E i : at(x, i)
            <3> SUFFICES ASSUME NEW x \in all
                         PROVE  (\E i : at(x, i) /\ Posto(i, q) < o + P)
                                    <=> \/ \E i : at(x, i) /\ Posto(i, q) < o
                                        \/ x.offset = o /\ \E i : at(x, i)
                OBVIOUS
            <3>1. ASSUME NEW i, at(x, i)
                  PROVE  Posto(i, q) < o + P <=> Posto(i, q) < o \/ x.offset = o
                <4>1. Posto(i, q) \in Nat
                    BY <1>3, <1>5, <3>1
                <4>2. Posto(i, q) < o => Posto(i, q) < o + P
                    BY <1>1, <4>1
                <4> QED
                    BY <1>6, <3>1, <4>2
            <3> QED
                BY <3>1, Zenon
        <2> QED
            BY <1>2, <1>8, <2>1
    <1>10. {x \in Met(q, o + P) : x.offset < o} = Met(q, o)
        <2>1. \A x \in all : (\E i : at(x, i) /\ Posto(i, q) < o + P) /\ x.offset < o
                                <=> \E i : at(x, i) /\ Posto(i, q) < o
            <3> SUFFICES ASSUME NEW x \in all
                         PROVE  (\E i : at(x, i) /\ Posto(i, q) < o + P) /\ x.offset < o
                                    <=> \E i : at(x, i) /\ Posto(i, q) < o
                OBVIOUS
            <3>1. ASSUME NEW i, at(x, i)
                  PROVE  Posto(i, q) < o + P /\ x.offset < o <=> Posto(i, q) < o
                <4>1. Posto(i, q) \in Nat
                    BY <1>3, <1>5, <3>1
                <4>2. Posto(i, q) < o => Posto(i, q) < o + P
                    BY <1>1, <4>1
                <4> QED
                    BY <1>6, <3>1, <4>2
            <3> QED
                BY <3>1, Zenon
        <2> QED
            BY <1>2, <2>1
    <1>11. {x \in Met(q, o + P) : x.offset < o + P} = Met(q, o + P)
        <2>1. \A x \in all : (\E i : at(x, i) /\ Posto(i, q) < o + P) => x.offset < o + P
            BY <1>6
        <2> QED
            BY <1>2, <2>1
    <1> QED
        BY <1>9, <1>10, <1>11 DEF o, P

\* Back to the page before, what was met of this one and of that is as if never met.
LEMMA OnePageLess ==
    ASSUME NEW q, Question(q), q.offset # 0
    PROVE  {x \in Met(q, q.offset + PageSize) : x.offset < q.offset - PageSize}
               = Met(q, q.offset - PageSize)
    <1> DEFINE p == [q EXCEPT !.offset = q.offset - PageSize]
    <1>1. /\ q.offset \in Nat /\ PageSize \in Nat \ {0} /\ q.offset >= PageSize
          /\ q.offset - PageSize \in Offsets
        BY PagesAssumption, PagesFollow DEF Question
    <1>2. /\ p.offset = q.offset - PageSize /\ p.ambito = q.ambito /\ p.categoria = q.categoria
          /\ Question(p)
        BY <1>1 DEF Question
    <1> HIDE DEF p
    <1>3. \A n : Met(p, n) = Met(q, n)
        <2>1. Rows(p) = Rows(q)
            BY <1>2 DEF Rows, L!Where
        <2> QED
            BY <2>1 DEF Met, Posto
    <1>4. p.offset + PageSize = q.offset
        BY <1>1, <1>2
    <1>5. /\ {x \in Met(q, q.offset + PageSize) : x.offset < q.offset} = Met(q, q.offset)
          /\ {x \in Met(q, q.offset) : x.offset < p.offset} = Met(q, p.offset)
        BY <1>2, <1>3, <1>4, OnePageMore
    <1>6. \A x \in Met(q, q.offset + PageSize) : x.offset \in Nat
        BY PagesFollow DEF Met
    <1>7. \A x \in Met(q, q.offset + PageSize) : x.offset < p.offset => x.offset < q.offset
        BY <1>1, <1>2, <1>6
    <1> QED
        BY <1>2, <1>5, <1>7

LEMMA SameMet ==
    ASSUME NEW p, NEW q, p.ambito = q.ambito, p.categoria = q.categoria
    PROVE  Rows(p) = Rows(q) /\ \A n : Met(p, n) = Met(q, n)
    <1>1. Rows(p) = Rows(q)
        BY DEF Rows, L!Where
    <1> QED
        BY <1>1 DEF Met, Posto

\* A page that says there is nothing after it is the last one.
LEMMA LastPage ==
    ASSUME NEW q, Question(q), q.offset + Cardinality(Sheet(q).items) >= Sheet(q).total
    PROVE  \A i \in Rows(q) : Posto(i, q) < q.offset + PageSize
    <1> DEFINE o == q.offset
               window == {i \in Rows(q) : o <= Posto(i, q) /\ Posto(i, q) < o + PageSize}
               item == [i \in window |-> Archivio[i]]
               posto == [i \in window |-> Posto(i, q)]
    <1>1. o \in Nat /\ PageSize \in Nat \ {0}
        BY PagesAssumption, PagesFollow DEF Question
    <1>2. IsFiniteSet(window)
        BY RowsAreFew, FS_Subset
    <1>3. \A i \in window : posto[i] \in o..(o + PageSize - 1)
        <2> SUFFICES ASSUME NEW i \in window
                     PROVE  Posto(i, q) \in o..(o + PageSize - 1)
            OBVIOUS
        <2>1. Posto(i, q) \in Nat /\ o <= Posto(i, q) /\ Posto(i, q) < o + PageSize
            BY PlacesAreTold
        <2> QED
            BY <1>1, <2>1
    <1>4. posto \in Injection(window, o..(o + PageSize - 1))
        BY <1>3, PlacesAreTold DEF Injection, IsInjective
    <1>5. IsFiniteSet(o..(o + PageSize - 1)) /\ Cardinality(o..(o + PageSize - 1)) = PageSize
        <2> DEFINE e == o + PageSize - 1
        <2>1. e \in Int /\ o \in Int /\ ~(o > e) /\ e - o + 1 = PageSize
            BY <1>1
        <2> HIDE DEF e, o
        <2>2. IsFiniteSet(o..e) /\ Cardinality(o..e) = e - o + 1
            BY <2>1, FS_Interval
        <2>3. IsFiniteSet(o..e) /\ Cardinality(o..e) = PageSize
            BY <2>1, <2>2
        <2> QED
            BY <2>3 DEF e
    <1>6. Cardinality(window) <= PageSize
        BY <1>4, <1>5, FS_Injection
    <1>7. Sheet(q).items = {Archivio[i] : i \in window} /\ Sheet(q).total = Cardinality(Rows(q))
        BY DEF Sheet
    <1>8. item \in Bijection(window, {Archivio[i] : i \in window})
        BY RowsAreFew DEF Bijection, Injection, Surjection, IsInjective
    <1> HIDE DEF window, item, posto, o
    <1>9. Cardinality({Archivio[i] : i \in window}) = Cardinality(window)
        BY <1>2, <1>8, FS_Bijection DEF ExistsBijection
    <1>10. Cardinality(window) \in Nat /\ Cardinality(Rows(q)) \in Nat
        BY <1>2, RowsAreFew, FS_CardinalityType
    <1>11. Cardinality(Rows(q)) <= o + PageSize
        BY <1>1, <1>6, <1>7, <1>9, <1>10 DEF o
    <1> QED
        <2> SUFFICES ASSUME NEW i \in Rows(q)
                     PROVE  Posto(i, q) < o + PageSize
            BY DEF o
        <2>1. Posto(i, q) \in Nat /\ Posto(i, q) < Cardinality(Rows(q))
            BY PlacesAreTold
        <2> QED
            BY <1>1, <1>10, <1>11, <2>1

\* Whoever has met them all has met each on one page.
LEMMA AllAreMet ==
    ASSUME NEW q, NEW n \in Nat, \A i \in Rows(q) : Posto(i, q) < n
    PROVE  /\ \A x, y \in Met(q, n) : x.card = y.card => x = y
           /\ {x.card : x \in Met(q, n)} = {c \in {Archivio[i] : i \in DOMAIN Archivio} : L!Where(c, q)}
           /\ Cardinality(Met(q, n))
                  = Cardinality({c \in {Archivio[i] : i \in DOMAIN Archivio} : L!Where(c, q)})
    <1> DEFINE met == Met(q, n)
               cards == {c \in {Archivio[i] : i \in DOMAIN Archivio} : L!Where(c, q)}
               f == [c \in cards |-> CHOOSE x \in met : x.card = c]
    <1>1. cards = {Archivio[i] : i \in Rows(q)}
        BY DEF Rows
    <1>2. ASSUME NEW x \in met, NEW y \in met, x.card = y.card
          PROVE  x = y
        <2>1. PICK i \in Rows(q) : /\ x.card = Archivio[i] /\ x.offset <= Posto(i, q)
                                   /\ Posto(i, q) < x.offset + PageSize
            BY DEF Met
        <2>2. PICK j \in Rows(q) : /\ y.card = Archivio[j] /\ y.offset <= Posto(j, q)
                                   /\ Posto(j, q) < y.offset + PageSize
            BY DEF Met
        <2>3. i = j
            BY <1>2, <2>1, <2>2, RowsAreFew
        <2>4. x.offset \in Offsets /\ y.offset \in Offsets
            BY DEF Met
        <2>5. x.offset \in Nat /\ y.offset \in Nat /\ Posto(i, q) \in Nat /\ PageSize \in Nat
            BY <2>4, PagesFollow, PlacesAreTold, PagesAssumption
        <2>6. ~(x.offset < y.offset) /\ ~(y.offset < x.offset)
            <3>1. x.offset < y.offset => x.offset + PageSize <= y.offset
                BY <2>4, PagesApart
            <3>2. y.offset < x.offset => y.offset + PageSize <= x.offset
                BY <2>4, PagesApart
            <3> QED
                BY <2>1, <2>2, <2>3, <2>5, <3>1, <3>2
        <2>7. x.offset = y.offset
            BY <2>5, <2>6
        <2>8. x = [offset |-> x.offset, card |-> x.card] /\ y = [offset |-> y.offset, card |-> y.card]
            BY DEF Met
        <2> QED
            BY <1>2, <2>7, <2>8
    <1>3. ASSUME NEW i \in Rows(q)
          PROVE  \E x \in met : x.card = Archivio[i]
        <2>1. Posto(i, q) \in Nat /\ Posto(i, q) < n
            BY PlacesAreTold
        <2>2. PICK a \in Offsets : a <= Posto(i, q) /\ Posto(i, q) < a + PageSize
            BY <2>1, EveryPlaceHasAPage
        <2>3. [offset |-> a, card |-> Archivio[i]] \in met
            BY <2>1, <2>2 DEF Met, Rows
        <2> QED
            BY <2>3
    <1>4. \A x \in met : x.card \in cards
        BY <1>1 DEF Met
    <1>5. {x.card : x \in met} = cards
        BY <1>1, <1>3, <1>4
    <1>6. f \in Bijection(cards, met)
        <2> HIDE DEF met, cards
        <2>1. \A c \in cards : \E x \in met : x.card = c
            BY <1>5
        <2>2. \A c \in cards : f[c] \in met /\ f[c].card = c
            BY <2>1
        <2>3. \A x \in met : x.card \in cards /\ f[x.card] = x
            BY <1>2, <1>4, <2>2
        <2>4. f \in [cards -> met]
            BY <2>2
        <2> HIDE DEF f
        <2> QED
            BY <2>2, <2>3, <2>4 DEF Bijection, Injection, Surjection, IsInjective
    <1>7. IsFiniteSet(cards)
        <2> DEFINE g == [i \in Rows(q) |-> Archivio[i]]
        <2>1. g \in Surjection(Rows(q), cards)
            BY <1>1 DEF Surjection
        <2> QED
            BY <2>1, RowsAreFew, FS_Surjection
    <1> HIDE DEF met, cards, f
    <1>8. Cardinality(met) = Cardinality(cards)
        BY <1>6, <1>7, FS_Bijection DEF ExistsBijection
    <1> QED
        BY <1>2, <1>5, <1>8 DEF met, cards

------------------------------------------------------------------------------
\* The pages leafed through, while nobody changes a card: what is met up to a page is
\* what there is up to it.
ByPages(p) ==
    /\ Question(p.domanda)
    /\ \A a \in p.lista.reads : a.dato # NoDato => a.dato = Sheet(a.question)
    /\ \A x \in p.letti : x.offset \in Nat
    /\ {x \in p.letti : x.offset < p.domanda.offset} = Met(p.domanda, p.domanda.offset)
    /\ p.lista.kind = "pronto" =>
           /\ p.lista.dato = Sheet(p.domanda)
           /\ p.letti = Met(p.domanda, p.domanda.offset + PageSize)

\* The chips: of the scope that is chosen, and the category that is chosen was one.
ByLabels(p) ==
    /\ IsHook(p.tag) /\ Tidy(p.tag) /\ p.tag.question = p.domanda.ambito
    /\ \A a \in p.tag.reads : a.dato # NoDato => a.dato = Labels(a.question)
    /\ p.tag.kind = "pronto" => p.tag.dato = Labels(p.tag.question)
    /\ p.domanda.categoria # L!Tutte => p.domanda.categoria \in DOMAIN Labels(p.domanda.ambito)

LeafInv ==
    /\ page.cambi \in Nat
    /\ page.cambi = 0 => server = Archivio /\ ByPages(page) /\ ByLabels(page)

LEMMA NoneMet ==
    ASSUME NEW q
    PROVE  Met(q, 0) = {}
    <1>1. \A i \in Rows(q) : Posto(i, q) \in Nat
        BY PlacesAreTold
    <1>2. \A i \in Rows(q) : ~(Posto(i, q) < 0)
        BY <1>1
    <1> QED
        BY <1>2 DEF Met

LEMMA LeafInit ==
    ASSUME L!Init
    PROVE  LeafInv
    <1> DEFINE h == U!Mount(L!Prima)
               e == U!Mount(L!Tutte)
    <1>1. Waits(h, L!Prima) /\ Waits(e, L!Tutte)
        BY AnyMounted
    <1>2. /\ page = [domanda |-> L!Prima, lista |-> h, tag |-> e, letti |-> {}, cambi |-> 0]
          /\ server = Archivio
        BY ListHook DEF L!Init
    <1> HIDE DEF h, e
    <1>3. 0 \in Offsets
        BY PagesAssumption DEF Offsets, Multiples
    <1>4. L!Prima.ambito = L!Tutte /\ L!Prima.categoria = L!Tutte /\ L!Prima.offset = 0 /\ Question(L!Prima)
        BY <1>3 DEF L!Prima, Question
    <1>5. Met(L!Prima, 0) = {}
        BY NoneMet
    <1>6. ByPages(page)
        BY <1>1, <1>2, <1>4, <1>5 DEF ByPages, Waits
    <1>7. ByLabels(page)
        BY <1>1, <1>2, <1>4 DEF ByLabels, Waits
    <1>8. page.cambi = 0
        BY <1>2
    <1> QED
        BY <1>2, <1>6, <1>7, <1>8 DEF LeafInv

\* A question is asked of the server, and the chips of its scope.
LEMMA LeafAsks ==
    ASSUME ListInv, LeafInv, NEW q, L!Chiedi(q),
           page.cambi = 0 =>
               /\ Question(q)
               /\ {x \in page.letti : x.offset < q.offset} = Met(q, q.offset)
               /\ q.categoria # L!Tutte => q.categoria \in DOMAIN Labels(q.ambito)
    PROVE  LeafInv'
    <1> DEFINE h == IF q = page.lista.question THEN page.lista ELSE U!Effect(page.lista, q, FALSE)
               t == IF q.ambito = page.tag.question THEN page.tag
                                                    ELSE U!Effect(page.tag, q.ambito, FALSE)
               d == U!Effect(page.lista, q, FALSE)
               e == U!Effect(page.tag, q.ambito, FALSE)
    <1>1. ListPage(page) /\ page.lista.question = page.domanda
        BY DEF ListInv
    <1>2. page' = [page EXCEPT !.domanda = q, !.lista = h, !.tag = t] /\ server' = server
        BY ListHook DEF L!Chiedi
    <1>3. Waits(d, q) /\ Waits(e, q.ambito)
        BY AnyAsked
    <1>4. \/ h = d
          \/ h = page.lista /\ q = page.lista.question
        OBVIOUS
    <1>5. \/ t = e
          \/ t = page.tag /\ q.ambito = page.tag.question
        OBVIOUS
    <1> HIDE DEF h, t, d, e
    <1>6. /\ page'.lista = h /\ page'.domanda = q /\ page'.tag = t /\ page'.letti = page.letti
          /\ page'.cambi = page.cambi
        BY <1>1, <1>2 DEF ListPage
    <1>7. ASSUME page.cambi = 0
          PROVE  ByPages(page')
        <2>1. ByPages(page) /\ Question(q) /\ {x \in page.letti : x.offset < q.offset} = Met(q, q.offset)
            BY <1>7 DEF LeafInv
        <2>2. CASE h = d
            BY <1>3, <1>6, <2>1, <2>2 DEF ByPages, Waits
        <2>3. CASE h = page.lista /\ q = page.domanda
            BY <1>6, <2>1, <2>3 DEF ByPages
        <2> QED
            BY <1>1, <1>4, <2>2, <2>3
    <1>8. ASSUME page.cambi = 0
          PROVE  ByLabels(page')
        <2>1. ByLabels(page) /\ (q.categoria # L!Tutte => q.categoria \in DOMAIN Labels(q.ambito))
            BY <1>8 DEF LeafInv
        <2>2. CASE t = e
            BY <1>3, <1>6, <2>1, <2>2 DEF ByLabels, Waits
        <2>3. CASE t = page.tag /\ q.ambito = page.tag.question
            BY <1>6, <2>1, <2>3 DEF ByLabels
        <2> QED
            BY <1>5, <2>2, <2>3
    <1> QED
        BY <1>2, <1>6, <1>7, <1>8 DEF LeafInv

\* The list is read: a page of what the server has.
LEMMA LeafReadStep ==
    ASSUME ListInv, LeafInv, L!ServeLista \/ L!AnswerLista \/ L!FailLista
    PROVE  LeafInv'
    <1>1. /\ ListPage(page) /\ IsHook(page.lista) /\ Tidy(page.lista)
          /\ page.lista.question = page.domanda
        BY DEF ListInv
    <1>2. server' = server
        BY DEF L!ServeLista, L!AnswerLista, L!FailLista
    <1>3. CASE L!ServeLista
        <2>1. PICK r \in L!Unserved(page.lista) :
                page' = [page EXCEPT !.lista = L!Serve(page.lista, r, L!ListProcedures(r.question))]
            BY <1>3 DEF L!ServeLista
        <2>2. r \in page.lista.reads
            BY ListHook
        <2> DEFINE d == L!ListProcedures(r.question)
                   h == U!Serve(page.lista, r, d)
        <2>3. page' = [page EXCEPT !.lista = h]
            BY <2>1, ListHook
        <2>4. /\ h.kind = page.lista.kind /\ h.dato = page.lista.dato
              /\ \A a \in h.reads : a.dato = d /\ a.question = page.domanda
              /\ r.question = page.domanda
            <3> HIDE DEF d
            <3>1. /\ Tidy(h) /\ h.kind = page.lista.kind /\ h.dato = page.lista.dato
                  /\ h.question = page.lista.question
                  /\ \A a \in h.reads : a.dato = d
                  /\ r.question = page.lista.question
                BY <1>1, <2>2, AnyServed
            <3> QED
                BY <1>1, <3>1 DEF Tidy
        <2> HIDE DEF h
        <2>5. /\ page'.lista = h /\ page'.domanda = page.domanda /\ page'.tag = page.tag
              /\ page'.letti = page.letti /\ page'.cambi = page.cambi
            BY <1>1, <2>3 DEF ListPage
        <2>6. ASSUME page.cambi = 0
              PROVE  ByPages(page') /\ ByLabels(page')
            <3>1. ByPages(page) /\ ByLabels(page) /\ server = Archivio
                BY <2>6 DEF LeafInv
            <3>2. page.domanda.offset \in Nat
                BY <3>1, PagesFollow DEF ByPages, Question
            <3>3. d = Sheet(page.domanda)
                BY <2>4, <3>1, <3>2, SheetIsServed
            <3> HIDE DEF d
            <3>4. ByPages(page')
                BY <2>4, <2>5, <3>1, <3>3 DEF ByPages
            <3> QED
                BY <2>5, <3>1, <3>4 DEF ByLabels
        <2> QED
            BY <1>2, <2>5, <2>6 DEF LeafInv
    <1>4. CASE L!AnswerLista
        <2>1. PICK r \in L!Served(page.lista) :
                page' = [page EXCEPT !.lista = L!Resolve(page.lista, r),
                                     !.letti = {x \in page.letti : x.offset < r.dato.offset}
                                        \cup [offset : {r.dato.offset}, card : r.dato.items]]
            BY <1>4 DEF L!AnswerLista
        <2> DEFINE letti == {x \in page.letti : x.offset < r.dato.offset}
                               \cup [offset : {r.dato.offset}, card : r.dato.items]
                   h == U!Resolve(page.lista, r)
        <2>2. page' = [page EXCEPT !.lista = h, !.letti = letti] /\ r \in U!Served(page.lista)
            BY <2>1, ListHook
        <2>3. /\ h.dato = r.dato /\ h.reads = {} /\ r \in page.lista.reads /\ r.dato # NoDato
              /\ r.question = page.domanda
            BY <1>1, <2>2, AnyResolved
        <2> HIDE DEF h, letti
        <2>4. /\ page'.lista = h /\ page'.domanda = page.domanda /\ page'.tag = page.tag
              /\ page'.letti = letti /\ page'.cambi = page.cambi
            BY <1>1, <2>2 DEF ListPage
        <2>5. ASSUME page.cambi = 0
              PROVE  ByPages(page') /\ ByLabels(page')
            <3> DEFINE q == page.domanda
            <3>1. ByPages(page) /\ ByLabels(page)
                BY <2>5 DEF LeafInv
            <3>2. r.dato = Sheet(q) /\ r.dato.offset = q.offset
                BY <2>3, <3>1 DEF ByPages, Sheet
            <3>3. Question(q)
                BY <3>1 DEF ByPages
            <3>4. letti = {x \in page.letti : x.offset < q.offset}
                              \cup [offset : {q.offset}, card : Sheet(q).items]
                BY <3>2 DEF letti
            <3>5. letti = Met(q, q.offset + PageSize)
                BY <3>1, <3>3, <3>4, OnePageMore DEF ByPages
            <3>6. {x \in letti : x.offset < q.offset} = Met(q, q.offset)
                BY <3>3, <3>5, OnePageMore
            <3>7. \A x \in letti : x.offset \in Nat
                BY <3>5, PagesFollow DEF Met
            <3>8. ByPages(page')
                BY <2>3, <2>4, <3>2, <3>3, <3>5, <3>6, <3>7 DEF ByPages
            <3> QED
                BY <2>4, <3>1, <3>8 DEF ByLabels
        <2> QED
            BY <1>2, <2>4, <2>5 DEF LeafInv
    <1>5. CASE L!FailLista
        <2>1. PICK r \in page.lista.reads : page' = [page EXCEPT !.lista = U!Reject(page.lista, r)]
            BY <1>5, ListHook DEF L!FailLista
        <2> DEFINE h == U!Reject(page.lista, r)
        <2>2. /\ h.reads = {}
              /\ h.kind = "pronto" => page.lista.kind = "pronto" /\ h.dato = page.lista.dato
            BY <1>1, AnyRejected
        <2>3. page' = [page EXCEPT !.lista = h]
            BY <2>1
        <2> HIDE DEF h
        <2>4. /\ page'.lista = h /\ page'.domanda = page.domanda /\ page'.tag = page.tag
              /\ page'.letti = page.letti /\ page'.cambi = page.cambi
            BY <1>1, <2>3 DEF ListPage
        <2> QED
            BY <1>2, <2>2, <2>4 DEF LeafInv, ByPages, ByLabels
    <1> QED
        BY <1>3, <1>4, <1>5

\* The chips are read.
LEMMA LeafLabelStep ==
    ASSUME ListInv, LeafInv, L!ServeTag \/ L!AnswerTag \/ L!FailTag
    PROVE  LeafInv'
    <1>1. ListPage(page)
        BY DEF ListInv
    <1>2. server' = server
        BY DEF L!ServeTag, L!AnswerTag, L!FailTag
    <1>3. ASSUME NEW h, page' = [page EXCEPT !.tag = h],
                 page.cambi = 0 /\ ByLabels(page) =>
                     /\ IsHook(h) /\ Tidy(h) /\ h.question = page.tag.question
                     /\ \A a \in h.reads : a.dato # NoDato => a.dato = Labels(a.question)
                     /\ h.kind = "pronto" => h.dato = Labels(h.question)
          PROVE  LeafInv'
        <2>1. /\ page'.lista = page.lista /\ page'.domanda = page.domanda /\ page'.tag = h
              /\ page'.letti = page.letti /\ page'.cambi = page.cambi
            BY <1>1, <1>3 DEF ListPage
        <2>2. page.cambi = 0 => ByPages(page') /\ ByLabels(page')
            BY <1>3, <2>1 DEF LeafInv, ByPages, ByLabels
        <2> QED
            BY <1>2, <2>1, <2>2 DEF LeafInv
    <1>4. CASE L!ServeTag
        <2>1. PICK r \in L!Unserved(page.tag) :
                page' = [page EXCEPT !.tag = L!Serve(page.tag, r, L!ListTags(r.question))]
            BY <1>4 DEF L!ServeTag
        <2> DEFINE d == L!ListTags(r.question)
                   h == U!Serve(page.tag, r, d)
        <2>2. r \in page.tag.reads /\ page' = [page EXCEPT !.tag = h]
            BY <2>1, ListHook
        <2>3. ASSUME page.cambi = 0, ByLabels(page)
              PROVE  /\ IsHook(h) /\ Tidy(h) /\ h.question = page.tag.question
                     /\ \A a \in h.reads : a.dato # NoDato => a.dato = Labels(a.question)
                     /\ h.kind = "pronto" => h.dato = Labels(h.question)
            <3>1. d = Labels(r.question)
                BY <2>3, LabelsAreServed DEF LeafInv
            <3> HIDE DEF d
            <3>2. /\ IsHook(h) /\ Tidy(h) /\ h.kind = page.tag.kind /\ h.dato = page.tag.dato
                  /\ h.question = page.tag.question
                  /\ \A a \in h.reads : a.dato = d
                  /\ r.question = page.tag.question
                BY <2>2, <2>3, AnyServed DEF ByLabels
            <3> HIDE DEF h
            <3> QED
                BY <2>3, <3>1, <3>2 DEF ByLabels, Tidy
        <2> HIDE DEF h
        <2> QED
            BY <1>3, <2>2, <2>3
    <1>5. CASE L!AnswerTag
        <2>1. PICK r \in U!Served(page.tag) : page' = [page EXCEPT !.tag = U!Resolve(page.tag, r)]
            BY <1>5, ListHook DEF L!AnswerTag
        <2> DEFINE h == U!Resolve(page.tag, r)
        <2>2. page' = [page EXCEPT !.tag = h]
            BY <2>1
        <2>3. ASSUME page.cambi = 0, ByLabels(page)
              PROVE  /\ IsHook(h) /\ Tidy(h) /\ h.question = page.tag.question
                     /\ \A a \in h.reads : a.dato # NoDato => a.dato = Labels(a.question)
                     /\ h.kind = "pronto" => h.dato = Labels(h.question)
            <3>1. /\ IsHook(h) /\ Tidy(h) /\ h.dato = r.dato /\ h.question = page.tag.question
                  /\ h.reads = {} /\ r \in page.tag.reads /\ r.dato # NoDato
                  /\ r.question = page.tag.question
                BY <2>1, <2>3, AnyResolved DEF ByLabels
            <3> HIDE DEF h
            <3> QED
                BY <2>3, <3>1 DEF ByLabels
        <2> HIDE DEF h
        <2> QED
            BY <1>3, <2>2, <2>3
    <1>6. CASE L!FailTag
        <2>1. PICK r \in page.tag.reads : page' = [page EXCEPT !.tag = U!Reject(page.tag, r)]
            BY <1>6, ListHook DEF L!FailTag
        <2> DEFINE h == U!Reject(page.tag, r)
        <2>2. page' = [page EXCEPT !.tag = h]
            BY <2>1
        <2>3. ASSUME page.cambi = 0, ByLabels(page)
              PROVE  /\ IsHook(h) /\ Tidy(h) /\ h.question = page.tag.question
                     /\ \A a \in h.reads : a.dato # NoDato => a.dato = Labels(a.question)
                     /\ h.kind = "pronto" => h.dato = Labels(h.question)
            <3>1. /\ IsHook(h) /\ Tidy(h) /\ h.question = page.tag.question /\ h.reads = {}
                  /\ h.kind = "pronto" => page.tag.kind = "pronto" /\ h.dato = page.tag.dato
                BY <2>1, <2>3, AnyRejected DEF ByLabels
            <3> HIDE DEF h
            <3> QED
                BY <2>3, <3>1 DEF ByLabels
        <2> HIDE DEF h
        <2> QED
            BY <1>3, <2>2, <2>3
    <1> QED
        BY <1>4, <1>5, <1>6

\* The gestures: the first page of another question, the page before, the page after.
LEMMA LeafHandStep ==
    ASSUME ListInv, LeafInv,
           \/ \E ambito \in Ambiti \cup {L!Tutte} : L!ScegliAmbito(ambito)
           \/ \E t \in Tags \cup {L!Tutte} : L!ScegliCategoria(t)
           \/ L!Precedenti \/ L!Successive
    PROVE  LeafInv'
    <1>1. page.lista.question = page.domanda
        BY DEF ListInv
    <1>2. 0 \in Offsets
        BY PagesAssumption DEF Offsets, Multiples
    <1>3. ASSUME page.cambi = 0, NEW q, q.offset = 0
          PROVE  {x \in page.letti : x.offset < q.offset} = Met(q, q.offset)
        <2>1. \A x \in page.letti : ~(x.offset < 0)
            BY <1>3 DEF LeafInv, ByPages
        <2>2. Met(q, q.offset) = {}
            BY <1>3, NoneMet
        <2> QED
            BY <1>3, <2>1, <2>2
    <1>4. CASE \E ambito \in Ambiti \cup {L!Tutte} : L!ScegliAmbito(ambito)
        <2>1. PICK ambito : L!Chiedi([L!Prima EXCEPT !.ambito = ambito])
            BY <1>4 DEF L!ScegliAmbito
        <2> DEFINE q == [L!Prima EXCEPT !.ambito = ambito]
        <2>2. q.offset = 0 /\ q.categoria = L!Tutte /\ Question(q) /\ L!Chiedi(q)
            BY <1>2, <2>1 DEF L!Prima, Question
        <2> HIDE DEF q
        <2> QED
            BY <1>3, <2>2, LeafAsks
    <1>5. CASE \E t \in Tags \cup {L!Tutte} : L!ScegliCategoria(t)
        <2>1. PICK t : /\ page.tag.kind = "pronto" /\ t \in DOMAIN page.tag.dato \cup {L!Tutte}
                       /\ L!Chiedi([page.domanda EXCEPT !.categoria = t, !.offset = 0])
            BY <1>5 DEF L!ScegliCategoria
        <2> DEFINE q == [page.domanda EXCEPT !.categoria = t, !.offset = 0]
        <2>2. L!Chiedi(q)
            BY <2>1
        <2>3. ASSUME page.cambi = 0
              PROVE  /\ q.offset = 0 /\ Question(q)
                     /\ q.categoria # L!Tutte => q.categoria \in DOMAIN Labels(q.ambito)
            <3>1. ByPages(page) /\ ByLabels(page)
                BY <2>3 DEF LeafInv
            <3>2. Question(page.domanda)
                BY <3>1 DEF ByPages
            <3>3. q.offset = 0 /\ q.categoria = t /\ q.ambito = page.domanda.ambito /\ Question(q)
                <4> DEFINE d == page.domanda
                           zero == 0
                <4>1. d = [ambito |-> d.ambito, categoria |-> d.categoria, offset |-> d.offset]
                    BY <3>2 DEF Question
                <4>2. q = [d EXCEPT !.categoria = t, !.offset = zero]
                    OBVIOUS
                <4>3. zero \in Offsets /\ zero = 0
                    BY <1>2
                <4> HIDE DEF d, q, zero
                <4>4. q = [ambito |-> d.ambito, categoria |-> t, offset |-> zero]
                    BY <4>1, <4>2
                <4> QED
                    BY <4>3, <4>4 DEF Question, d
            <3>4. page.tag.dato = Labels(page.domanda.ambito)
                BY <2>1, <3>1 DEF ByLabels
            <3> HIDE DEF q
            <3> QED
                BY <2>1, <3>3, <3>4
        <2> HIDE DEF q
        <2> QED
            BY <1>3, <2>2, <2>3, LeafAsks
    <1>6. CASE L!Precedenti
        <2>1. /\ page.lista.kind = "pronto" /\ page.lista.dato.offset > 0
              /\ L!Chiedi([page.domanda EXCEPT
                     !.offset = IF page.lista.dato.offset < PageSize THEN 0
                                ELSE page.lista.dato.offset - PageSize])
            BY <1>6 DEF L!Precedenti, L!Mostrata, L!Lista
        <2> DEFINE o == IF page.lista.dato.offset < PageSize THEN 0
                        ELSE page.lista.dato.offset - PageSize
                   q == [page.domanda EXCEPT !.offset = o]
        <2>2. L!Chiedi(q)
            BY <2>1
        <2>3. ASSUME page.cambi = 0
              PROVE  /\ Question(q) /\ {x \in page.letti : x.offset < q.offset} = Met(q, q.offset)
                     /\ q.categoria # L!Tutte => q.categoria \in DOMAIN Labels(q.ambito)
            <3> DEFINE d == page.domanda
            <3>1. ByPages(page) /\ ByLabels(page)
                BY <2>3 DEF LeafInv
            <3>2. /\ Question(d) /\ page.letti = Met(d, d.offset + PageSize)
                  /\ page.lista.dato.offset = d.offset
                BY <2>1, <3>1 DEF ByPages, Sheet
            <3>3. /\ d.offset \in Nat /\ PageSize \in Nat /\ d.offset # 0 /\ d.offset >= PageSize
                  /\ d.offset - PageSize \in Offsets
                BY <2>1, <3>2, PagesFollow, PagesAssumption DEF Question
            <3>4. o = d.offset - PageSize
                BY <3>2, <3>3
            <3> HIDE DEF o
            <3>5. q.offset = o /\ q.ambito = d.ambito /\ q.categoria = d.categoria /\ Question(q)
                BY <3>2, <3>3, <3>4 DEF Question
            <3>6. {x \in Met(d, d.offset + PageSize) : x.offset < o} = Met(d, o)
                BY <3>2, <3>3, <3>4, OnePageLess
            <3> HIDE DEF q
            <3>7. Met(q, o) = Met(d, o)
                BY <3>5, SameMet
            <3>8. {x \in page.letti : x.offset < q.offset} = Met(q, q.offset)
                BY <3>2, <3>5, <3>6, <3>7
            <3> QED
                BY <3>1, <3>5, <3>8 DEF ByLabels
        <2> HIDE DEF q
        <2> QED
            BY <2>2, <2>3, LeafAsks
    <1>7. CASE L!Successive
        <2>1. /\ page.lista.kind = "pronto"
              /\ L!Chiedi([page.domanda EXCEPT !.offset = page.lista.dato.offset + PageSize])
            BY <1>7 DEF L!Successive, L!Mostrata, L!Lista
        <2> DEFINE o == page.lista.dato.offset + PageSize
                   q == [page.domanda EXCEPT !.offset = o]
        <2>2. L!Chiedi(q)
            BY <2>1
        <2>3. ASSUME page.cambi = 0
              PROVE  /\ Question(q) /\ {x \in page.letti : x.offset < q.offset} = Met(q, q.offset)
                     /\ q.categoria # L!Tutte => q.categoria \in DOMAIN Labels(q.ambito)
            <3> DEFINE d == page.domanda
            <3>1. ByPages(page) /\ ByLabels(page)
                BY <2>3 DEF LeafInv
            <3>2. Question(d) /\ page.letti = Met(d, d.offset + PageSize) /\ o = d.offset + PageSize
                BY <2>1, <3>1 DEF ByPages, Sheet
            <3>3. o \in Offsets
                BY <3>2, PagesFollow DEF Question
            <3> HIDE DEF o
            <3>4. q.offset = o /\ q.ambito = d.ambito /\ q.categoria = d.categoria /\ Question(q)
                BY <3>2, <3>3 DEF Question
            <3>5. {x \in Met(d, d.offset + PageSize) : x.offset < d.offset + PageSize}
                      = Met(d, d.offset + PageSize)
                BY <3>2, OnePageMore
            <3> HIDE DEF q
            <3>6. Met(q, o) = Met(d, o)
                BY <3>4, SameMet
            <3>7. {x \in page.letti : x.offset < q.offset} = Met(q, q.offset)
                BY <3>2, <3>4, <3>5, <3>6
            <3> QED
                BY <3>1, <3>4, <3>7 DEF ByLabels
        <2> HIDE DEF q
        <2> QED
            BY <2>2, <2>3, LeafAsks
    <1> QED
        BY <1>4, <1>5, <1>6, <1>7

LEMMA LeafStep ==
    ASSUME ListInv, LeafInv, L!Next
    PROVE  LeafInv'
    <1>1. ListPage(page)
        BY DEF ListInv
    <1>2. CASE \E i \in DOMAIN server : L!Touch(i) \/ L!Archive(i) \/ \E tag \in SUBSET Tags : L!Retag(i, tag)
        <2>1. page' = [page EXCEPT !.cambi = page.cambi + 1]
            BY <1>2 DEF L!Touch, L!Archive, L!Retag, L!ChangeElsewhere
        <2>2. page'.cambi = page.cambi + 1
            BY <1>1, <2>1 DEF ListPage
        <2> QED
            BY <2>2 DEF LeafInv
    <1>3. CASE L!RicaricaTutto
        <2> DEFINE h == U!Effect(page.lista, page.lista.question, FALSE)
                   t == U!Effect(page.tag, page.tag.question, FALSE)
        <2>1. Waits(h, page.lista.question) /\ Waits(t, page.tag.question)
            BY AnyAsked
        <2>2. page' = [page EXCEPT !.lista = h, !.tag = t] /\ server' = server
            BY <1>3, ListHook DEF L!RicaricaTutto
        <2> HIDE DEF h, t
        <2>3. /\ page'.lista = h /\ page'.domanda = page.domanda /\ page'.tag = t
              /\ page'.letti = page.letti /\ page'.cambi = page.cambi
            BY <1>1, <2>2 DEF ListPage
        <2>4. page.cambi = 0 => ByPages(page')
            BY <2>1, <2>3 DEF LeafInv, ByPages, Waits
        <2>5. page.cambi = 0 => ByLabels(page')
            BY <2>1, <2>3 DEF LeafInv, ByLabels, Waits
        <2> QED
            BY <2>2, <2>3, <2>4, <2>5 DEF LeafInv
    <1> QED
        BY <1>2, <1>3, LeafReadStep, LeafLabelStep, LeafHandStep DEF L!Next

LEMMA LeafSafe == ScreensSpec => [](route = "elenco" => ListInv /\ LeafInv)
    <1>1. Init => (route = "elenco" => ListInv /\ LeafInv)
        BY ListInit, LeafInit DEF Init
    <1>2. (route = "elenco" => ListInv /\ LeafInv) /\ [Next]_screensVars
              => (route = "elenco" => ListInv /\ LeafInv)'
        <2> SUFFICES ASSUME route = "elenco", ListInv, LeafInv, [Next]_screensVars
                     PROVE  (ListInv /\ LeafInv)'
            BY RouteStays
        <2>1. CASE L!Next
            BY <2>1, ListStep, LeafStep
        <2>2. CASE UNCHANGED <<server, page>>
            BY <2>2 DEF ListInv, LeafInv
        <2> QED
            BY <2>1, <2>2
            DEF Next, screensVars, Cestino, Lista, Elenco, Conto, Scheda, Revisione, Cerca, Redazione
    <1> QED
        BY <1>1, <1>2, PTL DEF ScreensSpec

\* The last page has been reached, and nothing has changed.
LEMMA LeafingTold ==
    ASSUME LeafInv
    PROVE  L!LeafingMeetsEveryCard
    <1> SUFFICES ASSUME page.cambi = 0, L!Mostrata, L!Fine >= L!Lista.total
                 PROVE  /\ \A x, y \in page.letti : x.card = y.card => x = y
                        /\ {x.card : x \in page.letti}
                               = {c \in L!Range(server) : L!Where(c, page.domanda)}
                        /\ page.tag.kind = "pronto" /\ page.domanda.categoria # L!Tutte =>
                               page.tag.dato[page.domanda.categoria] = L!Cardinality(page.letti)
        BY DEF L!LeafingMeetsEveryCard
    <1> DEFINE q == page.domanda
               n == q.offset + PageSize
               cards == {c \in {Archivio[i] : i \in DOMAIN Archivio} : L!Where(c, q)}
    <1>1. /\ ByPages(page) /\ ByLabels(page) /\ server = Archivio
          /\ page.lista.dato = Sheet(q) /\ page.letti = Met(q, n) /\ Question(q)
        BY DEF LeafInv, ByPages, L!Mostrata
    <1>2. q.offset \in Nat /\ PageSize \in Nat /\ n \in Nat
        BY <1>1, PagesFollow, PagesAssumption DEF Question
    <1>3. q.offset + Cardinality(Sheet(q).items) >= Sheet(q).total
        <2>1. Sheet(q).offset = q.offset
            BY DEF Sheet
        <2> QED
            BY <1>1, <2>1, SameCountList DEF L!Fine, L!Lista
    <1>4. \A i \in Rows(q) : Posto(i, q) < n
        BY <1>1, <1>3, LastPage
    <1> HIDE DEF n
    <1>5. /\ \A x, y \in Met(q, n) : x.card = y.card => x = y
          /\ {x.card : x \in Met(q, n)} = cards
          /\ Cardinality(Met(q, n)) = Cardinality(cards)
        BY <1>2, <1>4, AllAreMet
    <1>6. L!Range(server) = {Archivio[i] : i \in DOMAIN Archivio}
        BY <1>1 DEF L!Range
    <1>7. ASSUME page.tag.kind = "pronto", q.categoria # L!Tutte
          PROVE  page.tag.dato[q.categoria] = Cardinality(cards)
        <2>1. page.tag.dato = Labels(q.ambito) /\ q.categoria \in DOMAIN Labels(q.ambito)
            BY <1>1, <1>7 DEF ByLabels
        <2>2. {c \in {Archivio[i] : i \in DOMAIN Archivio} :
                  L!Where(c, [ambito |-> q.ambito, categoria |-> q.categoria])} = cards
            BY DEF L!Where
        <2>3. Labels(q.ambito)[q.categoria]
                  = Cardinality({c \in {Archivio[i] : i \in DOMAIN Archivio} :
                        L!Where(c, [ambito |-> q.ambito, categoria |-> q.categoria])})
            BY <2>1 DEF Labels
        <2> QED
            BY <2>1, <2>2, <2>3
    <1> QED
        BY <1>1, <1>5, <1>6, <1>7, SameCountList

------------------------------------------------------------------------------
(* SearchScreen: leafing through the results. *)

LEMMA SameCountSearch == \A X : S!Cardinality(X) = Cardinality(X)
    BY DEF S!Cardinality, Cardinality, S!IsFiniteSet, IsFiniteSet

LEMMA LeastOfTwo ==
    ASSUME NEW a \in Int, NEW b \in Int
    PROVE  S!Min({a, b}) = IF a <= b THEN a ELSE b
    <1> DEFINE m == IF a <= b THEN a ELSE b
    <1>1. m \in {a, b} /\ \A y \in {a, b} : m <= y
        OBVIOUS
    <1>2. \A x \in {a, b} : (\A y \in {a, b} : x <= y) => x = m
        OBVIOUS
    <1> HIDE DEF m
    <1>3. S!Min({a, b}) = m
        BY <1>1, <1>2 DEF S!Min
    <1> QED
        BY <1>3 DEF m

LEMMA MostOfTwo ==
    ASSUME NEW a \in Int, NEW b \in Int
    PROVE  S!Max({a, b}) = IF a >= b THEN a ELSE b
    <1> DEFINE m == IF a >= b THEN a ELSE b
    <1>1. m \in {a, b} /\ \A y \in {a, b} : m >= y
        OBVIOUS
    <1>2. \A x \in {a, b} : (\A y \in {a, b} : x >= y) => x = m
        OBVIOUS
    <1> HIDE DEF m
    <1>3. S!Max({a, b}) = m
        BY <1>1, <1>2 DEF S!Max
    <1> QED
        BY <1>3 DEF m

\* A strict order of a set, as the pairs of which the first comes before.
Strict(members, Prec) ==
    /\ \A x \in members : <<x, x>> \notin Prec
    /\ \A x, y, z \in members : <<x, y>> \in Prec /\ <<y, z>> \in Prec => <<x, z>> \in Prec
    /\ \A x, y \in members : x # y => <<x, y>> \in Prec \/ <<y, x>> \in Prec

\* Each member of a set, once.
Enumerates(w, members) ==
    /\ DOMAIN w = 1..Cardinality(members)
    /\ \A i \in DOMAIN w : w[i] \in members
    /\ \A i, j \in DOMAIN w : w[i] = w[j] => i = j
    /\ \A x \in members : \E i \in DOMAIN w : w[i] = x

\* The place of a member counts those it does not come before, and at a place is who has it.
Places(w, members, Prec, place) ==
    /\ DOMAIN w = 1..Cardinality(members)
    /\ \A x \in members : place[x] = Cardinality({y \in members : <<x, y>> \notin Prec})
    /\ \A i \in DOMAIN w :
           (\E x \in members : place[x] = i) => w[i] \in members /\ place[w[i]] = i

LEMMA OrderedPlaces ==
    ASSUME NEW members, IsFiniteSet(members), NEW Prec, Strict(members, Prec), NEW place, NEW w,
           Places(w, members, Prec, place)
    PROVE  Enumerates(w, members)
    <1> USE DEF Places
    <1> DEFINE n == Cardinality(members)
               upTo(x) == {y \in members : <<x, y>> \notin Prec}
               f == [x \in members |-> place[x]]
    <1>1. n \in Nat
        BY FS_CardinalityType
    <1>2. \A x \in members : upTo(x) \in SUBSET members /\ x \in upTo(x)
        BY DEF Strict
    <1>3. \A x, y \in members : <<x, y>> \in Prec => upTo(x) \in SUBSET upTo(y) /\ y \notin upTo(x)
        BY DEF Strict
    <1>4. \A x \in members : place[x] = Cardinality(upTo(x))
        OBVIOUS
    <1> HIDE DEF upTo
    <1>5. \A x \in members : IsFiniteSet(upTo(x)) /\ place[x] \in 1..n
        <2> SUFFICES ASSUME NEW x \in members
                     PROVE  IsFiniteSet(upTo(x)) /\ place[x] \in 1..n
            OBVIOUS
        <2>1. IsFiniteSet(upTo(x)) /\ Cardinality(upTo(x)) <= n
            BY <1>2, FS_Subset
        <2>2. Cardinality(upTo(x)) \in Nat /\ Cardinality(upTo(x)) # 0
            BY <1>2, <2>1, FS_CardinalityType, FS_EmptySet
        <2> QED
            BY <1>1, <1>4, <2>1, <2>2
    <1>6. \A x, y \in members : <<x, y>> \in Prec => place[x] < place[y]
        <2> SUFFICES ASSUME NEW x \in members, NEW y \in members, <<x, y>> \in Prec
                     PROVE  Cardinality(upTo(x)) < Cardinality(upTo(y))
            BY <1>4
        <2> QED
            BY <1>2, <1>3, <1>5, MoreBefore
    <1>7. \A x, y \in members : place[x] = place[y] => x = y
        <2> SUFFICES ASSUME NEW x \in members, NEW y \in members, place[x] = place[y], x # y
                     PROVE  FALSE
            OBVIOUS
        <2>1. place[x] < place[y] \/ place[y] < place[x]
            BY <1>6 DEF Strict
        <2> QED
            BY <1>5, <2>1
    <1>8. f \in [members -> 1..n] /\ \A x, y \in members : f[x] = f[y] => x = y
        BY <1>5, <1>7
    <1>9. \A m \in 1..n : \E x \in members : place[x] = m
        <2> HIDE DEF f
        <2>1. \A m \in 1..n : \E x \in members : f[x] = m
            BY <1>8, EveryPlaceIsTaken
        <2> QED
            BY <2>1 DEF f
    <1>10. \A i \in DOMAIN w : w[i] \in members /\ place[w[i]] = i
        BY <1>9
    <1>11. \A x \in members : place[x] \in DOMAIN w /\ w[place[x]] = x
        <2> SUFFICES ASSUME NEW x \in members
                     PROVE  place[x] \in DOMAIN w /\ w[place[x]] = x
            OBVIOUS
        <2>1. place[x] \in DOMAIN w
            BY <1>5
        <2>2. w[place[x]] \in members /\ place[w[place[x]]] = place[x]
            BY <1>10, <2>1
        <2> QED
            BY <1>7, <2>1, <2>2
    <1> QED
        BY <1>10, <1>11 DEF Enumerates

\* Orders by a number, and by a number before another order.
LEMMA StrictByNumber ==
    ASSUME NEW members, NEW f, \A x \in members : f[x] \in Int,
           \A x, y \in members : f[x] = f[y] => x = y,
           NEW Prec, \A x, y \in members : <<x, y>> \in Prec <=> f[x] < f[y]
    PROVE  Strict(members, Prec)
    BY DEF Strict

LEMMA StrictByNumberFirst ==
    ASSUME NEW members, NEW f, \A x \in members : f[x] \in Int, NEW Q, Strict(members, Q),
           NEW Prec, \A x, y \in members :
                      <<x, y>> \in Prec <=> (f[x] > f[y] \/ (f[x] = f[y] /\ <<x, y>> \in Q))
    PROVE  Strict(members, Prec)
    <1>1. ASSUME NEW x \in members
          PROVE  <<x, x>> \notin Prec
        <2>1. f[x] \in Int /\ <<x, x>> \notin Q
            BY DEF Strict
        <2> QED
            BY <2>1
    <1>2. \A x, y, z \in members : <<x, y>> \in Prec /\ <<y, z>> \in Prec => <<x, z>> \in Prec
        <2> SUFFICES ASSUME NEW x \in members, NEW y \in members, NEW z \in members,
                            <<x, y>> \in Prec, <<y, z>> \in Prec
                     PROVE  <<x, z>> \in Prec
            OBVIOUS
        <2>1. f[x] \in Int /\ f[y] \in Int /\ f[z] \in Int
            OBVIOUS
        <2>2. \/ f[x] > f[z]
              \/ f[x] = f[z] /\ <<x, y>> \in Q /\ <<y, z>> \in Q
            BY <2>1
        <2> QED
            BY <2>2 DEF Strict
    <1>3. \A x, y \in members : x # y => <<x, y>> \in Prec \/ <<y, x>> \in Prec
        <2> SUFFICES ASSUME NEW x \in members, NEW y \in members, x # y
                     PROVE  <<x, y>> \in Prec \/ <<y, x>> \in Prec
            OBVIOUS
        <2>1. f[x] > f[y] \/ f[y] > f[x] \/ f[x] = f[y]
            OBVIOUS
        <2> QED
            BY <2>1 DEF Strict
    <1> QED
        BY <1>1, <1>2, <1>3 DEF Strict

------------------------------------------------------------------------------
\* Fractions.
Fraction(a) == a.num \in Nat /\ a.den \in Nat \ {0}

LEMMA Scaled ==
    ASSUME NEW x \in Int, NEW y \in Int, NEW d \in Nat \ {0}
    PROVE  (x * d >= y * d <=> x >= y) /\ (x * d > y * d <=> x > y)
    <1>1. CASE x > y
        <2>1. (x - y) * d >= d
            BY <1>1
        <2>2. (x - y) * d = x * d - y * d
            OBVIOUS
        <2> QED
            BY <1>1, <2>1, <2>2
    <1>2. CASE x = y
        BY <1>2
    <1>3. CASE x < y
        <2>1. (y - x) * d >= d
            BY <1>3
        <2>2. (y - x) * d = y * d - x * d
            OBVIOUS
        <2> QED
            BY <1>3, <2>1, <2>2
    <1> QED
        BY <1>1, <1>2, <1>3

LEMMA CrossProducts ==
    ASSUME NEW n1 \in Nat, NEW n2 \in Nat, NEW n3 \in Nat,
           NEW d1 \in Nat \ {0}, NEW d2 \in Nat \ {0}, NEW d3 \in Nat \ {0},
           n1 * d2 >= n2 * d1, n2 * d3 >= n3 * d2
    PROVE  /\ n1 * d3 >= n3 * d1
           /\ n1 * d2 > n2 * d1 \/ n2 * d3 > n3 * d2 => n1 * d3 > n3 * d1
    <1>1. /\ (n1 * d2) * d3 = (n1 * d3) * d2 /\ (n2 * d1) * d3 = (n2 * d3) * d1
          /\ (n3 * d2) * d1 = (n3 * d1) * d2
        OBVIOUS
    <1>2. /\ n1 * d2 \in Int /\ n2 * d1 \in Int /\ n2 * d3 \in Int /\ n3 * d2 \in Int
          /\ n1 * d3 \in Int /\ n3 * d1 \in Int
        OBVIOUS
    <1>3. /\ (n1 * d2) * d3 >= (n2 * d1) * d3
          /\ n1 * d2 > n2 * d1 => (n1 * d2) * d3 > (n2 * d1) * d3
        BY <1>2, Scaled
    <1>4. /\ (n2 * d3) * d1 >= (n3 * d2) * d1
          /\ n2 * d3 > n3 * d2 => (n2 * d3) * d1 > (n3 * d2) * d1
        BY <1>2, Scaled
    <1>5. /\ (n1 * d3) * d2 \in Int /\ (n2 * d3) * d1 \in Int /\ (n3 * d1) * d2 \in Int
        OBVIOUS
    <1>6. /\ (n1 * d3) * d2 >= (n3 * d1) * d2
          /\ n1 * d2 > n2 * d1 \/ n2 * d3 > n3 * d2 => (n1 * d3) * d2 > (n3 * d1) * d2
        BY <1>1, <1>3, <1>4, <1>5
    <1> QED
        BY <1>2, <1>6, Scaled

LEMMA GreaterIsAnOrder ==
    ASSUME NEW a, NEW b, NEW c, Fraction(a), Fraction(b), Fraction(c)
    PROVE  /\ ~S!Greater(a, a)
           /\ ~(S!Greater(a, b) /\ S!Greater(b, a))
           /\ ~S!Greater(b, a) /\ ~S!Greater(c, b) => ~S!Greater(c, a)
           /\ ~S!Greater(b, a) /\ S!Greater(b, c) => S!Greater(a, c)
           /\ S!Greater(a, b) /\ ~S!Greater(c, b) => S!Greater(a, c)
    <1>1. /\ a.num \in Nat /\ b.num \in Nat /\ c.num \in Nat
          /\ a.den \in Nat \ {0} /\ b.den \in Nat \ {0} /\ c.den \in Nat \ {0}
        BY DEF Fraction
    <1> DEFINE ab == a.num * b.den
               ba == b.num * a.den
               bc == b.num * c.den
               cb == c.num * b.den
               ac == a.num * c.den
               ca == c.num * a.den
    <1>2. ab \in Int /\ ba \in Int /\ bc \in Int /\ cb \in Int /\ ac \in Int /\ ca \in Int
        BY <1>1
    <1>3. ab >= ba /\ bc >= cb => ac >= ca /\ (ab > ba \/ bc > cb => ac > ca)
        BY <1>1, CrossProducts
    <1>4. /\ S!Greater(a, b) <=> ab > ba
          /\ S!Greater(b, a) <=> ba > ab
          /\ S!Greater(b, c) <=> bc > cb
          /\ S!Greater(c, b) <=> cb > bc
          /\ S!Greater(a, c) <=> ac > ca
          /\ S!Greater(c, a) <=> ca > ac
        BY DEF S!Greater
    <1>5. ~S!Greater(a, a)
        <2>1. a.num * a.den \in Int
            BY <1>1
        <2> QED
            BY <2>1 DEF S!Greater
    <1> HIDE DEF ab, ba, bc, cb, ac, ca
    <1> QED
        BY <1>2, <1>3, <1>4, <1>5

LEMMA StrictByScore ==
    ASSUME NEW members, NEW f, \A x \in members : Fraction(f[x]), NEW Q, Strict(members, Q),
           NEW Prec, \A x, y \in members :
                      <<x, y>> \in Prec <=> (\/ S!Greater(f[x], f[y])
                                            \/ (~S!Greater(f[y], f[x]) /\ <<x, y>> \in Q))
    PROVE  Strict(members, Prec)
    <1>1. \A x \in members : <<x, x>> \notin Prec
        BY GreaterIsAnOrder DEF Strict
    <1>2. \A x, y, z \in members : <<x, y>> \in Prec /\ <<y, z>> \in Prec => <<x, z>> \in Prec
        <2> SUFFICES ASSUME NEW x \in members, NEW y \in members, NEW z \in members,
                            <<x, y>> \in Prec, <<y, z>> \in Prec
                     PROVE  <<x, z>> \in Prec
            OBVIOUS
        <2> DEFINE a == f[x]
                   b == f[y]
                   c == f[z]
        <2>1. Fraction(a) /\ Fraction(b) /\ Fraction(c)
            OBVIOUS
        <2>2. /\ S!Greater(a, b) \/ (~S!Greater(b, a) /\ <<x, y>> \in Q)
              /\ S!Greater(b, c) \/ (~S!Greater(c, b) /\ <<y, z>> \in Q)
            OBVIOUS
        <2>3. <<x, z>> \in Prec <=> S!Greater(a, c) \/ (~S!Greater(c, a) /\ <<x, z>> \in Q)
            OBVIOUS
        <2> HIDE DEF a, b, c
        <2>4. /\ ~(S!Greater(a, b) /\ S!Greater(b, a))
              /\ ~S!Greater(b, a) /\ ~S!Greater(c, b) => ~S!Greater(c, a)
              /\ ~S!Greater(b, a) /\ S!Greater(b, c) => S!Greater(a, c)
              /\ S!Greater(a, b) /\ ~S!Greater(c, b) => S!Greater(a, c)
            BY <2>1, GreaterIsAnOrder
        <2>5. <<x, y>> \in Q /\ <<y, z>> \in Q => <<x, z>> \in Q
            BY DEF Strict
        <2> QED
            BY <2>2, <2>3, <2>4, <2>5
    <1>3. \A x, y \in members : x # y => <<x, y>> \in Prec \/ <<y, x>> \in Prec
        BY DEF Strict
    <1> QED
        BY <1>1, <1>2, <1>3 DEF Strict

\* A list of cards, each once.
Listing(v) ==
    /\ Len(v) \in Nat /\ DOMAIN v = 1..Len(v)
    /\ \A i, j \in DOMAIN v : v[i] = v[j] => i = j

LEMMA ListingsAreSmall ==
    ASSUME NEW v, Listing(v)
    PROVE  IsFiniteSet(S!Range(v)) /\ Cardinality(S!Range(v)) = Len(v)
    <1> DEFINE f == [i \in DOMAIN v |-> v[i]]
    <1>1. IsFiniteSet(DOMAIN v) /\ Cardinality(DOMAIN v) = Len(v)
        <2>1. IsFiniteSet(1..Len(v)) /\ Cardinality(1..Len(v)) = Len(v)
            BY FS_Interval DEF Listing
        <2> QED
            BY <2>1 DEF Listing
    <1>2. f \in Bijection(DOMAIN v, S!Range(v))
        BY DEF Listing, S!Range, Bijection, Injection, Surjection, IsInjective
    <1> HIDE DEF f
    <1> QED
        BY <1>1, <1>2, FS_Bijection DEF ExistsBijection

\* What a channel answers when the cards of `via' are gone.
Vivi(lista, via, limit) ==
    LET vive == S!InOrder({i \in DOMAIN lista : lista[i] \notin via}, <)
    IN [i \in 1..S!Min({limit, Len(vive)}) |-> lista[vive[i]]]

LEMMA ChannelIsTold ==
    ASSUME NEW lista, NEW limit
    PROVE  S!Channel(lista, limit) = Vivi(lista, server.via, limit)
    BY DEF S!Channel, Vivi

LEMMA LiveOnes ==
    ASSUME NEW lista, Listing(lista), NEW via, NEW limit \in Nat
    PROVE  /\ Listing(Vivi(lista, via, limit))
           /\ S!Range(Vivi(lista, via, limit)) \subseteq S!Range(lista) \ via
           /\ IsFiniteSet(S!Range(lista) \ via)
           /\ Len(Vivi(lista, via, limit)) = limit
                \/ S!Range(Vivi(lista, via, limit)) = S!Range(lista) \ via
           /\ Len(Vivi(lista, via, limit)) <= limit
    <1> DEFINE members == {i \in DOMAIN lista : lista[i] \notin via}
               Prec == {p \in members \X members : p[1] < p[2]}
               place == [x \in members |-> Cardinality({y \in members : <<x, y>> \notin Prec})]
               posto(x) == S!Cardinality({y \in members : ~(x < y)})
               at(i) == CHOOSE x \in members : posto(x) = i
               w == [i \in 1..S!Cardinality(members) |-> at(i)]
               n == Cardinality(members)
               m == S!Min({limit, n})
               v == Vivi(lista, via, limit)
    <1>1. /\ \A i \in members : i \in Int /\ i \in DOMAIN lista /\ lista[i] \notin via
          /\ \A i \in DOMAIN lista : lista[i] \notin via => i \in members
        BY DEF Listing
    <1>2. IsFiniteSet(members)
        <2>1. IsFiniteSet(1..Len(lista))
            BY FS_Interval DEF Listing
        <2> QED
            BY <2>1, FS_Subset DEF Listing
    <1>3. S!InOrder(members, <) = w
        BY DEF S!InOrder
    <1>4. v = [i \in 1..S!Min({limit, Len(w)}) |-> lista[w[i]]]
        BY <1>3 DEF Vivi
    <1>5. \A x \in members : posto(x) = place[x]
        <2> SUFFICES ASSUME NEW x \in members
                     PROVE  posto(x) = Cardinality({y \in members : <<x, y>> \notin Prec})
            OBVIOUS
        <2>1. {y \in members : ~(x < y)} = {y \in members : <<x, y>> \notin Prec}
            OBVIOUS
        <2> QED
            BY <2>1, SameCountSearch
    <1>6. w = [i \in 1..n |-> at(i)]
        BY SameCountSearch
    <1>7. \A x, y \in members : <<x, y>> \in Prec <=> x < y
        OBVIOUS
    <1>8. \A x \in members : place[x] = Cardinality({y \in members : <<x, y>> \notin Prec})
        OBVIOUS
    <1> HIDE DEF posto, place, Prec, members
    <1>9. DOMAIN w = 1..n /\ Places(w, members, Prec, place)
        BY <1>5, <1>6, <1>8 DEF Places
    <1> HIDE DEF at
    <1>10. Strict(members, Prec)
        <2> DEFINE f == [x \in members |-> x]
        <2>1. /\ \A x \in members : f[x] \in Int
              /\ \A x, y \in members : f[x] = f[y] => x = y
              /\ \A x, y \in members : <<x, y>> \in Prec <=> f[x] < f[y]
            BY <1>1, <1>7
        <2> HIDE DEF f
        <2> QED
            BY <2>1, StrictByNumber
    <1>11. n \in Nat
        BY <1>2, FS_CardinalityType
    <1>12. Len(w) = n
        <2> HIDE DEF n, w
        <2> QED
            BY <1>6, <1>11
    <1> HIDE DEF w
    <1>13. Enumerates(w, members)
        BY <1>2, <1>9, <1>10, OrderedPlaces
    <1>14. m \in Nat /\ m <= n /\ m <= limit /\ (m = limit \/ m = n)
        BY <1>11, LeastOfTwo
    <1>15. v = [i \in 1..m |-> lista[w[i]]]
        BY <1>4, <1>12
    <1> HIDE DEF m, n, v
    <1>16. Len(v) = m /\ DOMAIN v = 1..m
        BY <1>14, <1>15
    <1>17. 1..m \subseteq 1..n
        BY <1>11, <1>14
    <1>18. \A i \in 1..m : w[i] \in members /\ v[i] = lista[w[i]]
        BY <1>13, <1>15, <1>17 DEF Enumerates, n
    <1>19. \A i, j \in 1..m : v[i] = v[j] => i = j
        <2> SUFFICES ASSUME NEW i \in 1..m, NEW j \in 1..m, v[i] = v[j]
                     PROVE  i = j
            OBVIOUS
        <2>1. w[i] = w[j]
            BY <1>1, <1>18 DEF Listing
        <2> QED
            BY <1>13, <1>17, <2>1 DEF Enumerates, n
    <1>20. S!Range(v) \subseteq S!Range(lista) \ via
        BY <1>1, <1>16, <1>18 DEF S!Range
    <1>21. ASSUME m = n
           PROVE  S!Range(v) = S!Range(lista) \ via
        <2>1. ASSUME NEW c \in S!Range(lista) \ via
              PROVE  c \in S!Range(v)
            <3>1. PICK i \in members : c = lista[i]
                BY <1>1 DEF S!Range
            <3>2. PICK k \in 1..m : w[k] = i
                BY <1>13, <1>21 DEF Enumerates, n
            <3> QED
                BY <1>16, <1>18, <3>1, <3>2 DEF S!Range
        <2> QED
            BY <1>20, <2>1
    <1>22. IsFiniteSet(S!Range(lista) \ via)
        BY ListingsAreSmall, FS_Subset
    <1> QED
        BY <1>14, <1>16, <1>19, <1>20, <1>21, <1>22 DEF Listing, v

------------------------------------------------------------------------------
\* The fusion: the cards of the two channels, each once.
LEMMA RanksTold ==
    ASSUME NEW v, Listing(v), NEW c \in S!Range(v)
    PROVE  S!Rank(v, c) \in 1..Len(v) /\ v[S!Rank(v, c)] = c
    <1>1. \E i \in DOMAIN v : v[i] = c
        BY DEF S!Range
    <1>2. S!Rank(v, c) \in DOMAIN v /\ v[S!Rank(v, c)] = c
        BY <1>1 DEF S!Rank
    <1> QED
        BY <1>2 DEF Listing

LEMMA SharesAreFractions ==
    ASSUME NEW v, Listing(v), NEW c
    PROVE  Fraction(S!Share(v, c))
    <1>1. CASE c \in S!Range(v)
        <2>1. S!Rank(v, c) \in Nat
            BY <1>1, RanksTold DEF Listing
        <2>2. RRF_K + S!Rank(v, c) \in Nat \ {0}
            BY <2>1, PagesAssumption
        <2> QED
            BY <1>1, <2>2 DEF Fraction, S!Share
    <1>2. CASE c \notin S!Range(v)
        BY <1>2 DEF Fraction, S!Share
    <1> QED
        BY <1>1, <1>2

LEMMA ScoresAreFractions ==
    ASSUME NEW t, Listing(t), NEW s, Listing(s), NEW c
    PROVE  Fraction(S!Score(t, s, c))
    <1> DEFINE a == S!Share(t, c)
               b == S!Share(s, c)
    <1>1. a.num \in Nat /\ a.den \in Nat \ {0} /\ b.num \in Nat /\ b.den \in Nat \ {0}
        BY SharesAreFractions DEF Fraction
    <1>2. S!Score(t, s, c) = [num |-> a.num * b.den + b.num * a.den, den |-> a.den * b.den]
        BY DEF S!Score
    <1> HIDE DEF a, b
    <1>3. a.num * b.den \in Nat /\ b.num * a.den \in Nat /\ a.den * b.den \in Nat \ {0}
        BY <1>1
    <1> QED
        BY <1>2, <1>3 DEF Fraction

LEMMA AppearancesApart ==
    ASSUME NEW t, Listing(t), NEW s, Listing(s)
    PROVE  /\ \A c \in S!Range(t) \cup S!Range(s) : S!Appearance(t, s, c) \in Int
           /\ \A c, d \in S!Range(t) \cup S!Range(s) :
                  S!Appearance(t, s, c) = S!Appearance(t, s, d) => c = d
    <1>1. /\ \A c \in S!Range(t) : S!Rank(t, c) \in 1..Len(t) /\ t[S!Rank(t, c)] = c
          /\ \A c \in S!Range(s) : S!Rank(s, c) \in 1..Len(s) /\ s[S!Rank(s, c)] = c
          /\ Len(t) \in Nat /\ Len(s) \in Nat
        BY RanksTold DEF Listing
    <1>2. \A c \in S!Range(t) : S!Appearance(t, s, c) = S!Rank(t, c)
        BY DEF S!Appearance
    <1>3. \A c \in S!Range(s) : c \notin S!Range(t) => S!Appearance(t, s, c) = Len(t) + S!Rank(s, c)
        BY DEF S!Appearance
    <1>4. \A c \in S!Range(t) \cup S!Range(s) : S!Appearance(t, s, c) \in Int
        BY <1>1, <1>2, <1>3
    <1>5. ASSUME NEW c \in S!Range(t) \cup S!Range(s), NEW d \in S!Range(t) \cup S!Range(s),
                 S!Appearance(t, s, c) = S!Appearance(t, s, d)
          PROVE  c = d
        <2>1. CASE c \in S!Range(t) /\ d \in S!Range(t)
            BY <1>1, <1>2, <1>5, <2>1
        <2>2. CASE c \in S!Range(t) /\ d \notin S!Range(t)
            BY <1>1, <1>2, <1>3, <1>5, <2>2
        <2>3. CASE c \notin S!Range(t) /\ d \in S!Range(t)
            BY <1>1, <1>2, <1>3, <1>5, <2>3
        <2>4. CASE c \notin S!Range(t) /\ d \notin S!Range(t)
            BY <1>1, <1>3, <1>5, <2>4
        <2> QED
            BY <2>1, <2>2, <2>3, <2>4
    <1> QED
        BY <1>4, <1>5

LEMMA TheFusion ==
    ASSUME NEW t, Listing(t), NEW s, Listing(s)
    PROVE  /\ Listing(S!FuseRankings(t, s))
           /\ S!Range(S!FuseRankings(t, s)) = S!Range(t) \cup S!Range(s)
    <1> DEFINE members == S!Range(t) \cup S!Range(s)
               before(c, d) == \/ S!Greater(S!Score(t, s, c), S!Score(t, s, d))
                               \/ (~S!Greater(S!Score(t, s, d), S!Score(t, s, c))
                                     /\ S!Appearance(t, s, c) < S!Appearance(t, s, d))
               Prec == {p \in members \X members : before(p[1], p[2])}
               Q == {p \in members \X members : S!Appearance(t, s, p[1]) < S!Appearance(t, s, p[2])}
               f == [c \in members |-> S!Score(t, s, c)]
               g == [c \in members |-> S!Appearance(t, s, c)]
               place == [x \in members |-> Cardinality({y \in members : <<x, y>> \notin Prec})]
               posto(x) == S!Cardinality({y \in members : ~before(x, y)})
               at(i) == CHOOSE x \in members : posto(x) = i
               w == [i \in 1..S!Cardinality(members) |-> at(i)]
               n == Cardinality(members)
    <1>1. S!FuseRankings(t, s) = w
        BY DEF S!FuseRankings, S!InOrder
    <1>2. IsFiniteSet(members)
        BY ListingsAreSmall, FS_Union
    <1>3. \A x \in members : posto(x) = place[x]
        <2> HIDE DEF before
        <2> SUFFICES ASSUME NEW x \in members
                     PROVE  posto(x) = Cardinality({y \in members : <<x, y>> \notin Prec})
            OBVIOUS
        <2>1. {y \in members : ~before(x, y)} = {y \in members : <<x, y>> \notin Prec}
            OBVIOUS
        <2> QED
            BY <2>1, SameCountSearch
    <1>4. w = [i \in 1..n |-> at(i)]
        BY SameCountSearch
    <1>5. \A x \in members : place[x] = Cardinality({y \in members : <<x, y>> \notin Prec})
        OBVIOUS
    <1>6. Strict(members, Q)
        <2>1. \A x \in members : g[x] \in Int
            BY AppearancesApart
        <2>2. \A x, y \in members : g[x] = g[y] => x = y
            BY AppearancesApart
        <2>3. \A x, y \in members : <<x, y>> \in Q <=> g[x] < g[y]
            OBVIOUS
        <2> HIDE DEF g, Q, members
        <2> QED
            BY <2>1, <2>2, <2>3, StrictByNumber
    <1>7. Strict(members, Prec)
        <2>1. \A x \in members : Fraction(f[x])
            BY ScoresAreFractions
        <2>2. \A x, y \in members : <<x, y>> \in Prec <=> before(x, y)
            <3> HIDE DEF before
            <3> QED
                OBVIOUS
        <2>3. \A x, y \in members :
                  before(x, y) <=> (\/ S!Greater(f[x], f[y])
                                    \/ (~S!Greater(f[y], f[x]) /\ <<x, y>> \in Q))
            OBVIOUS
        <2> HIDE DEF f, Q, Prec, members, before
        <2>4. \A x, y \in members :
                  <<x, y>> \in Prec <=> (\/ S!Greater(f[x], f[y])
                                         \/ (~S!Greater(f[y], f[x]) /\ <<x, y>> \in Q))
            BY <2>2, <2>3
        <2> QED
            BY <1>6, <2>1, <2>4, StrictByScore
    <1> HIDE DEF posto, place, Prec, members
    <1>8. DOMAIN w = 1..n /\ Places(w, members, Prec, place)
        BY <1>3, <1>4, <1>5 DEF Places
    <1> HIDE DEF at
    <1>9. n \in Nat
        BY <1>2, FS_CardinalityType
    <1>10. Len(w) = n
        <2> HIDE DEF n, w
        <2> QED
            BY <1>4, <1>9
    <1> HIDE DEF w
    <1>11. Enumerates(w, members)
        BY <1>2, <1>7, <1>8, OrderedPlaces
    <1>12. S!Range(w) = members
        BY <1>11 DEF Enumerates, S!Range
    <1>13. Listing(w)
        BY <1>8, <1>9, <1>10, <1>11 DEF Listing, Enumerates
    <1> QED
        BY <1>1, <1>12, <1>13 DEF members

\* Inside a page the freshest goes first: the rows are those of the page.
LEMMA TheSortKeepsTheRows ==
    ASSUME NEW canali, Listing(canali.testo), Listing(canali.senso), NEW fuse, Listing(fuse),
           NEW righe, righe \subseteq S!Range(fuse)
    PROVE  S!Range(S!Freshest(canali, fuse, righe)) = righe
    <1> DEFINE score(c) == S!Score(canali.testo, canali.senso, c)
               fresh(c) == IF c \in server.fresca THEN 1 ELSE 0
               same(c, d) == \/ fresh(c) > fresh(d)
                             \/ (fresh(c) = fresh(d) /\ S!Rank(fuse, c) < S!Rank(fuse, d))
               before(c, d) == \/ S!Greater(score(c), score(d))
                               \/ (~S!Greater(score(d), score(c)) /\ same(c, d))
               Prec == {p \in righe \X righe : before(p[1], p[2])}
               Same == {p \in righe \X righe : same(p[1], p[2])}
               Q == {p \in righe \X righe : S!Rank(fuse, p[1]) < S!Rank(fuse, p[2])}
               f == [c \in righe |-> score(c)]
               g == [c \in righe |-> fresh(c)]
               h == [c \in righe |-> S!Rank(fuse, c)]
               place == [x \in righe |-> Cardinality({y \in righe : <<x, y>> \notin Prec})]
               posto(x) == S!Cardinality({y \in righe : ~before(x, y)})
               at(i) == CHOOSE x \in righe : posto(x) = i
               w == [i \in 1..S!Cardinality(righe) |-> at(i)]
               n == Cardinality(righe)
    <1>1. S!Freshest(canali, fuse, righe) = w
        BY DEF S!Freshest, S!InOrder
    <1>2. IsFiniteSet(righe)
        BY ListingsAreSmall, FS_Subset
    <1>3. \A x \in righe : posto(x) = place[x]
        <2> HIDE DEF before
        <2> SUFFICES ASSUME NEW x \in righe
                     PROVE  posto(x) = Cardinality({y \in righe : <<x, y>> \notin Prec})
            OBVIOUS
        <2>1. {y \in righe : ~before(x, y)} = {y \in righe : <<x, y>> \notin Prec}
            OBVIOUS
        <2> QED
            BY <2>1, SameCountSearch
    <1>4. w = [i \in 1..n |-> at(i)]
        BY SameCountSearch
    <1>5. Strict(righe, Q)
        <2>1. \A x \in righe : h[x] \in 1..Len(fuse) /\ fuse[h[x]] = x
            BY RanksTold
        <2>2. \A x, y \in righe : <<x, y>> \in Q <=> h[x] < h[y]
            OBVIOUS
        <2> HIDE DEF h, Q
        <2>3. \A x \in righe : h[x] \in Int
            BY <2>1
        <2>4. \A x, y \in righe : h[x] = h[y] => x = y
            BY <2>1
        <2> QED
            BY <2>2, <2>3, <2>4, StrictByNumber
    <1>6. Strict(righe, Same)
        <2>1. \A x \in righe : g[x] \in Int
            OBVIOUS
        <2>2. \A x, y \in righe : <<x, y>> \in Same <=> same(x, y)
            <3> HIDE DEF same
            <3> QED
                OBVIOUS
        <2>3. \A x, y \in righe :
                  same(x, y) <=> (g[x] > g[y] \/ (g[x] = g[y] /\ <<x, y>> \in Q))
            OBVIOUS
        <2> HIDE DEF g, Q, Same, same
        <2>4. \A x, y \in righe :
                  <<x, y>> \in Same <=> (g[x] > g[y] \/ (g[x] = g[y] /\ <<x, y>> \in Q))
            BY <2>2, <2>3
        <2> QED
            BY <1>5, <2>1, <2>4, StrictByNumberFirst
    <1>7. Strict(righe, Prec)
        <2>1. \A x \in righe : Fraction(f[x])
            BY ScoresAreFractions
        <2>2. \A x, y \in righe : <<x, y>> \in Prec <=> before(x, y)
            <3> HIDE DEF before
            <3> QED
                OBVIOUS
        <2>3. \A x, y \in righe : <<x, y>> \in Same <=> same(x, y)
            <3> HIDE DEF same
            <3> QED
                OBVIOUS
        <2>4. \A x, y \in righe :
                  before(x, y) <=> (\/ S!Greater(f[x], f[y])
                                    \/ (~S!Greater(f[y], f[x]) /\ same(x, y)))
            <3> HIDE DEF same, score
            <3> QED
                OBVIOUS
        <2> HIDE DEF f, Same, Prec, before, same
        <2>5. \A x, y \in righe :
                  <<x, y>> \in Prec <=> (\/ S!Greater(f[x], f[y])
                                         \/ (~S!Greater(f[y], f[x]) /\ <<x, y>> \in Same))
            BY <2>2, <2>3, <2>4
        <2> QED
            BY <1>6, <2>1, <2>5, StrictByScore
    <1>8. \A x \in righe : place[x] = Cardinality({y \in righe : <<x, y>> \notin Prec})
        OBVIOUS
    <1> HIDE DEF posto, place, Prec
    <1>9. DOMAIN w = 1..n /\ Places(w, righe, Prec, place)
        BY <1>3, <1>4, <1>8 DEF Places
    <1> HIDE DEF w
    <1>10. Enumerates(w, righe)
        BY <1>2, <1>7, <1>9, OrderedPlaces
    <1> QED
        BY <1>1, <1>10 DEF Enumerates, S!Range

------------------------------------------------------------------------------
\* The one ranking of a question, on the cards that are left when those of `via' are gone.
Words(canali, q, via) == Vivi(canali[q].testo, via, SEARCH_MAX_DEPTH)
Sense(canali, q, via) == Vivi(canali[q].senso, via, SEARCH_MAX_DEPTH)
Fusion(canali, q, via) == S!FuseRankings(Words(canali, q, via), Sense(canali, q, via))
Servibili(canali, q, via) == S!Min({SEARCH_MAX_DEPTH, Len(Fusion(canali, q, via))})
Window(canali, q, via, o) ==
    {Fusion(canali, q, via)[i] : i \in (o + 1)..S!Min({o + SearchPage, Servibili(canali, q, via)})}

LEMMA RankingsAreListings ==
    ASSUME NEW canali \in Rankings, NEW q \in Queries
    PROVE  Listing(canali[q].testo) /\ Listing(canali[q].senso)
    <1>1. /\ canali[q].testo \in Seq(STRING) /\ canali[q].senso \in Seq(STRING)
          /\ \A i, j \in DOMAIN canali[q].testo : canali[q].testo[i] = canali[q].testo[j] => i = j
          /\ \A i, j \in DOMAIN canali[q].senso : canali[q].senso[i] = canali[q].senso[j] => i = j
        BY RankingsAssumption
    <1> QED
        BY <1>1 DEF Listing

\* As many cards can be leafed through as there are, up to the depth.
LEMMA TheRankingTold ==
    ASSUME NEW canali \in Rankings, NEW q \in Queries, NEW via
    PROVE  /\ Listing(Words(canali, q, via)) /\ Listing(Sense(canali, q, via))
           /\ Listing(Fusion(canali, q, via))
           /\ Servibili(canali, q, via) \in Nat
           /\ Servibili(canali, q, via) <= Len(Fusion(canali, q, via))
           /\ Servibili(canali, q, via)
                  = S!Min({SEARCH_MAX_DEPTH,
                           Cardinality((S!Range(canali[q].testo) \cup S!Range(canali[q].senso)) \ via)})
    <1> DEFINE most == SEARCH_MAX_DEPTH
               t == Words(canali, q, via)
               s == Sense(canali, q, via)
               a == S!Range(canali[q].testo) \ via
               b == S!Range(canali[q].senso) \ via
               x == S!Range(t)
               y == S!Range(s)
               fuse == Fusion(canali, q, via)
    <1>1. most \in Nat
        BY PagesAssumption
    <1>2. /\ Listing(t) /\ x \subseteq a /\ IsFiniteSet(a) /\ (Len(t) = most \/ x = a)
          /\ Listing(s) /\ y \subseteq b /\ IsFiniteSet(b) /\ (Len(s) = most \/ y = b)
        BY <1>1, RankingsAreListings, LiveOnes DEF Words, Sense
    <1>3. /\ IsFiniteSet(x) /\ Cardinality(x) = Len(t)
          /\ IsFiniteSet(y) /\ Cardinality(y) = Len(s)
        BY <1>2, ListingsAreSmall
    <1>4. Listing(fuse) /\ S!Range(fuse) = x \cup y
        BY <1>2, TheFusion DEF Fusion
    <1>5. (S!Range(canali[q].testo) \cup S!Range(canali[q].senso)) \ via = a \cup b
        OBVIOUS
    <1> HIDE DEF t, s, a, b, x, y, fuse, most
    <1>6. IsFiniteSet(a \cup b) /\ IsFiniteSet(x \cup y) /\ x \cup y \subseteq a \cup b
        BY <1>2, <1>3, FS_Union
    <1>7. Cardinality(a \cup b) \in Nat /\ Cardinality(x \cup y) \in Nat
        BY <1>6, FS_CardinalityType
    <1>8. /\ Cardinality(x \cup y) <= Cardinality(a \cup b)
          /\ Cardinality(x) <= Cardinality(x \cup y) /\ Cardinality(y) <= Cardinality(x \cup y)
        BY <1>6, FS_Subset
    <1>9. Cardinality(x \cup y) = Len(fuse)
        BY <1>4, ListingsAreSmall
    <1>10. \/ Cardinality(x \cup y) >= most /\ Cardinality(a \cup b) >= most
           \/ Cardinality(x \cup y) = Cardinality(a \cup b)
        <2>1. CASE x = a /\ y = b
            BY <2>1
        <2>2. CASE Len(t) = most
            BY <1>1, <1>3, <1>7, <1>8, <2>2
        <2>3. CASE Len(s) = most
            BY <1>1, <1>3, <1>7, <1>8, <2>3
        <2> QED
            BY <1>2, <2>1, <2>2, <2>3
    <1>11. S!Min({most, Len(fuse)}) = S!Min({most, Cardinality(a \cup b)})
        <2> DEFINE u == Cardinality(x \cup y)
                   v == Cardinality(a \cup b)
        <2>1. u \in Int /\ v \in Int /\ most \in Int
            BY <1>1, <1>7
        <2>2. (u >= most /\ v >= most) \/ u = v
            BY <1>10
        <2> HIDE DEF u, v
        <2>3. /\ S!Min({most, u}) = IF most <= u THEN most ELSE u
              /\ S!Min({most, v}) = IF most <= v THEN most ELSE v
            BY <2>1, LeastOfTwo
        <2>4. S!Min({most, u}) = S!Min({most, v})
            BY <2>1, <2>2, <2>3
        <2> QED
            BY <1>9, <2>4 DEF u, v
    <1>12. S!Min({most, Len(fuse)}) \in Nat /\ S!Min({most, Len(fuse)}) <= Len(fuse)
        BY <1>1, <1>7, <1>9, LeastOfTwo
    <1> QED
        BY <1>2, <1>4, <1>5, <1>11, <1>12 DEF Servibili, fuse, most, t, s

\* What the server answers, when the sense answers it.
LEMMA ResultTold ==
    ASSUME server.canali \in Rankings, NEW q \in Queries, NEW offset \in Multiples(SearchPage),
           NEW sparite
    PROVE  /\ S!Result(q, offset, FALSE, sparite).via = server.via
           /\ S!Range(S!Result(q, offset, FALSE, sparite).items)
                  = Window(server.canali, q, server.via, offset) \ sparite
           /\ S!Result(q, offset, FALSE, sparite).hasMore
                  <=> Servibili(server.canali, q, server.via) > offset + SearchPage
    <1> DEFINE t == Words(server.canali, q, server.via)
               s == Sense(server.canali, q, server.via)
               canali == [testo |-> t, senso |-> s]
               fuse == Fusion(server.canali, q, server.via)
               m == Servibili(server.canali, q, server.via)
               righe == Window(server.canali, q, server.via, offset) \ sparite
    <1>1. Listing(t) /\ Listing(s) /\ Listing(fuse) /\ m \in Nat /\ m <= Len(fuse)
        BY TheRankingTold
    <1>2. S!Channels(q, offset, FALSE) = canali
        BY ChannelIsTold
        DEF S!Channels, S!SearchFullText, S!SearchSemantic, S!Depth, Words, Sense
    <1>3. S!FuseRankings(canali.testo, canali.senso) = fuse
        BY DEF Fusion
    <1>4. /\ S!Result(q, offset, FALSE, sparite).via = server.via
          /\ S!Result(q, offset, FALSE, sparite).items = S!Freshest(canali, fuse, righe)
          /\ S!Result(q, offset, FALSE, sparite).hasMore <=> m > offset + SearchPage
        BY <1>2, <1>3 DEF S!Result, S!SummariesByIds, Servibili, Window
    <1>5. righe \subseteq S!Range(fuse)
        <2>1. offset \in Nat /\ SearchPage \in Nat
            BY PagesAssumption, MultiplesFollow
        <2> DEFINE e == S!Min({offset + SearchPage, m})
        <2>2. e \in Int /\ e <= m
            BY <1>1, <2>1, LeastOfTwo
        <2>3. \A i \in (offset + 1)..e : i \in DOMAIN fuse
            BY <1>1, <2>1, <2>2 DEF Listing
        <2> QED
            BY <2>3 DEF Window, S!Range
    <1>6. canali.testo = t /\ canali.senso = s
        OBVIOUS
    <1> HIDE DEF t, s, canali, fuse, righe
    <1>7. S!Range(S!Freshest(canali, fuse, righe)) = righe
        BY <1>1, <1>5, <1>6, TheSortKeepsTheRows
    <1> QED
        BY <1>4, <1>7 DEF righe

------------------------------------------------------------------------------
\* A page served by the words and by the sense: the window on the ranking of its cards,
\* whole as long as no other card is deleted.
OnTheRanking(d, s) ==
    /\ d.q \in Queries /\ d.offset \in Multiples(SearchPage) /\ d.via \subseteq s.via
    /\ S!Range(d.items) \subseteq Window(s.canali, d.q, d.via, d.offset)
    /\ d.via = s.via => S!Range(d.items) = Window(s.canali, d.q, d.via, d.offset)
    /\ d.hasMore <=> Servibili(s.canali, d.q, d.via) > d.offset + SearchPage

ServerOf(s) == s = [canali |-> s.canali, fresca |-> s.fresca, via |-> s.via] /\ s.canali \in Rankings

\* The pages kept are of one question, on the same cards.
Leafed(p, s) ==
    /\ p.testo \in S!Texts /\ p.query \in S!Texts /\ p.offset \in Multiples(SearchPage)
    /\ \A a \in p.hook.reads : a.dato # NoDato => a.dato.degradata \/ OnTheRanking(a.dato, s)
    /\ \A v \in p.viste : OnTheRanking(v, s)
    /\ \A v, w \in p.viste : v.q = w.q /\ v.via = w.via

SeekInv == ServerOf(server) /\ Leafed(page, server)

LEMMA RankingStays ==
    ASSUME NEW d, NEW s, NEW z, OnTheRanking(d, s), z.canali = s.canali, s.via \subseteq z.via
    PROVE  OnTheRanking(d, z)
    <1>1. d.via \subseteq z.via /\ (d.via = z.via => d.via = s.via)
        BY DEF OnTheRanking
    <1> QED
        BY <1>1 DEF OnTheRanking

LEMMA LeafedStays ==
    ASSUME NEW p, NEW s, NEW z, Leafed(p, s), z.canali = s.canali, s.via \subseteq z.via
    PROVE  Leafed(p, z)
    <1>1. \A d : OnTheRanking(d, s) => OnTheRanking(d, z)
        BY RankingStays
    <1> QED
        BY <1>1 DEF Leafed

LEMMA SeekInit ==
    ASSUME S!Init
    PROVE  SeekInv
    <1> DEFINE q == <<S!NoQuery, 0>>
               h == U!Mount(q)
    <1>1. \A a \in h.reads : a.dato = NoDato
        BY AnyMounted DEF Waits
    <1>2. page = [testo |-> S!NoQuery, timer |-> TRUE, query |-> S!NoQuery, offset |-> 0,
                  hook |-> h, viste |-> {}]
        BY SearchHook DEF S!Init, S!Question
    <1>3. PICK canali \in Rankings : \E fresca : server = [canali |-> canali, fresca |-> fresca, via |-> {}]
        BY DEF S!Init
    <1> HIDE DEF h
    <1>4. /\ page.testo = S!NoQuery /\ page.query = S!NoQuery /\ page.offset = 0
          /\ page.hook = h /\ page.viste = {}
        BY <1>2
    <1>5. 0 \in Multiples(SearchPage)
        <2>1. 0 = 0 * SearchPage
            BY PagesAssumption
        <2> QED
            BY <2>1 DEF Multiples
    <1>6. ServerOf(server)
        BY <1>3 DEF ServerOf
    <1> QED
        BY <1>1, <1>4, <1>5, <1>6 DEF SeekInv, Leafed, S!Texts

LEMMA SeekDeletes ==
    ASSUME SeekInv, NEW c, S!DeleteElsewhere(c)
    PROVE  SeekInv'
    <1> DEFINE via == server.via \cup {c}
    <1>1. server' = [server EXCEPT !.via = via] /\ page' = page
        BY DEF S!DeleteElsewhere
    <1>2. server.via \subseteq via
        OBVIOUS
    <1> HIDE DEF via
    <1>3. server'.canali = server.canali /\ server'.via = via /\ ServerOf(server')
        BY <1>1 DEF SeekInv, ServerOf
    <1>4. Leafed(page, server')
        BY <1>2, <1>3, LeafedStays DEF SeekInv
    <1> QED
        BY <1>1, <1>3, <1>4 DEF SeekInv

\* A read is served nothing, or a window on the ranking.
LEMMA SeekServes ==
    ASSUME SearchInv, SeekInv, S!ServeNothing \/ S!ServeSearch
    PROVE  SeekInv'
    <1>1. SearchPageOf(page) /\ IsHook(page.hook) /\ Tidy(page.hook)
        BY DEF SearchInv
    <1>2. ASSUME NEW r \in page.hook.reads, NEW d,
                 page' = [page EXCEPT !.hook = S!Serve(page.hook, r, d)],
                 ServerOf(server'), server'.canali = server.canali, server.via \subseteq server'.via,
                 d.degradata \/ OnTheRanking(d, server')
          PROVE  SeekInv'
        <2> DEFINE h == U!Serve(page.hook, r, d)
        <2>1. \A a \in h.reads : a.dato = d
            BY <1>1, AnyServed
        <2>2. page' = [page EXCEPT !.hook = h]
            BY <1>2, SearchHook
        <2> HIDE DEF h
        <2>3. /\ page'.hook = h /\ page'.testo = page.testo /\ page'.query = page.query
              /\ page'.offset = page.offset /\ page'.viste = page.viste
            BY <1>1, <2>2 DEF SearchPageOf
        <2>4. Leafed(page, server')
            BY <1>2, LeafedStays DEF SeekInv
        <2>5. Leafed(page', server')
            BY <1>2, <2>1, <2>3, <2>4 DEF Leafed
        <2> QED
            BY <1>2, <2>5 DEF SeekInv
    <1>3. CASE S!ServeNothing
        <2>1. PICK r \in S!Unserved(page.hook) :
                page' = [page EXCEPT !.hook = S!Serve(page.hook, r, S!Nullo)]
            BY <1>3 DEF S!ServeNothing
        <2>2. server' = server /\ r \in page.hook.reads
            BY <1>3, SearchHook DEF S!ServeNothing
        <2>3. S!Nullo.degradata
            BY DEF S!Nullo
        <2>4. ServerOf(server')
            BY <2>2 DEF SeekInv
        <2> QED
            BY <1>2, <2>1, <2>2, <2>3, <2>4
    <1>4. CASE S!ServeSearch
        <2>1. PICK r \in S!Unserved(page.hook), degradata \in BOOLEAN,
                   sparite \in SUBSET (S!Ids \ server.via) :
                /\ r.question[1] # S!NoQuery
                /\ page' = [page EXCEPT !.hook =
                                S!Serve(page.hook, r,
                                        S!Result(r.question[1], r.question[2], degradata, sparite))]
                /\ server' = [server EXCEPT !.via = server.via \cup sparite]
            BY <1>4 DEF S!ServeSearch
        <2> DEFINE q == r.question[1]
                   offset == r.question[2]
                   d == S!Result(q, offset, degradata, sparite)
                   via == server.via \cup sparite
        <2>2. r \in page.hook.reads
            BY <2>1, SearchHook
        <2>3. r.question = <<page.query, page.offset>>
            BY <2>2 DEF SearchInv, Tidy
        <2>4. q \in Queries /\ offset \in Multiples(SearchPage)
            BY <2>1, <2>3 DEF SeekInv, Leafed, S!Texts
        <2>5. server.via \subseteq via /\ sparite \cap server.via = {}
            BY <2>1
        <2>6. server' = [server EXCEPT !.via = via]
            BY <2>1
        <2>7. d.q = q /\ d.offset = offset
            BY DEF S!Result
        <2>8. server.canali \in Rankings
            BY DEF SeekInv, ServerOf
        <2>9. CASE degradata = TRUE
            <3>1. d.degradata
                BY <2>9 DEF S!Result
            <3> HIDE DEF d, via
            <3>2. server'.canali = server.canali /\ server'.via = via /\ ServerOf(server')
                BY <2>6 DEF SeekInv, ServerOf
            <3> QED
                BY <1>2, <2>1, <2>2, <2>5, <3>1, <3>2 DEF d
        <2>10. CASE degradata = FALSE
            <3>1. d = S!Result(q, offset, FALSE, sparite)
                BY <2>10
            <3> HIDE DEF d, via, q, offset
            <3>2. server'.canali = server.canali /\ server'.via = via /\ ServerOf(server')
                BY <2>6 DEF SeekInv, ServerOf
            <3>3. /\ d.via = server.via
                  /\ S!Range(d.items) = Window(server.canali, q, server.via, offset) \ sparite
                  /\ d.hasMore <=> Servibili(server.canali, q, server.via) > offset + SearchPage
                <4> DEFINE e == S!Result(q, offset, FALSE, sparite)
                <4>1. /\ e.via = server.via
                      /\ S!Range(e.items) = Window(server.canali, q, server.via, offset) \ sparite
                      /\ e.hasMore <=> Servibili(server.canali, q, server.via) > offset + SearchPage
                    BY <2>4, <2>8, ResultTold
                <4>2. d = e
                    BY <3>1
                <4> HIDE DEF e
                <4> QED
                    BY <4>1, <4>2
            <3>4. d.via = via => sparite = {}
                BY <2>5, <3>3 DEF via
            <3>5. OnTheRanking(d, server')
                BY <2>4, <2>5, <2>7, <3>2, <3>3, <3>4 DEF OnTheRanking
            <3> QED
                BY <1>2, <2>1, <2>2, <2>5, <3>2, <3>5 DEF d, q, offset
        <2> QED
            BY <2>9, <2>10
    <1> QED
        BY <1>3, <1>4

LEMMA SeekAnswers ==
    ASSUME SearchInv, SeekInv, S!AnswerSearch \/ S!FailSearch
    PROVE  SeekInv'
    <1>1. SearchPageOf(page) /\ IsHook(page.hook) /\ Tidy(page.hook)
        BY DEF SearchInv
    <1>2. server' = server
        BY DEF S!AnswerSearch, S!FailSearch
    <1>3. CASE S!AnswerSearch
        <2>1. PICK r \in S!Served(page.hook) :
                page' = [page EXCEPT !.hook = S!Resolve(page.hook, r), !.viste = S!Pages(r.dato)]
            BY <1>3 DEF S!AnswerSearch
        <2> DEFINE h == U!Resolve(page.hook, r)
                   viste == S!Pages(r.dato)
        <2>2. r \in U!Served(page.hook)
            BY SearchHook
        <2>3. h.reads = {} /\ r \in page.hook.reads /\ r.dato # NoDato
            BY <1>1, <2>2, AnyResolved
        <2>4. page' = [page EXCEPT !.hook = h, !.viste = viste]
            BY <2>1, SearchHook
        <2> HIDE DEF h
        <2>5. Leafed(page, server)
            BY DEF SeekInv
        <2>6. r.dato.degradata \/ OnTheRanking(r.dato, server)
            BY <2>3, <2>5 DEF Leafed
        <2>7. /\ \A v \in viste : v \in page.viste \/ (v = r.dato /\ ~r.dato.degradata)
              /\ \A v \in viste : v.q = r.dato.q /\ v.via = r.dato.via
            BY DEF S!Pages
        <2> HIDE DEF viste
        <2>8. /\ page'.hook = h /\ page'.testo = page.testo /\ page'.query = page.query
              /\ page'.offset = page.offset /\ page'.viste = viste
            BY <1>1, <2>4 DEF SearchPageOf
        <2>9. \A v \in viste : OnTheRanking(v, server)
            BY <2>5, <2>6, <2>7 DEF Leafed
        <2>10. \A v, w \in viste : v.q = w.q /\ v.via = w.via
            BY <2>7
        <2>11. Leafed(page', server)
            BY <2>3, <2>5, <2>8, <2>9, <2>10 DEF Leafed
        <2> QED
            BY <1>2, <2>11 DEF SeekInv
    <1>4. CASE S!FailSearch
        <2>1. PICK r \in page.hook.reads : page' = [page EXCEPT !.hook = U!Reject(page.hook, r)]
            BY <1>4, SearchHook DEF S!FailSearch
        <2> DEFINE h == U!Reject(page.hook, r)
        <2>2. h.reads = {}
            BY <1>1, AnyRejected
        <2>3. page' = [page EXCEPT !.hook = h]
            BY <2>1
        <2> HIDE DEF h
        <2>4. /\ page'.hook = h /\ page'.testo = page.testo /\ page'.query = page.query
              /\ page'.offset = page.offset /\ page'.viste = page.viste
            BY <1>1, <2>3 DEF SearchPageOf
        <2>5. Leafed(page', server)
            BY <2>2, <2>4 DEF SeekInv, Leafed
        <2> QED
            BY <1>2, <2>5 DEF SeekInv
    <1> QED
        BY <1>3, <1>4

LEMMA TheQuestionAsked ==
    ASSUME NEW p, NEW query, NEW offset
    PROVE  S!Ask(p, query, offset)
               = [p EXCEPT !.query = query, !.offset = offset,
                           !.hook = IF <<query, offset>> = p.hook.question THEN p.hook
                                    ELSE U!Effect(p.hook, <<query, offset>>, FALSE)]
    BY SearchHook DEF S!Ask, S!Question

LEMMA SeekAsks ==
    ASSUME SeekInv, NEW p, SearchPageOf(p), p.hook = page.hook, p.testo = page.testo,
           p.viste = page.viste, NEW query \in S!Texts, NEW offset \in Multiples(SearchPage),
           page' = S!Ask(p, query, offset), server' = server
    PROVE  SeekInv'
    <1> DEFINE q == <<query, offset>>
               e == U!Effect(page.hook, q, FALSE)
               h == IF q = page.hook.question THEN page.hook ELSE e
    <1>1. \A a \in e.reads : a.dato = NoDato
        BY AnyAsked DEF Waits
    <1>2. page' = [p EXCEPT !.query = query, !.offset = offset, !.hook = h]
        BY TheQuestionAsked
    <1>3. h = e \/ h = page.hook
        OBVIOUS
    <1> HIDE DEF h, e
    <1>4. /\ page'.hook = h /\ page'.query = query /\ page'.offset = offset
          /\ page'.testo = page.testo /\ page'.viste = page.viste
        BY <1>2 DEF SearchPageOf
    <1>5. Leafed(page', server)
        BY <1>1, <1>3, <1>4 DEF SeekInv, Leafed
    <1> QED
        BY <1>5 DEF SeekInv

LEMMA SeekByHand ==
    ASSUME SearchInv, SeekInv,
           (\E t \in S!Texts : S!Scrivi(t)) \/ S!Scade \/ S!Precedenti \/ S!Successive
    PROVE  SeekInv'
    <1>1. SearchPageOf(page) /\ server' = server
        BY DEF SearchInv, S!Scrivi, S!Scade, S!Precedenti, S!Successive
    <1>2. /\ page.testo \in S!Texts /\ page.query \in S!Texts
          /\ page.offset \in Multiples(SearchPage)
        BY DEF SeekInv, Leafed
    <1>3. /\ page.offset \in Nat /\ 0 \in Multiples(SearchPage) /\ SearchPage \in Nat
          /\ page.offset + SearchPage \in Multiples(SearchPage)
          /\ page.offset # 0 => page.offset >= SearchPage
                                  /\ page.offset - SearchPage \in Multiples(SearchPage)
        BY <1>2, PagesAssumption, MultiplesFollow
    <1>4. S!Pronto => S!Risultato.offset = page.offset
        BY DEF SearchInv, Answers, S!Pronto, S!Risultato
    <1>5. CASE \E t \in S!Texts : S!Scrivi(t)
        <2>1. PICK t \in S!Texts : page' = [page EXCEPT !.testo = t, !.timer = TRUE]
            BY <1>5 DEF S!Scrivi
        <2>2. /\ page'.hook = page.hook /\ page'.query = page.query /\ page'.testo = t
              /\ page'.offset = page.offset /\ page'.viste = page.viste
            BY <1>1, <2>1 DEF SearchPageOf
        <2>3. Leafed(page', server)
            BY <2>2 DEF SeekInv, Leafed
        <2> QED
            BY <1>1, <2>3 DEF SeekInv
    <1>6. CASE S!Scade
        <2> DEFINE spento == FALSE
                   p == [page EXCEPT !.timer = spento]
        <2>1. page' = S!Ask(p, page.testo, 0)
            BY <1>6 DEF S!Scade
        <2>2. spento \in BOOLEAN
            OBVIOUS
        <2> HIDE DEF spento
        <2>3. SearchPageOf(p) /\ p.hook = page.hook /\ p.testo = page.testo /\ p.viste = page.viste
            BY <1>1, <2>2 DEF SearchPageOf
        <2> HIDE DEF p
        <2> QED
            BY <1>1, <1>2, <1>3, <2>1, <2>3, SeekAsks
    <1>7. CASE S!Precedenti
        <2>1. /\ page' = S!Ask(page, page.query, S!Max({0, page.offset - SearchPage}))
              /\ page.offset # 0
            BY <1>4, <1>7 DEF S!Precedenti
        <2> DEFINE o == page.offset - SearchPage
        <2>2. o \in Multiples(SearchPage) /\ o \in Nat
            BY <1>3, <2>1
        <2>3. S!Max({0, o}) = o
            BY <2>2, MostOfTwo
        <2> QED
            BY <1>1, <1>2, <2>1, <2>2, <2>3, SeekAsks
    <1>8. CASE S!Successive
        <2>1. page' = S!Ask(page, page.query, page.offset + SearchPage)
            BY <1>4, <1>8 DEF S!Successive
        <2> QED
            BY <1>1, <1>2, <1>3, <2>1, SeekAsks
    <1> QED
        BY <1>5, <1>6, <1>7, <1>8

LEMMA SeekStep ==
    ASSUME SearchInv, SeekInv, S!Next
    PROVE  SeekInv'
    BY SeekDeletes, SeekServes, SeekAnswers, SeekByHand DEF S!Next

LEMMA SeekSafe == ScreensSpec => [](route = "cerca" => SearchInv /\ SeekInv)
    <1>1. Init => (route = "cerca" => SearchInv /\ SeekInv)
        BY SearchInit, SeekInit DEF Init
    <1>2. (route = "cerca" => SearchInv /\ SeekInv) /\ [Next]_screensVars
              => (route = "cerca" => SearchInv /\ SeekInv)'
        <2> SUFFICES ASSUME route = "cerca", SearchInv, SeekInv, [Next]_screensVars
                     PROVE  (SearchInv /\ SeekInv)'
            BY RouteStays
        <2>1. CASE S!Next
            BY <2>1, SearchStep, SeekStep
        <2>2. CASE UNCHANGED <<server, page>>
            BY <2>2 DEF SearchInv, SeekInv
        <2> QED
            BY <2>1, <2>2
            DEF Next, screensVars, Cestino, Lista, Elenco, Conto, Scheda, Revisione, Cerca, Redazione
    <1> QED
        BY <1>1, <1>2, PTL DEF ScreensSpec

\* Two pages of one ranking have no card in common.
LEMMA WindowsApart ==
    ASSUME NEW canali \in Rankings, NEW q \in Queries, NEW via,
           NEW a \in Multiples(SearchPage), NEW b \in Multiples(SearchPage), a # b
    PROVE  Window(canali, q, via, a) \cap Window(canali, q, via, b) = {}
    <1> DEFINE fuse == Fusion(canali, q, via)
               m == Servibili(canali, q, via)
               p == SearchPage
               ea == S!Min({a + p, m})
               eb == S!Min({b + p, m})
    <1>1. Listing(fuse) /\ m \in Nat /\ m <= Len(fuse)
        BY TheRankingTold
    <1>2. p \in Nat \ {0} /\ a \in Nat /\ b \in Nat /\ (a + p <= b \/ b + p <= a)
        <2>1. p \in Nat \ {0}
            BY PagesAssumption
        <2>2. a \in Nat /\ b \in Nat
            BY <2>1, MultiplesFollow
        <2> QED
            BY <2>1, <2>2, MultiplesApart
    <1>3. ea \in Int /\ ea <= a + p /\ ea <= m /\ eb \in Int /\ eb <= b + p /\ eb <= m
        BY <1>1, <1>2, LeastOfTwo
    <1> HIDE DEF fuse, m, p, ea, eb
    <1>4. \A i \in (a + 1)..ea, j \in (b + 1)..eb : i # j /\ i \in DOMAIN fuse /\ j \in DOMAIN fuse
        BY <1>1, <1>2, <1>3 DEF Listing
    <1>5. \A i \in (a + 1)..ea, j \in (b + 1)..eb : fuse[i] # fuse[j]
        BY <1>1, <1>4 DEF Listing
    <1> QED
        BY <1>5 DEF Window, fuse, m, p, ea, eb

\* The pages seen one after the other, up to one that has no next, are the ranking.
LEMMA AllIsSeen ==
    ASSUME NEW viste, NEW s, s.canali \in Rankings, NEW q \in Queries,
           \A v \in viste : /\ OnTheRanking(v, s) /\ v.q = q /\ v.via = s.via,
           S!SeenWhole(viste)
    PROVE  S!Cardinality(UNION {S!Range(v.items) : v \in viste}) = Servibili(s.canali, q, s.via)
    <1> DEFINE fuse == Fusion(s.canali, q, s.via)
               m == Servibili(s.canali, q, s.via)
               p == SearchPage
               end(o) == S!Min({o + p, m})
               met == UNION {S!Range(v.items) : v \in viste}
               f == [i \in 1..m |-> fuse[i]]
    <1>1. Listing(fuse) /\ m \in Nat /\ m <= Len(fuse) /\ p \in Nat \ {0}
        BY TheRankingTold, PagesAssumption
    <1>2. \A v \in viste : /\ v.offset \in Multiples(p)
                           /\ S!Range(v.items) = Window(s.canali, q, s.via, v.offset)
                           /\ v.hasMore <=> m > v.offset + p
        BY DEF OnTheRanking
    <1>3. \A o : Window(s.canali, q, s.via, o) = {fuse[i] : i \in (o + 1)..end(o)}
        BY DEF Window
    <1>4. \A o \in Nat : end(o) = IF o + p <= m THEN o + p ELSE m
        BY <1>1, LeastOfTwo
    <1>5. \A o \in Multiples(p) : o \in Nat /\ o % p = 0
        BY <1>1, MultiplesFollow
    <1> HIDE DEF fuse, m, p, end
    <1>6. PICK u \in viste : ~u.hasMore /\ \A o \in 0..u.offset :
                                  o % p = 0 => \E w \in viste : w.offset = o
        BY DEF S!SeenWhole, p
    <1>7. \A i \in 1..m : fuse[i] \in met
        <2> SUFFICES ASSUME NEW i \in 1..m
                     PROVE  fuse[i] \in met
            OBVIOUS
        <2>1. i - 1 \in Nat /\ i \in Int /\ i <= m
            BY <1>1
        <2>2. PICK a \in Multiples(p) : a <= i - 1 /\ i - 1 < a + p
            BY <1>1, <2>1, EveryPlaceHasAMultiple
        <2>3. a \in Nat /\ a % p = 0 /\ u.offset \in Nat /\ u.offset \in Multiples(p)
            BY <1>2, <1>5
        <2>4. ~(m > u.offset + p)
            BY <1>2, <1>6
        <2>5. a <= u.offset
            <3>1. u.offset < a => u.offset + p <= a
                BY <1>1, <2>3, MultiplesApart
            <3> QED
                BY <1>1, <2>1, <2>2, <2>3, <2>4, <3>1
        <2>6. a \in 0..u.offset
            BY <2>3, <2>5
        <2>7. PICK w \in viste : w.offset = a
            BY <1>6, <2>3, <2>6
        <2>8. i \in (a + 1)..end(a)
            BY <1>1, <1>4, <2>1, <2>2, <2>3
        <2>9. S!Range(w.items) = {fuse[j] : j \in (a + 1)..end(a)}
            BY <1>2, <1>3, <2>7
        <2> QED
            BY <2>8, <2>9
    <1>8. \A c \in met : \E i \in 1..m : c = fuse[i]
        <2> SUFFICES ASSUME NEW v \in viste, NEW c \in S!Range(v.items)
                     PROVE  \E i \in 1..m : c = fuse[i]
            OBVIOUS
        <2> DEFINE o == v.offset
        <2>1. S!Range(v.items) = {fuse[j] : j \in (o + 1)..end(o)} /\ o \in Nat
            BY <1>2, <1>3, <1>5
        <2>2. PICK j \in (o + 1)..end(o) : c = fuse[j]
            BY <2>1
        <2>3. j \in 1..m
            BY <1>1, <1>4, <2>1, <2>2
        <2> QED
            BY <2>2, <2>3
    <1>9. f \in Bijection(1..m, met)
        <2>1. \A i, j \in 1..m : fuse[i] = fuse[j] => i = j
            BY <1>1 DEF Listing
        <2> HIDE DEF met
        <2>2. f \in [1..m -> met] /\ \A i \in 1..m : f[i] = fuse[i]
            BY <1>7
        <2> HIDE DEF f
        <2> QED
            BY <1>8, <2>1, <2>2 DEF Bijection, Injection, Surjection, IsInjective
    <1>10. IsFiniteSet(1..m) /\ Cardinality(1..m) = m
        BY <1>1, FS_Interval
    <1> HIDE DEF met, f
    <1>11. Cardinality(met) = m
        BY <1>9, <1>10, FS_Bijection DEF ExistsBijection
    <1>12. S!Cardinality(met) = m
        BY <1>11, SameCountSearch
    <1> QED
        BY <1>12 DEF met, m

LEMMA SeekingTold ==
    ASSUME SeekInv
    PROVE  S!PagesPartitionTheRanking
    <1> DEFINE met == UNION {S!Range(v.items) : v \in page.viste}
               ranked(q) == (S!Range(server.canali[q].testo) \cup S!Range(server.canali[q].senso))
                                \ server.via
    <1>1. /\ \A v \in page.viste : OnTheRanking(v, server)
          /\ \A v, w \in page.viste : v.q = w.q /\ v.via = w.via
          /\ server.canali \in Rankings
        BY DEF SeekInv, Leafed, ServerOf
    <1>2. ASSUME NEW v \in page.viste, NEW w \in page.viste, v.offset # w.offset
          PROVE  S!Range(v.items) \cap S!Range(w.items) = {}
        <2>1. /\ v.q \in Queries /\ v.offset \in Multiples(SearchPage)
              /\ S!Range(v.items) \subseteq Window(server.canali, v.q, v.via, v.offset)
            BY <1>1 DEF OnTheRanking
        <2>2. /\ w.offset \in Multiples(SearchPage)
              /\ S!Range(w.items) \subseteq Window(server.canali, v.q, v.via, w.offset)
            BY <1>1 DEF OnTheRanking
        <2>3. Window(server.canali, v.q, v.via, v.offset)
                  \cap Window(server.canali, v.q, v.via, w.offset) = {}
            BY <1>1, <1>2, <2>1, <2>2, WindowsApart
        <2> QED
            BY <2>1, <2>2, <2>3
    <1>3. ASSUME NEW v \in page.viste, v.via = server.via, S!SeenWhole(page.viste)
          PROVE  S!Cardinality(met) = S!Min({SEARCH_MAX_DEPTH, S!Cardinality(ranked(v.q))})
        <2>1. v.q \in Queries
            BY <1>1 DEF OnTheRanking
        <2>2. \A w \in page.viste : OnTheRanking(w, server) /\ w.q = v.q /\ w.via = server.via
            BY <1>1, <1>3
        <2>3. S!Cardinality(met) = Servibili(server.canali, v.q, server.via)
            BY <1>1, <1>3, <2>1, <2>2, AllIsSeen
        <2>4. Servibili(server.canali, v.q, server.via)
                  = S!Min({SEARCH_MAX_DEPTH, Cardinality(ranked(v.q))})
            <3> DEFINE canali == server.canali
                       q == v.q
                       via == server.via
            <3>1. canali \in Rankings /\ q \in Queries
                BY <1>1, <2>1
            <3> HIDE DEF canali, q, via
            <3>2. Servibili(canali, q, via)
                      = S!Min({SEARCH_MAX_DEPTH,
                           Cardinality((S!Range(canali[q].testo) \cup S!Range(canali[q].senso)) \ via)})
                BY <3>1, TheRankingTold
            <3> QED
                BY <3>2 DEF canali, q, via
        <2> QED
            BY <2>3, <2>4, SameCountSearch
    <1> QED
        BY <1>2, <1>3 DEF S!PagesPartitionTheRanking

(* ListScreen and SearchScreen: leafing through the pages, no card is met  *)
(* twice, and who has come to the last page has met every card: of the     *)
(* list, as long as nobody changes one, and of the one ranking of a        *)
(* search, as long as nobody deletes one and the sense answers, down to    *)
(* the depth it is fused to.                                               *)
THEOREM LeafingMeetsEveryCardOnce == ScreensSpec => []PagesNeitherSkipNorRepeat
    <1>1. /\ (route = "elenco" => ListInv /\ LeafInv)
          /\ (route = "cerca" => SearchInv /\ SeekInv)
        => PagesNeitherSkipNorRepeat
        BY LeafingTold, SeekingTold DEF PagesNeitherSkipNorRepeat
    <1> QED
        BY <1>1, LeafSafe, SeekSafe, PTL

------------------------------------------------------------------------------
(* Steps in a row, by the least that fails. *)

LEMMA Smallest ==
    ASSUME NEW X \in SUBSET Nat, X # {}
    PROVE  \E x \in X : \A y \in X : x <= y
    <1> DEFINE Less == OpToRel(<, Nat)
    <1>1. \A x, y \in Nat : y < x => <<y, x>> \in Less
        BY DEF OpToRel
    <1>2. IsWellFoundedOn(Less, Nat)
        BY NatLessThanWellFounded
    <1> HIDE DEF Less
    <1>3. \E x \in X : \A y \in X : ~ (<<y, x>> \in Less)
        BY <1>2, WFMin
    <1>4. PICK x \in X : \A y \in X : ~ (<<y, x>> \in Less)
        BY <1>3
    <1>5. ASSUME NEW y \in X
          PROVE  x <= y
        <2>1. x \in Nat /\ y \in Nat /\ ~(y < x)
            BY <1>1, <1>4
        <2> QED
            BY <2>1
    <1> QED
        BY <1>5

LEMMA Induction ==
    ASSUME NEW K, 0 \in K, \A n \in Nat : n \in K => n + 1 \in K
    PROVE  Nat \subseteq K
    <1> SUFFICES ASSUME Nat \ K # {}
                 PROVE  FALSE
        OBVIOUS
    <1>1. PICK x \in Nat \ K : \A y \in Nat \ K : x <= y
        BY Smallest
    <1>2. x - 1 \in Nat /\ x - 1 \in K
        BY <1>1
    <1> QED
        BY <1>1, <1>2

\* A function told step by step is there, however many the steps.
ByIterating(g, m, base, step) ==
    /\ DOMAIN g = 0..m
    /\ g[0] = base
    /\ \A n \in 1..m : g[n] = step[<<n, g[n - 1]>>]

LEMMA Iterates ==
    ASSUME NEW X, NEW base \in X, NEW step \in [Nat \X X -> X], NEW m \in Nat
    PROVE  \E g \in [0..m -> X] : ByIterating(g, m, base, step)
    <1> DEFINE K == {k \in Nat : \E g \in [0..k -> X] : ByIterating(g, k, base, step)}
    <1>1. 0 \in K
        <2> DEFINE g == [n \in 0..0 |-> base]
        <2>1. g \in [0..0 -> X] /\ ByIterating(g, 0, base, step)
            BY DEF ByIterating
        <2> HIDE DEF g
        <2> QED
            BY <2>1
    <1>2. ASSUME NEW k \in Nat, k \in K
          PROVE  k + 1 \in K
        <2>1. PICK f \in [0..k -> X] : ByIterating(f, k, base, step)
            BY <1>2
        <2> DEFINE next == step[<<k + 1, f[k]>>]
                   g == [n \in 0..(k + 1) |-> IF n = k + 1 THEN next ELSE f[n]]
        <2>2. f[k] \in X /\ k + 1 \in Nat
            OBVIOUS
        <2>3. next \in X
            BY <2>2
        <2> HIDE DEF next
        <2>4. g \in [0..(k + 1) -> X]
            BY <2>3
        <2>5. g[0] = base
            BY <2>1 DEF ByIterating
        <2>6. ASSUME NEW n \in 1..(k + 1)
              PROVE  g[n] = step[<<n, g[n - 1]>>]
            <3>1. n \in 0..(k + 1) /\ n - 1 \in 0..(k + 1) /\ n - 1 # k + 1 /\ n \in Nat
                OBVIOUS
            <3>2. g[n - 1] = f[n - 1]
                BY <3>1
            <3>3. CASE n = k + 1
                <4>1. n - 1 = k /\ g[n] = next
                    BY <3>1, <3>3
                <4> HIDE DEF g
                <4> QED
                    BY <3>2, <3>3, <4>1 DEF next
            <3>4. CASE n # k + 1
                <4>1. g[n] = f[n] /\ n \in 1..k
                    BY <3>1, <3>4
                <4> HIDE DEF g
                <4> QED
                    BY <2>1, <3>2, <4>1 DEF ByIterating
            <3> QED
                BY <3>3, <3>4
        <2>7. DOMAIN g = 0..(k + 1)
            OBVIOUS
        <2> HIDE DEF g
        <2> QED
            BY <2>4, <2>5, <2>6, <2>7 DEF ByIterating
    <1> HIDE DEF K
    <1>3. m \in K
        BY <1>1, <1>2, Induction
    <1> QED
        BY <1>3 DEF K

------------------------------------------------------------------------------
(* RedactionScreen: where the stretches of a text are. *)

LEMMA SameCountRedaction == \A X : R!Cardinality(X) = Cardinality(X)
    BY DEF Cardinality, R!Cardinality

\* A stretch of text is of one word at least.
Tratti == [start : Nat, len : Nat \ {0}, kind : STRING]

Apart(tratti) == \A s, t \in tratti : R!Overlap(s, t) => s = t

\* No two of those that were there before may overlap; who comes in overlaps none.
Grown(presi, candidati, tratti) ==
    /\ presi \subseteq tratti /\ tratti \subseteq presi \cup candidati
    /\ Apart(tratti)

LEMMA GreedyKeepsApart ==
    ASSUME NEW presi \in SUBSET Tratti, NEW candidati \in SUBSET Tratti, NEW prima,
           IsFiniteSet(candidati), Apart(presi)
    PROVE  Grown(presi, candidati, R!Greedy(presi, candidati, prima))
    <1> DEFINE m == R!Cardinality(candidati)
               liberi(tratti) == {c \in candidati : \A s \in tratti : ~R!Overlap(s, c)}
               primi(tratti) == {c \in liberi(tratti) : \A d \in liberi(tratti) : <<d, c>> \notin prima}
               more(tratti) == tratti \cup (IF primi(tratti) = {} THEN {}
                                               ELSE {CHOOSE c \in primi(tratti) : TRUE})
               X == SUBSET (presi \cup candidati)
               step == [p \in Nat \X X |-> more(p[2])]
               scelti == CHOOSE g : g = [n \in 0..m |-> IF n = 0 THEN presi ELSE more(g[n - 1])]
    <1>1. m \in Nat
        BY FS_CardinalityType, SameCountRedaction
    <1>2. R!Greedy(presi, candidati, prima) = scelti[m]
        BY DEF R!Greedy
    <1>3. \A tratti \in X : /\ more(tratti) \in X
                            /\ tratti \subseteq more(tratti)
                            /\ Apart(tratti) => Apart(more(tratti))
        <2> SUFFICES ASSUME NEW tratti \in X
                     PROVE  /\ more(tratti) \in X
                            /\ tratti \subseteq more(tratti)
                            /\ Apart(tratti) => Apart(more(tratti))
            OBVIOUS
        <2>1. CASE primi(tratti) = {}
            <3>1. more(tratti) = tratti
                BY <2>1
            <3> QED
                BY <3>1
        <2>2. CASE primi(tratti) # {}
            <3> DEFINE c == CHOOSE c \in primi(tratti) : TRUE
            <3>1. c \in primi(tratti)
                BY <2>2
            <3>2. more(tratti) = tratti \cup {c}
                BY <2>2
            <3>3. c \in liberi(tratti)
                BY <3>1
            <3> HIDE DEF c, primi, more
            <3>4. c \in candidati /\ \A s \in tratti : ~R!Overlap(s, c)
                BY <3>3
            <3>5. \A s \in tratti : R!Overlap(c, s) => R!Overlap(s, c)
                BY DEF R!Overlap
            <3> HIDE DEF liberi
            <3>6. Apart(tratti) => Apart(tratti \cup {c})
                BY <3>4, <3>5 DEF Apart
            <3> QED
                BY <3>2, <3>4, <3>6
        <2> QED
            BY <2>1, <2>2
    <1> HIDE DEF liberi, primi, more, m
    <1>4. presi \in X /\ step \in [Nat \X X -> X]
        BY <1>3
    <1>5. \A n \in Nat, tratti \in X : step[<<n, tratti>>] = more(tratti)
        OBVIOUS
    <1> HIDE DEF X, step
    <1>6. PICK f \in [0..m -> X] : ByIterating(f, m, presi, step)
        BY <1>1, <1>4, Iterates
    <1>7. f = [n \in 0..m |-> IF n = 0 THEN presi ELSE more(f[n - 1])]
        <2>1. ASSUME NEW n \in 0..m, n # 0
              PROVE  f[n] = more(f[n - 1])
            <3>1. n \in 1..m /\ n \in Nat /\ n - 1 \in 0..m
                BY <1>1, <2>1
            <3>2. f[n - 1] \in X
                BY <3>1
            <3> QED
                BY <1>5, <1>6, <3>1, <3>2 DEF ByIterating
        <2>2. f[0] = presi
            BY <1>6 DEF ByIterating
        <2> QED
            BY <2>1, <2>2
    <1>8. scelti = [n \in 0..m |-> IF n = 0 THEN presi ELSE more(scelti[n - 1])]
        BY <1>7
    <1> HIDE DEF scelti
    <1>9. scelti[0] = presi /\ \A n \in 1..m : scelti[n] = more(scelti[n - 1])
        <2>1. 0 \in 0..m /\ \A n \in 1..m : n \in 0..m /\ n # 0
            BY <1>1
        <2> QED
            BY <1>8, <2>1
    <1> DEFINE P == {n \in Nat : n <= m => scelti[n] \in X /\ Grown(presi, candidati, scelti[n])}
    <1>10. 0 \in P
        BY <1>4, <1>9 DEF Grown, X
    <1>11. ASSUME NEW n \in Nat, n \in P
           PROVE  n + 1 \in P
        <2> SUFFICES ASSUME n + 1 <= m
                     PROVE  scelti[n + 1] \in X /\ Grown(presi, candidati, scelti[n + 1])
            OBVIOUS
        <2>1. n <= m /\ n + 1 \in 1..m /\ (n + 1) - 1 = n
            BY <1>1
        <2>2. scelti[n] \in X /\ Grown(presi, candidati, scelti[n])
            BY <1>11, <2>1
        <2>3. scelti[n + 1] = more(scelti[n])
            BY <1>9, <2>1
        <2> QED
            BY <1>3, <2>2, <2>3 DEF Grown, X
    <1> HIDE DEF P
    <1>12. m \in P
        BY <1>1, <1>10, <1>11, Induction
    <1> QED
        BY <1>1, <1>2, <1>12 DEF P

\* Where what is looked for is found.
FoundAt(testo, d, t) ==
    /\ t.start \in R!Occorrenze(testo, d.valore) /\ t.start + t.len <= Len(testo) + 1
    /\ t.start >= 1 /\ t.kind = d.kind /\ t.len = Len(d.valore)
    /\ R!Slice(testo, t.start, t.len) = d.valore

SomeWords(d) == d.kind \in STRING /\ d.valore \in Seq(STRING) /\ d.valore # <<>>

LEMMA StretchTold ==
    ASSUME NEW testo \in Seq(STRING), NEW d, SomeWords(d), NEW i \in R!Occorrenze(testo, d.valore)
    PROVE  LET t == R!Tratto(i, d.valore, d.kind)
           IN t \in Tratti /\ FoundAt(testo, d, t) /\ t.start = i /\ i \in 1..Len(testo)
    <1> DEFINE t == R!Tratto(i, d.valore, d.kind)
               len == Len(d.valore)
    <1>1. len \in Nat \ {0} /\ d.kind \in STRING /\ Len(testo) \in Nat
        BY DEF SomeWords
    <1>2. i \in 1..(Len(testo) - len + 1) /\ R!Slice(testo, i, len) = d.valore
        BY DEF R!Occorrenze
    <1>3. t.start = i /\ t.len = len /\ t.kind = d.kind
        BY DEF R!Tratto
    <1>4. t = [start |-> i, len |-> len, kind |-> d.kind]
        BY DEF R!Tratto
    <1> HIDE DEF t, len
    <1>5. i \in Nat /\ i >= 1 /\ i + len <= Len(testo) + 1 /\ i \in 1..Len(testo)
        BY <1>1, <1>2
    <1>6. t \in Tratti
        BY <1>1, <1>4, <1>5 DEF Tratti
    <1> QED
        BY <1>2, <1>3, <1>5, <1>6 DEF FoundAt, t, len

\* What is found of what is looked for.
Findings(testo, cercati) ==
    UNION {{R!Tratto(i, d.valore, d.kind) : i \in R!Occorrenze(testo, d.valore)} : d \in cercati}

LEMMA FindingsTold ==
    ASSUME NEW testo \in Seq(STRING), NEW cercati, IsFiniteSet(cercati),
           \A d \in cercati : SomeWords(d)
    PROVE  /\ Findings(testo, cercati) \in SUBSET Tratti
           /\ IsFiniteSet(Findings(testo, cercati))
           /\ \A t \in Findings(testo, cercati) : \E d \in cercati : FoundAt(testo, d, t)
    <1> DEFINE fall == {p \in cercati \X (1..Len(testo)) : p[2] \in R!Occorrenze(testo, p[1].valore)}
               found == Findings(testo, cercati)
               f == [p \in fall |-> R!Tratto(p[2], p[1].valore, p[1].kind)]
    <1>1. \A t \in found : \E d \in cercati : \E i \in R!Occorrenze(testo, d.valore) :
              t = R!Tratto(i, d.valore, d.kind)
        BY DEF Findings
    <1>2. \A d \in cercati : \A i \in R!Occorrenze(testo, d.valore) :
              /\ R!Tratto(i, d.valore, d.kind) \in found
              /\ R!Tratto(i, d.valore, d.kind) \in Tratti
              /\ FoundAt(testo, d, R!Tratto(i, d.valore, d.kind))
              /\ i \in 1..Len(testo)
        BY StretchTold DEF Findings
    <1>3. IsFiniteSet(fall)
        <2>1. IsFiniteSet(1..Len(testo))
            BY FS_Interval
        <2>2. IsFiniteSet(cercati \X (1..Len(testo)))
            BY <2>1, FS_Product
        <2> QED
            BY <2>2, FS_Subset
    <1> HIDE DEF found
    <1>4. f \in Surjection(fall, found)
        <2>1. \A p \in fall : f[p] \in found
            BY <1>2
        <2>2. ASSUME NEW t \in found
              PROVE  \E p \in fall : f[p] = t
            <3>1. PICK d \in cercati : \E i \in R!Occorrenze(testo, d.valore) :
                      t = R!Tratto(i, d.valore, d.kind)
                BY <1>1
            <3>2. PICK i \in R!Occorrenze(testo, d.valore) : t = R!Tratto(i, d.valore, d.kind)
                BY <3>1
            <3>3. <<d, i>> \in fall
                BY <1>2, <3>2
            <3>4. f[<<d, i>>] = t
                BY <3>2, <3>3
            <3> QED
                BY <3>3, <3>4
        <2> QED
            BY <2>1, <2>2 DEF Surjection
    <1>5. IsFiniteSet(found)
        BY <1>3, <1>4, FS_Surjection
    <1>6. found \in SUBSET Tratti /\ \A t \in found : \E d \in cercati : FoundAt(testo, d, t)
        BY <1>1, <1>2
    <1> QED
        BY <1>5, <1>6 DEF found

LEMMA WordsToFind == \A d \in Dati \cup Segnali : SomeWords(d)
    BY TestiAssumption DEF SomeWords

LEMMA DetectedTold ==
    ASSUME NEW testo \in Seq(STRING)
    PROVE  LET detected == R!DetectSensitive(testo)
           IN /\ detected \in SUBSET Tratti /\ IsFiniteSet(detected) /\ Apart(detected)
              /\ \A t \in detected : \E d \in Dati : FoundAt(testo, d, t)
    <1> DEFINE candidati == Findings(testo, Dati)
               before(a, b) ==
                   \/ R!Priorita(a.kind) < R!Priorita(b.kind)
                   \/ /\ R!Priorita(a.kind) = R!Priorita(b.kind)
                      /\ a.start < b.start \/ (a.start = b.start /\ a.len > b.len)
               prima == {p \in candidati \X candidati : before(p[1], p[2])}
    <1>1. R!DetectSensitive(testo) = R!Greedy({}, candidati, prima)
        BY DEF R!DetectSensitive, Findings
    <1>2. /\ candidati \in SUBSET Tratti /\ IsFiniteSet(candidati)
          /\ \A t \in candidati : \E d \in Dati : FoundAt(testo, d, t)
        BY FindingsTold, WordsToFind, TestiAssumption
    <1> HIDE DEF candidati, prima
    <1>3. {} \in SUBSET Tratti /\ Apart({})
        BY DEF Apart
    <1>4. Grown({}, candidati, R!Greedy({}, candidati, prima))
        BY <1>2, <1>3, GreedyKeepsApart
    <1>5. R!DetectSensitive(testo) \in SUBSET candidati /\ Apart(R!DetectSensitive(testo))
        BY <1>1, <1>4 DEF Grown
    <1> QED
        BY <1>2, <1>5, FS_Subset

LEMMA AssistedTold ==
    ASSUME NEW testo \in Seq(STRING), NEW campo, NEW findings \in SUBSET Segnali
    PROVE  LET assisted == R!Assistite(campo, testo, findings)
           IN /\ assisted \in SUBSET Tratti
              /\ assisted \cap R!Occupati(testo) = {}
              /\ Apart(R!Occupati(testo) \cup assisted)
              /\ \A t \in assisted : \E d \in Segnali : FoundAt(testo, d, t)
    <1> DEFINE cercati == {x \in findings : x.campo = campo}
               candidati == Findings(testo, cercati)
               before(a, b) == a.len > b.len \/ (a.len = b.len /\ a.start < b.start)
               prima == {p \in candidati \X candidati : before(p[1], p[2])}
               presi == R!Occupati(testo)
    <1>1. R!Assistite(campo, testo, findings) = R!Greedy(presi, candidati, prima) \ presi
        BY DEF R!Assistite, Findings
    <1>2. IsFiniteSet(cercati) /\ cercati \in SUBSET Segnali
        BY TestiAssumption, FS_Subset
    <1> HIDE DEF cercati
    <1>3. /\ candidati \in SUBSET Tratti /\ IsFiniteSet(candidati)
          /\ \A t \in candidati : \E d \in cercati : FoundAt(testo, d, t)
        BY <1>2, FindingsTold, WordsToFind
    <1>4. presi \in SUBSET Tratti /\ Apart(presi)
        BY DetectedTold DEF R!Occupati
    <1> HIDE DEF candidati, prima, presi
    <1>5. Grown(presi, candidati, R!Greedy(presi, candidati, prima))
        BY <1>3, <1>4, GreedyKeepsApart
    <1>6. R!Greedy(presi, candidati, prima)
              = presi \cup R!Assistite(campo, testo, findings)
        BY <1>1, <1>5 DEF Grown
    <1>7. R!Assistite(campo, testo, findings) \subseteq candidati
        BY <1>1, <1>5 DEF Grown
    <1> QED
        BY <1>1, <1>2, <1>3, <1>5, <1>6, <1>7 DEF Grown, presi

------------------------------------------------------------------------------
(* RedactionScreen: the proposals of a row that has not changed. *)

Righe == [R!Campi -> Seq(STRING)]

\* The stretches a report of a row was made of.
Tagli(riga, findings, campo) ==
    R!Occupati(riga[campo]) \cup R!Assistite(campo, riga[campo], findings)

\* A proposal, and the one stretch of the row it stands for.
Shown(riga, p, t) ==
    LET campo == p.id.campo
        parole == R!Slice(riga[campo], t.start, t.len)
    IN /\ campo \in R!Campi /\ t \in Tratti
       /\ R!TrattoDi(riga, p.id) = {t}
       /\ p.valore = parole
       /\ p.id = R!Id(campo, t, IF t \in R!Occupati(riga[campo]) THEN R!Certa ELSE parole)
       /\ t \notin R!Occupati(riga[campo]) => parole \in Seq(STRING) /\ parole # <<>>

LEMMA SameStartOverlaps ==
    ASSUME NEW s \in Tratti, NEW t \in Tratti, s.start = t.start
    PROVE  R!Overlap(s, t)
    BY DEF R!Overlap, Tratti

LEMMA CertainFalls ==
    ASSUME NEW riga \in Righe, NEW p \in R!ProposteDi(riga)
    PROVE  /\ p.id.campo \in R!Campi
           /\ \E t \in R!Occupati(riga[p.id.campo]) : Shown(riga, p, t)
    <1>1. PICK campo \in R!Campi : \E t \in R!DetectSensitive(riga[campo]) :
              p = R!Proposta(campo, t, riga[campo], R!Certa)
        BY DEF R!ProposteDi
    <1> DEFINE testo == riga[campo]
               detected == R!DetectSensitive(testo)
    <1>2. testo \in Seq(STRING)
        BY DEF Righe
    <1> HIDE DEF testo
    <1>3. PICK t \in detected : p = R!Proposta(campo, t, testo, R!Certa)
        BY <1>1 DEF testo
    <1>4. /\ p.id = R!Id(campo, t, R!Certa) /\ p.id.campo = campo /\ p.id.start = t.start
          /\ p.id.kind = t.kind /\ p.id.parole = R!Certa
          /\ p.valore = R!Slice(testo, t.start, t.len)
        BY <1>3 DEF R!Proposta, R!Id
    <1>5. detected \in SUBSET Tratti /\ Apart(detected)
        BY <1>2, DetectedTold
    <1> HIDE DEF detected
    <1>6. {u \in detected : u.start = t.start /\ u.kind = t.kind} = {t}
        BY <1>5, SameStartOverlaps DEF Apart
    <1>7. R!TrattoDi(riga, p.id) = {t}
        BY <1>4, <1>6 DEF R!TrattoDi, testo, detected
    <1>8. t \in R!Occupati(testo) /\ t \in Tratti
        BY <1>5 DEF R!Occupati, detected
    <1> QED
        BY <1>4, <1>7, <1>8 DEF Shown, testo

LEMMA AssistedFalls ==
    ASSUME NEW riga \in Righe, NEW findings \in SUBSET Segnali,
           NEW p \in R!ProposteAssistiteDi(riga, findings)
    PROVE  /\ p.id.campo \in R!Campi
           /\ \E t \in R!Assistite(p.id.campo, riga[p.id.campo], findings) : Shown(riga, p, t)
    <1>1. PICK campo \in R!Campi : \E t \in R!Assistite(campo, riga[campo], findings) :
              p = R!Proposta(campo, t, riga[campo], R!Slice(riga[campo], t.start, t.len))
        BY DEF R!ProposteAssistiteDi
    <1> DEFINE testo == riga[campo]
               assisted == R!Assistite(campo, testo, findings)
    <1>2. testo \in Seq(STRING)
        BY DEF Righe
    <1> HIDE DEF testo
    <1>3. PICK t \in assisted :
              p = R!Proposta(campo, t, testo, R!Slice(testo, t.start, t.len))
        BY <1>1 DEF testo
    <1> DEFINE parole == R!Slice(testo, t.start, t.len)
    <1>4. /\ p.id = R!Id(campo, t, parole) /\ p.id.campo = campo /\ p.id.start = t.start
          /\ p.id.kind = t.kind /\ p.id.parole = parole /\ p.valore = parole
        BY <1>3 DEF R!Proposta, R!Id
    <1>5. /\ assisted \in SUBSET Tratti /\ assisted \cap R!Occupati(testo) = {}
          /\ \E d \in Segnali : FoundAt(testo, d, t)
        BY <1>2, AssistedTold
    <1> HIDE DEF assisted, parole
    <1>6. PICK d \in Segnali : FoundAt(testo, d, t)
        BY <1>5
    <1>7. parole = d.valore /\ t.start \in R!Occorrenze(testo, parole) /\ t.len = Len(parole)
        BY <1>6 DEF FoundAt, parole
    <1>8. parole \in Seq(STRING) /\ parole # <<>>
        BY <1>7, WordsToFind DEF SomeWords
    <1>9. R!Tratto(t.start, parole, t.kind) = t
        BY <1>5, <1>7 DEF R!Tratto, Tratti
    <1>10. R!TrattoDi(riga, p.id) = {t}
        BY <1>4, <1>7, <1>8, <1>9 DEF R!TrattoDi, R!Certa, testo
    <1>11. t \notin R!Occupati(testo) /\ t \in Tratti
        BY <1>5
    <1> QED
        BY <1>4, <1>8, <1>10, <1>11 DEF Shown, testo, assisted, parole

LEMMA ReportFalls ==
    ASSUME NEW riga \in Righe, NEW findings \in SUBSET Segnali,
           NEW p \in R!Report(riga, findings).proposte
    PROVE  \E t \in Tagli(riga, findings, p.id.campo) : Shown(riga, p, t)
    <1>1. p \in R!ProposteDi(riga) \/ p \in R!ProposteAssistiteDi(riga, findings)
        BY DEF R!Report
    <1> QED
        BY <1>1, CertainFalls, AssistedFalls DEF Tagli

\* The proposals of a row, chosen as one likes, are all found in it, and never
\* two in the same place.
LEMMA ReportApplies ==
    ASSUME NEW riga \in Righe, NEW findings \in SUBSET Segnali,
           NEW scelte \in SUBSET R!Report(riga, findings).proposte
    PROVE  /\ R!Applicabili(riga, {p.id : p \in scelte})
           /\ \A p \in scelte : \A t \in R!TrattoDi(riga, p.id) :
                  R!Slice(riga[p.id.campo], t.start, t.len) = p.valore
    <1>1. \A p \in scelte : \E t \in Tagli(riga, findings, p.id.campo) : Shown(riga, p, t)
        BY ReportFalls
    <1>2. ~R!Scadute(riga, {p.id : p \in scelte})
        BY <1>1 DEF R!Scadute, Shown
    <1>3. ASSUME NEW p \in scelte, NEW q \in scelte, p.id.campo = q.id.campo,
                 NEW s \in R!TrattoDi(riga, p.id), NEW t \in R!TrattoDi(riga, q.id),
                 R!Overlap(s, t)
          PROVE  p.id = q.id
        <2> DEFINE campo == p.id.campo
                   tagli == Tagli(riga, findings, campo)
        <2>1. /\ s \in tagli /\ t \in tagli /\ Shown(riga, p, s) /\ Shown(riga, q, t)
              /\ campo \in R!Campi
            BY <1>1, <1>3 DEF Shown
        <2>2. riga[campo] \in Seq(STRING)
            BY <2>1 DEF Righe
        <2>3. Apart(tagli)
            BY <2>2, AssistedTold DEF Tagli
        <2>4. s = t
            BY <1>3, <2>1, <2>3 DEF Apart
        <2> QED
            BY <1>3, <2>1, <2>4 DEF Shown
    <1>4. ~R!Sovrapposte(riga, {p.id : p \in scelte})
        BY <1>3 DEF R!Sovrapposte
    <1>5. \A p \in scelte : \A t \in R!TrattoDi(riga, p.id) :
              R!Slice(riga[p.id.campo], t.start, t.len) = p.valore
        BY <1>1 DEF Shown
    <1> QED
        BY <1>2, <1>4, <1>5 DEF R!Applicabili

------------------------------------------------------------------------------
(* RedactionScreen: what the replacements leave of a text. *)

LEMMA Replaced ==
    ASSUME NEW u \in Seq(STRING), NEW t \in Tratti, t.start >= 1, t.start + t.len <= Len(u) + 1
    PROVE  LET e == R!Replace(u, t)
           IN /\ e \in Seq(STRING) /\ Len(e) = Len(u) - t.len + 1
              /\ \A m \in 1..(t.start - 1) : e[m] = u[m]
              /\ e[t.start] = t.kind
              /\ \A m \in (t.start + t.len)..Len(u) : e[m - t.len + 1] = u[m]
    <1> DEFINE i == t.start
               len == t.len
               before == SubSeq(u, 1, i - 1)
               after == SubSeq(u, i + len, Len(u))
               e == before \o <<t.kind>> \o after
    <1>1. i \in Nat /\ len \in Nat /\ len >= 1 /\ t.kind \in STRING /\ Len(u) \in Nat
        BY DEF Tratti
    <1>2. R!Replace(u, t) = e
        BY DEF R!Replace
    <1> HIDE DEF i, len
    <1>3. i >= 1 /\ i + len <= Len(u) + 1
        BY DEF i, len
    <1>4. before \in Seq(STRING) /\ Len(before) = i - 1 /\ \A m \in 1..(i - 1) : before[m] = u[m]
        BY <1>1, <1>3
    <1>5. /\ after \in Seq(STRING) /\ Len(after) = Len(u) - (i + len) + 1
          /\ \A m \in 1..Len(after) : after[m] = u[m + i + len - 1]
        BY <1>1, <1>3
    <1> HIDE DEF before, after
    <1> DEFINE middle == before \o <<t.kind>>
    <1>9. <<t.kind>> \in Seq(STRING) /\ Len(<<t.kind>>) = 1 /\ <<t.kind>>[1] = t.kind
        BY <1>1
    <1>10. /\ middle \in Seq(STRING) /\ Len(middle) = i
           /\ \A m \in 1..(i - 1) : middle[m] = before[m]
           /\ middle[i] = t.kind
        BY <1>1, <1>3, <1>4, <1>9
    <1> HIDE DEF middle
    <1>11. /\ middle \o after \in Seq(STRING) /\ Len(middle \o after) = i + Len(after)
           /\ \A m \in 1..i : (middle \o after)[m] = middle[m]
           /\ \A m \in 1..Len(after) : (middle \o after)[i + m] = after[m]
        <2>1. /\ middle \o after \in Seq(STRING)
              /\ Len(middle \o after) = Len(middle) + Len(after)
              /\ \A m \in 1..(Len(middle) + Len(after)) :
                     (middle \o after)[m] = IF m <= Len(middle) THEN middle[m]
                                              ELSE after[m - Len(middle)]
            BY <1>5, <1>10, ConcatProperties
        <2>2. Len(after) \in Nat
            BY <1>5
        <2>3. \A m \in 1..i : m \in 1..(i + Len(after)) /\ m <= i
            BY <1>1, <2>2
        <2>4. \A m \in 1..Len(after) : /\ i + m \in 1..(i + Len(after)) /\ ~(i + m <= i)
                                         /\ (i + m) - i = m
            BY <1>1, <2>2
        <2> QED
            BY <1>10, <2>1, <2>3, <2>4
    <1>12. e = middle \o after
        BY DEF middle
    <1>6. /\ e \in Seq(STRING) /\ Len(e) = (i - 1) + 1 + (Len(u) - (i + len) + 1)
          /\ \A m \in 1..(i - 1) : e[m] = before[m]
          /\ e[i] = t.kind
          /\ \A m \in 1..Len(after) : e[i + m] = after[m]
        <2>1. \A m \in 1..(i - 1) : m \in 1..i
            BY <1>1
        <2>2. i \in 1..i /\ (i - 1) + 1 = i
            BY <1>1, <1>3
        <2> QED
            BY <1>5, <1>10, <1>11, <1>12, <2>1, <2>2
    <1> HIDE DEF e
    <1>7. ASSUME NEW m \in (i + len)..Len(u)
          PROVE  e[m - len + 1] = u[m]
        <2> DEFINE k == m - (i + len) + 1
        <2>1. k \in 1..Len(after) /\ i + k = m - len + 1 /\ k + i + len - 1 = m
            <3>1. Len(after) = Len(u) - (i + len) + 1
                BY <1>5
            <3> QED
                BY <1>1, <1>3, <3>1
        <2> HIDE DEF k
        <2> QED
            BY <1>5, <1>6, <2>1
    <1>8. Len(e) = Len(u) - len + 1
        BY <1>1, <1>6
    <1> QED
        BY <1>2, <1>4, <1>6, <1>7, <1>8 DEF i, len

\* What stays of a text, and what of it is there up to a place.
Stays(testo, spans) ==
    {i \in DOMAIN testo : \A s \in spans : ~(s.start < i /\ i < s.start + s.len)}
Upto(testo, spans, i) == {j \in Stays(testo, spans) : j <= i}

\* The word of a text that is told at a place of another.
Tells(esito, testo, spans, i) ==
    LET n == Cardinality(Upto(testo, spans, i))
    IN /\ R!Starting(spans, i) = {} => esito[n] = testo[i]
       /\ \A s \in R!Starting(spans, i) : esito[n] = s.kind

LEMMA ErasedTold ==
    ASSUME NEW esito, NEW testo, NEW spans
    PROVE  R!Erased(esito, testo, spans)
               <=> /\ Len(esito) = Cardinality(Stays(testo, spans))
                   /\ \A i \in Stays(testo, spans) : Tells(esito, testo, spans, i)
    BY SameCountRedaction DEF R!Erased, Stays, Upto, Tells

LEMMA NothingErased ==
    ASSUME NEW testo \in Seq(STRING)
    PROVE  R!Erased(testo, testo, {})
    <1>1. Stays(testo, {}) = 1..Len(testo)
        BY DEF Stays
    <1>2. Cardinality(1..Len(testo)) = Len(testo)
        <2>1. Len(testo) \in Nat /\ 1 \in Int /\ Len(testo) \in Int
            OBVIOUS
        <2>2. Cardinality(1..Len(testo)) = IF 1 > Len(testo) THEN 0 ELSE Len(testo) - 1 + 1
            BY <2>1, FS_Interval
        <2> QED
            BY <2>1, <2>2
    <1>3. ASSUME NEW i \in 1..Len(testo)
          PROVE  Tells(testo, testo, {}, i)
        <2>1. Upto(testo, {}, i) = 1..i
            BY <1>1 DEF Upto
        <2>2. Cardinality(1..i) = i
            BY FS_Interval
        <2> QED
            BY <2>1, <2>2 DEF Tells, R!Starting
    <1> QED
        BY <1>1, <1>2, <1>3, ErasedTold

\* Stretches of a text that are apart, each inside of it.
Inside(testo, spans) ==
    /\ spans \in SUBSET Tratti /\ Apart(spans)
    /\ \A s \in spans : s.start >= 1 /\ s.start + s.len <= Len(testo) + 1

StartingFrom(spans, k) == {s \in spans : s.start >= k}

LEMMA SomeGone ==
    ASSUME NEW X, IsFiniteSet(X), NEW a \in Nat, NEW b \in Nat, a <= b + 1, a..b \subseteq X
    PROVE  IsFiniteSet(X \ (a..b)) /\ Cardinality(X \ (a..b)) = Cardinality(X) - (b - a + 1)
    <1>1. IsFiniteSet(a..b) /\ Cardinality(a..b) = b - a + 1
        <2>1. /\ IsFiniteSet(a..b)
              /\ Cardinality(a..b) = IF a > b THEN 0 ELSE b - a + 1
            BY FS_Interval
        <2> QED
            BY <2>1
    <1>2. X \cap (a..b) = a..b
        OBVIOUS
    <1>3. /\ IsFiniteSet(X \ (a..b))
          /\ Cardinality(X \ (a..b)) = Cardinality(X) - Cardinality(X \cap (a..b))
        BY FS_Difference
    <1> QED
        BY <1>1, <1>2, <1>3

LEMMA StaysFinite ==
    ASSUME NEW testo \in Seq(STRING), NEW spans
    PROVE  /\ IsFiniteSet(Stays(testo, spans)) /\ Stays(testo, spans) \subseteq 1..Len(testo)
           /\ \A i : IsFiniteSet(Upto(testo, spans, i))
    <1>1. Stays(testo, spans) \in SUBSET (1..Len(testo))
        BY DEF Stays
    <1>2. IsFiniteSet(1..Len(testo))
        BY FS_Interval
    <1>3. IsFiniteSet(Stays(testo, spans))
        BY <1>1, <1>2, FS_Subset
    <1>4. \A i : Upto(testo, spans, i) \in SUBSET Stays(testo, spans)
        BY DEF Upto
    <1> QED
        BY <1>1, <1>3, <1>4, FS_Subset

\* Before the first stretch, and in it, every word is there still.
LEMMA AllBefore ==
    ASSUME NEW testo \in Seq(STRING), NEW spans \in SUBSET Tratti, NEW k \in 1..(Len(testo) + 1),
           \A s \in spans : s.start >= k
    PROVE  /\ \A i \in 1..Len(testo) : i <= k => i \in Stays(testo, spans)
           /\ \A i \in 1..Len(testo) : i <= k =>
                  Upto(testo, spans, i) = 1..i /\ Cardinality(Upto(testo, spans, i)) = i
    <1>1. \A s \in spans : s.start \in Nat /\ s.len \in Nat
        BY DEF Tratti
    <1>2. \A i \in 1..Len(testo) : i <= k => i \in Stays(testo, spans)
        BY <1>1 DEF Stays
    <1>3. \A i \in 1..Len(testo) : i <= k => Upto(testo, spans, i) = 1..i
        BY <1>2, StaysFinite DEF Upto
    <1>4. \A i \in 1..Len(testo) : Cardinality(1..i) = i
        BY FS_Interval
    <1> QED
        BY <1>2, <1>3, <1>4

\* The words a replacement takes away besides the first.
LEMMA LaterApart ==
    ASSUME NEW testo \in Seq(STRING), NEW spans, Inside(testo, spans), NEW s \in spans
    PROVE  \A t \in StartingFrom(spans, s.start + 1) : t \in Tratti /\ t.start >= s.start + s.len
    <1> SUFFICES ASSUME NEW t \in spans, t.start >= s.start + 1
                 PROVE  t.start >= s.start + s.len
        BY DEF StartingFrom, Inside
    <1>1. s \in Tratti /\ t \in Tratti
        BY DEF Inside
    <1>2. s.start \in Nat /\ t.start \in Nat /\ s.len \in Nat \ {0} /\ t.len \in Nat \ {0}
        BY <1>1 DEF Tratti
    <1>3. s # t
        BY <1>2
    <1>4. ~(s.start < t.start + t.len /\ t.start < s.start + s.len)
        BY <1>3 DEF Inside, Apart, R!Overlap
    <1> QED
        BY <1>2, <1>4

\* The stretch that is erased next, the last but those that were.
LEMMA StretchErased ==
    ASSUME NEW testo \in Seq(STRING), NEW spans, Inside(testo, spans), NEW s \in spans,
           NEW u \in Seq(STRING), R!Erased(u, testo, StartingFrom(spans, s.start + 1))
    PROVE  /\ R!Replace(u, s) \in Seq(STRING)
           /\ R!Erased(R!Replace(u, s), testo, StartingFrom(spans, s.start))
    <1> DEFINE i == s.start
               len == s.len
               later == StartingFrom(spans, i + 1)
               now == StartingFrom(spans, i)
               gone == (i + 1)..(i + len - 1)
               e == R!Replace(u, s)
    <1>1. /\ s \in Tratti /\ i \in Nat /\ len \in Nat /\ len >= 1 /\ i >= 1
          /\ i + len <= Len(testo) + 1 /\ Len(testo) \in Nat
        BY DEF Inside, Tratti
    <1>2. later \in SUBSET Tratti /\ \A t \in later : t.start >= i + len
        BY LaterApart
    <1>3. now = later \cup {s}
        <2>1. \A t \in spans : t.start \in Nat
            BY DEF Inside, Tratti
        <2>2. ASSUME NEW t \in spans, t.start = i
              PROVE  t = s
            <3>1. s \in Tratti /\ t \in Tratti
                BY DEF Inside
            <3>2. R!Overlap(s, t)
                BY <2>2, <3>1, SameStartOverlaps
            <3> QED
                BY <3>2 DEF Inside, Apart
        <2>3. \A t \in spans : t.start >= i <=> (t.start >= i + 1 \/ t.start = i)
            BY <1>1, <2>1
        <2> QED
            BY <2>2, <2>3 DEF StartingFrom
    <1>4. R!Erased(u, testo, later)
        OBVIOUS
    <1> HIDE DEF i, len, later, now, e
    <1>5. /\ Len(u) = Cardinality(Stays(testo, later))
          /\ \A j \in Stays(testo, later) : Tells(u, testo, later, j)
        BY <1>4, ErasedTold
    <1>6. /\ \A j \in 1..Len(testo) : j <= i + len => j \in Stays(testo, later)
          /\ \A j \in 1..Len(testo) : j <= i + len =>
                 /\ Upto(testo, later, j) = 1..j /\ Cardinality(Upto(testo, later, j)) = j
        <2> DEFINE k == i + len
        <2>1. k \in 1..(Len(testo) + 1)
            BY <1>1
        <2> HIDE DEF k
        <2>2. \A t \in later : t.start >= k
            BY <1>2 DEF k
        <2>3. /\ \A j \in 1..Len(testo) : j <= k => j \in Stays(testo, later)
              /\ \A j \in 1..Len(testo) : j <= k =>
                     /\ Upto(testo, later, j) = 1..j /\ Cardinality(Upto(testo, later, j)) = j
            BY <1>2, <2>1, <2>2, AllBefore
        <2> QED
            BY <2>3 DEF k
    <1>7. Stays(testo, now) = Stays(testo, later) \ gone
        <2>1. \A j \in DOMAIN testo : (s.start < j /\ j < s.start + s.len) <=> j \in gone
            BY <1>1 DEF i, len
        <2> QED
            BY <1>3, <2>1 DEF Stays
    <1>8. /\ Stays(testo, later) \subseteq 1..Len(testo) /\ IsFiniteSet(Stays(testo, later))
          /\ Stays(testo, now) \subseteq 1..Len(testo)
          /\ \A j : IsFiniteSet(Upto(testo, later, j))
        BY StaysFinite
    <1>9. gone \subseteq 1..Len(testo) /\ \A j \in gone : j <= i + len
        BY <1>1
    <1>10. gone \subseteq Stays(testo, later)
        BY <1>6, <1>9
    <1>11. \A X : IsFiniteSet(X) /\ gone \subseteq X =>
               Cardinality(X \ gone) = Cardinality(X) - (len - 1) /\ Cardinality(X) \in Nat
        <2> SUFFICES ASSUME NEW X, IsFiniteSet(X), gone \subseteq X
                     PROVE  Cardinality(X \ gone) = Cardinality(X) - (len - 1) /\ Cardinality(X) \in Nat
            OBVIOUS
        <2> DEFINE a == i + 1
                   b == i + len - 1
        <2>1. a \in Nat /\ b \in Nat /\ a <= b + 1 /\ b - a + 1 = len - 1
            BY <1>1
        <2>2. gone = a..b
            OBVIOUS
        <2> HIDE DEF a, b, gone
        <2>3. Cardinality(X \ (a..b)) = Cardinality(X) - (b - a + 1)
            BY <2>1, <2>2, SomeGone
        <2>4. Cardinality(X) \in Nat
            BY FS_CardinalityType
        <2> QED
            BY <2>1, <2>2, <2>3, <2>4
    <1>12. Cardinality(Stays(testo, now)) = Len(u) - (len - 1) /\ Len(u) \in Nat
        BY <1>5, <1>7, <1>8, <1>10, <1>11
    <1> HIDE DEF gone
    <1>13. i + len <= Len(u) + 1
        <2>1. 1..(i + len - 1) \in SUBSET Stays(testo, later)
            BY <1>1, <1>6
        <2>2. Cardinality(1..(i + len - 1)) = i + len - 1
            <3>1. i + len - 1 \in Int /\ ~(1 > i + len - 1) /\ (i + len - 1) - 1 + 1 = i + len - 1
                BY <1>1
            <3> DEFINE b == i + len - 1
            <3> HIDE DEF b
            <3>2. Cardinality(1..b) = IF 1 > b THEN 0 ELSE b - 1 + 1
                BY <3>1, FS_Interval DEF b
            <3> QED
                BY <3>1, <3>2 DEF b
        <2>3. Cardinality(1..(i + len - 1)) <= Cardinality(Stays(testo, later))
            BY <1>8, <2>1, FS_Subset
        <2> QED
            BY <1>1, <1>5, <1>12, <2>2, <2>3
    <1>14. /\ e \in Seq(STRING) /\ Len(e) = Len(u) - len + 1
           /\ \A m \in 1..(i - 1) : e[m] = u[m]
           /\ e[i] = s.kind
           /\ \A m \in (i + len)..Len(u) : e[m - len + 1] = u[m]
        BY <1>1, <1>13, Replaced DEF i, len, e
    <1>15. \A j \in Stays(testo, now) : j \in 1..Len(testo) /\ j \in Stays(testo, later)
                                        /\ (j < i \/ j = i \/ j >= i + len)
        BY <1>1, <1>7, <1>8 DEF gone
    <1>16. ASSUME NEW j \in 1..Len(testo), j <= i
           PROVE  Cardinality(Upto(testo, now, j)) = j
        <2>1. Upto(testo, now, j) = Upto(testo, later, j)
            BY <1>1, <1>7, <1>8, <1>16 DEF Upto, gone
        <2> QED
            BY <1>1, <1>6, <1>16, <2>1
    <1>17. ASSUME NEW j \in Stays(testo, now), j < i
           PROVE  Tells(e, testo, now, j)
        <2>1. j \in 1..Len(testo) /\ j \in Stays(testo, later) /\ j \in 1..(i - 1)
            BY <1>1, <1>15, <1>17
        <2>2. Cardinality(Upto(testo, now, j)) = j /\ Cardinality(Upto(testo, later, j)) = j
            BY <1>1, <1>6, <1>16, <1>17, <2>1
        <2>3. R!Starting(now, j) = {} /\ R!Starting(later, j) = {}
            BY <1>1, <1>17, <2>1 DEF R!Starting, now, later, StartingFrom
        <2>4. u[j] = testo[j]
            BY <1>5, <2>1, <2>2, <2>3 DEF Tells
        <2> QED
            BY <1>14, <2>1, <2>2, <2>3, <2>4 DEF Tells
    <1>18. ASSUME NEW j \in Stays(testo, now), j = i
           PROVE  Tells(e, testo, now, j)
        <2>1. j \in 1..Len(testo)
            BY <1>15
        <2>2. Cardinality(Upto(testo, now, j)) = i
            BY <1>1, <1>16, <1>18, <2>1
        <2>3. R!Starting(now, j) = {s}
            <3>1. \A t \in later : t.start # i
                BY <1>1, <1>2 DEF Tratti
            <3> QED
                BY <1>3, <1>18, <3>1 DEF R!Starting, i
        <2> QED
            BY <1>14, <2>2, <2>3 DEF Tells
    <1>19. ASSUME NEW j \in Stays(testo, now), j >= i + len
           PROVE  Tells(e, testo, now, j)
        <2> DEFINE n == Cardinality(Upto(testo, later, j))
        <2>1. j \in 1..Len(testo) /\ j \in Stays(testo, later)
            BY <1>15
        <2>2. gone \subseteq Upto(testo, later, j)
            BY <1>1, <1>9, <1>10, <1>19, <2>1 DEF Upto, gone
        <2>3. Upto(testo, now, j) = Upto(testo, later, j) \ gone
            BY <1>7 DEF Upto
        <2>4. Cardinality(Upto(testo, now, j)) = n - (len - 1) /\ n \in Nat
            BY <1>8, <1>11, <2>2, <2>3
        <2>5. n <= Len(u)
            <3>1. Upto(testo, later, j) \in SUBSET Stays(testo, later)
                BY DEF Upto
            <3> QED
                BY <1>5, <1>8, <3>1, FS_Subset
        <2>6. n >= i + len
            <3>1. i + len \in 1..Len(testo) /\ i + len <= i + len
                BY <1>1, <1>19, <2>1
            <3>2. Cardinality(Upto(testo, later, i + len)) = i + len
                BY <1>6, <3>1
            <3>3. Upto(testo, later, i + len) \in SUBSET Upto(testo, later, j)
                BY <1>1, <1>8, <1>19, <2>1 DEF Upto
            <3> QED
                BY <1>8, <3>2, <3>3, FS_Subset
        <2>7. R!Starting(now, j) = R!Starting(later, j)
            BY <1>1, <1>3, <1>19 DEF R!Starting, i
        <2> HIDE DEF n
        <2>8. n \in (i + len)..Len(u) /\ n - (len - 1) = n - len + 1
            BY <1>1, <1>12, <2>4, <2>5, <2>6
        <2>9. e[n - (len - 1)] = u[n]
            BY <1>14, <2>8
        <2>10. Tells(u, testo, later, j)
            BY <1>5, <2>1
        <2> QED
            BY <2>4, <2>7, <2>9, <2>10 DEF Tells, n
    <1>20. Len(e) = Cardinality(Stays(testo, now))
        BY <1>1, <1>12, <1>14
    <1>21. \A j \in Stays(testo, now) : Tells(e, testo, now, j)
        BY <1>15, <1>17, <1>18, <1>19
    <1>22. R!Erased(e, testo, now)
        BY <1>20, <1>21, ErasedTold
    <1> QED
        BY <1>14, <1>22 DEF e, now, i

LEMMA StepErased ==
    ASSUME NEW testo \in Seq(STRING), NEW spans, Inside(testo, spans), NEW i \in Nat, i >= 1,
           NEW u \in Seq(STRING), R!Erased(u, testo, StartingFrom(spans, i + 1))
    PROVE  /\ R!Redatto(u, spans, i) \in Seq(STRING)
           /\ R!Erased(R!Redatto(u, spans, i), testo, StartingFrom(spans, i))
    <1>1. CASE R!Starting(spans, i) = {}
        <2>1. R!Redatto(u, spans, i) = u
            BY <1>1 DEF R!Redatto
        <2>2. StartingFrom(spans, i) = StartingFrom(spans, i + 1)
            <3>1. \A t \in spans : t.start \in Nat /\ t.start # i
                BY <1>1 DEF Inside, Tratti, R!Starting
            <3>2. \A t \in spans : t.start >= i <=> t.start >= i + 1
                BY <3>1
            <3> QED
                BY <3>2 DEF StartingFrom
        <2> QED
            BY <2>1, <2>2
    <1>2. CASE R!Starting(spans, i) # {}
        <2> DEFINE s == CHOOSE s \in R!Starting(spans, i) : TRUE
        <2>1. s \in R!Starting(spans, i)
            BY <1>2
        <2>2. R!Redatto(u, spans, i) = R!Replace(u, s)
            BY <1>2 DEF R!Redatto
        <2> HIDE DEF s
        <2>3. s \in spans /\ s.start = i
            BY <2>1 DEF R!Starting
        <2> QED
            BY <2>2, <2>3, StretchErased
    <1> QED
        BY <1>1, <1>2

\* From the last stretch to the first, the words that go are those of the stretches.
LEMMA RedactionsErase ==
    ASSUME NEW testo \in Seq(STRING), NEW spans, Inside(testo, spans)
    PROVE  /\ R!ApplyRedactions(testo, spans) \in Seq(STRING)
           /\ R!Erased(R!ApplyRedactions(testo, spans), testo, spans)
    <1> DEFINE m == Len(testo)
               X == Seq(STRING)
               next(u, n) == R!Redatto(u, spans, m - n + 1)
               step == [p \in Nat \X X |-> IF next(p[2], p[1]) \in X THEN next(p[2], p[1]) ELSE testo]
               risultato ==
                   CHOOSE g : g = [n \in 0..m |-> IF n = 0 THEN testo ELSE next(g[n - 1], n)]
    <1>1. m \in Nat
        OBVIOUS
    <1>2. R!ApplyRedactions(testo, spans) = risultato[m]
        BY DEF R!ApplyRedactions
    <1>3. \A n \in Nat, u \in X : next(u, n) \in X => step[<<n, u>>] = next(u, n)
        OBVIOUS
    <1>4. testo \in X /\ step \in [Nat \X X -> X]
        OBVIOUS
    <1> DEFINE After(u, n) == u \in X /\ R!Erased(u, testo, StartingFrom(spans, m - n + 1))
    <1>5. ASSUME NEW n \in Nat, n + 1 <= m, NEW u, After(u, n)
          PROVE  After(next(u, n + 1), n + 1)
        <2> DEFINE i == m - n
        <2>1. i \in Nat /\ i >= 1 /\ m - n + 1 = i + 1 /\ m - (n + 1) + 1 = i
            BY <1>1, <1>5
        <2> HIDE DEF i
        <2> QED
            BY <1>5, <2>1, StepErased
    <1>6. After(testo, 0)
        <2>1. StartingFrom(spans, m - 0 + 1) = {}
            <3>1. \A s \in spans : ~(s.start >= m - 0 + 1)
                BY DEF Inside, Tratti
            <3> QED
                BY <3>1 DEF StartingFrom
        <2> QED
            BY <2>1, NothingErased
    <1> HIDE DEF m, next, step, X
    <1>7. PICK f \in [0..m -> X] : ByIterating(f, m, testo, step)
        BY <1>1, <1>4, Iterates
    <1> DEFINE P == {n \in Nat : n <= m => After(f[n], n)}
    <1>8. \A n \in Nat : n \in P /\ n + 1 <= m => f[n + 1] = next(f[n], n + 1)
        <2> SUFFICES ASSUME NEW n \in Nat, n \in P, n + 1 <= m
                     PROVE  f[n + 1] = next(f[n], n + 1)
            OBVIOUS
        <2>1. n <= m /\ n + 1 \in 1..m /\ (n + 1) - 1 = n /\ n + 1 \in Nat
            BY <1>1
        <2>2. After(f[n], n)
            BY <2>1
        <2>3. next(f[n], n + 1) \in X /\ f[n] \in X
            BY <1>5, <2>2
        <2>4. f[n + 1] = step[<<n + 1, f[n]>>]
            BY <1>7, <2>1 DEF ByIterating
        <2> QED
            BY <1>3, <2>1, <2>3, <2>4
    <1>9. 0 \in P
        BY <1>6, <1>7 DEF ByIterating
    <1>10. \A n \in Nat : n \in P => n + 1 \in P
        <2> SUFFICES ASSUME NEW n \in Nat, n \in P, n + 1 <= m
                     PROVE  After(f[n + 1], n + 1)
            OBVIOUS
        <2>1. After(f[n], n)
            BY <1>1
        <2>2. f[n + 1] = next(f[n], n + 1)
            BY <1>8
        <2> QED
            BY <1>5, <2>1, <2>2
    <1> HIDE DEF P, After
    <1>11. Nat \subseteq P
        BY <1>9, <1>10, Induction
    <1>12. f = [n \in 0..m |-> IF n = 0 THEN testo ELSE next(f[n - 1], n)]
        <2>1. ASSUME NEW n \in 0..m, n # 0
              PROVE  f[n] = next(f[n - 1], n)
            <3>1. n - 1 \in Nat /\ (n - 1) + 1 = n /\ (n - 1) + 1 <= m
                BY <1>1, <2>1
            <3> QED
                BY <1>8, <1>11, <3>1
        <2>2. f[0] = testo
            BY <1>7 DEF ByIterating
        <2> QED
            BY <2>1, <2>2
    <1>13. risultato = [n \in 0..m |-> IF n = 0 THEN testo ELSE next(risultato[n - 1], n)]
        BY <1>12
    <1> HIDE DEF risultato
    <1>14. risultato[0] = testo /\ \A n \in 1..m : risultato[n] = next(risultato[n - 1], n)
        <2>1. 0 \in 0..m /\ \A n \in 1..m : n \in 0..m /\ n # 0
            BY <1>1
        <2> QED
            BY <1>13, <2>1
    <1> DEFINE Q == {n \in Nat : n <= m => After(risultato[n], n)}
    <1>15. 0 \in Q
        BY <1>6, <1>14
    <1>16. \A n \in Nat : n \in Q => n + 1 \in Q
        <2> SUFFICES ASSUME NEW n \in Nat, n \in Q, n + 1 <= m
                     PROVE  After(risultato[n + 1], n + 1)
            OBVIOUS
        <2>1. n + 1 \in 1..m /\ (n + 1) - 1 = n /\ n <= m
            BY <1>1
        <2>2. After(risultato[n], n)
            BY <2>1
        <2>3. risultato[n + 1] = next(risultato[n], n + 1)
            BY <1>14, <2>1
        <2> QED
            BY <1>5, <2>2, <2>3
    <1> HIDE DEF Q
    <1>17. m \in Q
        BY <1>1, <1>15, <1>16, Induction
    <1>18. After(risultato[m], m)
        BY <1>1, <1>17 DEF Q
    <1>19. StartingFrom(spans, m - m + 1) = spans
        <2>1. \A s \in spans : s.start >= m - m + 1
            BY <1>1 DEF Inside, Tratti
        <2> QED
            BY <2>1 DEF StartingFrom
    <1> QED
        BY <1>2, <1>18, <1>19 DEF After, X

\* An id the page may send back: of a field, of a kind, with its words if it has any.
Sendable(id) ==
    /\ id.campo \in R!Campi /\ id.kind \in STRING
    /\ id.parole # R!Certa => id.parole \in Seq(STRING)

\* Where a confirmation falls, it falls inside the text.
LEMMA TrattoTold ==
    ASSUME NEW riga \in Righe, NEW id, Sendable(id)
    PROVE  LET testo == riga[id.campo]
           IN /\ Inside(testo, R!TrattoDi(riga, id))
              /\ \A s, t \in R!TrattoDi(riga, id) : s = t
              /\ \A t \in R!TrattoDi(riga, id) :
                     /\ t.start = id.start /\ t.kind = id.kind
                     /\ id.parole # R!Certa => R!Slice(testo, id.start, Len(id.parole)) = id.parole
    <1> DEFINE testo == riga[id.campo]
               tratti == R!TrattoDi(riga, id)
    <1>1. testo \in Seq(STRING)
        BY DEF Sendable, Righe
    <1>2. CASE id.parole = R!Certa
        <2> DEFINE detected == R!DetectSensitive(testo)
        <2>1. /\ detected \in SUBSET Tratti /\ Apart(detected)
              /\ \A t \in detected : \E d \in Dati : FoundAt(testo, d, t)
            BY <1>1, DetectedTold
        <2>2. tratti = {t \in detected : t.start = id.start /\ t.kind = id.kind}
            BY <1>2 DEF R!TrattoDi
        <2> HIDE DEF detected, tratti, testo
        <2>3. \A s, t \in tratti : s = t
            BY <2>1, <2>2, SameStartOverlaps DEF Apart
        <2>4. \A t \in tratti : t.start >= 1 /\ t.start + t.len <= Len(testo) + 1
            BY <2>1, <2>2 DEF FoundAt
        <2>5. Inside(testo, tratti)
            BY <2>1, <2>2, <2>3, <2>4 DEF Inside, Apart
        <2> QED
            BY <1>2, <2>2, <2>3, <2>5 DEF tratti, testo
    <1>3. CASE id.parole # R!Certa
        <2> DEFINE d == [kind |-> id.kind, valore |-> id.parole]
                   u == R!Tratto(id.start, id.parole, id.kind)
        <2>1. SomeWords(d) /\ d.valore = id.parole /\ d.kind = id.kind
            BY <1>3 DEF Sendable, SomeWords, R!Certa
        <2>2. tratti = {t \in {u} : id.start \in R!Occorrenze(testo, id.parole)}
            BY <1>3 DEF R!TrattoDi
        <2> HIDE DEF d, tratti, testo, u
        <2>3. CASE id.start \in R!Occorrenze(testo, id.parole)
            <3>1. tratti = {u}
                BY <2>2, <2>3
            <3>2. id.start \in R!Occorrenze(testo, d.valore)
                BY <2>1, <2>3
            <3>3. u = R!Tratto(id.start, d.valore, d.kind)
                BY <2>1 DEF u
            <3>4. u \in Tratti /\ FoundAt(testo, d, u) /\ u.start = id.start
                BY <1>1, <2>1, <3>2, <3>3, StretchTold
            <3>5. Inside(testo, tratti)
                BY <3>1, <3>4 DEF Inside, Apart, FoundAt
            <3>6. u.kind = id.kind /\ R!Slice(testo, id.start, Len(id.parole)) = id.parole
                BY <2>1, <3>4 DEF FoundAt
            <3> QED
                BY <3>1, <3>4, <3>5, <3>6 DEF tratti, testo
        <2>4. CASE id.start \notin R!Occorrenze(testo, id.parole)
            <3>1. tratti = {}
                BY <2>2, <2>4
            <3>2. Inside(testo, {})
                BY DEF Inside, Apart
            <3> QED
                BY <3>1, <3>2 DEF tratti, testo
        <2> QED
            BY <2>3, <2>4
    <1> QED
        BY <1>2, <1>3

\* What applies falls in stretches that are apart, one for each confirmation.
LEMMA SpansTold ==
    ASSUME NEW riga \in Righe, NEW ids, \A id \in ids : Sendable(id),
           R!Applicabili(riga, ids), NEW campo \in R!Campi
    PROVE  LET spans == R!Spans(riga, ids, campo)
           IN /\ Inside(riga[campo], spans)
              /\ \A id \in ids : id.campo = campo =>
                     \E s \in spans : s.start = id.start /\ s.kind = id.kind
              /\ \A s \in spans : \E id \in ids :
                     id.campo = campo /\ s.start = id.start /\ s.kind = id.kind
    <1> DEFINE testo == riga[campo]
               spans == R!Spans(riga, ids, campo)
    <1>1. \A s : s \in spans <=> \E id \in ids : id.campo = campo /\ s \in R!TrattoDi(riga, id)
        BY DEF R!Spans
    <1>2. \A id \in ids : id.campo = campo =>
              /\ Inside(testo, R!TrattoDi(riga, id))
              /\ \A s, t \in R!TrattoDi(riga, id) : s = t
              /\ \A t \in R!TrattoDi(riga, id) : t.start = id.start /\ t.kind = id.kind
        BY TrattoTold
    <1>3. \A id \in ids : R!TrattoDi(riga, id) # {}
        BY DEF R!Applicabili, R!Scadute
    <1>4. \A i, j \in ids : i # j /\ i.campo = campo /\ j.campo = campo =>
              \A s \in R!TrattoDi(riga, i), t \in R!TrattoDi(riga, j) : ~R!Overlap(s, t)
        BY DEF R!Applicabili, R!Sovrapposte
    <1> HIDE DEF spans, testo
    <1>5. Apart(spans)
        BY <1>1, <1>2, <1>4 DEF Apart
    <1>6. /\ spans \in SUBSET Tratti
          /\ \A s \in spans : s.start >= 1 /\ s.start + s.len <= Len(testo) + 1
        BY <1>1, <1>2 DEF Inside
    <1>7. Inside(testo, spans)
        BY <1>5, <1>6 DEF Inside
    <1>8. ASSUME NEW id \in ids, id.campo = campo
          PROVE  \E s \in spans : s.start = id.start /\ s.kind = id.kind
        BY <1>1, <1>2, <1>3, <1>8
    <1>9. ASSUME NEW s \in spans
          PROVE  \E id \in ids : id.campo = campo /\ s.start = id.start /\ s.kind = id.kind
        BY <1>1, <1>2, <1>9
    <1> QED
        BY <1>7, <1>8, <1>9 DEF testo, spans

\* A patch, and what it does not say.
Patches == UNION {[K -> Seq(STRING)] : K \in SUBSET R!Campi}

LEMMA PatchTold ==
    ASSUME NEW riga \in Righe, NEW ids, \A id \in ids : Sendable(id), R!Applicabili(riga, ids)
    PROVE  LET patch == R!PatchDiRedazione(riga, ids)
           IN /\ patch \in Patches /\ DOMAIN patch = {id.campo : id \in ids}
              /\ \A campo \in DOMAIN patch :
                     R!Erased(patch[campo], riga[campo], R!Spans(riga, ids, campo))
    <1> DEFINE K == {id.campo : id \in ids}
               patch == R!PatchDiRedazione(riga, ids)
               applied(campo) == R!ApplyRedactions(riga[campo], R!Spans(riga, ids, campo))
    <1>1. patch = [campo \in K |-> applied(campo)]
        BY DEF R!PatchDiRedazione
    <1>2. K \in SUBSET R!Campi
        BY DEF Sendable
    <1>3. ASSUME NEW campo \in K
          PROVE  /\ applied(campo) \in Seq(STRING)
                 /\ R!Erased(applied(campo), riga[campo], R!Spans(riga, ids, campo))
        <2>1. campo \in R!Campi /\ riga[campo] \in Seq(STRING)
            BY <1>2, <1>3 DEF Righe
        <2>2. Inside(riga[campo], R!Spans(riga, ids, campo))
            BY <2>1, SpansTold
        <2> QED
            BY <2>1, <2>2, RedactionsErase
    <1> HIDE DEF K, patch, applied
    <1>4. patch \in [K -> Seq(STRING)] /\ DOMAIN patch = K /\ \A campo \in K : patch[campo] = applied(campo)
        BY <1>1, <1>3
    <1>5. patch \in Patches
        BY <1>2, <1>4 DEF Patches
    <1> QED
        BY <1>3, <1>4, <1>5 DEF K, patch

------------------------------------------------------------------------------
(* RedactionScreen. *)

Reports == {R!Report(riga, findings) : riga \in Righe, findings \in SUBSET Segnali}
Proposals == UNION {d.proposte : d \in Reports}

Applications ==
    [confermate : SUBSET Proposals, stato : {"andata", "scrive", "fatta", "rifiutata"},
     riga : Patches, patch : Patches, ascoltata : BOOLEAN]
RedactionPage ==
    [report : Hook({"proposte"}, Reports), volo : SUBSET Applications, uscita : BOOLEAN]

\* Who is about to write holds the patch of the row that was read, and nothing else.
Holds(g) ==
    g.stato = "scrive" =>
        /\ g.riga \in Righe /\ R!Applicabili(g.riga, R!Ids(g))
        /\ g.patch = R!PatchDiRedazione(g.riga, R!Ids(g))

\* What is shown, or on its way, is a report of some row, whole.
RedactionInv ==
    /\ server \in [riga : Righe, edits : Nat]
    /\ page \in RedactionPage /\ Tidy(page.report)
    /\ \A g \in page.volo : Holds(g)

LEMMA RedactionHook ==
    ASSUME NEW h, NEW q, NEW r, NEW d
    PROVE  /\ R!Mount(q) = U!Mount(q)
           /\ R!Serve(h, r, d) = U!Serve(h, r, d)
           /\ R!Unserved(h) \subseteq h.reads
           /\ R!Served(h) = U!Served(h)
           /\ R!Resolve(h, r) = U!Resolve(h, r)
           /\ R!Reject(h, r) = U!Reject(h, r)
           /\ R!Ricarica(h) = U!Ricarica(h)
    BY DEF R!Mount, U!Mount, R!Read, U!Read, R!Serve, U!Serve, R!Unserved, R!Served, U!Served,
           R!Resolve, U!Resolve, R!Reject, U!Reject, R!Ricarica, U!Ricarica, R!Effect, U!Effect

LEMMA ProposalTold ==
    ASSUME NEW p \in Proposals
    PROVE  Sendable(p.id) /\ (p.id.parole # R!Certa => p.valore = p.id.parole)
    <1>1. PICK riga \in Righe, findings \in SUBSET Segnali : p \in R!Report(riga, findings).proposte
        BY DEF Proposals, Reports
    <1>2. PICK t \in Tagli(riga, findings, p.id.campo) : Shown(riga, p, t)
        BY <1>1, ReportFalls
    <1>3. /\ p.id.kind = t.kind /\ t.kind \in STRING
          /\ p.id.parole = IF t \in R!Occupati(riga[p.id.campo]) THEN R!Certa ELSE p.valore
        BY <1>2 DEF Shown, R!Id, Tratti
    <1> QED
        BY <1>2, <1>3 DEF Shown, Sendable

LEMMA IdsSendable ==
    ASSUME NEW g, g.confermate \in SUBSET Proposals
    PROVE  \A id \in R!Ids(g) : Sendable(id)
    BY ProposalTold DEF R!Ids

LEMMA RedactionInit ==
    ASSUME R!Init
    PROVE  RedactionInv
    <1>1. PICK riga \in [R!Campi -> UNION {Testi[campo] : campo \in R!Campi}] :
            /\ \A campo \in R!Campi : riga[campo] \in Testi[campo]
            /\ server = [riga |-> riga, edits |-> 0]
        BY DEF R!Init
    <1>2. riga \in Righe
        BY <1>1, TestiAssumption DEF Righe, R!Campi
    <1>3. server \in [riga : Righe, edits : Nat]
        BY <1>1, <1>2
    <1> DEFINE h == U!Mount("proposte")
    <1>4. h \in Hook({"proposte"}, Reports) /\ Tidy(h)
        <2>1. "proposte" \in {"proposte"}
            OBVIOUS
        <2> QED
            BY <2>1, MountedHook
    <1>5. page = [report |-> h, volo |-> {}, uscita |-> FALSE]
        BY RedactionHook DEF R!Init
    <1> HIDE DEF h
    <1>6. page \in RedactionPage /\ page.report = h /\ page.volo = {}
        BY <1>4, <1>5 DEF RedactionPage
    <1> QED
        BY <1>3, <1>4, <1>6 DEF RedactionInv

LEMMA RedactionEditStep ==
    ASSUME RedactionInv, NEW campo \in R!Campi, R!EditElsewhere(campo)
    PROVE  RedactionInv'
    <1>1. PICK testo \in Testi[campo] :
            server' = [riga |-> [server.riga EXCEPT ![campo] = testo], edits |-> server.edits + 1]
        BY DEF R!EditElsewhere
    <1>2. page' = page
        BY DEF R!EditElsewhere
    <1>3. testo \in Seq(STRING)
        BY TestiAssumption DEF R!Campi
    <1>4. [server.riga EXCEPT ![campo] = testo] \in Righe
        BY <1>3 DEF RedactionInv, Righe
    <1>5. server.edits + 1 \in Nat
        BY DEF RedactionInv
    <1> QED
        BY <1>1, <1>2, <1>4, <1>5 DEF RedactionInv, Holds

\* A hook that is put in the place of the page's.
LEMMA RedactionReads ==
    ASSUME RedactionInv, NEW h \in Hook({"proposte"}, Reports), Tidy(h),
           page' = [page EXCEPT !.report = h], server' = server
    PROVE  RedactionInv'
    <1>1. page' \in RedactionPage /\ page'.report = h /\ page'.volo = page.volo
        BY DEF RedactionInv, RedactionPage
    <1> QED
        BY <1>1 DEF RedactionInv, Holds

LEMMA RedactionReadStep ==
    ASSUME RedactionInv, R!ServeReport \/ R!AnswerReport \/ R!FailReport
    PROVE  RedactionInv'
    <1>1. page.report \in Hook({"proposte"}, Reports) /\ Tidy(page.report)
        BY DEF RedactionInv, RedactionPage
    <1>2. CASE R!ServeReport
        <2>1. PICK r \in R!Unserved(page.report), findings \in SUBSET Segnali :
                page' = [page EXCEPT !.report = R!Serve(@, r, R!Report(server.riga, findings))]
            BY <1>2 DEF R!ServeReport
        <2> DEFINE d == R!Report(server.riga, findings)
                   h == U!Serve(page.report, r, d)
        <2>2. d \in Reports /\ r \in page.report.reads
            BY RedactionHook DEF RedactionInv, Reports
        <2>3. page' = [page EXCEPT !.report = h] /\ server' = server
            BY <1>2, <2>1, RedactionHook DEF R!ServeReport
        <2> HIDE DEF d
        <2>4. h \in Hook({"proposte"}, Reports) /\ Tidy(h)
            BY <1>1, <2>2, ServedRead
        <2> HIDE DEF h
        <2> QED
            BY <2>3, <2>4, RedactionReads
    <1>3. CASE R!AnswerReport
        <2>1. PICK r \in R!Served(page.report) :
                page' = [page EXCEPT !.report = R!Resolve(@, r)]
            BY <1>3 DEF R!AnswerReport
        <2> DEFINE h == U!Resolve(page.report, r)
        <2>2. r \in U!Served(page.report) /\ page' = [page EXCEPT !.report = h] /\ server' = server
            BY <1>3, <2>1, RedactionHook DEF R!AnswerReport
        <2>3. h \in Hook({"proposte"}, Reports) /\ Tidy(h)
            BY <1>1, <2>2, ResolvedRead
        <2> HIDE DEF h
        <2> QED
            BY <2>2, <2>3, RedactionReads
    <1>4. CASE R!FailReport
        <2>1. PICK r \in page.report.reads : page' = [page EXCEPT !.report = R!Reject(@, r)]
            BY <1>4 DEF R!FailReport
        <2> DEFINE h == U!Reject(page.report, r)
        <2>2. page' = [page EXCEPT !.report = h] /\ server' = server
            BY <1>4, <2>1, RedactionHook DEF R!FailReport
        <2>3. h \in Hook({"proposte"}, Reports) /\ Tidy(h)
            BY <1>1, RejectedRead
        <2> HIDE DEF h
        <2> QED
            BY <2>2, <2>3, RedactionReads
    <1> QED
        BY <1>2, <1>3, <1>4

LEMMA NoRigaTold == R!NoRiga \in Patches
    <1>1. R!NoRiga \in [{} -> Seq(STRING)]
        BY DEF R!NoRiga
    <1> QED
        BY <1>1 DEF Patches

LEMMA RowsArePatches == Righe \subseteq Patches
    BY DEF Righe, Patches

\* Calls that go, and calls that come, each with what it holds.
LEMMA RedactionCalls ==
    ASSUME RedactionInv, NEW volo \in SUBSET Applications, \A g \in volo : Holds(g),
           NEW uscita \in BOOLEAN, NEW h \in Hook({"proposte"}, Reports), Tidy(h),
           page' = [page EXCEPT !.report = h, !.volo = volo, !.uscita = uscita],
           server' \in [riga : Righe, edits : Nat]
    PROVE  RedactionInv'
    <1>1. page' \in RedactionPage /\ page'.report = h /\ page'.volo = volo
        BY DEF RedactionInv, RedactionPage
    <1> QED
        BY <1>1 DEF RedactionInv, Holds

LEMMA RedactionSendStep ==
    ASSUME RedactionInv, R!Applica \/ R!Lascia
    PROVE  RedactionInv'
    <1>1. /\ page.report \in Hook({"proposte"}, Reports) /\ Tidy(page.report)
          /\ page.volo \in SUBSET Applications /\ page.uscita \in BOOLEAN
          /\ server \in [riga : Righe, edits : Nat]
          /\ \A g \in page.volo : Holds(g)
        BY DEF RedactionInv, RedactionPage
    <1>2. CASE R!Lascia
        <2>1. /\ page' = [page EXCEPT !.report = page.report, !.volo = page.volo, !.uscita = TRUE]
              /\ server' = server
            BY <1>2 DEF R!Lascia, RedactionInv, RedactionPage
        <2> QED
            BY <1>1, <2>1, RedactionCalls
    <1>3. CASE R!Applica
        <2>1. PICK scelte \in R!Scelte :
                page' = [page EXCEPT !.volo = @ \cup {R!Applicazione(scelte)}]
            BY <1>3 DEF R!Applica
        <2> DEFINE g == R!Applicazione(scelte)
        <2>2. scelte \in SUBSET Proposals
            <3>1. page.report.kind = "pronto"
                BY <1>3 DEF R!Applica, R!Passata
            <3>2. page.report.dato \in Reports
                BY <1>1, <3>1 DEF Tidy, Hook
            <3> QED
                BY <3>2 DEF R!Scelte, Proposals
        <2>3. g \in Applications /\ Holds(g)
            BY <2>2, NoRigaTold DEF R!Applicazione, Applications, Holds
        <2> HIDE DEF g
        <2> DEFINE volo == page.volo \cup {g}
        <2>4. volo \in SUBSET Applications /\ \A x \in volo : Holds(x)
            BY <1>1, <2>3
        <2>5. page' = [page EXCEPT !.report = page.report, !.volo = volo, !.uscita = page.uscita]
            BY <2>1 DEF RedactionInv, RedactionPage, g
        <2>6. server' = server
            BY <1>3 DEF R!Applica
        <2> HIDE DEF volo
        <2> QED
            BY <1>1, <2>4, <2>5, <2>6, RedactionCalls
    <1> QED
        BY <1>2, <1>3

LEMMA RedactionCallStep ==
    ASSUME RedactionInv, NEW g \in page.volo,
           R!LeggiConferme(g) \/ R!Scrivi(g) \/ R!AnswerApplica(g) \/ R!FailApplica(g)
    PROVE  RedactionInv'
    <1>1. /\ page.report \in Hook({"proposte"}, Reports) /\ Tidy(page.report)
          /\ page.volo \in SUBSET Applications /\ page.uscita \in BOOLEAN
          /\ server \in [riga : Righe, edits : Nat]
          /\ \A x \in page.volo : Holds(x)
          /\ g \in Applications /\ Holds(g)
        BY DEF RedactionInv, RedactionPage
    <1>2. /\ \A x \in R!Ids(g) : Sendable(x)
        BY <1>1, IdsSendable DEF Applications
    <1> DEFINE Written(e) == /\ e \in Applications /\ Holds(e)
    \* It goes, and at most one comes in its place.
    <1>3. ASSUME NEW nuove, \A e \in nuove : Written(e),
                 NEW uscita \in BOOLEAN, NEW h \in Hook({"proposte"}, Reports), Tidy(h),
                 page' = [page EXCEPT !.report = h, !.volo = (page.volo \ {g}) \cup nuove,
                                      !.uscita = uscita],
                 server' \in [riga : Righe, edits : Nat]
          PROVE  RedactionInv'
        <2> DEFINE volo == (page.volo \ {g}) \cup nuove
        <2>1. volo \in SUBSET Applications /\ \A x \in volo : Holds(x)
            BY <1>1, <1>3
        <2>2. page' = [page EXCEPT !.report = h, !.volo = volo, !.uscita = uscita]
            BY <1>3
        <2> HIDE DEF volo
        <2> QED
            BY <1>3, <2>1, <2>2, RedactionCalls
    <1>4. \A nuove : page' = [page EXCEPT !.volo = (page.volo \ {g}) \cup nuove] =>
              page' = [page EXCEPT !.report = page.report, !.volo = (page.volo \ {g}) \cup nuove,
                                   !.uscita = page.uscita]
        BY DEF RedactionInv, RedactionPage
    <1>5. CASE R!LeggiConferme(g)
        <2>1. server' = server
            BY <1>5 DEF R!LeggiConferme
        <2>2. CASE R!Applicabili(server.riga, R!Ids(g))
            <3> DEFINE e == [g EXCEPT !.stato = "scrive", !.riga = server.riga,
                                      !.patch = R!PatchDiRedazione(server.riga, R!Ids(g))]
                       nuove == {e}
            <3>1. page' = [page EXCEPT !.volo = (page.volo \ {g}) \cup nuove]
                BY <1>5, <2>2 DEF R!LeggiConferme
            <3>2. server.riga \in Righe /\ server.riga \in Patches
                BY <1>1, RowsArePatches
            <3>3. R!PatchDiRedazione(server.riga, R!Ids(g)) \in Patches
                BY <1>2, <2>2, <3>2, PatchTold
            <3>4. /\ e \in Applications /\ e.stato = "scrive" /\ e.riga = server.riga
                  /\ e.patch = R!PatchDiRedazione(server.riga, R!Ids(g))
                  /\ e.confermate = g.confermate
                BY <1>1, <3>2, <3>3 DEF Applications
            <3> HIDE DEF e
            <3>5. R!Ids(e) = R!Ids(g)
                BY <3>4 DEF R!Ids
            <3>6. Written(e)
                BY <2>2, <3>2, <3>4, <3>5 DEF Holds
            <3>7. \A x \in nuove : Written(x)
                BY <3>6
            <3> HIDE DEF nuove, Written
            <3> QED
                BY <1>1, <1>3, <1>4, <2>1, <3>1, <3>7
        <2>3. CASE ~R!Applicabili(server.riga, R!Ids(g))
            <3> DEFINE e == [g EXCEPT !.stato = "rifiutata"]
                       nuove == IF g.ascoltata THEN {e} ELSE {}
            <3>1. page' = [page EXCEPT !.volo = (page.volo \ {g}) \cup nuove]
                BY <1>5, <2>3 DEF R!LeggiConferme, R!Settle
            <3>2. e \in Applications /\ e.stato = "rifiutata"
                BY <1>1 DEF Applications
            <3> HIDE DEF e
            <3>3. \A x \in nuove : Written(x)
                BY <3>2 DEF Holds
            <3> HIDE DEF nuove, Written
            <3> QED
                BY <1>1, <1>3, <1>4, <2>1, <3>1, <3>3
        <2> QED
            BY <2>2, <2>3
    <1>6. CASE R!Scrivi(g)
        <2> DEFINE e == [g EXCEPT !.stato = "fatta", !.riga = R!NoRiga, !.patch = R!NoRiga]
                   nuove == IF g.ascoltata THEN {e} ELSE {}
                   riga == [campo \in R!Campi |->
                               IF campo \in DOMAIN g.patch THEN g.patch[campo] ELSE server.riga[campo]]
        <2>1. /\ page' = [page EXCEPT !.volo = (page.volo \ {g}) \cup nuove]
              /\ server' = [server EXCEPT !.riga = riga]
            BY <1>6 DEF R!Scrivi, R!Settle
        <2>2. e \in Applications /\ e.stato = "fatta"
            BY <1>1, NoRigaTold DEF Applications
        <2>3. riga \in Righe
            <3>1. g.patch \in Patches
                BY <1>1 DEF Applications
            <3>2. \A campo \in DOMAIN g.patch : g.patch[campo] \in Seq(STRING)
                BY <3>1 DEF Patches
            <3> QED
                BY <1>1, <3>2 DEF Righe
        <2> HIDE DEF e, riga
        <2>4. \A x \in nuove : Written(x)
            BY <2>2 DEF Holds
        <2>5. server' \in [riga : Righe, edits : Nat]
            BY <1>1, <2>1, <2>3
        <2> HIDE DEF nuove, Written
        <2> QED
            BY <1>1, <1>3, <1>4, <2>1, <2>4, <2>5
    <1>7. CASE R!AnswerApplica(g)
        <2> DEFINE nuove == {}
        <2>1. /\ page' = [page EXCEPT !.report = page.report, !.volo = (page.volo \ {g}) \cup nuove,
                                      !.uscita = TRUE]
              /\ server' = server
            BY <1>7 DEF R!AnswerApplica, RedactionInv, RedactionPage
        <2>2. \A x \in nuove : Written(x)
            OBVIOUS
        <2> HIDE DEF nuove, Written
        <2> QED
            BY <1>1, <1>3, <2>1, <2>2
    <1>8. CASE R!FailApplica(g)
        <2> DEFINE e == [g EXCEPT !.ascoltata = FALSE]
                   nuove == IF g.stato \in {"andata", "scrive"} THEN {e} ELSE {}
                   h == U!Ricarica(page.report)
        <2>1. h \in Hook({"proposte"}, Reports) /\ Tidy(h)
            BY <1>1, Reloaded
        <2>2. /\ page' = [page EXCEPT !.report = h, !.volo = (page.volo \ {g}) \cup nuove,
                                      !.uscita = page.uscita]
              /\ server' = server
            BY <1>8, RedactionHook DEF R!FailApplica, RedactionInv, RedactionPage
        <2>3. /\ e \in Applications /\ e.stato = g.stato /\ e.riga = g.riga /\ e.patch = g.patch
              /\ e.confermate = g.confermate
            BY <1>1 DEF Applications
        <2> HIDE DEF e, h
        <2>4. Written(e)
            BY <1>1, <2>3 DEF Holds, R!Ids
        <2>5. \A x \in nuove : Written(x)
            BY <2>4
        <2> HIDE DEF nuove, Written
        <2> QED
            BY <1>1, <1>3, <2>1, <2>2, <2>5
    <1> QED
        BY <1>5, <1>6, <1>7, <1>8

LEMMA RedactionStep ==
    ASSUME RedactionInv, R!Next
    PROVE  RedactionInv'
    BY RedactionEditStep, RedactionReadStep, RedactionSendStep, RedactionCallStep DEF R!Next

LEMMA RedactionSafe == ScreensSpec => [](route = "redazione" => RedactionInv)
    <1>1. Init => (route = "redazione" => RedactionInv)
        BY RedactionInit DEF Init
    <1>2. (route = "redazione" => RedactionInv) /\ [Next]_screensVars
              => (route = "redazione" => RedactionInv)'
        <2> SUFFICES ASSUME route = "redazione", RedactionInv, [Next]_screensVars
                     PROVE  RedactionInv'
            BY RouteStays
        <2>1. CASE R!Next
            BY <2>1, RedactionStep
        <2>2. CASE UNCHANGED <<server, page>>
            BY <2>2 DEF RedactionInv, Holds
        <2> QED
            BY <2>1, <2>2
            DEF Next, screensVars, Cestino, Lista, Elenco, Conto, Scheda, Revisione, Cerca, Redazione
    <1> QED
        BY <1>1, <1>2, PTL DEF ScreensSpec

\* What the invariant says of what is shown.
LEMMA FreshTold ==
    ASSUME RedactionInv
    PROVE  R!FreshReportApplies
    <1> SUFFICES ASSUME page.report.kind = "pronto", page.report.dato.riga = server.riga,
                        NEW scelte \in R!Scelte
                 PROVE  /\ R!Applicabili(server.riga, {p.id : p \in scelte})
                        /\ \A p \in scelte : \A t \in R!TrattoDi(server.riga, p.id) :
                               R!Slice(server.riga[p.id.campo], t.start, t.len) = p.valore
        BY DEF R!FreshReportApplies
    <1>1. page.report.dato \in Reports
        BY DEF RedactionInv, RedactionPage, Hook, Tidy
    <1>2. PICK riga \in Righe, findings \in SUBSET Segnali :
            page.report.dato = R!Report(riga, findings)
        BY <1>1 DEF Reports
    <1>3. riga = server.riga
        BY <1>2 DEF R!Report
    <1>4. scelte \in SUBSET R!Report(riga, findings).proposte
        BY <1>2 DEF R!Scelte
    <1> QED
        BY <1>3, <1>4, ReportApplies

\* What it says of what is written.
LEMMA ConfirmedTold ==
    ASSUME RedactionInv
    PROVE  R!OnlyTheConfirmedGoes
    <1> SUFFICES ASSUME NEW g \in page.volo, g.stato = "scrive"
                 PROVE  /\ DOMAIN g.patch = {p.id.campo : p \in g.confermate}
                        /\ \A campo \in DOMAIN g.patch :
                               LET spans == R!Spans(g.riga, R!Ids(g), campo)
                               IN /\ R!Erased(g.patch[campo], g.riga[campo], spans)
                                  /\ {<<s.start, s.kind>> : s \in spans}
                                        = {<<p.id.start, p.id.kind>> :
                                              p \in {x \in g.confermate : x.id.campo = campo}}
                        /\ \A p \in g.confermate :
                               p.id.parole # R!Certa =>
                                   R!Slice(g.riga[p.id.campo], p.id.start, Len(p.valore)) = p.valore
        BY DEF R!OnlyTheConfirmedGoes, R!Writing
    <1> DEFINE ids == R!Ids(g)
    <1>1. /\ g.confermate \in SUBSET Proposals /\ g.riga \in Righe
          /\ R!Applicabili(g.riga, ids) /\ g.patch = R!PatchDiRedazione(g.riga, ids)
        BY DEF RedactionInv, RedactionPage, Applications, Holds
    <1>2. ids = {p.id : p \in g.confermate}
        BY DEF R!Ids
    <1> HIDE DEF ids
    <1>3. \A id \in ids : Sendable(id)
        BY <1>1, IdsSendable DEF ids
    <1>4. /\ DOMAIN g.patch = {id.campo : id \in ids}
          /\ \A campo \in DOMAIN g.patch :
                 R!Erased(g.patch[campo], g.riga[campo], R!Spans(g.riga, ids, campo))
        BY <1>1, <1>3, PatchTold
    <1>5. DOMAIN g.patch = {p.id.campo : p \in g.confermate}
        BY <1>2, <1>4
    <1>6. ASSUME NEW campo \in DOMAIN g.patch
          PROVE  {<<s.start, s.kind>> : s \in R!Spans(g.riga, ids, campo)}
                    = {<<p.id.start, p.id.kind>> : p \in {x \in g.confermate : x.id.campo = campo}}
        <2> DEFINE spans == R!Spans(g.riga, ids, campo)
        <2>1. campo \in R!Campi
            BY <1>3, <1>4 DEF Sendable
        <2>2. /\ \A id \in ids : id.campo = campo =>
                     \E s \in spans : s.start = id.start /\ s.kind = id.kind
              /\ \A s \in spans : \E id \in ids :
                     id.campo = campo /\ s.start = id.start /\ s.kind = id.kind
            BY <1>1, <1>3, <2>1, SpansTold
        <2> HIDE DEF spans
        <2> DEFINE confirmed == {x \in g.confermate : x.id.campo = campo}
        <2>3. ASSUME NEW s \in spans
              PROVE  <<s.start, s.kind>> \in {<<p.id.start, p.id.kind>> : p \in confirmed}
            <3>1. PICK id \in ids : id.campo = campo /\ s.start = id.start /\ s.kind = id.kind
                BY <2>2
            <3>2. PICK p \in g.confermate : p.id = id
                BY <1>2
            <3>3. p \in confirmed /\ s.start = p.id.start /\ s.kind = p.id.kind
                BY <3>1, <3>2
            <3> HIDE DEF confirmed
            <3> QED
                BY <3>3
        <2>4. ASSUME NEW p \in confirmed
              PROVE  <<p.id.start, p.id.kind>> \in {<<s.start, s.kind>> : s \in spans}
            <3>1. p.id \in ids /\ p.id.campo = campo
                BY <1>2
            <3>2. PICK s \in spans : s.start = p.id.start /\ s.kind = p.id.kind
                BY <2>2, <3>1
            <3> QED
                BY <3>2
        <2> HIDE DEF confirmed
        <2>5. {<<s.start, s.kind>> : s \in spans} = {<<p.id.start, p.id.kind>> : p \in confirmed}
            BY <2>3, <2>4
        <2> QED
            BY <2>5 DEF spans, confirmed
    <1>7. ASSUME NEW p \in g.confermate, p.id.parole # R!Certa
          PROVE  R!Slice(g.riga[p.id.campo], p.id.start, Len(p.valore)) = p.valore
        <2>1. p.id \in ids /\ Sendable(p.id) /\ p.valore = p.id.parole
            BY <1>1, <1>2, <1>7, ProposalTold
        <2>2. PICK t : t \in R!TrattoDi(g.riga, p.id)
            BY <1>1, <2>1 DEF R!Applicabili, R!Scadute
        <2> QED
            BY <1>1, <1>7, <2>1, <2>2, TrattoTold
    <1> QED
        BY <1>4, <1>5, <1>6, <1>7 DEF ids

(* RedactionScreen: as long as a card is as it was read, whatever is       *)
(* chosen among its proposals is accepted, in whatever number and whatever *)
(* the model had seen, and takes away the words the proposals showed       *)
(* (proposals.ts' ids are found again in a text that has not changed).     *)
THEOREM WhatIsShownApplies == ScreensSpec => []FreshReportApplies
    <1>1. (route = "redazione" => RedactionInv) => FreshReportApplies
        BY FreshTold DEF FreshReportApplies
    <1> QED
        BY <1>1, RedactionSafe, PTL

(* RedactionScreen: what is written of a field is its text without one     *)
(* stretch for each confirmation, for texts of any length and any number   *)
(* of stretches: the replacements go from the last to the first            *)
(* (detect.ts' applyRedactions), and none moves what another has to find.  *)
THEOREM NothingElseIsErased == ScreensSpec => []OnlyTheConfirmedGoes
    <1>1. (route = "redazione" => RedactionInv) => OnlyTheConfirmedGoes
        BY ConfirmedTold DEF OnlyTheConfirmedGoes
    <1> QED
        BY <1>1, RedactionSafe, PTL
================================================================================
