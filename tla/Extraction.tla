------------------------------- MODULE Extraction -------------------------------
(***************************************************************************)
(* What the API makes of an answer of the extraction model: the form of    *)
(* the contract first, then the rules of the domain, then the status the   *)
(* card is born with.  Pure operators on a contract:                       *)
(*   forma       whether it has the shape the schema asks for              *)
(*   titolo      the length of the title without its blanks, 0 if missing  *)
(*   passi       the steps in the order of the answer, each with the       *)
(*               number the model gave it                                  *)
(*   costi       the costs: the cents, and whether the currency is in form *)
(*   confidenza  in tenths                                                 *)
(*   tipo        what the model thinks the text is                         *)
(***************************************************************************)
EXTENDS Integers, Sequences, FiniteSets

MAX_TITOLO_LENGTH == 80
MIN_CONFIDENZA == 5

Issue(rule, blocking) == [rule |-> rule, blocking |-> blocking]

When(condition, rule, blocking) == IF condition THEN {Issue(rule, blocking)} ELSE {}

TitoloIssues(c) ==
    When(c.titolo = 0, "titolo.mancante", TRUE)
        \cup When(c.titolo >= MAX_TITOLO_LENGTH, "titolo.troppo_lungo", FALSE)

PassiIssues(c) ==
    When(c.passi = <<>>, "passi.vuoti", FALSE)
        \cup When(\E i \in DOMAIN c.passi : c.passi[i].ordine # i, "passi.ordine_non_contiguo", FALSE)

CostiIssues(c) ==
    UNION {When(costo.importoCent < 0, "costo.importo_negativo", FALSE)
               \cup When(~costo.iso, "costo.valuta_non_iso", FALSE) : costo \in c.costi}

MetaIssues(c) ==
    LET fuori == c.confidenza \notin 0..10
    IN When(fuori, "meta.confidenza_fuori_scala", FALSE)
           \cup When(~fuori /\ c.confidenza < MIN_CONFIDENZA, "meta.confidenza_bassa", FALSE)
           \cup When(c.tipo # "PROCEDURA", "meta.tipo_non_procedura", FALSE)

DomainIssues(c) == TitoloIssues(c) \cup PassiIssues(c) \cup CostiIssues(c) \cup MetaIssues(c)

ValidateExtraction(raw) ==
    LET issues == IF raw.forma THEN DomainIssues(raw) ELSE {Issue("contratto.non_conforme", TRUE)}
    IN IF \E i \in issues : i.blocking
         THEN [outcome |-> "RIFIUTATA", cardStatus |-> "", issues |-> issues]
         ELSE [outcome |-> "ACCETTATA", issues |-> issues,
               cardStatus |-> IF issues = {} THEN "COMPLETA" ELSE "DA_RIVEDERE"]

\* The place of a step in the order of the numbers, the first told first among equals.
Place(passi, i) ==
    Cardinality({j \in DOMAIN passi : \/ passi[j].ordine < passi[i].ordine
                                      \/ passi[j].ordine = passi[i].ordine /\ j <= i})

NormalizeSteps(passi) ==
    [n \in DOMAIN passi |->
        [passi[CHOOSE i \in DOMAIN passi : Place(passi, i) = n] EXCEPT !.ordine = n]]
================================================================================
