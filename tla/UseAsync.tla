------------------------------- MODULE UseAsync -------------------------------
(***************************************************************************)
(* The hook every screen reads the API with: a value in one of three       *)
(* states, and the reads whose answer it still listens to.  An effect runs *)
(* when the question changes or when a read is asked for; it stops         *)
(* listening to the older read, and puts the value back to `attesa' unless *)
(* the new read is a quiet one for the same question.                      *)
(*                                                                         *)
(* The operators are on a hook record: a screen keeps one in its page, and *)
(* says in an action of its own what the server answers.                   *)
(***************************************************************************)
EXTENDS Integers, Sequences, FiniteSets

CONSTANT NoDato    \* a value not read yet

------------------------------------------------------------------------------
Read(question, silenzioso) ==
    [question |-> question, silenzioso |-> silenzioso, dato |-> NoDato]

Mount(question) ==
    [kind |-> "attesa", dato |-> NoDato, question |-> question,
     reads |-> {Read(question, FALSE)}]

\* Mutant: the cleanup leaves `vivo' up, and an older read is still listened to.
EffectMutant(h, question, asked) ==
    LET silenzioso == asked /\ question = h.question
    IN [kind |-> IF silenzioso THEN h.kind ELSE "attesa",
        dato |-> IF silenzioso THEN h.dato ELSE NoDato,
        question |-> question,
        reads |-> h.reads \cup {Read(question, silenzioso)}]

\* The effect, with the silenzioso of the giro.  A read whose `vivo' has fallen
\* can change nothing any more: it leaves `reads'.
Effect(h, question, asked) ==
    LET silenzioso == asked /\ question = h.question
    IN [kind |-> IF silenzioso THEN h.kind ELSE "attesa",
        dato |-> IF silenzioso THEN h.dato ELSE NoDato,
        question |-> question,
        reads |-> {Read(question, silenzioso)}]

Ricarica(h) == Effect(h, h.question, FALSE)

\* Mutant: a poll passes by `attesa' as a reload does.
AggiornaMutant(h) == Effect(h, h.question, FALSE)
Aggiorna(h) == Effect(h, h.question, TRUE)

\* The server answers a read; nothing is seen of it yet.
Unserved(h) == {r \in h.reads : r.dato = NoDato}
Serve(h, r, dato) == [h EXCEPT !.reads = (@ \ {r}) \cup {[r EXCEPT !.dato = dato]}]

\* The answer reaches the page.
Served(h) == {r \in h.reads : r.dato # NoDato}
Resolve(h, r) == [h EXCEPT !.reads = @ \ {r}, !.kind = "pronto", !.dato = r.dato]

\* The read fails, or its answer is lost.
Reject(h, r) ==
    IF r.silenzioso /\ h.kind = "pronto"
      THEN [h EXCEPT !.reads = @ \ {r}]
      ELSE [h EXCEPT !.reads = @ \ {r}, !.kind = "errore", !.dato = NoDato]
================================================================================
