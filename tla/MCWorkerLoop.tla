------------------------------ MODULE MCWorkerLoop ------------------------------
(* Two executions.  Once all that blocks the loop takes less than a minute, and *)
(* three times one thing takes longer than an update may wait: reading a        *)
(* document, matching an answer with it, the commit of an update.               *)
EXTENDS WorkerLoop, TLC

CONSTANTS w1, w2

Two == {w1, w2}
Idle == [a \in Activities |-> 0]

Quick ==
    (w1 :> [Idle EXCEPT !["extract_pdf_text"] = 1])
    @@ (w2 :> [Idle EXCEPT !["extract_metadata_with_llm"] = 1, !["update_success"] = 1])
Slow(a) == (w1 :> [Idle EXCEPT ![a] = Minute + 1]) @@ (w2 :> Idle)

MCLoads ==
    {Quick} \cup {Slow(a) : a \in {"extract_pdf_text", "extract_metadata_with_llm",
                                    "update_success"}}
=============================================================================
