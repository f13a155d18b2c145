--------------------------- MODULE MCTelegramBridge ---------------------------
(***************************************************************************)
(* TelegramBridge for TLC: two messages of any kind, a bridge that is      *)
(* started twice, with the command lines the demo's documents name.        *)
(***************************************************************************)
EXTENDS TelegramBridge

\* The kinds the bridge tells apart.
MCKinds == {"chatter", "order", "order, printer", "vague", "vague, printer"}

\* The bridge treats an order with another item like any order, so that only
\* what is said of such a text needs it.
MCAllKinds == MCKinds \cup {"order, other"}

Plain == [once |-> FALSE, dry_run |-> FALSE, auto_run |-> TRUE, llm |-> FALSE]

MCConfigs ==
    {Plain,
     [Plain EXCEPT !.llm = TRUE],
     [Plain EXCEPT !.once = TRUE, !.auto_run = FALSE],
     [Plain EXCEPT !.dry_run = TRUE]}
==============================================================================
