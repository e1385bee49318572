-------------------------------- MODULE MCTx --------------------------------
(***************************************************************************)
(* Small instances of the transaction manager.                             *)
(***************************************************************************)
EXTENDS Tx

\* Failing resource managers and calls; branches that vote against the commit
\* or are decided heuristically; TMs that cannot be called.
Several == {{"RMFails", "SendFails", "Chains", "Nests"},
            {"HonoursFail", "Heuristic", "Chains", "Nests"},
            {"HonoursFail", "SendFails", "Nests"}}

\* Everything that may happen to one transaction.
Everything == {{"HonoursFail", "RMFails", "Heuristic", "SendFails", "Interrupts"}}
=============================================================================
