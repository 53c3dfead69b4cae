---------------------------- MODULE LedgerStore ----------------------------
(***************************************************************************)
(* What a file published by rename promises, whatever it holds: its content *)
(* changes by one whole update at a time.  For the spend ledger an update   *)
(* extends the content it replaces (module SpendLedger takes each of        *)
(* reserve, settle and reconcile for one such step); for the result files   *)
(* of harness/atomic_write.py it replaces it.  A power loss may take back   *)
(* updates that have not reached the disk, never part of one.               *)
(***************************************************************************)
EXTENDS Sequences

CONSTANTS
    Writers,          \* who may update the content
    ReadModifyWrite   \* does an update extend the content or replace it?

VARIABLES
    content,   \* the updates the visible content is made of
    durable    \* the updates of the content a power loss falls back to

StoreInit == content = <<>> /\ durable = <<>>

Updated(log, w) == IF ReadModifyWrite THEN Append(log, w) ELSE <<w>>

Update(w) == content' = Updated(content, w) /\ UNCHANGED durable
Flush == durable' = content /\ UNCHANGED content
FallBack == content' = durable /\ UNCHANGED durable

StoreNext == (\E w \in Writers : Update(w)) \/ Flush \/ FallBack

StoreSpec == StoreInit /\ [][StoreNext]_<<content, durable>>
=============================================================================
