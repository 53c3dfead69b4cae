---------------------------- MODULE SpendLedger ----------------------------
(***************************************************************************)
(* The spend ledger (harness/spend.py) and the provider calls that are     *)
(* charged to it (harness/providers/_base.py, the adapters' generate() and *)
(* harness/providers/retry.py).                                            *)
(*                                                                         *)
(* Every provider call first RESERVES its worst-case cost in a ledger      *)
(* shared by all campaigns on the machine, then talks to the provider, and *)
(* finally SETTLES the reservation at the cost the provider reported, or   *)
(* at zero when the call failed.  An entry carries no owner: a settlement  *)
(* looks for the LATEST outstanding reservation with its own provider,     *)
(* model and amount, whichever process made it.                            *)
(*                                                                         *)
(* Each of reserve_spend, settle_spend_reservation and                     *)
(* reconcile_spend_reservations is one step here: the code runs it under   *)
(* an exclusive file lock and publishes it with one rename (module         *)
(* LedgerFile refines that step).  Costs are natural numbers of some unit. *)
(***************************************************************************)
EXTENDS Naturals, FiniteSets

CONSTANTS
    Callers,        \* the campaign processes, one provider adapter each
    Keys,           \* the <<provider, model>> pairs
    KeyOf,          \* KeyOf[c]: the pair the adapter of c is built for
    Reservations,   \* the worst-case costs begin_call may compute
    Cap,            \* the spend cap read from the environment
    MaxAttempts,    \* len(delays_s) + 1 in generate_with_transport_retry
    MaxCalls,       \* bound: calls started in a behaviour
    Overrun,        \* how far a billed cost may exceed its reservation
    LostBills       \* may a provider bill an answer that never arrives?

ASSUME KeyAssumption == KeyOf \in [Callers -> Keys]
ASSUME CostAssumption ==
    /\ Reservations \subseteq Nat
    /\ Cap \in Nat
    /\ Overrun \in Nat
ASSUME CallersAssumption == IsFiniteSet(Callers)
ASSUME BoundAssumption ==
    /\ MaxAttempts \in Nat \ {0}
    /\ MaxCalls \in Nat
    /\ LostBills \in BOOLEAN

VARIABLES
    runs,       \* the "runs" list: entry number -> entry, in append order
    appended,   \* number of entries ever appended; the last entry number
    pc,         \* where each caller stands in generate()
    reserved,   \* the worst-case cost of the caller's current call
    attempt,    \* the attempt the caller is at, from 1
    reply,      \* what came back from the provider
    usage,      \* cost counted by the caller's adapters, over its restarts
    calls,      \* calls started so far
    billed,     \* history: what the providers really billed
    lost,       \* history: the part of it no reservation was left to cover
    missed,     \* history: usage a caller counted but could not settle
    dropped,    \* history: reservations an operator removed
    disturbed   \* history: did an operator do so while a call was active?

ledgerVars == <<runs, appended>>
callVars   == <<pc, reserved, attempt, reply, usage, calls>>
ghostVars  == <<billed, lost, missed, dropped, disturbed>>
vars == <<runs, appended, pc, reserved, attempt, reply, usage, calls,
          billed, lost, missed, dropped, disturbed>>

-----------------------------------------------------------------------------
(* Values *)

Entry == [key : Keys, cost : Nat, reservation : BOOLEAN]

\* The kinds of outcome generate() tells apart once the request is sent:
\* usable text; a billed response without text; a ProviderRetryableError
\* (408, 429, 5xx, timeout, truncated or invalid body); any other
\* ProviderHTTPError or ValueError.
Kinds == {"text", "empty", "retryable", "hard"}
\* The cost of a reply is what the provider bills for it.
Reply == [kind : Kinds, cost : Nat]
NoReply == [kind |-> "hard", cost |-> 0]

\* Only the first two kinds carry a usage block that tells the caller its cost.
HasUsage(r) == r.kind \in {"text", "empty"}

(***************************************************************************)
(* Sums of costs.  CostOf(r, S) is the sum of r[i].cost for i in S, counted *)
(* as the number of (entry, unit) pairs: cardinalities are what the proofs *)
(* can add up without an induction over the list.                          *)
(***************************************************************************)
Units(r, S) == UNION {{i} \X (1 .. r[i].cost) : i \in S}
CostOf(r, S) == Cardinality(Units(r, S))

SettledRuns(r) == {i \in DOMAIN r : ~r[i].reservation}

\* _settled_total: what the ledger publishes as total_usd.
SettledTotal(r) == CostOf(r, SettledRuns(r))

\* _committed_total: settled costs and outstanding reservations.
CommittedTotal(r) == CostOf(r, DOMAIN r)

\* The reservations settle_spend_reservation accepts for a call of key k
\* reserved at amount w.
Matching(r, k, w) ==
    {i \in DOMAIN r : r[i].reservation /\ r[i].key = k /\ r[i].cost = w}

\* The scan runs over reversed(runs): the latest match wins.
IsLatest(i, S) == i \in S /\ \A j \in S : j <= i

-----------------------------------------------------------------------------
(* Callers *)

Busy   == {"begin", "waiting", "settling", "sleeping"}
Ended  == {"idle", "ok", "failed"}
Halted == {"aborted", "crashed"}

Active(c) == pc[c] \in Busy

\* A caller whose reservation must still be in the ledger.
Holding(c) == pc[c] \in {"waiting", "settling"}

\* The call moves on, or is left together with its local variables.
Goto(c, label) ==
    /\ pc' = [pc EXCEPT ![c] = label]
    /\ UNCHANGED <<reserved, attempt>>

\* Mutant: the retry loop counts attempts from 0.
LeaveAtAttemptZero(c, label) ==
    /\ pc' = [pc EXCEPT ![c] = label]
    /\ reserved' = [reserved EXCEPT ![c] = 0]
    /\ attempt' = [attempt EXCEPT ![c] = 0]

Leave(c, label) ==
    /\ pc' = [pc EXCEPT ![c] = label]
    /\ reserved' = [reserved EXCEPT ![c] = 0]
    /\ attempt' = [attempt EXCEPT ![c] = 1]

Init ==
    /\ runs = [i \in {} |-> NoReply]
    /\ appended = 0
    /\ pc = [c \in Callers |-> "idle"]
    /\ reserved = [c \in Callers |-> 0]
    /\ attempt = [c \in Callers |-> 1]
    /\ reply = [c \in Callers |-> NoReply]
    /\ usage = [c \in Callers |-> 0]
    /\ calls = 0
    /\ billed = 0
    /\ lost = 0
    /\ missed = [c \in Callers |-> 0]
    /\ dropped = 0
    /\ disturbed = FALSE

\* generate_with_transport_retry is entered with a prompt whose worst case
\* is w; every attempt sends the same prompt, so reserves the same amount.
StartCall(c) ==
    /\ pc[c] \in Ended
    /\ calls < MaxCalls
    /\ calls' = calls + 1
    /\ \E w \in Reservations : reserved' = [reserved EXCEPT ![c] = w]
    /\ pc' = [pc EXCEPT ![c] = "begin"]
    /\ UNCHANGED <<attempt, reply, usage>>
    /\ UNCHANGED ledgerVars
    /\ UNCHANGED ghostVars

\* begin_call raises and nothing is reserved: wrong model, max_tokens below 1,
\* no API key in the environment, or an I/O error in reserve_spend before its
\* rename (evalmodel._call_once turns all of them into a failed call).
RejectCall(c) ==
    /\ pc[c] = "begin"
    /\ Leave(c, "failed")
    /\ UNCHANGED <<reply, usage, calls>>
    /\ UNCHANGED ledgerVars
    /\ UNCHANGED ghostVars

\* Mutant: the cap is compared with total_usd, without the reservations.
FitsTotalUsd(r, w) == SettledTotal(r) + w <= Cap

\* The cap test of reserve_spend: committed + cost_usd > cap refuses.
Fits(r, w) == CommittedTotal(r) + w <= Cap

Reserve(c) ==
    /\ pc[c] = "begin"
    /\ Fits(runs, reserved[c])
    /\ appended' = appended + 1
    /\ runs' = [i \in DOMAIN runs \cup {appended + 1} |->
                  IF i = appended + 1
                  THEN [key |-> KeyOf[c], cost |-> reserved[c], reservation |-> TRUE]
                  ELSE runs[i]]
    /\ Goto(c, "waiting")
    /\ UNCHANGED <<reply, usage, calls>>
    /\ UNCHANGED ghostVars

\* SpendCapExceeded ends the campaign (evalmodel._call_once re-raises it).
RefuseReservation(c) ==
    /\ pc[c] = "begin"
    /\ ~Fits(runs, reserved[c])
    /\ Leave(c, "aborted")
    /\ UNCHANGED <<reply, usage, calls>>
    /\ UNCHANGED ledgerVars
    /\ UNCHANGED ghostVars

-----------------------------------------------------------------------------
(* The provider's side of a call *)

\* What a request may be billed.
Bills(c) == 0 .. (reserved[c] + Overrun)

\* The part of a bill that a reservation of amount w does not cover.
Excess(bill, w) == IF bill > w THEN bill - w ELSE 0

\* A well-formed response: it bills what its usage block says.
Respond(c) ==
    /\ pc[c] = "waiting"
    /\ \E kind \in {"text", "empty"}, bill \in Bills(c) :
          /\ reply' = [reply EXCEPT ![c] = [kind |-> kind, cost |-> bill]]
          /\ billed' = billed + bill
    /\ Goto(c, "settling")
    /\ UNCHANGED <<usage, calls, lost, missed, dropped, disturbed>>
    /\ UNCHANGED ledgerVars

\* The request fails, or its response cannot be parsed: generate() catches
\* ProviderHTTPError and ValueError.  With LostBills the provider may have
\* billed the answer that was lost or malformed.
Fault(c) ==
    /\ pc[c] = "waiting"
    /\ \E kind \in {"retryable", "hard"}, bill \in IF LostBills THEN Bills(c) ELSE {0} :
          /\ reply' = [reply EXCEPT ![c] = [kind |-> kind, cost |-> bill]]
          /\ billed' = billed + bill
    /\ Goto(c, "settling")
    /\ UNCHANGED <<usage, calls, lost, missed, dropped, disturbed>>
    /\ UNCHANGED ledgerVars

\* Mutant: an exception outside the caught ones releases the reservation, too,
\* although no answer came back.
ReleaseOnAnyException(c) ==
    /\ pc[c] = "waiting"
    /\ \E bill \in Bills(c) : billed' = billed + bill
    /\ Goto(c, "settling")
    /\ UNCHANGED <<reply, usage, calls, lost, missed, dropped, disturbed>>
    /\ UNCHANGED ledgerVars

\* An exception the except clause does not name (a ConnectionResetError out
\* of response.read(), for one), or token counts finish_call rejects, skip the
\* settlement: the call fails, the campaign goes on, and the reservation stays
\* in the ledger.
EscapedException(c) ==
    /\ pc[c] = "waiting"
    /\ \E bill \in Bills(c) :
          /\ billed' = billed + bill
          /\ lost' = lost + Excess(bill, reserved[c])
    /\ Leave(c, "failed")
    /\ UNCHANGED <<reply, usage, calls, missed, dropped, disturbed>>
    /\ UNCHANGED ledgerVars

-----------------------------------------------------------------------------
(* Settlement: finish_call with the reported cost, release_call with zero *)

\* finish_call counts the usage before it settles; release_call does not.
CountedCost(c) == IF HasUsage(reply[c]) THEN reply[c].cost ELSE 0
CountUsage(c) == usage' = [usage EXCEPT ![c] = @ + CountedCost(c)]

\* The outcomes the retry loop sends the prompt again for.
Retryable(c) == reply[c].kind \in {"empty", "retryable"}

\* Mutant: the sleep after the last attempt leads to another one.
RetryOnceTooOften(c) ==
    \/ ~Retryable(c) /\ Leave(c, IF reply[c].kind = "text" THEN "ok" ELSE "failed")
    \/ Retryable(c) /\ attempt[c] <= MaxAttempts /\ Goto(c, "sleeping")

\* Where generate() and the retry loop around it leave the caller after a
\* settlement that kept the ledger under the cap.
Continue(c) ==
    \/ reply[c].kind = "text" /\ Leave(c, "ok")
    \/ reply[c].kind = "hard" /\ Leave(c, "failed")
    \/ Retryable(c) /\ attempt[c] = MaxAttempts /\ Leave(c, "failed")
    \/ Retryable(c) /\ attempt[c] < MaxAttempts /\ Goto(c, "sleeping")

\* Mutant: a billed answer without text is settled at zero.
SettleBilledEmptyAtZero(c) == IF reply[c].kind = "text" THEN reply[c].cost ELSE 0

\* The cost a settlement records: finish_call passes what it counted,
\* release_call passes zero.
SettledCost(c) == CountedCost(c)

\* Mutant: a settlement ignores provider and model.
AnyModel(c) == {i \in DOMAIN runs : runs[i].reservation /\ runs[i].cost = reserved[c]}

\* Mutant: a settlement accepts entries that are settled.
SettledToo(c) == {i \in DOMAIN runs : runs[i].key = KeyOf[c] /\ runs[i].cost = reserved[c]}

\* The entries the scan for a reservation stops at.
Candidates(c) == Matching(runs, KeyOf[c], reserved[c])

Settle(c) ==
    /\ pc[c] = "settling"
    /\ \E i \in Candidates(c) :
          /\ IsLatest(i, Candidates(c))
          /\ runs' = [runs EXCEPT ![i].cost = SettledCost(c),
                                  ![i].reservation = FALSE]
    /\ CountUsage(c)
    \* a release forgets the bill of an answer without usage
    /\ lost' = lost + (reply[c].cost - CountedCost(c))
    \* the overrun is recorded first and reported as SpendCapExceeded after
    /\ \/ CommittedTotal(runs') > Cap /\ Leave(c, "aborted")
       \/ CommittedTotal(runs') <= Cap /\ Continue(c)
    /\ reply' = [reply EXCEPT ![c] = NoReply]
    /\ UNCHANGED <<appended, calls, billed, missed, dropped, disturbed>>

\* A settlement that raises: no retry, and the ledger stays as it is.  By then
\* finish_call has counted the usage.
AbandonSettlement(c) ==
    /\ CountUsage(c)
    /\ missed' = [missed EXCEPT ![c] = @ + CountedCost(c)]
    /\ lost' = lost + Excess(reply[c].cost, reserved[c])
    /\ reply' = [reply EXCEPT ![c] = NoReply]
    /\ Leave(c, "failed")
    /\ UNCHANGED <<calls, billed, dropped, disturbed>>
    /\ UNCHANGED ledgerVars

\* "matching spend reservation not found", a ValueError.
SettleUnmatched(c) ==
    /\ pc[c] = "settling"
    /\ Candidates(c) = {}
    /\ AbandonSettlement(c)

\* An OSError while the ledger is locked, loaded or saved (LedgerFile!IOError).
SettleFails(c) ==
    /\ pc[c] = "settling"
    /\ AbandonSettlement(c)

\* Mutant: a retry goes on under the reservation already settled.
WakeWithoutReserving(c) ==
    /\ pc[c] = "sleeping"
    /\ attempt[c] < MaxAttempts
    /\ attempt' = [attempt EXCEPT ![c] = @ + 1]
    /\ pc' = [pc EXCEPT ![c] = "waiting"]
    /\ UNCHANGED <<reserved, reply, usage, calls>>
    /\ UNCHANGED ledgerVars
    /\ UNCHANGED ghostVars

\* sleep(delays_s[attempt]), then the next attempt reserves afresh.
Wake(c) ==
    /\ pc[c] = "sleeping"
    /\ attempt[c] < MaxAttempts
    /\ attempt' = [attempt EXCEPT ![c] = @ + 1]
    /\ pc' = [pc EXCEPT ![c] = "begin"]
    /\ UNCHANGED <<reserved, reply, usage, calls>>
    /\ UNCHANGED ledgerVars
    /\ UNCHANGED ghostVars

-----------------------------------------------------------------------------
(* Crashes, restarts and the operator *)

\* The process dies.  A request that is already on the wire may be billed.
Crash(c) ==
    /\ Active(c)
    /\ \E bill \in IF pc[c] = "waiting" THEN Bills(c) ELSE {0} :
          /\ billed' = billed + bill
          /\ lost' = lost + Excess(bill + reply[c].cost, reserved[c])
    /\ Leave(c, "crashed")
    /\ reply' = [reply EXCEPT ![c] = NoReply]
    /\ UNCHANGED <<usage, calls, missed, dropped, disturbed>>
    /\ UNCHANGED ledgerVars

\* A campaign that crashed or was aborted is started again; the reservation
\* of its interrupted call, if any, is still in the ledger.
Restart(c) ==
    /\ pc[c] \in Halted
    /\ calls < MaxCalls
    /\ Goto(c, "idle")
    /\ UNCHANGED <<reply, usage, calls>>
    /\ UNCHANGED ledgerVars
    /\ UNCHANGED ghostVars

\* reconcile_spend.py is documented for a ledger with no call active.  The code
\* does not test it: what an operator disturbs is remembered.
LedgerIsQuiet == \A c \in Callers : ~Active(c)

Reconcile ==
    /\ SettledRuns(runs) # DOMAIN runs
    /\ runs' = [i \in SettledRuns(runs) |-> runs[i]]
    /\ dropped' = dropped + CostOf(runs, DOMAIN runs \ SettledRuns(runs))
    /\ disturbed' = (disturbed \/ ~LedgerIsQuiet)
    /\ UNCHANGED <<appended, billed, lost, missed>>
    /\ UNCHANGED callVars

-----------------------------------------------------------------------------
CallerStep(c) ==
    \/ RejectCall(c) \/ Reserve(c) \/ RefuseReservation(c)
    \/ Respond(c) \/ Fault(c) \/ EscapedException(c)
    \/ Settle(c) \/ SettleUnmatched(c) \/ SettleFails(c) \/ Wake(c)

Next ==
    \/ \E c \in Callers :
          StartCall(c) \/ CallerStep(c) \/ Crash(c) \/ Restart(c)
    \/ Reconcile

Spec == Init /\ [][Next]_vars

\* A started call keeps going: the lock is granted, the read timeout of the
\* HTTP request turns silence into a fault, and sleeps end.  New calls,
\* crashes, restarts and the operator are under no obligation.
FairSpec == Spec /\ \A c \in Callers : WF_vars(CallerStep(c))

-----------------------------------------------------------------------------
(* Properties *)

TypeOK ==
    /\ appended \in Nat
    /\ DOMAIN runs \subseteq 1 .. appended
    /\ runs \in [DOMAIN runs -> Entry]
    /\ pc \in [Callers -> Busy \cup Ended \cup Halted]
    /\ reserved \in [Callers -> Nat]
    /\ attempt \in [Callers -> 1 .. MaxAttempts]
    /\ reply \in [Callers -> Reply]
    /\ usage \in [Callers -> Nat]
    /\ calls \in Nat
    /\ billed \in Nat
    /\ lost \in Nat
    /\ missed \in [Callers -> Nat]
    /\ dropped \in Nat
    /\ disturbed \in BOOLEAN

\* Whatever the interleaving of reservations, settlements, crashes and
\* reconciliations, what the ledger has committed exceeds the cap only by what
\* providers bill above the worst case they were reserved at, and then by at
\* most one such overrun per campaign: the first settlement over the cap stops
\* all new reservations.  With Overrun = 0 the cap is never exceeded.
CapRespected == CommittedTotal(runs) <= Cap + Overrun * Cardinality(Callers)

\* Entries have no owner, so a settlement may take a reservation another
\* process made.  That is harmless only because there are always at least as
\* many matching reservations as calls that still have to settle one: no call
\* can use up the reservation of another.
Holders(k, w) == {c \in Callers : Holding(c) /\ KeyOf[c] = k /\ reserved[c] = w}
ReservationsBacked ==
    ~disturbed =>
        \A k \in Keys, w \in Reservations :
            Cardinality(Holders(k, w)) <= Cardinality(Matching(runs, k, w))

\* settle_spend_reservation never has to raise "matching spend reservation
\* not found" on a ledger that was only reconciled when quiet.
SettlementFindsReservation ==
    ~disturbed =>
        \A c \in Callers : Holding(c) => Matching(runs, KeyOf[c], reserved[c]) # {}

\* The two records of a campaign's cost agree: for each provider and model,
\* the settled entries add up to what the adapters counted for the manifests,
\* although settlements pick entries by value and not by owner.  They drift
\* apart by exactly the usage of settlements that raised: finish_call counts
\* before it settles (_base.py:94-103), so an I/O error there, or a reservation
\* an operator removed, leaves usage in a manifest that no entry shows.
Spent == [c \in Callers |-> [cost |-> usage[c] - missed[c]]]
UsageOf(k) == CostOf(Spent, {c \in Callers : KeyOf[c] = k})
UsageRecorded ==
    \A k \in Keys :
        CostOf(runs, {i \in SettledRuns(runs) : runs[i].key = k}) = UsageOf(k)

\* The point of reserving the worst case before the request is sent: what
\* providers billed, crashes, escaped exceptions and failed settlements
\* included, is in the ledger, settled or still reserved, or is accounted for by
\* one of three: an operator removed its reservation; generate() released an
\* answer that was billed all the same; or it is the part above the worst case
\* of a bill that is not settled yet or never will be.
Unsettled == [c \in Callers |->
    [cost |-> IF pc[c] = "settling" THEN Excess(reply[c].cost, reserved[c]) ELSE 0]]
BilledCovered ==
    billed <= CommittedTotal(runs) + dropped + lost + CostOf(Unsettled, Callers)

\* A settled entry is final: no later settlement, failure or reconciliation
\* changes or removes it ("preserving settled runs", spend.py).
SettledIsFinal ==
    [][\A i \in SettledRuns(runs) : i \in DOMAIN runs' /\ runs'[i] = runs[i]]_vars

\* Every call ends: it returns, fails, or takes its campaign down.  The
\* retry loop is bounded and every wait in it is.
EveryCallEnds == \A c \in Callers : Active(c) ~> ~Active(c)

\* Once no call is under way and no reservation is outstanding or was removed,
\* the recorded spend is what was billed, whatever attempts failed before, but
\* for the bills of answers that were released or of calls that died above
\* their worst case.
Quiescent == SettledRuns(runs) = DOMAIN runs /\ dropped = 0
RecordedSpendMatchesBilled ==
    (\A c \in Callers : pc[c] \in Ended) /\ Quiescent
        => SettledTotal(runs) + lost = billed

\* The recorded spend of a retry sequence that ended with usable text is what
\* was billed, without exception, as the adapters'
\* comment states it ("a retry sequence's total recorded spend still matches
\* what was actually billed", anthropic.py:70-71).
RetrySequenceMatchesBilled ==
    (\A c \in Callers : pc[c] \in {"idle", "ok"}) /\ Quiescent
        => SettledTotal(runs) = billed

=============================================================================
