------------------------- MODULE SpendLedgerProofs -------------------------
(***************************************************************************)
(* Machine-checked theorems about SpendLedger, for every set of callers,   *)
(* models and worst-case costs and every cap.                              *)
(***************************************************************************)
EXTENDS SpendLedger, FiniteSetTheorems, TLAPS

(***************************************************************************)
(* Sums of costs.                                                          *)
(***************************************************************************)

\* The units of one entry are as many as its cost.
LEMMA EntryUnits ==
    ASSUME NEW i, NEW n \in Nat
    PROVE  /\ IsFiniteSet({i} \X (1 .. n))
           /\ Cardinality({i} \X (1 .. n)) = n
<1>1. IsFiniteSet({i}) /\ Cardinality({i}) = 1
  BY FS_Singleton
<1>2. IsFiniteSet(1 .. n) /\ Cardinality(1 .. n) = n
  BY FS_Interval
<1>3. /\ IsFiniteSet({i} \X (1 .. n))
      /\ Cardinality({i} \X (1 .. n)) = Cardinality({i}) * Cardinality(1 .. n)
  BY <1>1, <1>2, FS_Product
<1>4. QED
  BY <1>1, <1>2, <1>3

\* The units of finitely many entries are finitely many.
LEMMA UnitsFinite ==
    ASSUME NEW r, NEW S, IsFiniteSet(S), \A i \in S : r[i].cost \in Nat
    PROVE  IsFiniteSet(Units(r, S)) /\ CostOf(r, S) \in Nat
<1> DEFINE T == {{i} \X (1 .. r[i].cost) : i \in S}
           f == [i \in S |-> {i} \X (1 .. r[i].cost)]
<1>1. f \in Surjection(S, T)
  BY DEF Surjection
<1>2. ASSUME NEW t \in T PROVE IsFiniteSet(t)
  <2>1. PICK i \in S : t = {i} \X (1 .. r[i].cost)
    OBVIOUS
  <2>2. QED
    BY <2>1, EntryUnits
<1>3. Units(r, S) = UNION T
  BY DEF Units
<1> HIDE DEF f, T
<1>4. IsFiniteSet(T)
  BY <1>1, FS_Surjection
<1>5. IsFiniteSet(UNION T)
  BY <1>2, <1>4, FS_UNION
<1>6. QED
  BY <1>3, <1>5, FS_CardinalityType DEF CostOf

\* The sum depends only on the costs of the entries summed over.
LEMMA CostAgree ==
    ASSUME NEW r, NEW q, NEW S, \A i \in S : r[i].cost = q[i].cost
    PROVE  CostOf(r, S) = CostOf(q, S)
BY DEF CostOf, Units

\* One more entry adds its cost to the sum.
LEMMA CostAdd ==
    ASSUME NEW r, NEW S, IsFiniteSet(S), NEW i, i \notin S,
           \A j \in S \cup {i} : r[j].cost \in Nat
    PROVE  CostOf(r, S \cup {i}) = CostOf(r, S) + r[i].cost
<1> DEFINE U == {i} \X (1 .. r[i].cost)
           V == Units(r, S)
<1>1. Units(r, S \cup {i}) = V \cup U
  BY DEF Units
<1>2. V \cap U = {}
  BY DEF Units
<1>3. r[i].cost \in Nat
  OBVIOUS
<1>4. IsFiniteSet(U) /\ Cardinality(U) = r[i].cost
  BY <1>3, EntryUnits
<1>5. IsFiniteSet(V) /\ Cardinality(V) \in Nat
  BY UnitsFinite, FS_CardinalityType
<1> HIDE DEF U, V
<1>6. Cardinality(V \cup U) = Cardinality(V) + Cardinality(U) - Cardinality(V \cap U)
  BY <1>4, <1>5, FS_Union
<1>7. Cardinality(V \cap U) = 0
  BY <1>2, FS_EmptySet
<1>8. Cardinality(V \cup U) = Cardinality(V) + r[i].cost
  BY <1>3, <1>4, <1>5, <1>6, <1>7
<1>9. QED
  BY <1>1, <1>8 DEF CostOf, V

\* The sum over a part of the entries is at most the sum over all of them.
LEMMA CostSubset ==
    ASSUME NEW r, NEW S, IsFiniteSet(S), NEW T \in SUBSET S,
           \A i \in S : r[i].cost \in Nat
    PROVE  CostOf(r, T) <= CostOf(r, S)
<1>1. IsFiniteSet(Units(r, S))
  BY UnitsFinite
<1>2. Units(r, T) \in SUBSET Units(r, S)
  BY DEF Units
<1>3. QED
  BY <1>1, <1>2, FS_Subset DEF CostOf

\* No entries, no cost.
LEMMA CostEmpty == ASSUME NEW r PROVE CostOf(r, {}) = 0
<1>1. Units(r, {}) = {}
  BY DEF Units
<1>2. QED
  BY <1>1, FS_EmptySet DEF CostOf

\* Entries that cost nothing add up to nothing.
LEMMA CostZero ==
    ASSUME NEW r, NEW S, \A i \in S : r[i].cost = 0
    PROVE  CostOf(r, S) = 0
<1>1. \A i \in S : {i} \X (1 .. r[i].cost) = {}
  OBVIOUS
<1>2. Units(r, S) = {}
  BY <1>1 DEF Units
<1>3. QED
  BY <1>2, FS_EmptySet DEF CostOf

\* Changing the cost of one entry changes the sum by the difference.
LEMMA CostChange ==
    ASSUME NEW r, NEW q, NEW S, IsFiniteSet(S), NEW i \in S,
           \A j \in S : r[j].cost \in Nat /\ q[j].cost \in Nat,
           \A j \in S \ {i} : q[j].cost = r[j].cost
    PROVE  /\ CostOf(q, S) + r[i].cost = CostOf(r, S) + q[i].cost
           /\ CostOf(q, S) \in Nat
           /\ CostOf(r, S) \in Nat
<1> DEFINE R == S \ {i}
<1>1. IsFiniteSet(R)
  BY FS_RemoveElement
<1>2. i \notin R /\ R \cup {i} = S
  OBVIOUS
<1>3. CostOf(r, R) = CostOf(q, R)
  BY CostAgree
<1>4. CostOf(r, R) \in Nat
  BY <1>1, UnitsFinite
<1>5. r[i].cost \in Nat /\ q[i].cost \in Nat
  OBVIOUS
<1> HIDE DEF R
<1>6. CostOf(r, R \cup {i}) = CostOf(r, R) + r[i].cost
  BY <1>1, <1>2, CostAdd
<1>7. CostOf(q, R \cup {i}) = CostOf(q, R) + q[i].cost
  BY <1>1, <1>2, CostAdd
<1>8. CostOf(r, S) = CostOf(r, R) + r[i].cost
  BY <1>2, <1>6
<1>9. CostOf(q, S) = CostOf(r, R) + q[i].cost
  BY <1>2, <1>3, <1>7
<1>10. QED
  BY <1>4, <1>5, <1>8, <1>9

(***************************************************************************)
(* Type correctness.                                                       *)
(***************************************************************************)

\* The ledger is a finite list of entries with natural costs.
LEMMA LedgerFinite ==
    ASSUME NEW r, NEW n \in Nat, DOMAIN r \subseteq 1 .. n,
           r \in [DOMAIN r -> Entry], NEW S \in SUBSET DOMAIN r
    PROVE  /\ IsFiniteSet(DOMAIN r)
           /\ IsFiniteSet(S)
           /\ \A i \in S : r[i].cost \in Nat
           /\ CostOf(r, S) \in Nat
<1>1. IsFiniteSet(1 .. n)
  BY FS_Interval
<1>2. IsFiniteSet(DOMAIN r)
  BY <1>1, FS_Subset
<1>3. IsFiniteSet(S)
  BY <1>2, FS_Subset
<1>4. \A i \in S : r[i].cost \in Nat
  BY DEF Entry
<1>5. QED
  BY <1>2, <1>3, <1>4, UnitsFinite

\* What a reservation appends, and what a settlement rewrites.
LEMMA ReserveEffect ==
    ASSUME TypeOK, NEW c \in Callers, Reserve(c)
    PROVE  /\ appended' = appended + 1
           /\ appended + 1 \notin DOMAIN runs
           /\ DOMAIN runs' = DOMAIN runs \cup {appended + 1}
           /\ \A i \in DOMAIN runs : runs'[i] = runs[i]
           /\ runs'[appended + 1]
                = [key |-> KeyOf[c], cost |-> reserved[c], reservation |-> TRUE]
           /\ runs' \in [DOMAIN runs' -> Entry]
BY KeyAssumption DEF TypeOK, Reserve, Entry

LEMMA SettleEffect ==
    ASSUME TypeOK, NEW c \in Callers, Settle(c)
    PROVE  \E i \in Matching(runs, KeyOf[c], reserved[c]) :
              /\ DOMAIN runs' = DOMAIN runs
              /\ \A j \in DOMAIN runs \ {i} : runs'[j] = runs[j]
              /\ runs'[i] = [key |-> KeyOf[c], cost |-> SettledCost(c),
                             reservation |-> FALSE]
              /\ SettledCost(c) \in Nat
              /\ runs' \in [DOMAIN runs' -> Entry]
<1>1. PICK i \in Matching(runs, KeyOf[c], reserved[c]) :
         runs' = [runs EXCEPT ![i].cost = SettledCost(c), ![i].reservation = FALSE]
  BY DEF Settle, Candidates
<1>2. SettledCost(c) \in Nat
  BY DEF SettledCost, CountedCost, TypeOK, Reply
<1>3. /\ i \in DOMAIN runs
      /\ runs[i] \in Entry
      /\ runs[i].key = KeyOf[c]
  BY DEF Matching, TypeOK
<1>4. runs'[i] = [key |-> KeyOf[c], cost |-> SettledCost(c), reservation |-> FALSE]
  BY <1>1, <1>3 DEF Entry, TypeOK
<1>5. DOMAIN runs' = DOMAIN runs /\ \A j \in DOMAIN runs \ {i} : runs'[j] = runs[j]
  BY <1>1, <1>3
<1>6. runs' \in [DOMAIN runs' -> Entry]
  BY <1>1, <1>2, <1>3, <1>4, <1>5, KeyAssumption DEF TypeOK, Entry
<1>7. QED
  BY <1>1, <1>2, <1>4, <1>5, <1>6

\* Every variable keeps its type: in particular entries never get a negative
\* cost and attempts never leave 1 .. MaxAttempts.
THEOREM TypeCorrect == Spec => []TypeOK
<1>1. Init => TypeOK
  <2>1. Init => disturbed \in BOOLEAN
    BY Zenon DEF Init
  <2>2. Init => runs \in [DOMAIN runs -> Entry] /\ DOMAIN runs \subseteq 1 .. appended
    BY DEF Init
  <2>3. QED
    BY <2>1, <2>2, BoundAssumption
    DEF Init, TypeOK, Reply, NoReply, Kinds, Busy, Ended, Halted
<1>2. TypeOK /\ [Next]_vars => TypeOK'
  <2> SUFFICES ASSUME TypeOK, [Next]_vars PROVE TypeOK'
    OBVIOUS
  <2> USE CostAssumption, BoundAssumption
      DEF Busy, Ended, Halted, Goto, Leave, ledgerVars, callVars, ghostVars,
          Bills, Excess
  <2>1. ASSUME NEW c \in Callers, StartCall(c) PROVE TypeOK'
    BY <2>1 DEF StartCall, TypeOK
  <2>2. ASSUME NEW c \in Callers, RejectCall(c) PROVE TypeOK'
    BY <2>2 DEF RejectCall, TypeOK
  <2>3. ASSUME NEW c \in Callers, Reserve(c) PROVE TypeOK'
    <3>1. DOMAIN runs' \subseteq 1 .. appended' /\ appended' \in Nat
      <4>1. /\ appended' = appended + 1
            /\ DOMAIN runs' = DOMAIN runs \cup {appended + 1}
        BY <2>3, ReserveEffect
      <4>2. appended \in Nat /\ DOMAIN runs \subseteq 1 .. appended
        BY DEF TypeOK
      <4>3. QED
        BY <4>1, <4>2
    <3>2. runs' \in [DOMAIN runs' -> Entry]
      BY <2>3, ReserveEffect
    <3>3. QED
      BY <2>3, <3>1, <3>2 DEF Reserve, TypeOK
  <2>4. ASSUME NEW c \in Callers, RefuseReservation(c) PROVE TypeOK'
    BY <2>4 DEF RefuseReservation, TypeOK
  <2>5. ASSUME NEW c \in Callers, Respond(c) PROVE TypeOK'
    BY <2>5 DEF Respond, TypeOK, Reply, Kinds
  <2>6. ASSUME NEW c \in Callers, Fault(c) PROVE TypeOK'
    BY <2>6 DEF Fault, TypeOK, Reply, Kinds
  <2>7. ASSUME NEW c \in Callers, EscapedException(c) PROVE TypeOK'
    BY <2>7 DEF EscapedException, TypeOK
  <2>8. ASSUME NEW c \in Callers, Settle(c) PROVE TypeOK'
    <3>1. DOMAIN runs' = DOMAIN runs /\ runs' \in [DOMAIN runs' -> Entry]
      BY <2>8, SettleEffect
    <3>2. /\ appended' = appended /\ calls' = calls
          /\ billed' = billed /\ dropped' = dropped
          /\ disturbed' = disturbed /\ missed' = missed
          /\ lost' \in Nat
      BY <2>8 DEF Settle, CountedCost, TypeOK, Reply
    <3>3. reply' \in [Callers -> Reply]
      BY <2>8 DEF Settle, TypeOK, Reply, NoReply, Kinds
    <3>4. usage' \in [Callers -> Nat]
      BY <2>8 DEF Settle, CountUsage, CountedCost, TypeOK, Reply
    <3>5. /\ pc' \in [Callers -> Busy \cup Ended \cup Halted]
          /\ reserved' \in [Callers -> Nat]
          /\ attempt' \in [Callers -> 1 .. MaxAttempts]
      BY <2>8 DEF Settle, Continue, TypeOK
    <3>6. QED
      BY <3>1, <3>2, <3>3, <3>4, <3>5 DEF TypeOK
  <2>9. ASSUME NEW c \in Callers, SettleUnmatched(c) \/ SettleFails(c) PROVE TypeOK'
    <3>1. AbandonSettlement(c)
      BY <2>9 DEF SettleUnmatched, SettleFails
    <3>2. usage' \in [Callers -> Nat] /\ missed' \in [Callers -> Nat]
      BY <3>1 DEF AbandonSettlement, CountUsage, CountedCost, TypeOK, Reply
    <3>3. lost' \in Nat
      BY <3>1 DEF AbandonSettlement, TypeOK, Reply
    <3>4. QED
      BY <3>1, <3>2, <3>3 DEF AbandonSettlement, TypeOK, Reply, NoReply, Kinds
  <2>10. ASSUME NEW c \in Callers, Wake(c) PROVE TypeOK'
    BY <2>10 DEF Wake, TypeOK
  <2>11. ASSUME NEW c \in Callers, Crash(c) PROVE TypeOK'
    BY <2>11 DEF Crash, TypeOK, Reply, NoReply, Kinds
  <2>12. ASSUME NEW c \in Callers, Restart(c) PROVE TypeOK'
    BY <2>12 DEF Restart, TypeOK
  <2>13. CASE Reconcile
    <3>1. CostOf(runs, DOMAIN runs \ SettledRuns(runs)) \in Nat
      BY LedgerFinite DEF TypeOK
    <3>2. QED
      BY <2>13, <3>1 DEF Reconcile, TypeOK, SettledRuns
  <2>14. CASE UNCHANGED vars
    BY <2>14 DEF vars, TypeOK
  <2>15. QED
    BY <2>1, <2>2, <2>3, <2>4, <2>5, <2>6, <2>7, <2>8, <2>9, <2>10, <2>11,
       <2>12, <2>13, <2>14 DEF Next, CallerStep
<1>3. QED
  BY <1>1, <1>2, PTL DEF Spec

(***************************************************************************)
(* What the actions do to the set of calls that hold a reservation.        *)
(***************************************************************************)

\* The actions of a call that touch neither the ledger nor the set of holders,
\* except that a holder may be lost to a crash or to an escaped exception.
PlainStep(c) ==
    \/ StartCall(c) \/ RejectCall(c) \/ RefuseReservation(c)
    \/ Respond(c) \/ Fault(c) \/ EscapedException(c)
    \/ SettleUnmatched(c) \/ SettleFails(c) \/ Wake(c) \/ Crash(c) \/ Restart(c)

LEMMA NextCases ==
    ASSUME [Next]_vars
    PROVE  \/ \E c \in Callers : PlainStep(c)
           \/ \E c \in Callers : Reserve(c)
           \/ \E c \in Callers : Settle(c)
           \/ Reconcile
           \/ UNCHANGED vars
BY DEF Next, CallerStep, PlainStep

LEMMA PlainEffect ==
    ASSUME TypeOK, NEW c \in Callers, PlainStep(c)
    PROVE  /\ runs' = runs
           /\ \A d \in Callers :
                 Holding(d)' => Holding(d) /\ reserved'[d] = reserved[d]
<1> USE DEF TypeOK, Holding, Goto, Leave, ledgerVars, Ended, Halted
<1>1. CASE StartCall(c)
  BY <1>1 DEF StartCall
<1>2. CASE RejectCall(c)
  BY <1>2 DEF RejectCall
<1>3. CASE RefuseReservation(c)
  BY <1>3 DEF RefuseReservation
<1>4. CASE Respond(c)
  BY <1>4 DEF Respond
<1>5. CASE Fault(c)
  BY <1>5 DEF Fault
<1>6. CASE EscapedException(c)
  BY <1>6 DEF EscapedException
<1>7. CASE SettleUnmatched(c) \/ SettleFails(c)
  BY <1>7 DEF SettleUnmatched, SettleFails, AbandonSettlement
<1>8. CASE Wake(c)
  BY <1>8 DEF Wake
<1>9. CASE Crash(c)
  BY <1>9 DEF Crash
<1>10. CASE Restart(c)
  BY <1>10 DEF Restart
<1>11. QED
  BY <1>1, <1>2, <1>3, <1>4, <1>5, <1>6, <1>7, <1>8, <1>9, <1>10 DEF PlainStep

\* A reservation makes its caller a holder and changes no other.
LEMMA ReserveHolders ==
    ASSUME TypeOK, NEW c \in Callers, Reserve(c)
    PROVE  /\ ~Holding(c)
           /\ reserved' = reserved
           /\ \A d \in Callers \ {c} : Holding(d)' => Holding(d)
BY DEF TypeOK, Reserve, Goto, Holding

\* A settlement ends its caller's hold and changes no other.
LEMMA SettleHolders ==
    ASSUME TypeOK, NEW c \in Callers, Settle(c)
    PROVE  /\ Holding(c)
           /\ ~Holding(c)'
           /\ \A d \in Callers \ {c} :
                 Holding(d)' => Holding(d) /\ reserved'[d] = reserved[d]
<1>1. PICK label \in {"aborted", "ok", "failed", "sleeping"} :
         Leave(c, label) \/ Goto(c, label)
  BY DEF Settle, Continue
<1>2. pc[c] = "settling"
  BY DEF Settle
<1>3. QED
  BY <1>1, <1>2 DEF TypeOK, Goto, Leave, Holding

\* A reconciliation leaves every call where it is.
LEMMA ReconcileEffect ==
    ASSUME TypeOK, Reconcile
    PROVE  /\ DOMAIN runs' = SettledRuns(runs)
           /\ SettledRuns(runs) \in SUBSET DOMAIN runs
           /\ \A i \in SettledRuns(runs) : runs'[i] = runs[i]
           /\ pc' = pc /\ reserved' = reserved
BY DEF Reconcile, SettledRuns, callVars

(***************************************************************************)
(* The cap.  CapRespected is not inductive: an overrun is charged when a   *)
(* call settles, so the room it may need must be kept for every call that  *)
(* holds a reservation.  CapInv reserves that room.                        *)
(***************************************************************************)

HoldersAll == {c \in Callers : Holding(c)}

CapInv ==
    CommittedTotal(runs) + Overrun * Cardinality(HoldersAll)
        <= Cap + Overrun * Cardinality(Callers)

\* Fewer callers than all of them hold reservations.
LEMMA HoldersFinite ==
    /\ IsFiniteSet(HoldersAll)
    /\ Cardinality(HoldersAll) \in Nat
    /\ Cardinality(Callers) \in Nat
    /\ Cardinality(HoldersAll) <= Cardinality(Callers)
<1>1. HoldersAll \in SUBSET Callers
  BY DEF HoldersAll
<1>2. QED
  BY <1>1, CallersAssumption, FS_Subset, FS_CardinalityType

\* Room for fewer holders is no more room.
LEMMA RoomMonotone ==
    ASSUME NEW o \in Nat, NEW m \in Nat, NEW n \in Nat, m <= n
    PROVE  o * m \in Nat /\ o * n \in Nat /\ o * m <= o * n
OBVIOUS

\* If no one starts to hold and the ledger does not grow, the room suffices.
LEMMA CapInvShrinks ==
    ASSUME CapInv, TypeOK, TypeOK', HoldersAll' \subseteq HoldersAll,
           CommittedTotal(runs') <= CommittedTotal(runs)
    PROVE  CapInv'
<1>1. /\ Cardinality(HoldersAll') \in Nat
      /\ Cardinality(HoldersAll) \in Nat
      /\ Cardinality(HoldersAll') <= Cardinality(HoldersAll)
  BY HoldersFinite, FS_Subset, FS_CardinalityType
<1>2. Overrun * Cardinality(HoldersAll') <= Overrun * Cardinality(HoldersAll)
  BY <1>1, RoomMonotone, CostAssumption
<1>3. CommittedTotal(runs) \in Nat /\ CommittedTotal(runs') \in Nat
  BY LedgerFinite DEF CommittedTotal, TypeOK
<1>4. QED
  BY <1>1, <1>2, <1>3, HoldersFinite, CostAssumption DEF CapInv

\* A bill in hand is at most Overrun more than was reserved, and there is none
\* unless an answer came back.
ReplyInv == \A c \in Callers :
    /\ pc[c] = "settling" => reply[c].cost <= reserved[c] + Overrun
    /\ pc[c] # "settling" => reply[c].cost = 0

LEMMA ReplyBounded == TypeOK /\ ReplyInv /\ [Next]_vars => ReplyInv'
<1> SUFFICES ASSUME TypeOK, ReplyInv, [Next]_vars PROVE ReplyInv'
  OBVIOUS
<1> USE CostAssumption DEF Busy, Ended, Halted, Goto, Leave, ReplyInv, TypeOK, NoReply, Bills
<1>1. ASSUME NEW c \in Callers, StartCall(c) PROVE ReplyInv'
  BY <1>1 DEF StartCall
<1>2. ASSUME NEW c \in Callers, RejectCall(c) PROVE ReplyInv'
  BY <1>2 DEF RejectCall
<1>3. ASSUME NEW c \in Callers, Reserve(c) PROVE ReplyInv'
  BY <1>3 DEF Reserve
<1>4. ASSUME NEW c \in Callers, RefuseReservation(c) PROVE ReplyInv'
  BY <1>4 DEF RefuseReservation
<1>5. ASSUME NEW c \in Callers, Respond(c) PROVE ReplyInv'
  BY <1>5 DEF Respond
<1>6. ASSUME NEW c \in Callers, Fault(c) PROVE ReplyInv'
  BY <1>6 DEF Fault
<1>7. ASSUME NEW c \in Callers, EscapedException(c) PROVE ReplyInv'
  BY <1>7 DEF EscapedException
<1>8. ASSUME NEW c \in Callers, Settle(c) PROVE ReplyInv'
  BY <1>8 DEF Settle, Continue
<1>9. ASSUME NEW c \in Callers, SettleUnmatched(c) \/ SettleFails(c) PROVE ReplyInv'
  BY <1>9 DEF SettleUnmatched, SettleFails, AbandonSettlement
<1>10. ASSUME NEW c \in Callers, Wake(c) PROVE ReplyInv'
  BY <1>10 DEF Wake
<1>11. ASSUME NEW c \in Callers, Crash(c) PROVE ReplyInv'
  BY <1>11 DEF Crash
<1>12. ASSUME NEW c \in Callers, Restart(c) PROVE ReplyInv'
  BY <1>12 DEF Restart
<1>13. CASE Reconcile
  BY <1>13 DEF Reconcile, callVars
<1>14. CASE UNCHANGED vars
  BY <1>14 DEF vars
<1>15. QED
  BY <1>1, <1>2, <1>3, <1>4, <1>5, <1>6, <1>7, <1>8, <1>9, <1>10, <1>11,
     <1>12, <1>13, <1>14 DEF Next, CallerStep

\* A reservation commits its worst case; a settlement trades it for the cost.
LEMMA ReserveTotal ==
    ASSUME TypeOK, NEW c \in Callers, Reserve(c)
    PROVE  /\ CommittedTotal(runs) \in Nat
           /\ CommittedTotal(runs') = CommittedTotal(runs) + reserved[c]
<1> DEFINE n == appended + 1
<1>1. /\ n \notin DOMAIN runs
      /\ DOMAIN runs' = DOMAIN runs \cup {n}
      /\ \A i \in DOMAIN runs : runs'[i] = runs[i]
      /\ runs'[n] = [key |-> KeyOf[c], cost |-> reserved[c], reservation |-> TRUE]
      /\ runs' \in [DOMAIN runs' -> Entry]
  BY ReserveEffect
<1>2. IsFiniteSet(DOMAIN runs) /\ CommittedTotal(runs) \in Nat
  BY LedgerFinite DEF TypeOK, CommittedTotal
<1>3. CostOf(runs', DOMAIN runs) = CommittedTotal(runs)
  BY <1>1, CostAgree DEF CommittedTotal
<1>4. \A i \in DOMAIN runs \cup {n} : runs'[i].cost \in Nat
  BY <1>1 DEF Entry
<1> HIDE DEF n
<1>5. CostOf(runs', DOMAIN runs \cup {n}) = CostOf(runs', DOMAIN runs) + runs'[n].cost
  BY <1>1, <1>2, <1>4, CostAdd
<1>6. QED
  BY <1>1, <1>2, <1>3, <1>5 DEF CommittedTotal

LEMMA SettleTotal ==
    ASSUME TypeOK, NEW c \in Callers, Settle(c)
    PROVE  /\ CommittedTotal(runs) \in Nat /\ CommittedTotal(runs') \in Nat
           /\ SettledCost(c) \in Nat /\ reserved[c] \in Nat
           /\ CommittedTotal(runs') + reserved[c] = CommittedTotal(runs) + SettledCost(c)
<1>1. PICK i \in Matching(runs, KeyOf[c], reserved[c]) :
         /\ DOMAIN runs' = DOMAIN runs
         /\ \A j \in DOMAIN runs \ {i} : runs'[j] = runs[j]
         /\ runs'[i] = [key |-> KeyOf[c], cost |-> SettledCost(c),
                        reservation |-> FALSE]
         /\ SettledCost(c) \in Nat
         /\ runs' \in [DOMAIN runs' -> Entry]
  BY SettleEffect
<1>2. i \in DOMAIN runs /\ runs[i].cost = reserved[c] /\ reserved[c] \in Nat
  BY DEF Matching, TypeOK
<1>3. IsFiniteSet(DOMAIN runs)
  BY LedgerFinite DEF TypeOK
<1>4. \A j \in DOMAIN runs : runs[j].cost \in Nat /\ runs'[j].cost \in Nat
  BY <1>1 DEF TypeOK, Entry
<1>5. /\ CostOf(runs', DOMAIN runs) + reserved[c]
           = CostOf(runs, DOMAIN runs) + SettledCost(c)
      /\ CostOf(runs', DOMAIN runs) \in Nat
      /\ CostOf(runs, DOMAIN runs) \in Nat
  BY <1>1, <1>2, <1>3, <1>4, CostChange
<1>6. QED
  BY <1>1, <1>2, <1>5 DEF CommittedTotal

\* The cap test leaves room for one overrun of every campaign.
LEMMA CapInvReserve ==
    ASSUME TypeOK, CapInv, NEW c \in Callers, Reserve(c) PROVE CapInv'
<1>1. CommittedTotal(runs') <= Cap /\ CommittedTotal(runs') \in Nat
  <2>1. /\ CommittedTotal(runs) \in Nat
        /\ CommittedTotal(runs') = CommittedTotal(runs) + reserved[c]
    BY ReserveTotal
  <2>2. CommittedTotal(runs) + reserved[c] <= Cap
    BY DEF Reserve, Fits
  <2>3. reserved[c] \in Nat
    BY DEF TypeOK
  <2>4. QED
    BY <2>1, <2>2, <2>3, CostAssumption
<1>2. /\ Cardinality(HoldersAll') \in Nat
      /\ Cardinality(HoldersAll') <= Cardinality(Callers)
      /\ Cardinality(Callers) \in Nat
  <2>1. HoldersAll' \in SUBSET Callers
    BY DEF HoldersAll
  <2>2. QED
    BY <2>1, CallersAssumption, FS_Subset, FS_CardinalityType
<1>3. Overrun * Cardinality(HoldersAll') <= Overrun * Cardinality(Callers)
  BY <1>2, RoomMonotone, CostAssumption
<1>4. QED
  BY <1>1, <1>2, <1>3, RoomMonotone, CostAssumption DEF CapInv

\* A settlement may use the room its caller held, and no more.
LEMMA CapInvSettle ==
    ASSUME TypeOK, ReplyInv, CapInv, NEW c \in Callers, Settle(c) PROVE CapInv'
<1>1. SettledCost(c) <= reserved[c] + Overrun
  <2>1. reply[c].cost <= reserved[c] + Overrun
    BY DEF ReplyInv, Settle
  <2>2. SettledCost(c) \in {0, reply[c].cost}
    BY DEF SettledCost, CountedCost
  <2>3. QED
    BY <2>1, <2>2, SettleTotal, CostAssumption
<1>2. CommittedTotal(runs') <= CommittedTotal(runs) + Overrun
  BY <1>1, SettleTotal, CostAssumption
<1>3. HoldersAll' \in SUBSET (HoldersAll \ {c}) /\ c \in HoldersAll
  BY SettleHolders DEF HoldersAll
<1>4. /\ IsFiniteSet(HoldersAll \ {c})
      /\ Cardinality(HoldersAll \ {c}) = Cardinality(HoldersAll) - 1
      /\ Cardinality(HoldersAll \ {c}) \in Nat
  BY <1>3, HoldersFinite, FS_RemoveElement, FS_CardinalityType
<1>5. /\ Cardinality(HoldersAll') \in Nat
      /\ Cardinality(HoldersAll') + 1 <= Cardinality(HoldersAll)
  BY <1>3, <1>4, HoldersFinite, FS_Subset, FS_CardinalityType
<1>6. Overrun * (Cardinality(HoldersAll') + 1) <= Overrun * Cardinality(HoldersAll)
  BY <1>5, HoldersFinite, RoomMonotone, CostAssumption
<1>7. Overrun * (Cardinality(HoldersAll') + 1)
        = Overrun * Cardinality(HoldersAll') + Overrun
  BY <1>5, CostAssumption
<1>8. /\ Overrun * Cardinality(HoldersAll') \in Nat
      /\ Overrun * Cardinality(HoldersAll) \in Nat
      /\ Overrun * Cardinality(Callers) \in Nat
  BY <1>5, HoldersFinite, RoomMonotone, CostAssumption
<1>9. QED
  BY <1>2, <1>6, <1>7, <1>8, SettleTotal, CostAssumption DEF CapInv

\* Removing reservations only frees room.
LEMMA CapInvReconcile ==
    ASSUME TypeOK, TypeOK', CapInv, Reconcile PROVE CapInv'
<1>1. HoldersAll' \subseteq HoldersAll
  BY ReconcileEffect DEF HoldersAll, Holding
<1>2. CommittedTotal(runs') = CostOf(runs, SettledRuns(runs))
  BY ReconcileEffect, CostAgree DEF CommittedTotal
<1>3. IsFiniteSet(DOMAIN runs) /\ \A i \in DOMAIN runs : runs[i].cost \in Nat
  BY LedgerFinite DEF TypeOK
<1>4. CostOf(runs, SettledRuns(runs)) <= CostOf(runs, DOMAIN runs)
  BY <1>3, ReconcileEffect, CostSubset
<1>5. QED
  BY <1>1, <1>2, <1>4, CapInvShrinks DEF CommittedTotal

\* The cap holds for every number of campaigns and every interleaving: what
\* is committed exceeds it by at most one overrun per campaign.
THEOREM CapNeverExceeded == Spec => []CapRespected
<1>1. Init => CapInv /\ ReplyInv
  <2> SUFFICES ASSUME Init PROVE CapInv /\ ReplyInv
    OBVIOUS
  <2>1. CommittedTotal(runs) = 0
    BY CostEmpty DEF Init, CommittedTotal
  <2>2. HoldersAll = {}
    BY DEF Init, HoldersAll, Holding
  <2>3. Overrun * Cardinality(HoldersAll) = 0
    BY <2>2, FS_EmptySet, CostAssumption
  <2>4. Overrun * Cardinality(Callers) \in Nat
    BY HoldersFinite, RoomMonotone, CostAssumption
  <2>5. QED
    BY <2>1, <2>3, <2>4, CostAssumption DEF CapInv, ReplyInv, Init, NoReply
<1>2. TypeOK /\ TypeOK' /\ CapInv /\ ReplyInv /\ [Next]_vars => CapInv'
  <2> SUFFICES ASSUME TypeOK, TypeOK', CapInv, ReplyInv, [Next]_vars PROVE CapInv'
    OBVIOUS
  <2>0. ASSUME runs' = runs, \A d \in Callers : Holding(d)' => Holding(d)
        PROVE  CapInv'
    <3>1. CommittedTotal(runs') = CommittedTotal(runs) /\ CommittedTotal(runs) \in Nat
      BY <2>0, LedgerFinite DEF CommittedTotal, TypeOK
    <3>2. HoldersAll' \subseteq HoldersAll
      BY <2>0 DEF HoldersAll
    <3>3. QED
      BY <3>1, <3>2, CapInvShrinks
  <2>1. ASSUME NEW c \in Callers, PlainStep(c) PROVE CapInv'
    BY <2>0, <2>1, PlainEffect
  <2>2. ASSUME NEW c \in Callers, Reserve(c) PROVE CapInv'
    BY <2>2, CapInvReserve
  <2>3. ASSUME NEW c \in Callers, Settle(c) PROVE CapInv'
    BY <2>3, CapInvSettle
  <2>4. CASE Reconcile
    BY <2>4, CapInvReconcile
  <2>5. CASE UNCHANGED vars
    BY <2>0, <2>5 DEF vars, Holding
  <2>6. QED
    BY <2>1, <2>2, <2>3, <2>4, <2>5, NextCases
<1>3. TypeOK /\ CapInv => CapRespected
  <2> SUFFICES ASSUME TypeOK, CapInv PROVE CapRespected
    OBVIOUS
  <2>1. CommittedTotal(runs) \in Nat
    BY LedgerFinite DEF TypeOK, CommittedTotal
  <2>2. /\ Overrun * Cardinality(HoldersAll) \in Nat
        /\ Overrun * Cardinality(Callers) \in Nat
    BY HoldersFinite, RoomMonotone, CostAssumption
  <2>3. QED
    BY <2>1, <2>2, CostAssumption DEF CapInv, CapRespected
<1>4. QED
  BY <1>1, <1>2, <1>3, ReplyBounded, TypeCorrect, PTL DEF Spec

(***************************************************************************)
(* Reservations have no owner, yet no call can lose its own.  The          *)
(* invariant counts: it must range over every amount, not only over those  *)
(* begin_call computes, because a caller's reserved amount is a Nat.       *)
(***************************************************************************)

BackedInv ==
    \A k \in Keys, w \in Nat :
        Cardinality(Holders(k, w)) <= Cardinality(Matching(runs, k, w))

\* The reservations of an amount do not become fewer relative to its holders.
SurplusGrows(k, w) ==
    /\ Cardinality(Holders(k, w)') \in Nat
    /\ Cardinality(Matching(runs', k, w)) \in Nat
    /\ Cardinality(Holders(k, w)') + Cardinality(Matching(runs, k, w))
           <= Cardinality(Holders(k, w)) + Cardinality(Matching(runs', k, w))

\* The holders of an amount and the reservations of it are finite sets.
LEMMA BackedFinite ==
    ASSUME TypeOK, NEW k, NEW w
    PROVE  /\ IsFiniteSet(Holders(k, w)) /\ Cardinality(Holders(k, w)) \in Nat
           /\ IsFiniteSet(Matching(runs, k, w))
           /\ Cardinality(Matching(runs, k, w)) \in Nat
<1>1. Holders(k, w) \in SUBSET Callers
  BY DEF Holders
<1>2. Matching(runs, k, w) \in SUBSET DOMAIN runs
  BY DEF Matching
<1>3. IsFiniteSet(DOMAIN runs)
  BY LedgerFinite DEF TypeOK
<1>4. QED
  BY <1>1, <1>2, <1>3, CallersAssumption, FS_Subset, FS_CardinalityType

\* With fewer holders an unchanged ledger has no smaller surplus.
LEMMA SurplusKept ==
    ASSUME TypeOK, NEW k, NEW w, NEW H \in SUBSET Holders(k, w)
    PROVE  Cardinality(H) \in Nat /\ Cardinality(H) <= Cardinality(Holders(k, w))
BY BackedFinite, FS_Subset, FS_CardinalityType

\* A reservation adds one entry for the one holder it adds.
LEMMA SurplusReserve ==
    ASSUME TypeOK, NEW c \in Callers, Reserve(c), NEW k, NEW w
    PROVE  SurplusGrows(k, w)
<1> DEFINE n == appended + 1
<1>1. /\ n \notin DOMAIN runs
      /\ DOMAIN runs' = DOMAIN runs \cup {n}
      /\ \A i \in DOMAIN runs : runs'[i] = runs[i]
      /\ runs'[n] = [key |-> KeyOf[c], cost |-> reserved[c], reservation |-> TRUE]
  BY ReserveEffect
<1>2. /\ reserved' = reserved
      /\ \A d \in Callers \ {c} : Holding(d)' => Holding(d)
  BY ReserveHolders
<1>3. CASE KeyOf[c] = k /\ reserved[c] = w
  <2>1. Matching(runs', k, w) = Matching(runs, k, w) \cup {n}
    BY <1>1, <1>3 DEF Matching
  <2>2. n \notin Matching(runs, k, w)
    BY <1>1 DEF Matching
  <2>3. Holders(k, w)' \in SUBSET (Holders(k, w) \cup {c})
    BY <1>2 DEF Holders
  <2> HIDE DEF n
  <2>4. Cardinality(Matching(runs', k, w)) = Cardinality(Matching(runs, k, w)) + 1
    BY <2>1, <2>2, BackedFinite, FS_AddElement
  <2>5. /\ IsFiniteSet(Holders(k, w) \cup {c})
        /\ Cardinality(Holders(k, w) \cup {c}) <= Cardinality(Holders(k, w)) + 1
        /\ Cardinality(Holders(k, w) \cup {c}) \in Nat
    <3>1. IsFiniteSet(Holders(k, w)) /\ Cardinality(Holders(k, w)) \in Nat
      BY BackedFinite
    <3>2. IsFiniteSet(Holders(k, w) \cup {c})
      BY <3>1, FS_AddElement
    <3>3. Cardinality(Holders(k, w) \cup {c})
            = IF c \in Holders(k, w) THEN Cardinality(Holders(k, w))
              ELSE Cardinality(Holders(k, w)) + 1
      BY <3>1, FS_AddElement
    <3>4. QED
      BY <3>1, <3>2, <3>3
  <2>6. /\ Cardinality(Holders(k, w)') \in Nat
        /\ Cardinality(Holders(k, w)') <= Cardinality(Holders(k, w) \cup {c})
    BY <2>3, <2>5, FS_Subset, FS_CardinalityType
  <2>7. QED
    BY <2>4, <2>5, <2>6, BackedFinite DEF SurplusGrows
<1>4. CASE ~(KeyOf[c] = k /\ reserved[c] = w)
  <2>1. Matching(runs', k, w) = Matching(runs, k, w)
    BY <1>1, <1>4 DEF Matching
  <2>2. Holders(k, w)' \in SUBSET Holders(k, w)
    BY <1>2, <1>4 DEF Holders
  <2>3. QED
    BY <2>1, <2>2, SurplusKept, BackedFinite DEF SurplusGrows
<1>5. QED
  BY <1>3, <1>4

\* A settlement uses up one entry, and its caller holds no more.
LEMMA SurplusSettle ==
    ASSUME TypeOK, NEW c \in Callers, Settle(c), NEW k, NEW w
    PROVE  SurplusGrows(k, w)
<1>1. PICK i \in Matching(runs, KeyOf[c], reserved[c]) :
         /\ DOMAIN runs' = DOMAIN runs
         /\ \A j \in DOMAIN runs \ {i} : runs'[j] = runs[j]
         /\ runs'[i] = [key |-> KeyOf[c], cost |-> SettledCost(c),
                        reservation |-> FALSE]
  BY SettleEffect
<1>2. /\ Holding(c)
      /\ ~Holding(c)'
      /\ \A d \in Callers \ {c} :
            Holding(d)' => Holding(d) /\ reserved'[d] = reserved[d]
  BY SettleHolders
<1>3. CASE KeyOf[c] = k /\ reserved[c] = w
  <2>1. Matching(runs', k, w) = Matching(runs, k, w) \ {i}
    BY <1>1 DEF Matching
  <2>2. i \in Matching(runs, k, w)
    BY <1>3
  <2>3. Holders(k, w)' \in SUBSET (Holders(k, w) \ {c}) /\ c \in Holders(k, w)
    BY <1>2, <1>3 DEF Holders
  <2>4. /\ Cardinality(Matching(runs', k, w)) = Cardinality(Matching(runs, k, w)) - 1
        /\ Cardinality(Matching(runs', k, w)) \in Nat
    BY <2>1, <2>2, BackedFinite, FS_RemoveElement, FS_CardinalityType
  <2>5. /\ IsFiniteSet(Holders(k, w) \ {c})
        /\ Cardinality(Holders(k, w) \ {c}) = Cardinality(Holders(k, w)) - 1
    BY <2>3, BackedFinite, FS_RemoveElement
  <2>6. Cardinality(Holders(k, w)') <= Cardinality(Holders(k, w) \ {c})
    BY <2>3, <2>5, FS_Subset
  <2>7. /\ Cardinality(Holders(k, w)') \in Nat
    BY <2>3, <2>5, FS_Subset, FS_CardinalityType
  <2>8. QED
    BY <2>4, <2>5, <2>6, <2>7, BackedFinite DEF SurplusGrows
<1>4. CASE ~(KeyOf[c] = k /\ reserved[c] = w)
  <2>1. Matching(runs', k, w) = Matching(runs, k, w)
    BY <1>1, <1>4 DEF Matching
  <2>2. Holders(k, w)' \in SUBSET Holders(k, w)
    BY <1>2, <1>4 DEF Holders
  <2>3. QED
    BY <2>1, <2>2, SurplusKept, BackedFinite DEF SurplusGrows
<1>5. QED
  BY <1>3, <1>4

\* No step but a reconciliation makes a surplus of reservations smaller.
LEMMA SurplusStep ==
    ASSUME TypeOK, [Next]_vars, ~Reconcile, NEW k, NEW w
    PROVE  SurplusGrows(k, w)
<1>0. ASSUME runs' = runs,
             \A d \in Callers : Holding(d)' => Holding(d) /\ reserved'[d] = reserved[d]
      PROVE  SurplusGrows(k, w)
  <2>1. Holders(k, w)' \in SUBSET Holders(k, w)
    BY <1>0 DEF Holders
  <2>2. Matching(runs', k, w) = Matching(runs, k, w)
    BY <1>0
  <2>3. QED
    BY <2>1, <2>2, SurplusKept, BackedFinite DEF SurplusGrows
<1>1. ASSUME NEW c \in Callers, PlainStep(c) PROVE SurplusGrows(k, w)
  BY <1>0, <1>1, PlainEffect
<1>2. CASE UNCHANGED vars
  BY <1>0, <1>2 DEF vars, Holding
<1>3. QED
  BY <1>1, <1>2, SurplusReserve, SurplusSettle, NextCases

\* What an operator disturbed stays disturbed, and a reconciliation of an
\* undisturbed ledger found no call active.
LEMMA DisturbedForGood ==
    ASSUME [Next]_vars, ~disturbed'
    PROVE  ~disturbed /\ (Reconcile => LedgerIsQuiet)
<1>1. CASE UNCHANGED vars
  BY <1>1 DEF vars, Reconcile
<1>2. ASSUME NEW c \in Callers, StartCall(c) \/ CallerStep(c) \/ Crash(c) \/ Restart(c)
      PROVE  ~disturbed
  BY <1>2 DEF CallerStep, StartCall, RejectCall, Reserve, RefuseReservation,
     Respond, Fault, EscapedException, Settle, SettleUnmatched, SettleFails,
     AbandonSettlement, Wake, Crash, Restart, ghostVars
<1>3. Reconcile => ~disturbed /\ LedgerIsQuiet
  BY DEF Reconcile
<1>4. QED
  BY <1>1, <1>2, <1>3 DEF Next

\* On a ledger that was only reconciled when quiet, at all times there are as
\* many reservations as calls waiting to settle them.
UndisturbedBacked == ~disturbed => BackedInv

THEOREM AlwaysBacked == Spec => []UndisturbedBacked
<1>1. Init => BackedInv
  <2> SUFFICES ASSUME Init, NEW k \in Keys, NEW w \in Nat
               PROVE  Cardinality(Holders(k, w)) <= Cardinality(Matching(runs, k, w))
    BY DEF BackedInv
  <2>1. Holders(k, w) = {} /\ Matching(runs, k, w) = {}
    BY DEF Init, Holders, Holding, Matching
  <2>2. QED
    BY <2>1, FS_EmptySet
<1>2. TypeOK /\ UndisturbedBacked /\ [Next]_vars => UndisturbedBacked'
  <2> SUFFICES ASSUME TypeOK, UndisturbedBacked, [Next]_vars, ~disturbed'
               PROVE  BackedInv'
    BY DEF UndisturbedBacked
  <2>. BackedInv /\ (Reconcile => LedgerIsQuiet)
    BY DisturbedForGood DEF UndisturbedBacked
  <2>1. CASE Reconcile
    <3> SUFFICES ASSUME NEW k \in Keys, NEW w \in Nat
                 PROVE  Cardinality(Holders(k, w)') <= Cardinality(Matching(runs', k, w))
      BY DEF BackedInv
    <3>1. Holders(k, w)' = {}
      BY <2>1, ReconcileEffect
      DEF Reconcile, LedgerIsQuiet, Active, Busy, Holders, Holding
    <3>2. Matching(runs', k, w) \in SUBSET DOMAIN runs
      BY <2>1, ReconcileEffect DEF Matching
    <3>3. Cardinality(Matching(runs', k, w)) \in Nat
      BY <3>2, LedgerFinite, FS_Subset, FS_CardinalityType DEF TypeOK
    <3>4. QED
      BY <3>1, <3>3, FS_EmptySet
  <2>2. CASE ~Reconcile
    BY <2>2, SurplusStep, BackedFinite DEF BackedInv, SurplusGrows
  <2>3. QED
    BY <2>1, <2>2
<1>3. Init => UndisturbedBacked
  BY <1>1 DEF UndisturbedBacked
<1>4. QED
  BY <1>2, <1>3, TypeCorrect, PTL DEF Spec

\* The property the runs check, over the amounts begin_call computes.
THEOREM NoCallLosesItsReservation == Spec => []ReservationsBacked
<1>1. UndisturbedBacked => ReservationsBacked
  BY CostAssumption DEF UndisturbedBacked, BackedInv, ReservationsBacked
<1>2. QED
  BY <1>1, AlwaysBacked, PTL

\* Hence a settlement always finds a reservation to settle, whichever
\* campaign made it.
THEOREM SettlementNeverUnmatched == Spec => []SettlementFindsReservation
<1>1. TypeOK /\ UndisturbedBacked => SettlementFindsReservation
  <2> SUFFICES ASSUME TypeOK, UndisturbedBacked, ~disturbed,
                      NEW c \in Callers, Holding(c)
               PROVE  Matching(runs, KeyOf[c], reserved[c]) # {}
    BY DEF SettlementFindsReservation
  <2> DEFINE k == KeyOf[c]
             w == reserved[c]
  <2>1. k \in Keys /\ w \in Nat /\ c \in Holders(k, w)
    BY KeyAssumption DEF TypeOK, Holders
  <2> HIDE DEF k, w
  <2>2. Cardinality(Holders(k, w)) # 0
    BY <2>1, BackedFinite, FS_EmptySet
  <2>3. Cardinality(Matching(runs, k, w)) # 0
    BY <2>1, <2>2, BackedFinite DEF UndisturbedBacked, BackedInv
  <2>4. Matching(runs, k, w) # {}
    BY <2>3, FS_EmptySet
  <2>5. QED
    BY <2>4 DEF k, w
<1>2. QED
  BY <1>1, AlwaysBacked, TypeCorrect, PTL

\* No step changes or removes a settled entry.
THEOREM SettledEntriesAreFinal == Spec => SettledIsFinal
<1> DEFINE Final == \A i \in SettledRuns(runs) : i \in DOMAIN runs' /\ runs'[i] = runs[i]
<1>1. TypeOK /\ [Next]_vars => [Final]_vars
  <2> SUFFICES ASSUME TypeOK, [Next]_vars PROVE Final
    OBVIOUS
  <2>1. ASSUME NEW c \in Callers, PlainStep(c) PROVE Final
    BY <2>1, PlainEffect DEF SettledRuns
  <2>2. ASSUME NEW c \in Callers, Reserve(c) PROVE Final
    BY <2>2, ReserveEffect DEF SettledRuns
  <2>3. ASSUME NEW c \in Callers, Settle(c) PROVE Final
    BY <2>3, SettleEffect DEF SettledRuns, Matching
  <2>4. CASE Reconcile
    BY <2>4, ReconcileEffect
  <2>5. CASE UNCHANGED vars
    BY <2>5 DEF vars, SettledRuns
  <2>6. QED
    BY <2>1, <2>2, <2>3, <2>4, <2>5, NextCases
<1>2. QED
  BY <1>1, TypeCorrect, PTL DEF Spec, SettledIsFinal

(***************************************************************************)
(* The ledger and the manifests record the same cost.                      *)
(***************************************************************************)

SettledOf(k) == {i \in SettledRuns(runs) : runs[i].key = k}
CallersOf(k) == {c \in Callers : KeyOf[c] = k}

UsageInv == \A k \in Keys : CostOf(runs, SettledOf(k)) = UsageOf(k)

\* What a caller could not settle it has counted.
MissedInv == \A c \in Callers : missed[c] <= usage[c]

\* A failed settlement misses what it counts; nothing else is missed.
LEMMA UsageStep ==
    ASSUME TypeOK, [Next]_vars
    PROVE  \/ UNCHANGED <<usage, missed>>
           \/ \E c \in Callers : /\ Settle(c) /\ missed' = missed
                               /\ usage' = [usage EXCEPT ![c] = @ + SettledCost(c)]
                               /\ SettledCost(c) \in Nat
           \/ \E c \in Callers, n \in Nat :
                  /\ ~Settle(c)
                  /\ usage' = [usage EXCEPT ![c] = @ + n]
                  /\ missed' = [missed EXCEPT ![c] = @ + n]
<1>1. \A c \in Callers : CountedCost(c) \in Nat
  BY DEF CountedCost, TypeOK, Reply
<1>2. ASSUME NEW c \in Callers, SettleUnmatched(c) \/ SettleFails(c)
      PROVE  /\ ~Settle(c)
             /\ usage' = [usage EXCEPT ![c] = @ + CountedCost(c)]
             /\ missed' = [missed EXCEPT ![c] = @ + CountedCost(c)]
  <2>1. AbandonSettlement(c)
    BY <1>2 DEF SettleUnmatched, SettleFails
  <2>2. runs' = runs
    BY <2>1 DEF AbandonSettlement, ledgerVars
  <2>3. ~Settle(c)
    BY <2>2, SettleEffect DEF Matching
  <2>4. QED
    BY <2>1, <2>3 DEF AbandonSettlement, CountUsage
<1>3. ASSUME NEW c \in Callers, Settle(c)
      PROVE  missed' = missed /\ usage' = [usage EXCEPT ![c] = @ + SettledCost(c)]
  BY <1>3 DEF Settle, CountUsage, SettledCost
<1>4. ASSUME NEW c \in Callers, StartCall(c) \/ Crash(c) \/ Restart(c)
      PROVE  UNCHANGED <<usage, missed>>
  BY <1>4 DEF StartCall, Crash, Restart, ghostVars
<1>5. ASSUME NEW c \in Callers, RejectCall(c) \/ Reserve(c) \/ RefuseReservation(c)
                                \/ Respond(c) \/ Fault(c) \/ EscapedException(c) \/ Wake(c)
      PROVE  UNCHANGED <<usage, missed>>
  BY <1>5 DEF RejectCall, Reserve, RefuseReservation, Respond, Fault,
     EscapedException, Wake, ghostVars
<1>6. Reconcile => UNCHANGED <<usage, missed>>
  BY DEF Reconcile, callVars
<1>7. UNCHANGED vars => UNCHANGED <<usage, missed>>
  BY DEF vars
<1>8. ASSUME NEW c \in Callers, CallerStep(c)
      PROVE  \/ UNCHANGED <<usage, missed>>
             \/ Settle(c)
             \/ SettleUnmatched(c) \/ SettleFails(c)
  BY <1>5, <1>8 DEF CallerStep
<1>9. SUFFICES ASSUME NEW c \in Callers, Settle(c) \/ SettleUnmatched(c) \/ SettleFails(c)
              PROVE  \/ \E d \in Callers :
                            /\ Settle(d) /\ missed' = missed
                            /\ usage' = [usage EXCEPT ![d] = @ + SettledCost(d)]
                            /\ SettledCost(d) \in Nat
                     \/ \E d \in Callers, n \in Nat :
                            /\ ~Settle(d)
                            /\ usage' = [usage EXCEPT ![d] = @ + n]
                            /\ missed' = [missed EXCEPT ![d] = @ + n]
  BY <1>4, <1>6, <1>7, <1>8 DEF Next
<1>10. CASE Settle(c)
  BY <1>1, <1>3, <1>10 DEF SettledCost
<1>11. CASE SettleUnmatched(c) \/ SettleFails(c)
  BY <1>1, <1>2, <1>11
<1>12. QED
  BY <1>9, <1>10, <1>11

LEMMA MissedBounded == Spec => []MissedInv
<1>1. Init => MissedInv
  BY DEF Init, MissedInv
<1>2. TypeOK /\ MissedInv /\ [Next]_vars => MissedInv'
  <2> SUFFICES ASSUME TypeOK, MissedInv, [Next]_vars PROVE MissedInv'
    OBVIOUS
  <2>1. CASE UNCHANGED <<usage, missed>>
    BY <2>1 DEF MissedInv
  <2>2. ASSUME NEW c \in Callers, NEW n \in Nat, missed' = missed,
               usage' = [usage EXCEPT ![c] = @ + n]
        PROVE  MissedInv'
    BY <2>2 DEF MissedInv, TypeOK
  <2>3. ASSUME NEW c \in Callers, NEW n \in Nat,
               usage' = [usage EXCEPT ![c] = @ + n],
               missed' = [missed EXCEPT ![c] = @ + n]
        PROVE  MissedInv'
    BY <2>3 DEF MissedInv, TypeOK
  <2>4. QED
    BY <2>1, <2>2, <2>3, UsageStep
<1>3. QED
  BY <1>1, <1>2, TypeCorrect, PTL DEF Spec

LEMMA UsageSettle ==
    ASSUME TypeOK, UsageInv, MissedInv, NEW c \in Callers, Settle(c) PROVE UsageInv'
<1> SUFFICES ASSUME NEW k \in Keys
             PROVE  CostOf(runs', SettledOf(k)') = CostOf(Spent', CallersOf(k))
  BY DEF UsageInv, UsageOf, CallersOf
<1>1. PICK i \in Matching(runs, KeyOf[c], reserved[c]) :
         /\ DOMAIN runs' = DOMAIN runs
         /\ \A j \in DOMAIN runs \ {i} : runs'[j] = runs[j]
         /\ runs'[i] = [key |-> KeyOf[c], cost |-> SettledCost(c),
                        reservation |-> FALSE]
         /\ SettledCost(c) \in Nat
         /\ runs' \in [DOMAIN runs' -> Entry]
  BY SettleEffect
<1>2. missed' = missed /\ usage' = [usage EXCEPT ![c] = @ + SettledCost(c)]
  BY DEF Settle, CountUsage, SettledCost
<1>3. CostOf(runs, SettledOf(k)) = CostOf(Spent, CallersOf(k))
  BY DEF UsageInv, UsageOf, CallersOf
<1>4. /\ IsFiniteSet(CallersOf(k))
      /\ \A d \in CallersOf(k) : Spent[d].cost \in Nat /\ Spent'[d].cost \in Nat
  <2>1. CallersOf(k) \in SUBSET Callers
    BY DEF CallersOf
  <2>2. IsFiniteSet(CallersOf(k))
    BY <2>1, CallersAssumption, FS_Subset
  <2>3. \A d \in Callers : usage[d] - missed[d] \in Nat /\ usage'[d] - missed'[d] \in Nat
    BY <1>1, <1>2 DEF TypeOK, MissedInv
  <2>4. QED
    BY <2>1, <2>2, <2>3 DEF Spent
<1>5. \A d \in CallersOf(k) \ {c} : Spent'[d].cost = Spent[d].cost
  BY <1>2 DEF Spent, CallersOf, TypeOK
<1>6. i \in DOMAIN runs /\ i \notin SettledOf(k)
  BY DEF Matching, SettledOf, SettledRuns
<1>7. \A j \in SettledOf(k) : runs'[j] = runs[j]
  BY <1>1, <1>6 DEF SettledOf, SettledRuns
<1>8. CostOf(runs', SettledOf(k)) = CostOf(runs, SettledOf(k))
  BY <1>7, CostAgree
<1>9. CASE KeyOf[c] = k
  <2>1. SettledOf(k)' = SettledOf(k) \cup {i}
    BY <1>1, <1>6, <1>9 DEF SettledOf, SettledRuns
  <2>2. IsFiniteSet(SettledOf(k))
    BY LedgerFinite DEF TypeOK, SettledOf, SettledRuns
  <2>3. \A j \in SettledOf(k) \cup {i} : runs'[j].cost \in Nat
    BY <1>1, <1>6 DEF SettledOf, SettledRuns, Entry
  <2>4. CostOf(runs', SettledOf(k) \cup {i})
          = CostOf(runs', SettledOf(k)) + runs'[i].cost
    BY <1>6, <2>2, <2>3, CostAdd
  <2>5. c \in CallersOf(k)
    BY <1>9 DEF CallersOf
  <2>6. /\ CostOf(Spent', CallersOf(k)) + Spent[c].cost
             = CostOf(Spent, CallersOf(k)) + Spent'[c].cost
        /\ CostOf(Spent', CallersOf(k)) \in Nat
        /\ CostOf(Spent, CallersOf(k)) \in Nat
    BY <1>4, <1>5, <2>5, CostChange
  <2>7. /\ Spent[c].cost \in Nat
        /\ Spent'[c].cost = Spent[c].cost + SettledCost(c)
    BY <1>1, <1>2 DEF Spent, TypeOK, MissedInv
  <2>8. CostOf(Spent', CallersOf(k)) = CostOf(Spent, CallersOf(k)) + SettledCost(c)
    BY <1>1, <2>6, <2>7
  <2>9. QED
    BY <1>1, <1>3, <1>8, <2>1, <2>4, <2>8
<1>10. CASE KeyOf[c] # k
  <2>1. SettledOf(k)' = SettledOf(k)
    BY <1>1, <1>6, <1>7, <1>10 DEF SettledOf, SettledRuns
  <2>2. \A d \in CallersOf(k) : Spent'[d].cost = Spent[d].cost
    BY <1>5, <1>10 DEF CallersOf
  <2>3. CostOf(Spent', CallersOf(k)) = CostOf(Spent, CallersOf(k))
    BY <2>2, CostAgree
  <2>4. QED
    BY <1>3, <1>8, <2>1, <2>3
<1>11. QED
  BY <1>9, <1>10

\* Steps that settle no entry, and count only what they miss, keep both sums.
LEMMA UsageKept ==
    ASSUME UsageInv, Spent' = Spent, SettledRuns(runs') = SettledRuns(runs),
           \A i \in SettledRuns(runs) : runs'[i] = runs[i]
    PROVE  UsageInv'
<1> SUFFICES ASSUME NEW k \in Keys
             PROVE  CostOf(runs', SettledOf(k)') = CostOf(Spent', CallersOf(k))
  BY DEF UsageInv, UsageOf, CallersOf
<1>1. SettledOf(k)' = SettledOf(k)
  BY DEF SettledOf
<1>2. CostOf(runs', SettledOf(k)) = CostOf(runs, SettledOf(k))
  BY CostAgree DEF SettledOf
<1>3. QED
  BY <1>1, <1>2 DEF UsageInv, UsageOf, CallersOf

\* No step but a settlement changes what is settled.
LEMMA SettledSame ==
    ASSUME TypeOK, [Next]_vars, \A c \in Callers : ~Settle(c)
    PROVE  /\ SettledRuns(runs') = SettledRuns(runs)
           /\ \A i \in SettledRuns(runs) : runs'[i] = runs[i]
<1>1. ASSUME NEW c \in Callers, Reserve(c)
      PROVE  /\ SettledRuns(runs') = SettledRuns(runs)
             /\ \A i \in SettledRuns(runs) : runs'[i] = runs[i]
  <2>1. /\ DOMAIN runs' = DOMAIN runs \cup {appended + 1}
        /\ runs'[appended + 1]
             = [key |-> KeyOf[c], cost |-> reserved[c], reservation |-> TRUE]
        /\ \A i \in DOMAIN runs : runs'[i] = runs[i]
    BY <1>1, ReserveEffect
  <2>2. QED
    BY <2>1 DEF SettledRuns
<1>2. ASSUME Reconcile
      PROVE  /\ SettledRuns(runs') = SettledRuns(runs)
             /\ \A i \in SettledRuns(runs) : runs'[i] = runs[i]
  BY <1>2, ReconcileEffect DEF SettledRuns
<1>3. ASSUME runs' = runs
      PROVE  /\ SettledRuns(runs') = SettledRuns(runs)
             /\ \A i \in SettledRuns(runs) : runs'[i] = runs[i]
  BY <1>3
<1>4. QED
  BY <1>1, <1>2, <1>3, PlainEffect, NextCases DEF vars

\* For every model, the settled entries add up to what the adapters counted less
\* what settlements that raised left out, although settlements pick their
\* entries by value and not by owner, and whatever an operator removes.
THEOREM LedgerMatchesManifests == Spec => []UsageRecorded
<1>1. Init => UsageInv
  <2> SUFFICES ASSUME Init, NEW k \in Keys
               PROVE  CostOf(runs, SettledOf(k)) = CostOf(Spent, CallersOf(k))
    BY DEF UsageInv, UsageOf, CallersOf
  <2>1. CostOf(runs, SettledOf(k)) = 0
    <3>1. SettledOf(k) = {}
      BY DEF Init, SettledOf, SettledRuns
    <3>2. QED
      BY <3>1, CostEmpty
  <2>2. \A d \in CallersOf(k) : Spent[d].cost = 0
    BY DEF Init, Spent, CallersOf
  <2>3. QED
    BY <2>1, <2>2, CostZero
<1>2. TypeOK /\ MissedInv /\ UsageInv /\ [Next]_vars => UsageInv'
  <2> SUFFICES ASSUME TypeOK, MissedInv, UsageInv, [Next]_vars PROVE UsageInv'
    OBVIOUS
  <2>1. ASSUME NEW c \in Callers, Settle(c) PROVE UsageInv'
    BY <2>1, UsageSettle
  <2>2. ASSUME \A c \in Callers : ~Settle(c) PROVE UsageInv'
    <3>1. CASE UNCHANGED <<usage, missed>>
      <4>1. Spent' = Spent
        BY <3>1 DEF Spent
      <4>2. QED
        BY <2>2, <4>1, SettledSame, UsageKept
    <3>2. ASSUME NEW c \in Callers, NEW n \in Nat,
                 usage' = [usage EXCEPT ![c] = @ + n],
                 missed' = [missed EXCEPT ![c] = @ + n]
          PROVE  UsageInv'
      <4>1. \A d \in Callers : usage'[d] - missed'[d] = usage[d] - missed[d]
        BY <3>2 DEF TypeOK
      <4>2. Spent' = Spent
        BY <4>1 DEF Spent
      <4>3. QED
        BY <2>2, <4>2, SettledSame, UsageKept
    <3>3. QED
      BY <2>2, <3>1, <3>2, UsageStep
  <2>3. QED
    BY <2>1, <2>2
<1>3. UsageInv => UsageRecorded
  BY DEF UsageInv, UsageRecorded, SettledOf
<1>4. QED
  BY <1>1, <1>2, <1>3, MissedBounded, TypeCorrect, PTL DEF Spec

(***************************************************************************)
(* What providers billed is covered by the ledger, and what the ledger     *)
(* has settled is what was billed.  Each caller has a part in three sums:  *)
(*  - Slack: the part of its reservation that is not billed yet, which is  *)
(*    what a crash between request and settlement leaves for the bill;     *)
(*  - Unsettled (of the model): the part of its bill above its             *)
(*    reservation, which the ledger shows only once it is settled;         *)
(*  - Pending: its bill, until it is settled.                              *)
(* BillInv bounds what was billed from above, PaidInv from below; where    *)
(* all three sums are zero they meet.                                      *)
(***************************************************************************)

SlackOf(c) ==
    IF pc[c] = "waiting" THEN reserved[c]
    ELSE IF pc[c] = "settling" THEN Excess(reserved[c], reply[c].cost) ELSE 0
Slack == [c \in Callers |-> [cost |-> SlackOf(c)]]

OverOf(c) == IF pc[c] = "settling" THEN Excess(reply[c].cost, reserved[c]) ELSE 0

PendingOf(c) == IF pc[c] = "settling" THEN reply[c].cost ELSE 0
Pending == [c \in Callers |-> [cost |-> PendingOf(c)]]

BillInv ==
    billed + CostOf(Slack, Callers)
        <= CommittedTotal(runs) + dropped + lost + CostOf(Unsettled, Callers)

PaidInv == SettledTotal(runs) + CostOf(Pending, Callers) + lost <= billed

LEMMA MoneyType ==
    ASSUME TypeOK
    PROVE  /\ \A c \in Callers : /\ SlackOf(c) \in Nat /\ Slack[c].cost = SlackOf(c)
                                 /\ OverOf(c) \in Nat /\ Unsettled[c].cost = OverOf(c)
                                 /\ PendingOf(c) \in Nat /\ Pending[c].cost = PendingOf(c)
           /\ CostOf(Slack, Callers) \in Nat
           /\ CostOf(Unsettled, Callers) \in Nat
           /\ CostOf(Pending, Callers) \in Nat
           /\ CommittedTotal(runs) \in Nat /\ SettledTotal(runs) \in Nat
           /\ billed \in Nat /\ dropped \in Nat /\ lost \in Nat
<1>1. \A c \in Callers : reserved[c] \in Nat /\ reply[c].cost \in Nat
  BY DEF TypeOK, Reply
<1>2. \A c \in Callers : /\ SlackOf(c) \in Nat /\ Slack[c].cost = SlackOf(c)
                         /\ OverOf(c) \in Nat /\ Unsettled[c].cost = OverOf(c)
                         /\ PendingOf(c) \in Nat /\ Pending[c].cost = PendingOf(c)
  BY <1>1 DEF Slack, SlackOf, Unsettled, OverOf, Pending, PendingOf, Excess
<1>3. /\ CostOf(Slack, Callers) \in Nat
      /\ CostOf(Unsettled, Callers) \in Nat
      /\ CostOf(Pending, Callers) \in Nat
  BY <1>2, CallersAssumption, UnitsFinite
<1>4. SettledRuns(runs) \in SUBSET DOMAIN runs
  BY DEF SettledRuns
<1>5. CommittedTotal(runs) \in Nat /\ SettledTotal(runs) \in Nat
  BY <1>4, LedgerFinite DEF TypeOK, CommittedTotal, SettledTotal
<1>6. QED
  BY <1>2, <1>3, <1>5 DEF TypeOK

\* The three sums over a step of one caller.
LEMMA MoneyStep ==
    ASSUME TypeOK, TypeOK', NEW c \in Callers,
           \A d \in Callers \ {c} : /\ pc'[d] = pc[d]
                                    /\ reserved'[d] = reserved[d]
                                    /\ reply'[d] = reply[d]
    PROVE  /\ CostOf(Slack', Callers) + SlackOf(c) = CostOf(Slack, Callers) + SlackOf(c)'
           /\ CostOf(Unsettled', Callers) + OverOf(c)
                = CostOf(Unsettled, Callers) + OverOf(c)'
           /\ CostOf(Pending', Callers) + PendingOf(c)
                = CostOf(Pending, Callers) + PendingOf(c)'
           /\ CostOf(Slack', Callers) \in Nat
           /\ CostOf(Unsettled', Callers) \in Nat
           /\ CostOf(Pending', Callers) \in Nat
           /\ SlackOf(c)' \in Nat /\ OverOf(c)' \in Nat /\ PendingOf(c)' \in Nat
           /\ billed' \in Nat /\ lost' \in Nat
<1>1. \A d \in Callers : reserved'[d] \in Nat /\ reply'[d].cost \in Nat
  BY DEF TypeOK, Reply
<1>2. \A d \in Callers : /\ SlackOf(d)' \in Nat /\ Slack'[d].cost = SlackOf(d)'
                         /\ OverOf(d)' \in Nat /\ Unsettled'[d].cost = OverOf(d)'
                         /\ PendingOf(d)' \in Nat /\ Pending'[d].cost = PendingOf(d)'
  BY <1>1 DEF Slack, SlackOf, Unsettled, OverOf, Pending, PendingOf, Excess
<1>3. \A d \in Callers \ {c} : /\ SlackOf(d)' = SlackOf(d)
                               /\ OverOf(d)' = OverOf(d)
                               /\ PendingOf(d)' = PendingOf(d)
  BY DEF SlackOf, OverOf, PendingOf
<1>4. \A d \in Callers : /\ Slack[d].cost \in Nat /\ Slack[d].cost = SlackOf(d)
                         /\ Unsettled[d].cost \in Nat /\ Unsettled[d].cost = OverOf(d)
                         /\ Pending[d].cost \in Nat /\ Pending[d].cost = PendingOf(d)
  BY MoneyType
<1>5. /\ CostOf(Slack', Callers) + SlackOf(c) = CostOf(Slack, Callers) + SlackOf(c)'
      /\ CostOf(Slack', Callers) \in Nat
  <2>1. \A d \in Callers : Slack[d].cost \in Nat /\ Slack'[d].cost \in Nat
    BY <1>2, <1>4
  <2>2. \A d \in Callers \ {c} : Slack'[d].cost = Slack[d].cost
    BY <1>2, <1>3, <1>4
  <2>3. QED
    BY <1>2, <1>4, <2>1, <2>2, CallersAssumption, CostChange
<1>6. /\ CostOf(Unsettled', Callers) + OverOf(c)
           = CostOf(Unsettled, Callers) + OverOf(c)'
      /\ CostOf(Unsettled', Callers) \in Nat
  <2>1. \A d \in Callers : Unsettled[d].cost \in Nat /\ Unsettled'[d].cost \in Nat
    BY <1>2, <1>4
  <2>2. \A d \in Callers \ {c} : Unsettled'[d].cost = Unsettled[d].cost
    BY <1>2, <1>3, <1>4
  <2>3. QED
    BY <1>2, <1>4, <2>1, <2>2, CallersAssumption, CostChange
<1>7. /\ CostOf(Pending', Callers) + PendingOf(c)
           = CostOf(Pending, Callers) + PendingOf(c)'
      /\ CostOf(Pending', Callers) \in Nat
  <2>1. \A d \in Callers : Pending[d].cost \in Nat /\ Pending'[d].cost \in Nat
    BY <1>2, <1>4
  <2>2. \A d \in Callers \ {c} : Pending'[d].cost = Pending[d].cost
    BY <1>2, <1>3, <1>4
  <2>3. QED
    BY <1>2, <1>4, <2>1, <2>2, CallersAssumption, CostChange
<1>8. QED
  BY <1>2, <1>5, <1>6, <1>7 DEF TypeOK

\* A plain step moves a bill from its caller's slack to its pending part, or
\* gives both up and counts what the reservation does not cover as lost.
LEMMA PlainMoney ==
    ASSUME TypeOK, ReplyInv, NEW c \in Callers, PlainStep(c)
    PROVE  /\ runs' = runs /\ dropped' = dropped
           /\ billed' + SlackOf(c)' + lost + OverOf(c)
                <= billed + SlackOf(c) + lost' + OverOf(c)'
           /\ PendingOf(c)' + lost' + billed <= PendingOf(c) + lost + billed'
           /\ \A d \in Callers \ {c} : /\ pc'[d] = pc[d]
                                       /\ reserved'[d] = reserved[d]
                                       /\ reply'[d] = reply[d]
<1> USE DEF Goto, Leave, ledgerVars, ghostVars
<1>0. /\ pc \in [Callers -> Busy \cup Ended \cup Halted]
      /\ reserved \in [Callers -> Nat] /\ reply \in [Callers -> Reply]
      /\ reserved[c] \in Nat /\ reply[c].cost \in Nat
      /\ billed \in Nat /\ lost \in Nat
      /\ pc[c] # "settling" => reply[c].cost = 0
  BY DEF TypeOK, Reply, ReplyInv
<1>1. CASE StartCall(c) \/ RejectCall(c) \/ RefuseReservation(c) \/ Wake(c) \/ Restart(c)
  <2>1. /\ UNCHANGED <<reply, billed, lost, dropped, runs>>
        /\ pc[c] \notin {"waiting", "settling"} /\ pc'[c] \notin {"waiting", "settling"}
        /\ \A d \in Callers \ {c} : pc'[d] = pc[d] /\ reserved'[d] = reserved[d]
    BY <1>0, <1>1 DEF StartCall, RejectCall, RefuseReservation, Wake, Restart, Ended, Halted
  <2>2. QED
    BY <1>0, <2>1 DEF SlackOf, OverOf, PendingOf
<1>2. CASE Respond(c) \/ Fault(c)
  <2>1. PICK kind \in Kinds, bill \in Nat :
           /\ reply' = [reply EXCEPT ![c] = [kind |-> kind, cost |-> bill]]
           /\ billed' = billed + bill
    BY <1>0, <1>2, CostAssumption DEF Respond, Fault, Bills, Kinds
  <2>2. /\ pc[c] = "waiting" /\ pc' = [pc EXCEPT ![c] = "settling"]
        /\ UNCHANGED <<reserved, runs, dropped, lost>>
    BY <1>2 DEF Respond, Fault
  <2>3. /\ SlackOf(c) = reserved[c] /\ SlackOf(c)' = Excess(reserved[c], bill)
        /\ OverOf(c) = 0 /\ OverOf(c)' = Excess(bill, reserved[c])
        /\ PendingOf(c) = 0 /\ PendingOf(c)' = bill
    BY <1>0, <2>1, <2>2 DEF SlackOf, OverOf, PendingOf
  <2>4. bill + Excess(reserved[c], bill) = reserved[c] + Excess(bill, reserved[c])
    BY <1>0 DEF Excess
  <2>5. Excess(reserved[c], bill) \in Nat /\ Excess(bill, reserved[c]) \in Nat
    BY <1>0 DEF Excess
  <2>6. /\ billed' + SlackOf(c)' + lost + OverOf(c)
             <= billed + SlackOf(c) + lost' + OverOf(c)'
        /\ PendingOf(c)' + lost' + billed <= PendingOf(c) + lost + billed'
    BY <1>0, <2>1, <2>2, <2>3, <2>4, <2>5
  <2>7. QED
    BY <1>0, <2>1, <2>2, <2>6
<1>3. CASE EscapedException(c)
  <2>1. PICK bill \in Nat :
           /\ billed' = billed + bill
           /\ lost' = lost + Excess(bill, reserved[c])
    BY <1>0, <1>3, CostAssumption DEF EscapedException, Bills
  <2>2. /\ pc[c] = "waiting" /\ pc' = [pc EXCEPT ![c] = "failed"]
        /\ UNCHANGED <<reply, runs, dropped>>
        /\ \A d \in Callers \ {c} : reserved'[d] = reserved[d]
    BY <1>0, <1>3 DEF EscapedException
  <2>3. /\ SlackOf(c) = reserved[c] /\ SlackOf(c)' = 0
        /\ OverOf(c) = 0 /\ OverOf(c)' = 0
        /\ PendingOf(c) = 0 /\ PendingOf(c)' = 0
    BY <1>0, <2>2 DEF SlackOf, OverOf, PendingOf
  <2>4. /\ bill <= reserved[c] + Excess(bill, reserved[c])
        /\ Excess(bill, reserved[c]) <= bill
        /\ Excess(bill, reserved[c]) \in Nat
    BY <1>0 DEF Excess
  <2>5. /\ billed' + SlackOf(c)' + lost + OverOf(c)
             <= billed + SlackOf(c) + lost' + OverOf(c)'
        /\ PendingOf(c)' + lost' + billed <= PendingOf(c) + lost + billed'
    BY <1>0, <2>1, <2>3, <2>4
  <2>6. QED
    BY <1>0, <2>2, <2>5
<1>4. CASE SettleUnmatched(c) \/ SettleFails(c)
  <2>1. pc[c] = "settling" /\ AbandonSettlement(c)
    BY <1>4 DEF SettleUnmatched, SettleFails
  <2>2. /\ pc' = [pc EXCEPT ![c] = "failed"]
        /\ lost' = lost + Excess(reply[c].cost, reserved[c])
        /\ UNCHANGED <<billed, runs, dropped>>
        /\ \A d \in Callers \ {c} : reserved'[d] = reserved[d] /\ reply'[d] = reply[d]
    BY <1>0, <2>1 DEF AbandonSettlement
  <2>3. /\ SlackOf(c) = Excess(reserved[c], reply[c].cost) /\ SlackOf(c)' = 0
        /\ OverOf(c) = Excess(reply[c].cost, reserved[c]) /\ OverOf(c)' = 0
        /\ PendingOf(c) = reply[c].cost /\ PendingOf(c)' = 0
    BY <1>0, <2>1, <2>2 DEF SlackOf, OverOf, PendingOf
  <2>4. /\ Excess(reply[c].cost, reserved[c]) <= reply[c].cost
        /\ Excess(reply[c].cost, reserved[c]) \in Nat
        /\ Excess(reserved[c], reply[c].cost) \in Nat
    BY <1>0 DEF Excess
  <2>5. /\ billed' + SlackOf(c)' + lost + OverOf(c)
             <= billed + SlackOf(c) + lost' + OverOf(c)'
        /\ PendingOf(c)' + lost' + billed <= PendingOf(c) + lost + billed'
    BY <1>0, <2>2, <2>3, <2>4
  <2>6. QED
    BY <1>0, <2>2, <2>5
<1>5. CASE Crash(c)
  <2>1. PICK bill \in Nat :
           /\ billed' = billed + bill
           /\ lost' = lost + Excess(bill + reply[c].cost, reserved[c])
           /\ pc[c] = "waiting" \/ bill = 0
    BY <1>0, <1>5, CostAssumption DEF Crash, Bills
  <2>2. /\ pc' = [pc EXCEPT ![c] = "crashed"]
        /\ UNCHANGED <<runs, dropped>>
        /\ \A d \in Callers \ {c} : reserved'[d] = reserved[d] /\ reply'[d] = reply[d]
    BY <1>0, <1>5 DEF Crash
  <2>3. SlackOf(c)' = 0 /\ OverOf(c)' = 0 /\ PendingOf(c)' = 0
    BY <1>0, <2>2 DEF SlackOf, OverOf, PendingOf
  <2>4. /\ bill + OverOf(c) <= SlackOf(c) + Excess(bill + reply[c].cost, reserved[c])
        /\ Excess(bill + reply[c].cost, reserved[c]) <= bill + PendingOf(c)
    <3>1. CASE pc[c] = "settling"
      BY <1>0, <2>1, <3>1 DEF SlackOf, OverOf, PendingOf, Excess
    <3>2. CASE pc[c] = "waiting"
      BY <1>0, <2>1, <3>2 DEF SlackOf, OverOf, PendingOf, Excess
    <3>3. CASE pc[c] \notin {"waiting", "settling"}
      BY <1>0, <2>1, <3>3 DEF SlackOf, OverOf, PendingOf, Excess
    <3>4. QED
      BY <3>1, <3>2, <3>3
  <2>5. /\ SlackOf(c) \in Nat /\ OverOf(c) \in Nat /\ PendingOf(c) \in Nat
        /\ Excess(bill + reply[c].cost, reserved[c]) \in Nat
    BY <1>0, MoneyType DEF Excess
  <2>6. /\ billed' + SlackOf(c)' + lost + OverOf(c)
             <= billed + SlackOf(c) + lost' + OverOf(c)'
        /\ PendingOf(c)' + lost' + billed <= PendingOf(c) + lost + billed'
    BY <1>0, <2>1, <2>3, <2>4, <2>5
  <2>7. QED
    BY <1>0, <2>2, <2>6
<1>6. QED
  BY <1>1, <1>2, <1>3, <1>4, <1>5 DEF PlainStep

LEMMA MoneyPlain ==
    ASSUME TypeOK, TypeOK', ReplyInv, BillInv, PaidInv, NEW c \in Callers, PlainStep(c)
    PROVE  BillInv' /\ PaidInv'
<1>1. /\ CommittedTotal(runs') = CommittedTotal(runs)
      /\ SettledTotal(runs') = SettledTotal(runs)
      /\ dropped' = dropped
      /\ billed' + SlackOf(c)' + lost + OverOf(c)
           <= billed + SlackOf(c) + lost' + OverOf(c)'
      /\ PendingOf(c)' + lost' + billed <= PendingOf(c) + lost + billed'
  BY PlainMoney
<1>2. /\ CostOf(Slack', Callers) + SlackOf(c) = CostOf(Slack, Callers) + SlackOf(c)'
      /\ CostOf(Unsettled', Callers) + OverOf(c)
           = CostOf(Unsettled, Callers) + OverOf(c)'
      /\ CostOf(Pending', Callers) + PendingOf(c)
           = CostOf(Pending, Callers) + PendingOf(c)'
      /\ CostOf(Slack', Callers) \in Nat
      /\ CostOf(Unsettled', Callers) \in Nat
      /\ CostOf(Pending', Callers) \in Nat
      /\ SlackOf(c)' \in Nat /\ OverOf(c)' \in Nat /\ PendingOf(c)' \in Nat
      /\ billed' \in Nat /\ lost' \in Nat
  BY PlainMoney, MoneyStep
<1>3. BillInv'
  BY <1>1, <1>2, MoneyType DEF BillInv
<1>4. PaidInv'
  BY <1>1, <1>2, MoneyType DEF PaidInv
<1>5. QED
  BY <1>3, <1>4

\* Only a settlement changes what is settled.
LEMMA SettledKept ==
    ASSUME TypeOK, [Next]_vars, \A c \in Callers : ~Settle(c)
    PROVE  SettledTotal(runs') = SettledTotal(runs)
BY SettledSame, CostAgree DEF SettledTotal

LEMMA MoneyReserve ==
    ASSUME TypeOK, TypeOK', BillInv, PaidInv, NEW c \in Callers, Reserve(c)
    PROVE  BillInv' /\ PaidInv'
<1>1. /\ pc[c] = "begin" /\ pc' = [pc EXCEPT ![c] = "waiting"]
      /\ UNCHANGED <<reserved, reply, billed, lost, dropped>>
      /\ reserved[c] \in Nat /\ pc \in [Callers -> Busy \cup Ended \cup Halted]
  BY DEF Reserve, Goto, ghostVars, TypeOK
<1>2. /\ SlackOf(c) = 0 /\ SlackOf(c)' = reserved[c]
      /\ OverOf(c) = 0 /\ OverOf(c)' = 0
      /\ PendingOf(c) = 0 /\ PendingOf(c)' = 0
  BY <1>1 DEF SlackOf, OverOf, PendingOf
<1>3. /\ CostOf(Slack', Callers) + SlackOf(c) = CostOf(Slack, Callers) + SlackOf(c)'
      /\ CostOf(Unsettled', Callers) + OverOf(c)
           = CostOf(Unsettled, Callers) + OverOf(c)'
      /\ CostOf(Pending', Callers) + PendingOf(c)
           = CostOf(Pending, Callers) + PendingOf(c)'
      /\ CostOf(Slack', Callers) \in Nat
      /\ CostOf(Unsettled', Callers) \in Nat
      /\ CostOf(Pending', Callers) \in Nat
  BY <1>1, MoneyStep
<1>4. CommittedTotal(runs') = CommittedTotal(runs) + reserved[c]
  BY ReserveTotal
<1>5. SettledTotal(runs') = SettledTotal(runs)
  <2>1. appended \in Nat /\ appended' = appended + 1
    BY DEF TypeOK, Reserve
  <2>2. \A d \in Callers : ~Settle(d)
    BY <2>1 DEF Settle
  <2>3. Next
    BY DEF Next, CallerStep
  <2>4. QED
    BY <2>2, <2>3, SettledKept
<1>6. BillInv'
  BY <1>1, <1>2, <1>3, <1>4, MoneyType DEF BillInv
<1>7. PaidInv'
  BY <1>1, <1>2, <1>3, <1>5, MoneyType DEF PaidInv
<1>8. QED
  BY <1>6, <1>7

\* A settlement adds its cost to what is settled.
LEMMA SettleSettled ==
    ASSUME TypeOK, NEW c \in Callers, Settle(c)
    PROVE  SettledTotal(runs') = SettledTotal(runs) + SettledCost(c)
<1>1. PICK i \in Matching(runs, KeyOf[c], reserved[c]) :
         /\ DOMAIN runs' = DOMAIN runs
         /\ \A j \in DOMAIN runs \ {i} : runs'[j] = runs[j]
         /\ runs'[i] = [key |-> KeyOf[c], cost |-> SettledCost(c),
                        reservation |-> FALSE]
         /\ SettledCost(c) \in Nat
         /\ runs' \in [DOMAIN runs' -> Entry]
  BY SettleEffect
<1> DEFINE S == SettledRuns(runs)
<1>2. /\ i \in DOMAIN runs /\ i \notin S
      /\ SettledRuns(runs') = S \cup {i}
      /\ \A j \in S : runs'[j] = runs[j]
  BY <1>1 DEF Matching, SettledRuns
<1>3. IsFiniteSet(S)
  BY LedgerFinite DEF TypeOK, SettledRuns
<1>4. \A j \in S \cup {i} : runs'[j].cost \in Nat
  BY <1>1, <1>2 DEF SettledRuns, Entry
<1>5. CostOf(runs', S) = SettledTotal(runs)
  BY <1>2, CostAgree DEF SettledTotal
<1> HIDE DEF S
<1>6. CostOf(runs', S \cup {i}) = CostOf(runs', S) + runs'[i].cost
  BY <1>2, <1>3, <1>4, CostAdd
<1>7. QED
  BY <1>1, <1>2, <1>5, <1>6 DEF SettledTotal

LEMMA MoneySettle ==
    ASSUME TypeOK, TypeOK', BillInv, PaidInv, NEW c \in Callers, Settle(c)
    PROVE  BillInv' /\ PaidInv'
<1>1. PICK label \in {"aborted", "ok", "failed", "sleeping"} :
         Leave(c, label) \/ Goto(c, label)
  BY DEF Settle, Continue
<1>2. /\ pc[c] = "settling" /\ pc'[c] = label
      /\ \A d \in Callers \ {c} : /\ pc'[d] = pc[d]
                                  /\ reserved'[d] = reserved[d]
                                  /\ reply'[d] = reply[d]
      /\ UNCHANGED <<billed, dropped>>
      /\ lost' = lost + (reply[c].cost - SettledCost(c))
      /\ reserved[c] \in Nat /\ reply[c].cost \in Nat
  BY <1>1 DEF Settle, SettledCost, Goto, Leave, TypeOK, Reply
<1>3. SettledCost(c) \in {0, reply[c].cost}
  BY DEF SettledCost, CountedCost
<1>4. /\ SlackOf(c) = Excess(reserved[c], reply[c].cost) /\ SlackOf(c)' = 0
      /\ OverOf(c) = Excess(reply[c].cost, reserved[c]) /\ OverOf(c)' = 0
      /\ PendingOf(c) = reply[c].cost /\ PendingOf(c)' = 0
  BY <1>1, <1>2 DEF SlackOf, OverOf, PendingOf
<1>5. /\ Excess(reserved[c], reply[c].cost) \in Nat
      /\ Excess(reply[c].cost, reserved[c]) \in Nat
      /\ reply[c].cost + Excess(reserved[c], reply[c].cost)
           = reserved[c] + Excess(reply[c].cost, reserved[c])
  BY <1>2 DEF Excess
<1>6. /\ CostOf(Slack', Callers) + SlackOf(c) = CostOf(Slack, Callers) + SlackOf(c)'
      /\ CostOf(Unsettled', Callers) + OverOf(c)
           = CostOf(Unsettled, Callers) + OverOf(c)'
      /\ CostOf(Pending', Callers) + PendingOf(c)
           = CostOf(Pending, Callers) + PendingOf(c)'
      /\ CostOf(Slack', Callers) \in Nat
      /\ CostOf(Unsettled', Callers) \in Nat
      /\ CostOf(Pending', Callers) \in Nat
  BY <1>2, MoneyStep
<1>7. /\ CommittedTotal(runs') \in Nat
      /\ CommittedTotal(runs') + reserved[c] = CommittedTotal(runs) + SettledCost(c)
  BY SettleTotal
<1>8. SettledTotal(runs') = SettledTotal(runs) + SettledCost(c)
  BY SettleSettled
<1>9. BillInv'
  BY <1>2, <1>3, <1>4, <1>5, <1>6, <1>7, MoneyType DEF BillInv
<1>10. PaidInv'
  BY <1>2, <1>3, <1>4, <1>6, <1>8, MoneyType DEF PaidInv
<1>11. QED
  BY <1>9, <1>10

LEMMA MoneyReconcile ==
    ASSUME TypeOK, TypeOK', BillInv, PaidInv, Reconcile PROVE BillInv' /\ PaidInv'
<1> DEFINE S == SettledRuns(runs)
           R == DOMAIN runs \ S
<1>1. /\ Slack' = Slack /\ Unsettled' = Unsettled /\ Pending' = Pending
      /\ lost' = lost /\ billed' = billed
      /\ dropped' = dropped + CostOf(runs, R)
  BY DEF Reconcile, callVars, Slack, SlackOf, Unsettled, Pending, PendingOf
<1>2. CommittedTotal(runs') = CostOf(runs, S)
  BY ReconcileEffect, CostAgree DEF CommittedTotal
<1>3. IsFiniteSet(Units(runs, S)) /\ IsFiniteSet(Units(runs, R))
  <2>1. S \in SUBSET DOMAIN runs /\ R \in SUBSET DOMAIN runs
    BY DEF SettledRuns
  <2> HIDE DEF S, R
  <2>2. QED
    BY <2>1, LedgerFinite, UnitsFinite DEF TypeOK
<1>4. Units(runs, DOMAIN runs) = Units(runs, S) \cup Units(runs, R)
  BY DEF Units, SettledRuns
<1>5. Units(runs, S) \cap Units(runs, R) = {}
  BY DEF Units
<1>6. CostOf(runs, DOMAIN runs) = CostOf(runs, S) + CostOf(runs, R)
  <2> HIDE DEF S, R
  <2>1. Cardinality(Units(runs, S) \cup Units(runs, R))
          = CostOf(runs, S) + CostOf(runs, R) - Cardinality({})
    BY <1>3, <1>5, FS_Union DEF CostOf
  <2>2. CostOf(runs, S) \in Nat /\ CostOf(runs, R) \in Nat
    BY <1>3, FS_CardinalityType DEF CostOf
  <2>3. QED
    BY <1>4, <2>1, <2>2, FS_EmptySet DEF CostOf
<1>7. CostOf(runs, S) \in Nat /\ CostOf(runs, R) \in Nat
  <2> HIDE DEF S, R
  <2>1. QED
    BY <1>3, FS_CardinalityType DEF CostOf
<1>8. SettledTotal(runs') = SettledTotal(runs)
  <2>1. \A c \in Callers : ~Settle(c)
    BY ReconcileEffect, SettleHolders DEF Holding
  <2>2. QED
    BY <2>1, SettledKept DEF Next
<1> HIDE DEF S, R
<1>9. BillInv'
  BY <1>1, <1>2, <1>6, <1>7, MoneyType DEF BillInv, CommittedTotal
<1>10. PaidInv'
  BY <1>1, <1>8, MoneyType DEF PaidInv
<1>11. QED
  BY <1>9, <1>10

LEMMA MoneyInvariant == Spec => [](BillInv /\ PaidInv)
<1>1. Init => BillInv /\ PaidInv /\ ReplyInv
  <2> SUFFICES ASSUME Init PROVE BillInv /\ PaidInv /\ ReplyInv
    OBVIOUS
  <2>1. CommittedTotal(runs) = 0 /\ SettledTotal(runs) = 0
    BY CostEmpty DEF Init, CommittedTotal, SettledTotal, SettledRuns
  <2>2. \A c \in Callers :
           Slack[c].cost = 0 /\ Unsettled[c].cost = 0 /\ Pending[c].cost = 0
    BY DEF Init, Slack, SlackOf, Unsettled, Pending, PendingOf
  <2>3. /\ CostOf(Slack, Callers) = 0 /\ CostOf(Unsettled, Callers) = 0
        /\ CostOf(Pending, Callers) = 0
    BY <2>2, CostZero
  <2>4. QED
    BY <2>1, <2>3 DEF BillInv, PaidInv, ReplyInv, Init, NoReply
<1>2. TypeOK /\ TypeOK' /\ ReplyInv /\ BillInv /\ PaidInv /\ [Next]_vars
        => BillInv' /\ PaidInv'
  <2> SUFFICES ASSUME TypeOK, TypeOK', ReplyInv, BillInv, PaidInv, [Next]_vars
               PROVE  BillInv' /\ PaidInv'
    OBVIOUS
  <2>1. CASE UNCHANGED vars
    BY <2>1 DEF vars, BillInv, PaidInv, Slack, SlackOf, Unsettled, Pending, PendingOf
  <2>2. QED
    BY <2>1, MoneyPlain, MoneyReserve, MoneySettle, MoneyReconcile, NextCases
<1>3. QED
  BY <1>1, <1>2, ReplyBounded, TypeCorrect, PTL DEF Spec

\* Whatever crashes, escapes or fails between a request and its settlement, what
\* was billed is in the ledger, or was removed by an operator, or was billed for
\* an answer that was released, or is above the worst case and not settled.
THEOREM BillsAreCovered == Spec => []BilledCovered
<1>1. TypeOK /\ BillInv => BilledCovered
  BY MoneyType DEF BillInv, BilledCovered
<1>2. QED
  BY <1>1, MoneyInvariant, TypeCorrect, PTL

\* Once no call is under way and nothing is reserved or was dropped, the ledger
\* shows what the providers billed, less exactly what is lost.
THEOREM SpendIsWhatWasBilled == Spec => []RecordedSpendMatchesBilled
<1>1. TypeOK /\ BillInv /\ PaidInv => RecordedSpendMatchesBilled
  <2> SUFFICES ASSUME TypeOK, BillInv, PaidInv,
                      \A c \in Callers : pc[c] \in Ended, Quiescent
               PROVE  SettledTotal(runs) + lost = billed
    BY DEF RecordedSpendMatchesBilled
  <2>1. \A c \in Callers : Unsettled[c].cost = 0
    BY DEF Ended, Unsettled
  <2>2. CostOf(Unsettled, Callers) = 0
    BY <2>1, CostZero
  <2>3. CommittedTotal(runs) = SettledTotal(runs) /\ dropped = 0
    BY DEF Quiescent, CommittedTotal, SettledTotal
  <2>4. QED
    BY <2>2, <2>3, MoneyType DEF BillInv, PaidInv
<1>2. QED
  BY <1>1, MoneyInvariant, TypeCorrect, PTL

\* What the ledger shows as spent and what is lost for good are at most what the
\* providers billed, whatever leaks, is dropped or overruns.
THEOREM SpendIsNeverOverstated == Spec => [](SettledTotal(runs) + lost <= billed)
<1>1. TypeOK /\ PaidInv => SettledTotal(runs) + lost <= billed
  BY MoneyType DEF PaidInv
<1>2. QED
  BY <1>1, MoneyInvariant, TypeCorrect, PTL
=============================================================================
