------------------------ MODULE InvoiceCounterProofs ------------------------
(***************************************************************************)
(* Proofs about InvoiceCounter, for any shops, requests and bounds: the    *)
(* numbers of a shop have no gap, no number is printed twice, and where    *)
(* there is one shop no number handed out is refused by the index.         *)
(***************************************************************************)
EXTENDS InvoiceCounter, TLAPS

\* The record a step of a transaction installs is well typed.
LEMMA OpenIsTransaction ==
    ASSUME TypeOK, NEW r \in Requests, Open(r)
    PROVE  tx[r] \in Transaction
BY DEF TypeOK, Open, Idle

\* The initial state satisfies the inductive invariant.
LEMMA InitCounterInv == Init => CounterInv
<1> SUFFICES ASSUME Init PROVE CounterInv
    OBVIOUS
<1>1. TypeOK
    BY BoundsAssumption DEF Init, TypeOK, FYs
<1>2. OwnsRow /\ InsertExcludes /\ NumbersUnique
    BY DEF Init, OwnsRow, InsertExcludes, NumbersUnique, Open, Idle
<1>3. Gapless
    BY DEF Init, Gapless, SeqsOf, FYs
<1> QED
    BY <1>1, <1>2, <1>3 DEF CounterInv

\* Ending a transaction without effect preserves the inductive invariant.
LEMMA RollbackInv ==
    ASSUME CounterInv, NEW r \in Requests, Open(r), Rollback(r)
    PROVE  CounterInv'
<1> USE DEF CounterInv
<1>1. tx[r] \in Transaction
    BY OpenIsTransaction
<1>2. TypeOK'
    BY <1>1 DEF TypeOK, Rollback, Transaction
<1>3. OwnsRow'
    <2> SUFFICES ASSUME NEW q \in Requests, Open(q)'
                 PROVE  /\ lock'[tx'[q].fy][tx'[q].tenant] = q
                        /\ tx'[q].seq = last_seq'[tx'[q].fy][tx'[q].tenant] + 1
        BY DEF OwnsRow
    <2>1. q # r /\ tx'[q] = tx[q] /\ Open(q)
        BY DEF Rollback, TypeOK, Open, Idle
    <2>2. tx[q] \in Transaction
        BY <2>1, OpenIsTransaction
    <2>3. <<tx[q].fy, tx[q].tenant>> # <<tx[r].fy, tx[r].tenant>>
        BY <2>1 DEF OwnsRow
    <2> QED
        BY <1>1, <2>1, <2>2, <2>3 DEF Rollback, OwnsRow, TypeOK, Transaction
<1>4. InsertExcludes' /\ NumbersUnique' /\ Gapless'
    <2>1. \A q \in Requests : tx'[q].step = "inserted" => tx'[q] = tx[q]
        BY DEF Rollback, TypeOK, Idle
    <2>2. issued' = issued /\ last_seq' = last_seq
        BY DEF Rollback
    <2> QED
        BY <2>1, <2>2 DEF InsertExcludes, NumbersUnique, Gapless, SeqsOf, InvoiceNo
<1> QED
    BY <1>2, <1>3, <1>4

\* Taking a number locks the row, so the number is the next one and stays so.
LEMMA GenerateInv ==
    ASSUME CounterInv, NEW r \in Requests, NEW s \in Tenants, GenerateInvoiceNo(r, s)
    PROVE  CounterInv'
<1> USE DEF CounterInv
<1>1. TypeOK'
    BY DEF TypeOK, GenerateInvoiceNo, Transaction
<1>2. tx'[r] = [step |-> "numbered", tenant |-> s, fy |-> now, seq |-> last_seq[now][s] + 1]
    BY DEF GenerateInvoiceNo, TypeOK
<1>3. \A q \in Requests : q # r => tx'[q] = tx[q]
    BY DEF GenerateInvoiceNo, TypeOK
<1>4. OwnsRow'
    <2> SUFFICES ASSUME NEW q \in Requests, Open(q)'
                 PROVE  /\ lock'[tx'[q].fy][tx'[q].tenant] = q
                        /\ tx'[q].seq = last_seq'[tx'[q].fy][tx'[q].tenant] + 1
        BY DEF OwnsRow
    <2>1. CASE q = r
        BY <1>2, <2>1 DEF GenerateInvoiceNo, TypeOK
    <2>2. CASE q # r
        <3>1. tx'[q] = tx[q] /\ Open(q)
            BY <1>3, <2>2 DEF Open
        <3>2. tx[q] \in Transaction
            BY <3>1, OpenIsTransaction
        <3>3. <<tx[q].fy, tx[q].tenant>> # <<now, s>>
            BY <3>1, NoRequestAssumption DEF OwnsRow, GenerateInvoiceNo
        <3> QED
            BY <3>1, <3>2, <3>3 DEF OwnsRow, GenerateInvoiceNo, TypeOK, Transaction
    <2> QED
        BY <2>1, <2>2
<1>5. InsertExcludes' /\ NumbersUnique' /\ Gapless'
    <2>1. \A q \in Requests : tx'[q].step = "inserted" => tx'[q] = tx[q]
        BY <1>2, <1>3
    <2>2. issued' = issued /\ last_seq' = last_seq
        BY DEF GenerateInvoiceNo
    <2> QED
        BY <2>1, <2>2 DEF InsertExcludes, NumbersUnique, Gapless, SeqsOf, InvoiceNo
<1> QED
    BY <1>1, <1>4, <1>5

\* An insert passes the unique index, so its number is on no other row.
LEMMA InsertInv ==
    ASSUME CounterInv, NEW r \in Requests, InsertInvoice(r)
    PROVE  CounterInv'
<1> USE DEF CounterInv
<1>1. tx[r] \in Transaction
    BY OpenIsTransaction DEF InsertInvoice, Open
<1>2. TypeOK'
    BY <1>1 DEF TypeOK, InsertInvoice, Transaction
<1>3. /\ tx'[r] = [tx[r] EXCEPT !.step = "inserted"]
      /\ \A q \in Requests : q # r => tx'[q] = tx[q]
    BY DEF InsertInvoice, TypeOK
<1>4. /\ tx'[r].step = "inserted"
      /\ tx'[r].fy = tx[r].fy /\ tx'[r].tenant = tx[r].tenant /\ tx'[r].seq = tx[r].seq
    BY <1>1, <1>3 DEF Transaction
<1>5. OwnsRow'
    BY <1>3, <1>4 DEF OwnsRow, Open, InsertInvoice
<1>6. InsertExcludes'
    BY <1>3, <1>4 DEF InsertExcludes, InsertInvoice, InvoiceNo
<1>7. NumbersUnique' /\ Gapless'
    BY DEF InsertInvoice, NumbersUnique, Gapless, SeqsOf
<1> QED
    BY <1>2, <1>5, <1>6, <1>7

\* A commit extends the shop's numbers by exactly the next one.
LEMMA CommitInv ==
    ASSUME CounterInv, NEW r \in Requests, Commit(r)
    PROVE  CounterInv'
<1> USE DEF CounterInv
<1> DEFINE f == tx[r].fy
           s == tx[r].tenant
           n == tx[r].seq
<1>1. tx[r] \in Transaction /\ Open(r)
    BY OpenIsTransaction DEF Commit, Open
<1>2. f \in FYs /\ s \in Tenants /\ n \in Nat
    BY <1>1 DEF Transaction
<1>3. lock[f][s] = r /\ n = last_seq[f][s] + 1
    BY <1>1 DEF OwnsRow
<1>4. issued' = issued \cup {[tenant |-> s, fy |-> f, seq |-> n]}
    BY DEF Commit, Row
<1>5. TypeOK'
    BY <1>1, <1>2, <1>4 DEF TypeOK, Commit
<1>6. /\ tx'[r] = Idle
      /\ \A q \in Requests : q # r => tx'[q] = tx[q]
    BY DEF Commit, TypeOK
<1>7. OwnsRow'
    <2> SUFFICES ASSUME NEW q \in Requests, Open(q)'
                 PROVE  /\ lock'[tx'[q].fy][tx'[q].tenant] = q
                        /\ tx'[q].seq = last_seq'[tx'[q].fy][tx'[q].tenant] + 1
        BY DEF OwnsRow
    <2>1. q # r /\ tx'[q] = tx[q] /\ Open(q)
        BY <1>6 DEF Open, Idle
    <2>2. tx[q] \in Transaction
        BY <2>1, OpenIsTransaction
    <2>3. <<tx[q].fy, tx[q].tenant>> # <<f, s>>
        BY <1>3, <2>1 DEF OwnsRow
    <2> QED
        BY <1>2, <2>1, <2>2, <2>3 DEF Commit, OwnsRow, TypeOK, Transaction
<1>8. InsertExcludes'
    <2> SUFFICES ASSUME NEW q \in Requests, tx'[q].step = "inserted"
                 PROVE  /\ \A v \in issued' : InvoiceNo(v) # InvoiceNo(tx'[q])
                        /\ \A p \in Requests : tx'[p].step = "inserted" /\ p # q =>
                                 InvoiceNo(tx'[p]) # InvoiceNo(tx'[q])
        BY DEF InsertExcludes
    <2>1. q # r /\ tx'[q] = tx[q]
        BY <1>6 DEF Idle
    <2>2. InvoiceNo(tx[q]) # <<f, n>>
        BY <2>1 DEF InsertExcludes, Commit, InvoiceNo
    <2>3. \A p \in Requests : tx'[p].step = "inserted" => tx'[p] = tx[p]
        BY <1>6 DEF Idle
    <2> QED
        BY <1>4, <2>1, <2>2, <2>3 DEF InsertExcludes, InvoiceNo
<1>9. NumbersUnique'
    BY <1>4 DEF NumbersUnique, InsertExcludes, Commit, InvoiceNo
<1>10. Gapless'
    <2> SUFFICES ASSUME NEW g \in FYs, NEW t \in Tenants
                 PROVE  SeqsOf(g, t)' = 1 .. last_seq'[g][t]
        BY DEF Gapless
    <2>1. SeqsOf(g, t) = 1 .. last_seq[g][t]
        BY DEF Gapless
    <2>2. CASE g = f /\ t = s
        <3>1. SeqsOf(g, t)' = SeqsOf(g, t) \cup {n}
            <4> DEFINE row == [tenant |-> s, fy |-> f, seq |-> n]
            <4>1. row.fy = g /\ row.tenant = t /\ row.seq = n
                BY <2>2
            <4> HIDE DEF row
            <4>2. issued' = issued \cup {row}
                BY <1>4 DEF row
            <4> QED
                BY <4>1, <4>2 DEF SeqsOf
        <3>2. last_seq'[g][t] = n
            BY <1>2, <2>2 DEF Commit, TypeOK
        <3>3. last_seq[f][s] \in Nat
            BY <1>2 DEF TypeOK
        <3> QED
            BY <1>3, <2>1, <2>2, <3>1, <3>2, <3>3
    <2>3. CASE ~(g = f /\ t = s)
        <3>1. SeqsOf(g, t)' = SeqsOf(g, t)
            BY <1>4, <2>3 DEF SeqsOf
        <3>2. last_seq'[g][t] = last_seq[g][t]
            BY <1>2, <2>3 DEF Commit, TypeOK
        <3> QED
            BY <2>1, <3>1, <3>2
    <2> QED
        BY <2>2, <2>3
<1> QED
    BY <1>5, <1>7, <1>8, <1>9, <1>10

\* CounterInv is inductive.
THEOREM CounterInvariant == Spec => []CounterInv
<1>1. ASSUME CounterInv, [Next]_vars PROVE CounterInv'
    <2>1. CASE UNCHANGED vars
        BY <1>1, <2>1 DEF vars, CounterInv, TypeOK, OwnsRow, InsertExcludes, Gapless,
                          NumbersUnique, SeqsOf, Open, InvoiceNo
    <2>2. CASE NewYear
        <3>1. now' \in FYs
            BY <1>1, <2>2, BoundsAssumption DEF NewYear, CounterInv, TypeOK, FYs
        <3> QED
            BY <1>1, <2>2, <3>1 DEF NewYear, CounterInv, TypeOK, OwnsRow, InsertExcludes,
                                    Gapless, NumbersUnique, SeqsOf, Open, InvoiceNo
    <2>3. ASSUME NEW r \in Requests, NEW s \in Tenants, GenerateInvoiceNo(r, s)
          PROVE  CounterInv'
        BY <1>1, <2>3, GenerateInv
    <2>4. ASSUME NEW r \in Requests, InsertInvoice(r) PROVE CounterInv'
        BY <1>1, <2>4, InsertInv
    <2>5. ASSUME NEW r \in Requests, Reject(r) PROVE CounterInv'
        BY <1>1, <2>5, RollbackInv DEF Reject, Open
    <2>6. ASSUME NEW r \in Requests, Fail(r) PROVE CounterInv'
        BY <1>1, <2>6, RollbackInv DEF Fail, Open
    <2>7. ASSUME NEW r \in Requests, Commit(r) PROVE CounterInv'
        BY <1>1, <2>7, CommitInv
    <2> QED
        BY <1>1, <2>1, <2>2, <2>3, <2>4, <2>5, <2>6, <2>7 DEF Next
<1> QED
    BY <1>1, InitCounterInv, PTL DEF Spec

\* The state of the numbering stays well typed.
THEOREM CounterTypeOK == Spec => []TypeOK
<1>1. CounterInv => TypeOK
    BY DEF CounterInv
<1> QED
    BY <1>1, CounterInvariant, PTL

\* Rule 46 for every shop and year: the committed numbers are 1 .. last_seq,
\* although any request may fail after it took its number.
THEOREM GaplessAlways == Spec => []Gapless
<1>1. CounterInv => Gapless
    BY DEF CounterInv
<1> QED
    BY <1>1, CounterInvariant, PTL

\* The index keeps printed numbers unique across all shops.
THEOREM NumbersUniqueAlways == Spec => []NumbersUnique
<1>1. CounterInv => NumbersUnique
    BY DEF CounterInv
<1> QED
    BY <1>1, CounterInvariant, PTL

\* With a single shop generateInvoiceNo never returns a number in use.
THEOREM FreshWithOneShop ==
    ASSUME \A s, t \in Tenants : s = t
    PROVE  Spec => []NumberIsFresh
<1>1. CounterInv => NumberIsFresh
    <2> SUFFICES ASSUME CounterInv, NEW r \in Requests, Open(r), NEW v \in issued
                 PROVE  InvoiceNo(v) # InvoiceNo(tx[r])
        BY DEF NumberIsFresh, Open
    <2> USE DEF CounterInv
    <2>1. tx[r] \in Transaction
        BY OpenIsTransaction
    <2>2. v.tenant \in Tenants /\ v.fy \in FYs /\ v.seq \in Nat
        BY DEF TypeOK
    <2>3. v.seq \in 1 .. last_seq[v.fy][v.tenant]
        BY <2>2 DEF Gapless, SeqsOf
    <2>4. v.tenant = tx[r].tenant
        BY <2>1, <2>2 DEF Transaction
    <2>5. tx[r].seq = last_seq[tx[r].fy][tx[r].tenant] + 1
        BY DEF OwnsRow
    <2>6. last_seq[tx[r].fy][tx[r].tenant] \in Nat
        BY <2>1 DEF TypeOK, Transaction
    <2> QED
        BY <2>2, <2>3, <2>4, <2>5, <2>6 DEF InvoiceNo
<1> QED
    BY <1>1, CounterInvariant, PTL
=============================================================================
