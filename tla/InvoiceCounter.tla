--------------------------- MODULE InvoiceCounter ---------------------------
(***************************************************************************)
(* Invoice numbering.  Every path that creates an invoice runs             *)
(*                                                                         *)
(*     $transaction( generateInvoiceNo ; invoice.create ; ... ; commit )   *)
(*                                                                         *)
(* at PostgreSQL's READ COMMITTED.  generateInvoiceNo is an upsert of the  *)
(* row (fy, tenant) of invoice_counters: it locks that row until the       *)
(* transaction ends, and its increment is undone by a rollback.  The       *)
(* number it returns, "<fy>/INV/<seq>", does not name the tenant, while    *)
(* the unique index on invoices.invoice_no is global.                      *)
(***************************************************************************)
EXTENDS Integers

CONSTANTS
    Tenants,    \* shops
    Requests,   \* requests that may be inside the transaction at once
    LastFY,     \* bound: the last financial year the clock reaches
    MaxSeq,     \* bound: the highest number a counter may reach
    NoRequest   \* the owner of an unlocked counter row

ASSUME NoRequestAssumption == NoRequest \notin Requests
ASSUME BoundsAssumption == LastFY \in Nat /\ MaxSeq \in Nat

FYs == 0 .. LastFY

VARIABLES
    now,        \* the financial year the clock shows
    last_seq,   \* [FYs -> [Tenants -> Nat]], the committed counters; 0 is "no row"
    lock,       \* [FYs -> [Tenants -> request]], who holds the row
    tx,         \* [Requests -> Idle or the transaction record]
    issued      \* committed invoices, [tenant, fy, seq]

vars == <<now, last_seq, lock, tx, issued>>

Idle == [step |-> "idle"]
Transaction == [step : {"numbered", "inserted"}, tenant : Tenants, fy : FYs, seq : Nat]
InvoiceNo(x) == <<x.fy, x.seq>>
Row(x) == [tenant |-> x.tenant, fy |-> x.fy, seq |-> x.seq]

\* Every counter, lock, transaction and invoice has the shape the schema gives it;
\* an ended transaction leaves nothing behind.
TypeOK ==
    /\ now \in FYs
    /\ last_seq \in [FYs -> [Tenants -> Nat]]
    /\ lock \in [FYs -> [Tenants -> Requests \cup {NoRequest}]]
    /\ tx \in [Requests -> Transaction \cup {Idle}]
    /\ issued \subseteq [tenant : Tenants, fy : FYs, seq : Nat]

-----------------------------------------------------------------------------

Init ==
    /\ now = 0
    /\ last_seq = [f \in FYs |-> [s \in Tenants |-> 0]]
    /\ lock = [f \in FYs |-> [s \in Tenants |-> NoRequest]]
    /\ tx = [r \in Requests |-> Idle]
    /\ issued = {}

\* The clock passes 1 April.
NewYear ==
    /\ now < LastFY
    /\ now' = now + 1
    /\ UNCHANGED <<last_seq, lock, tx, issued>>

\* The upsert: waits while another transaction holds the row, then locks it.
\* The financial year is the one of the clock at the call.
GenerateInvoiceNo(r, s) ==
    /\ tx[r].step = "idle"
    /\ lock[now][s] = NoRequest
    /\ last_seq[now][s] < MaxSeq
    /\ lock' = [lock EXCEPT ![now][s] = r]
    /\ tx' = [tx EXCEPT ![r] = [step |-> "numbered", tenant |-> s, fy |-> now,
                                seq |-> last_seq[now][s] + 1]]
    /\ UNCHANGED <<now, last_seq, issued>>

\* Mutant: no unique index on the number.
InsertWithoutIndex(r) ==
    /\ tx[r].step = "numbered"
    /\ tx' = [tx EXCEPT ![r].step = "inserted"]
    /\ UNCHANGED <<now, last_seq, lock, issued>>

\* invoice.create: the unique index makes it wait for an uncommitted row with
\* the same number, and fails on a committed one (see Reject).
InsertInvoice(r) ==
    /\ tx[r].step = "numbered"
    /\ \A q \in Requests :
          tx[q].step = "inserted" => InvoiceNo(tx[q]) # InvoiceNo(tx[r])
    /\ \A v \in issued : InvoiceNo(v) # InvoiceNo(tx[r])
    /\ tx' = [tx EXCEPT ![r].step = "inserted"]
    /\ UNCHANGED <<now, last_seq, lock, issued>>

\* Mutants: the increment survives the rollback (a sequence, or an upsert
\* outside the transaction); the transaction ends but keeps its number.
RollbackKeepsIncrement(r) ==
    /\ last_seq' = [last_seq EXCEPT ![tx[r].fy][tx[r].tenant] = tx[r].seq]
    /\ lock' = [lock EXCEPT ![tx[r].fy][tx[r].tenant] = NoRequest]
    /\ tx' = [tx EXCEPT ![r] = Idle]
    /\ UNCHANGED <<now, issued>>

RollbackKeepsNumber(r) ==
    /\ lock' = [lock EXCEPT ![tx[r].fy][tx[r].tenant] = NoRequest]
    /\ tx' = [tx EXCEPT ![r].step = "idle"]
    /\ UNCHANGED <<now, last_seq, issued>>

\* The end of a transaction without effect: the increment is undone with it.
Rollback(r) ==
    /\ lock' = [lock EXCEPT ![tx[r].fy][tx[r].tenant] = NoRequest]
    /\ tx' = [tx EXCEPT ![r] = Idle]
    /\ UNCHANGED <<now, last_seq, issued>>

\* "Unique constraint failed on invoice_no".
Reject(r) ==
    /\ tx[r].step = "numbered"
    /\ \E v \in issued : InvoiceNo(v) = InvoiceNo(tx[r])
    /\ Rollback(r)

\* Any other error before the commit: a failing statement, a timeout, a crash
\* of the server (PostgreSQL then rolls its transaction back).
Fail(r) ==
    /\ tx[r].step # "idle"
    /\ Rollback(r)

\* The commit makes the increment and the invoice visible and frees the row.
Commit(r) ==
    /\ tx[r].step = "inserted"
    /\ last_seq' = [last_seq EXCEPT ![tx[r].fy][tx[r].tenant] = tx[r].seq]
    /\ issued' = issued \cup {Row(tx[r])}
    /\ lock' = [lock EXCEPT ![tx[r].fy][tx[r].tenant] = NoRequest]
    /\ tx' = [tx EXCEPT ![r] = Idle]
    /\ UNCHANGED now

Next ==
    \/ NewYear
    \/ \E r \in Requests :
          \/ \E s \in Tenants : GenerateInvoiceNo(r, s)
          \/ InsertInvoice(r)
          \/ Reject(r)
          \/ Fail(r)
          \/ Commit(r)

Spec == Init /\ [][Next]_vars

-----------------------------------------------------------------------------

SeqsOf(f, s) == {v.seq : v \in {w \in issued : w.fy = f /\ w.tenant = s}}

\* Rule 46: in every financial year the invoices of a shop are numbered 1, 2,
\* ... without a gap, whatever fails between taking a number and the commit.
Gapless == \A f \in FYs, s \in Tenants : SeqsOf(f, s) = 1 .. last_seq[f][s]

\* No two committed invoices carry the same printed number.
NumbersUnique ==
    \A v, w \in issued : InvoiceNo(v) = InvoiceNo(w) => v = w

\* generateInvoiceNo is "safe under concurrent requests": a number it hands out
\* is not already on an invoice, so that the insert cannot be refused.
NumberIsFresh ==
    \A r \in Requests :
        tx[r].step # "idle" => \A v \in issued : InvoiceNo(v) # InvoiceNo(tx[r])

-----------------------------------------------------------------------------

\* What makes Gapless and NumbersUnique inductive: an open transaction owns its
\* counter row, so its number stays the next one; an inserted row excludes every
\* other row, committed or not, with its number.
Open(r) == tx[r].step # "idle"

OwnsRow == \A r \in Requests : Open(r) =>
    /\ lock[tx[r].fy][tx[r].tenant] = r
    /\ tx[r].seq = last_seq[tx[r].fy][tx[r].tenant] + 1

InsertExcludes == \A r \in Requests : tx[r].step = "inserted" =>
    /\ \A v \in issued : InvoiceNo(v) # InvoiceNo(tx[r])
    /\ \A q \in Requests :
          tx[q].step = "inserted" /\ q # r => InvoiceNo(tx[q]) # InvoiceNo(tx[r])

CounterInv == TypeOK /\ OwnsRow /\ InsertExcludes /\ Gapless /\ NumbersUnique
=============================================================================
