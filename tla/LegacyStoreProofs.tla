-------------------------- MODULE LegacyStoreProofs --------------------------
(***************************************************************************)
(* That the legacy retail API serves a store that is whole or none, and    *)
(* settles no document beyond what it has, proved for any number of        *)
(* callers, any opening store and any amounts.  What makes it true: every  *)
(* copy of the store there is - the one served, the one in the state file, *)
(* the one each request was given to roll back to, the one it looked at -  *)
(* has documents that belong together, and every rollback still pending    *)
(* leads back to books that agree.                                         *)
(***************************************************************************)
EXTENDS LegacyStore, SumProofs, TLAPS

-----------------------------------------------------------------------------
(* The inductive invariant of the legacy store. *)

Active(c) == calls[c].stage \in {"begun", "looked"}
Pending(c) == calls[c].stage = "answered" /\ calls[c].answer = "refused"

\* The operation op is about a document of its own kind, which s has.
IsAbout(op, kind) ==
    \/ op \in {"sell", "close"} /\ kind = "till"
    \/ op \in {"return", "exchange", "print", "export", "attach"} /\ kind = "sale"
    \/ op = "approve" /\ kind = "return"
    \/ op \in {"submit", "decide", "receive"} /\ kind = "order"
    \/ op \in {"invoice", "lots"} /\ kind = "receipt"
    \/ op = "write_off" /\ kind = "lot"
    \/ op \in {"supplier_return", "pay"} /\ kind = "invoice"
    \/ op = "dispute" /\ kind \in {"invoice", "receipt"}
    \/ op = "resolve" /\ kind = "dispute"
    \/ op = "complete" /\ kind = "job"
About(q, s) ==
    IF q.of = 0 THEN q.op \in {"sell", "open", "transfer", "count", "order", "push", "tenant"}
    ELSE q.of \in DOMAIN s.docs /\ IsAbout(q.op, s.docs[q.of].kind)

\* What the middleware and a handler keep of a request.
IsCall(q) ==
    \/ q = NoCall
    \/ /\ q.stage \in {"begun", "looked"}
       /\ q = [op |-> q.op, of |-> q.of, n |-> q.n, m |-> q.m, word |-> q.word, id |-> q.id, stage |-> q.stage,
               before |-> q.before, seen |-> q.seen, overtaken |-> q.overtaken, aside |-> q.aside, suspended |-> q.suspended]
       /\ q.n \in Nat /\ q.m \in Nat /\ q.id \in Nat /\ q.of \in Nat
       /\ q.overtaken \in BOOLEAN /\ q.aside \in BOOLEAN
       /\ q.op = "sell" => q.word \in {"whole", "refused", "raised"}
       /\ q.op = "pay" => q.n # 0
       /\ q.op \in {"decide", "complete", "tenant"} => q.word \in Words
    \/ /\ q.stage = "answered"
       /\ q = [op |-> q.op, stage |-> q.stage, answer |-> q.answer, id |-> q.id, before |-> q.before,
               overtaken |-> q.overtaken, suspended |-> q.suspended]
       /\ q.answer \in {"done", "refused", "raised"} /\ q.id \in Nat /\ q.overtaken \in BOOLEAN

LegacyShape ==
    /\ calls \in [Callers -> {calls[c] : c \in Callers}] /\ \A c \in Callers : IsCall(calls[c])
    /\ called \in Nat /\ torn \in BOOLEAN

\* Every store that is, was copied or was looked at.
World ==
    {store, snapshot, Opening} \cup {calls[c].before : c \in {d \in Callers : calls[d].stage # "none"}}
                               \cup {calls[c].seen : c \in {d \in Callers : Active(d)}}

SettledAll(s, R) == \A d \in DOMAIN s.docs : d \in R \/ Settled(s, d)

Limit == Cardinality(DOMAIN Opening.docs) + called

\* The store s has documents 1 to n, and all that are not in R are settled.
Coheres(s, n, R) ==
    /\ IsStore(s) /\ DOMAIN s.docs \subseteq 1 .. n
    /\ \A d \in DOMAIN s.docs : Cites(s.docs[d]) \in 0 .. n
    /\ SettledAll(s, R)

KindsAgree(s, t) == \A d \in DOMAIN s.docs \cap DOMAIN t.docs : s.docs[d].kind = t.docs[d].kind

\* The id of a request under way is no document's yet.
Unused(i, s) == i \notin DOMAIN s.docs /\ \A d \in DOMAIN s.docs : Cites(s.docs[d]) # i
IdIsFree(c) ==
    /\ calls[c].id \in 1 .. Limit
    /\ \A s \in World : Unused(calls[c].id, s)
    /\ \A d \in Callers \ {c} : Active(d) => calls[d].id # calls[c].id

\* What a request under way knows.
CallHolds(c) ==
    /\ About(calls[c], calls[c].before)
    /\ calls[c].overtaken \/ calls[c].before = store
    /\ calls[c].stage = "begun" => ~calls[c].aside
    /\ calls[c].stage = "looked" =>
         /\ calls[c].of \in DOMAIN calls[c].seen.docs
         /\ IF calls[c].aside THEN torn ELSE calls[c].of \in DOMAIN store.docs

\* The store is what its documents and the answers say, but for the requests that wait to be rolled back:
\* if none of them is overtaken, they take the store back to one that is.
Clean(s) == BooksAgree(s) /\ answered \subseteq DOMAIN s.docs
WholeSoFar ==
    /\ Clean(snapshot)
    /\ \A c \in Callers : calls[c].stage = "answered" => calls[c].answer # "raised"
    /\ \/ (\A c \in Callers : ~Pending(c)) /\ Clean(store)
       \/ \E c \in Callers : Pending(c) /\ calls[c].overtaken
       \/ /\ \A c \in Callers : Pending(c) => calls[c].before = store \/ Clean(calls[c].before)
          /\ \E c \in Callers : Pending(c) /\ (Clean(store) \/ Clean(calls[c].before))

LegacyInv ==
    /\ LegacyShape
    /\ \A s \in World : Coheres(s, Limit, raced)
    /\ \A s, t \in World : KindsAgree(s, t)
    /\ \A c \in Callers : Active(c) => IdIsFree(c) /\ CallHolds(c)
    /\ StateFile /\ ~torn => WholeSoFar

-----------------------------------------------------------------------------
(* Documents: what of them the properties are about. *)

Amount(doc) == IF doc.kind \in {"till", "dispute", "job", "sync"} THEN 0 ELSE doc.qty

\* a and b settle and move the same, and are of the same till and number.
Alike(a, b) ==
    /\ a.kind = b.kind /\ Cites(a) = Cites(b) /\ Amount(a) = Amount(b)
    /\ a.kind \in {"sale", "exchange"} => a.till = b.till
    /\ a.kind = "sale" => a.number = b.number
    /\ a.kind = "supplier_return" => a.lines = b.lines

\* And hold as much.
Still(a, b) ==
    /\ Alike(a, b)
    /\ a.kind = "till" => a.cash = b.cash
    /\ a.kind = "lot" => a.off = b.off

\* Natural numbers are whole.
LEMMA NatIsWhole == \A n \in Nat : n \in Int /\ -n \in Int
OBVIOUS

\* The fields of each kind of document.
LEMMA DocumentFields ==
    ASSUME NEW doc \in Documents
    PROVE  /\ Cites(doc) \in Nat /\ Amount(doc) \in Int /\ Moved(doc) \in Int
           /\ doc.kind = "till" => doc.cash \in Int
           /\ doc.kind \in {"order", "receipt", "invoice", "lot", "payment", "supplier_return", "sale", "transfer"} =>
                doc.qty \in Nat /\ Amount(doc) = doc.qty
           /\ doc.kind = "exchange" => doc.qty \in Int /\ Amount(doc) = doc.qty
           /\ doc.kind = "lot" => doc.off \in Nat /\ Moved(doc) = -doc.off
           /\ doc.kind \in {"sale", "exchange"} => doc.till \in Nat
           /\ doc.kind = "sale" => doc.number \in Nat
<1>1. CASE doc \in [kind : {"till"}, status : Words, cash : Int]
  <2>1. doc.kind = "till" /\ doc.cash \in Int
    BY <1>1
  <2>2. Moved(doc) \in Int /\ (doc.kind = "lot" => Moved(doc) = -doc.off)
    BY <2>1 DEF Moved
  <2> QED
    BY <2>1, <2>2 DEF Cites, Amount
<1>2. CASE doc \in [kind : {"order"}, qty : Nat, status : Words]
  <2>1. doc.kind = "order" /\ doc.qty \in Nat
    BY <1>2
  <2>2. Moved(doc) \in Int /\ (doc.kind = "lot" => Moved(doc) = -doc.off)
    BY <2>1 DEF Moved
  <2> QED
    BY <2>1, <2>2 DEF Cites, Amount
<1>3. CASE doc \in [kind : {"receipt", "invoice", "payment"}, of : Nat, qty : Nat]
  <2>1. doc.kind \in {"receipt", "invoice", "payment"} /\ doc.of \in Nat /\ doc.qty \in Nat
    BY <1>3
  <2>2. doc.kind = "receipt" => Moved(doc) = doc.qty
    BY DEF Moved
  <2>3. doc.kind \in {"invoice", "payment"} => Moved(doc) = 0
    <3>1. doc.kind = "invoice" => Moved(doc) = 0
      BY DEF Moved
    <3>2. doc.kind = "payment" => Moved(doc) = 0
      BY DEF Moved
    <3> QED
      BY <3>1, <3>2
  <2>4. Moved(doc) \in Int
    BY <2>1, <2>2, <2>3
  <2>5. Cites(doc) = doc.of
    BY <2>1 DEF Cites
  <2>6. doc.kind \notin {"till", "dispute", "job", "sync"}
    BY <2>1
  <2>7. Amount(doc) = doc.qty
    BY <2>6 DEF Amount
  <2>8. doc.kind \notin {"till", "exchange", "lot", "sale"}
    BY <2>1
  <2>9. Cites(doc) \in Nat /\ Amount(doc) \in Int
    BY <2>1, <2>5, <2>7, NatIsWhole
  <2> QED
    BY <2>1, <2>4, <2>7, <2>8, <2>9
<1>4. CASE doc \in [kind : {"lot"}, of : Nat, qty : Nat, off : Nat]
  <2>1. doc.kind = "lot" /\ doc.of \in Nat /\ doc.qty \in Nat /\ doc.off \in Nat
    BY <1>4
  <2>2. Moved(doc) \in Int /\ (doc.kind = "lot" => Moved(doc) = -doc.off)
    BY <2>1 DEF Moved
  <2> QED
    BY <2>1, <2>2 DEF Cites, Amount
<1>5. CASE doc \in [kind : {"supplier_return"}, of : Nat, qty : Nat, lines : {1, 2}]
  <2>1. doc.kind = "supplier_return" /\ doc.of \in Nat /\ doc.qty \in Nat
    BY <1>5
  <2>2. Moved(doc) = -doc.qty
    BY <2>1 DEF Moved
  <2>3. Cites(doc) = doc.of
    BY <2>1 DEF Cites
  <2>4. Amount(doc) = doc.qty
    BY <2>1 DEF Amount
  <2>5. Cites(doc) \in Nat /\ Amount(doc) \in Int /\ Moved(doc) \in Int
    BY <2>1, <2>2, <2>3, <2>4, NatIsWhole
  <2> QED
    BY <2>1, <2>4, <2>5
<1>6. CASE doc \in [kind : {"sale"}, qty : Nat, till : Nat, number : Nat, irn : Words]
  <2>1. doc.kind = "sale" /\ doc.qty \in Nat /\ doc.till \in Nat /\ doc.number \in Nat
    BY <1>6
  <2>2. Moved(doc) \in Int /\ (doc.kind = "lot" => Moved(doc) = -doc.off)
    BY <2>1 DEF Moved
  <2> QED
    BY <2>1, <2>2 DEF Cites, Amount
<1>7. CASE doc \in [kind : {"return"}, of : Nat, qty : Nat, refund : Nat, status : Words]
  <2>1. doc.kind = "return" /\ doc.qty \in Nat
    BY <1>7
  <2>2. Moved(doc) \in Int /\ (doc.kind = "lot" => Moved(doc) = -doc.off)
    BY <2>1 DEF Moved
  <2> QED
    BY <2>1, <2>2 DEF Cites, Amount
<1>8. CASE doc \in [kind : {"exchange"}, of : Nat, till : Nat, qty : Int]
  <2>1. doc.kind = "exchange" /\ doc.qty \in Int /\ doc.till \in Nat
    BY <1>8
  <2>2. Moved(doc) \in Int /\ (doc.kind = "lot" => Moved(doc) = -doc.off)
    BY <2>1 DEF Moved
  <2> QED
    BY <2>1, <2>2 DEF Cites, Amount
<1>9. CASE doc \in [kind : {"transfer"}, qty : Nat]
  <2>1. doc.kind = "transfer" /\ doc.qty \in Nat
    BY <1>9
  <2>2. Moved(doc) \in Int /\ (doc.kind = "lot" => Moved(doc) = -doc.off)
    BY <2>1 DEF Moved
  <2> QED
    BY <2>1, <2>2 DEF Cites, Amount
<1>10. CASE doc \in [kind : {"count"}, qty : Int]
  <2>1. doc.kind = "count" /\ doc.qty \in Int
    BY <1>10
  <2>2. Moved(doc) \in Int /\ (doc.kind = "lot" => Moved(doc) = -doc.off)
    BY <2>1 DEF Moved
  <2> QED
    BY <2>1, <2>2 DEF Cites, Amount
<1>11. CASE doc \in [kind : {"dispute", "job"}, of : Nat, status : Words]
  <2>1. doc.kind \in {"dispute", "job"}
    BY <1>11
  <2>2. doc.kind = "dispute" => Moved(doc) = 0 /\ Cites(doc) = 0 /\ Amount(doc) = 0
    BY DEF Moved, Cites, Amount
  <2>3. doc.kind = "job" => Moved(doc) = 0 /\ Cites(doc) = 0 /\ Amount(doc) = 0
    BY DEF Moved, Cites, Amount
  <2>4. doc.kind \notin {"till", "order", "receipt", "invoice", "lot", "payment", "supplier_return", "sale", "transfer", "exchange"}
    BY <2>1
  <2>5. Moved(doc) = 0 /\ Cites(doc) = 0 /\ Amount(doc) = 0
    BY <2>1, <2>2, <2>3
  <2>6. Cites(doc) \in Nat /\ Amount(doc) \in Int /\ Moved(doc) \in Int
    BY <2>5
  <2> QED
    BY <2>4, <2>6
<1>12. CASE doc \in [kind : {"sync"}, version : Nat]
  <2>1. doc.kind = "sync"
    BY <1>12
  <2>2. Moved(doc) \in Int /\ (doc.kind = "lot" => Moved(doc) = -doc.off)
    BY <2>1 DEF Moved
  <2> QED
    BY <2>1, <2>2 DEF Cites, Amount
<1> QED
  BY <1>1, <1>2, <1>3, <1>4, <1>5, <1>6, <1>7, <1>8, <1>9, <1>10, <1>11, <1>12 DEF Documents

\* What is alike moves alike, but for what a lot has lost.
LEMMA AlikeMoves ==
    ASSUME NEW a \in Documents, NEW b \in Documents, Alike(a, b)
    PROVE  /\ a.kind # "lot" => Moved(a) = Moved(b)
           /\ Still(a, b) => Moved(a) = Moved(b)
BY DocumentFields DEF Alike, Still, Moved, Amount

\* A status that is changed changes nothing else of a document.
LEMMA StatusChanges ==
    ASSUME NEW doc \in Documents, NEW word \in Words,
           doc.kind \in {"till", "order", "return", "dispute", "job"}
    PROVE  [doc EXCEPT !.status = word] \in Documents /\ Still(doc, [doc EXCEPT !.status = word])
<1>1. CASE doc \in [kind : {"till"}, status : Words, cash : Int]
  <2>1. [doc EXCEPT !.status = word] \in [kind : {"till"}, status : Words, cash : Int]
    BY <1>1
  <2> QED
    BY <1>1, <2>1 DEF Documents, Still, Alike, Cites, Amount
<1>2. CASE doc \in [kind : {"order"}, qty : Nat, status : Words]
  <2>1. [doc EXCEPT !.status = word] \in [kind : {"order"}, qty : Nat, status : Words]
    BY <1>2
  <2> QED
    BY <1>2, <2>1 DEF Documents, Still, Alike, Cites, Amount
<1>3. CASE doc \in [kind : {"return"}, of : Nat, qty : Nat, refund : Nat, status : Words]
  <2>1. [doc EXCEPT !.status = word] \in [kind : {"return"}, of : Nat, qty : Nat, refund : Nat, status : Words]
    BY <1>3
  <2> QED
    BY <1>3, <2>1 DEF Documents, Still, Alike, Cites, Amount
<1>4. CASE doc \in [kind : {"dispute", "job"}, of : Nat, status : Words]
  <2>1. [doc EXCEPT !.status = word] \in [kind : {"dispute", "job"}, of : Nat, status : Words]
    BY <1>4
  <2> QED
    BY <1>4, <2>1 DEF Documents, Still, Alike, Cites, Amount
<1> QED
  BY <1>1, <1>2, <1>3, <1>4 DEF Documents

\* Nor does the mark of a sale's invoice.
LEMMA MarkChanges ==
    ASSUME NEW doc \in Documents, NEW word \in Words, doc.kind = "sale"
    PROVE  [doc EXCEPT !.irn = word] \in Documents /\ Still(doc, [doc EXCEPT !.irn = word])
<1>1. doc \in [kind : {"sale"}, qty : Nat, till : Nat, number : Nat, irn : Words]
  BY DEF Documents
<1>2. [doc EXCEPT !.irn = word] \in [kind : {"sale"}, qty : Nat, till : Nat, number : Nat, irn : Words]
  BY <1>1
<1> QED
  BY <1>1, <1>2 DEF Documents, Still, Alike, Cites, Amount

\* A till that takes so much has so much more, a lot that loses so much has lost so much more.
LEMMA CashChanges ==
    ASSUME NEW doc \in Documents, NEW amount \in Int, doc.kind = "till"
    PROVE  /\ [doc EXCEPT !.cash = @ + amount] \in Documents /\ Alike(doc, [doc EXCEPT !.cash = @ + amount])
           /\ [doc EXCEPT !.cash = @ + amount].cash = doc.cash + amount
<1>1. doc \in [kind : {"till"}, status : Words, cash : Int]
  BY DEF Documents
<1>2. [doc EXCEPT !.cash = @ + amount] \in [kind : {"till"}, status : Words, cash : Int]
  BY <1>1
<1> QED
  BY <1>1, <1>2 DEF Documents, Alike, Cites, Amount

\* Writing more off a lot leaves it a document like it, with more written off.
LEMMA LossChanges ==
    ASSUME NEW doc \in Documents, NEW n \in Nat, doc.kind = "lot"
    PROVE  /\ [doc EXCEPT !.off = @ + n] \in Documents /\ Alike(doc, [doc EXCEPT !.off = @ + n])
           /\ [doc EXCEPT !.off = @ + n].off = doc.off + n
<1>1. doc \in [kind : {"lot"}, of : Nat, qty : Nat, off : Nat]
  BY DEF Documents
<1>2. [doc EXCEPT !.off = @ + n] \in [kind : {"lot"}, of : Nat, qty : Nat, off : Nat]
  BY <1>1
<1> QED
  BY <1>1, <1>2 DEF Documents, Alike, Cites, Amount

-----------------------------------------------------------------------------
(* Stores: what each way of writing into one leaves. *)

\* All that a handler may leave of the tills that sales name.
TillsNamed(D) ==
    \A d \in DOMAIN D : D[d].kind \in {"sale", "exchange"} =>
        D[d].till = 0 \/ (D[d].till \in DOMAIN D /\ D[D[d].till].kind = "till")

\* A store by its parts.
LEMMA StoreParts ==
    ASSUME NEW s
    PROVE  IsStore(s) <=>
             /\ s = [tenant |-> s.tenant, stock |-> s.stock, invoices |-> s.invoices, docs |-> s.docs]
             /\ s.tenant \in Words /\ s.invoices \in Nat /\ s.stock \in [{"home", "away"} -> Int]
             /\ s.docs \in [DOMAIN s.docs -> Documents] /\ IsFiniteSet(DOMAIN s.docs) /\ TillsNamed(s.docs)
BY DEF IsStore, TillsNamed, Filed

\* A store with other parts.
LEMMA StoreOfParts ==
    ASSUME NEW tenant \in Words, NEW stock \in [{"home", "away"} -> Int], NEW invoices \in Nat, NEW docs,
           docs \in [DOMAIN docs -> Documents], IsFiniteSet(DOMAIN docs), TillsNamed(docs)
    PROVE  IsStore([tenant |-> tenant, stock |-> stock, invoices |-> invoices, docs |-> docs])
<1>1. PICK s : s = [tenant |-> tenant, stock |-> stock, invoices |-> invoices, docs |-> docs]
  OBVIOUS
<1>2. s.tenant = tenant /\ s.stock = stock /\ s.invoices = invoices /\ s.docs = docs
  BY <1>1
<1>3. IsStore(s)
  BY <1>1, <1>2, StoreParts
<1> QED
  BY <1>1, <1>3

\* An entry in the ledger of a branch.
LEMMA PostDoes ==
    ASSUME NEW s, IsStore(s), NEW b \in {"home", "away"}, NEW q \in Int, NEW t, t = Post(s, b, q)
    PROVE  /\ IsStore(t) /\ t.docs = s.docs /\ t.invoices = s.invoices /\ t.tenant = s.tenant
           /\ t.stock[b] = s.stock[b] + q /\ \A o \in {"home", "away"} \ {b} : t.stock[o] = s.stock[o]
<1>1. /\ s = [tenant |-> s.tenant, stock |-> s.stock, invoices |-> s.invoices, docs |-> s.docs]
      /\ s.tenant \in Words /\ s.invoices \in Nat /\ s.stock \in [{"home", "away"} -> Int]
      /\ s.docs \in [DOMAIN s.docs -> Documents] /\ IsFiniteSet(DOMAIN s.docs) /\ TillsNamed(s.docs)
  BY StoreParts
<1>2. PICK k : k = [s.stock EXCEPT ![b] = @ + q]
  OBVIOUS
<1>3. t = [s EXCEPT !.stock = k]
  BY <1>2 DEF Post
<1>4. t = [tenant |-> s.tenant, stock |-> k, invoices |-> s.invoices, docs |-> s.docs]
  BY <1>1, <1>3
<1>5. s.stock[b] \in Int
  BY <1>1
<1>6. /\ k \in [{"home", "away"} -> Int] /\ k[b] = s.stock[b] + q
      /\ \A o \in {"home", "away"} \ {b} : k[o] = s.stock[o]
  BY <1>1, <1>2, <1>5
<1>7. IsStore(t)
  BY <1>1, <1>4, <1>6, StoreOfParts
<1> QED
  BY <1>4, <1>6, <1>7

\* One more invoice number; another status of the tenant.
LEMMA NumberDoes ==
    ASSUME NEW s, IsStore(s), NEW t, t = [s EXCEPT !.invoices = @ + 1]
    PROVE  /\ IsStore(t) /\ t.docs = s.docs /\ t.invoices = s.invoices + 1 /\ t.tenant = s.tenant /\ t.stock = s.stock
<1>1. /\ s = [tenant |-> s.tenant, stock |-> s.stock, invoices |-> s.invoices, docs |-> s.docs]
      /\ s.tenant \in Words /\ s.invoices \in Nat /\ s.stock \in [{"home", "away"} -> Int]
      /\ s.docs \in [DOMAIN s.docs -> Documents] /\ IsFiniteSet(DOMAIN s.docs) /\ TillsNamed(s.docs)
  BY StoreParts
<1>2. PICK n \in Nat : n = s.invoices + 1
  BY <1>1
<1>3. t = [tenant |-> s.tenant, stock |-> s.stock, invoices |-> n, docs |-> s.docs]
  BY <1>1, <1>2
<1>4. IsStore(t)
  BY <1>1, <1>3, StoreOfParts
<1> QED
  BY <1>2, <1>3, <1>4

\* Suspending or resuming the tenant leaves a store whose documents and counters are the same.
LEMMA TenantDoes ==
    ASSUME NEW s, IsStore(s), NEW word \in Words, NEW t, t = [s EXCEPT !.tenant = word]
    PROVE  /\ IsStore(t) /\ t.docs = s.docs /\ t.invoices = s.invoices /\ t.stock = s.stock
<1>1. /\ s = [tenant |-> s.tenant, stock |-> s.stock, invoices |-> s.invoices, docs |-> s.docs]
      /\ s.tenant \in Words /\ s.invoices \in Nat /\ s.stock \in [{"home", "away"} -> Int]
      /\ s.docs \in [DOMAIN s.docs -> Documents] /\ IsFiniteSet(DOMAIN s.docs) /\ TillsNamed(s.docs)
  BY StoreParts
<1>3. t = [tenant |-> word, stock |-> s.stock, invoices |-> s.invoices, docs |-> s.docs]
  BY <1>1
<1>4. IsStore(t)
  BY <1>1, <1>3, StoreOfParts
<1> QED
  BY <1>3, <1>4

\* A document in the dict, under an id that has none.
LEMMA FileDoes ==
    ASSUME NEW c, NEW s, IsStore(s), NEW doc \in Documents, calls[c].id \notin DOMAIN s.docs,
           doc.kind \in {"sale", "exchange"} => doc.till \in {0} \cup Filed(s, "till"),
           NEW t, t = File(c, s, doc)
    PROVE  /\ IsStore(t) /\ DOMAIN t.docs = DOMAIN s.docs \cup {calls[c].id} /\ t.docs[calls[c].id] = doc
           /\ \A d \in DOMAIN s.docs : t.docs[d] = s.docs[d]
           /\ t.invoices = s.invoices /\ t.tenant = s.tenant /\ t.stock = s.stock
<1>0. PICK i : i = calls[c].id
  OBVIOUS
<1>1. /\ s = [tenant |-> s.tenant, stock |-> s.stock, invoices |-> s.invoices, docs |-> s.docs]
      /\ s.tenant \in Words /\ s.invoices \in Nat /\ s.stock \in [{"home", "away"} -> Int]
      /\ s.docs \in [DOMAIN s.docs -> Documents] /\ IsFiniteSet(DOMAIN s.docs) /\ TillsNamed(s.docs)
  BY StoreParts
<1>2. PICK D : D = s.docs
  OBVIOUS
<1>3. PICK E : E = [d \in DOMAIN D \cup {i} |-> IF d = i THEN doc ELSE D[d]]
  OBVIOUS
<1>4. t = [s EXCEPT !.docs = E]
  BY <1>0, <1>2, <1>3 DEF File
<1>5. t = [tenant |-> s.tenant, stock |-> s.stock, invoices |-> s.invoices, docs |-> E]
  BY <1>1, <1>4
<1>6. i \notin DOMAIN D
  BY <1>0, <1>2
<1>7. DOMAIN E = DOMAIN D \cup {i} /\ E[i] = doc /\ \A d \in DOMAIN D : E[d] = D[d]
  BY <1>3, <1>6
<1>8. E \in [DOMAIN E -> Documents]
  BY <1>1, <1>2, <1>3
<1>9. IsFiniteSet(DOMAIN E)
  BY <1>1, <1>2, <1>7, FS_AddElement
<1>10. TillsNamed(E)
  <2>1. ASSUME NEW d \in DOMAIN E, E[d].kind \in {"sale", "exchange"}
        PROVE  E[d].till = 0 \/ (E[d].till \in DOMAIN E /\ E[E[d].till].kind = "till")
    <3>1. CASE d = i
      <4>1. E[d] = doc /\ (doc.till = 0 \/ (doc.till \in DOMAIN D /\ D[doc.till].kind = "till"))
        BY <1>2, <1>7, <2>1, <3>1 DEF Filed
      <4> QED
        BY <1>7, <4>1
    <3>2. CASE d # i
      <4>1. d \in DOMAIN D /\ E[d] = D[d]
        BY <1>7, <3>2
      <4>2. D[d].till = 0 \/ (D[d].till \in DOMAIN D /\ D[D[d].till].kind = "till")
        BY <1>1, <1>2, <2>1, <4>1 DEF TillsNamed
      <4> QED
        BY <1>7, <4>1, <4>2
    <3> QED
      BY <3>1, <3>2
  <2> QED
    BY <2>1 DEF TillsNamed
<1>11. IsStore(t)
  BY <1>1, <1>5, <1>8, <1>9, <1>10, StoreOfParts
<1> QED
  BY <1>0, <1>2, <1>5, <1>7, <1>11

\* A document that is put in the place of one alike.
LEMMA AmendDoes ==
    ASSUME NEW s, IsStore(s), NEW of \in DOMAIN s.docs, NEW doc \in Documents, Alike(s.docs[of], doc),
           NEW t, t = [s EXCEPT !.docs[of] = doc]
    PROVE  /\ IsStore(t) /\ DOMAIN t.docs = DOMAIN s.docs /\ t.docs[of] = doc
           /\ \A d \in DOMAIN s.docs \ {of} : t.docs[d] = s.docs[d]
           /\ t.invoices = s.invoices /\ t.tenant = s.tenant /\ t.stock = s.stock
<1>1. /\ s = [tenant |-> s.tenant, stock |-> s.stock, invoices |-> s.invoices, docs |-> s.docs]
      /\ s.tenant \in Words /\ s.invoices \in Nat /\ s.stock \in [{"home", "away"} -> Int]
      /\ s.docs \in [DOMAIN s.docs -> Documents] /\ IsFiniteSet(DOMAIN s.docs) /\ TillsNamed(s.docs)
  BY StoreParts
<1>2. PICK D : D = s.docs
  OBVIOUS
<1>3. PICK E : E = [D EXCEPT ![of] = doc]
  OBVIOUS
<1>4. t = [s EXCEPT !.docs = E]
  BY <1>2, <1>3
<1>5. t = [tenant |-> s.tenant, stock |-> s.stock, invoices |-> s.invoices, docs |-> E]
  BY <1>1, <1>4
<1>6. D \in [DOMAIN D -> Documents] /\ of \in DOMAIN D
  BY <1>1, <1>2
<1>7. DOMAIN E = DOMAIN D /\ E[of] = doc /\ \A d \in DOMAIN D \ {of} : E[d] = D[d]
  BY <1>3, <1>6
<1>8. E \in [DOMAIN E -> Documents]
  BY <1>3, <1>6
<1>9. TillsNamed(E)
  <2>1. \A d \in DOMAIN D : E[d].kind = D[d].kind /\ (D[d].kind \in {"sale", "exchange"} => E[d].till = D[d].till)
    BY <1>2, <1>7 DEF Alike
  <2>2. TillsNamed(D)
    BY <1>1, <1>2
  <2>3. ASSUME NEW d \in DOMAIN E, E[d].kind \in {"sale", "exchange"}
        PROVE  E[d].till = 0 \/ (E[d].till \in DOMAIN E /\ E[E[d].till].kind = "till")
    <3>1. d \in DOMAIN D /\ D[d].kind \in {"sale", "exchange"} /\ E[d].till = D[d].till
      BY <1>7, <2>1, <2>3
    <3>2. D[d].till = 0 \/ (D[d].till \in DOMAIN D /\ D[D[d].till].kind = "till")
      BY <2>2, <3>1 DEF TillsNamed
    <3> QED
      BY <1>7, <2>1, <3>1, <3>2
  <2> QED
    BY <2>3 DEF TillsNamed
<1>10. IsFiniteSet(DOMAIN E)
  BY <1>1, <1>2, <1>7
<1>11. IsStore(t)
  BY <1>1, <1>5, <1>8, <1>9, <1>10, StoreOfParts
<1> QED
  BY <1>2, <1>5, <1>7, <1>11

\* A field of a document is written by putting the document with that field in its place.
LEMMA FieldsAreWritten ==
    ASSUME NEW s, IsStore(s), NEW of \in DOMAIN s.docs, NEW word
    PROVE  /\ [s EXCEPT !.docs[of].status = word] = [s EXCEPT !.docs[of] = [s.docs[of] EXCEPT !.status = word]]
           /\ [s EXCEPT !.docs[of].irn = word] = [s EXCEPT !.docs[of] = [s.docs[of] EXCEPT !.irn = word]]
           /\ [s EXCEPT !.docs[of].cash = @ + word] = [s EXCEPT !.docs[of] = [s.docs[of] EXCEPT !.cash = @ + word]]
<1>1. /\ s = [tenant |-> s.tenant, stock |-> s.stock, invoices |-> s.invoices, docs |-> s.docs]
      /\ s.docs \in [DOMAIN s.docs -> Documents]
  BY StoreParts
<1> QED
  BY <1>1

-----------------------------------------------------------------------------
(* Sums over documents. *)

\* What the documents D have done to the stock.
MovedBy(D) == SumFunction([d \in DOMAIN D |-> Moved(D[d])])

\* The same, where every document has moved the same.
LEMMA MovesStay ==
    ASSUME NEW D, NEW E, DOMAIN E = DOMAIN D, \A d \in DOMAIN D : Moved(E[d]) = Moved(D[d])
    PROVE  MovedBy(E) = MovedBy(D)
<1>1. [d \in DOMAIN E |-> Moved(E[d])] = [d \in DOMAIN D |-> Moved(D[d])]
  OBVIOUS
<1> QED
  BY <1>1 DEF MovedBy

\* A document more moves as much as it says.
LEMMA MovesMore ==
    ASSUME NEW D, NEW E, NEW i, IsFiniteSet(DOMAIN D), i \notin DOMAIN D, DOMAIN E = DOMAIN D \cup {i},
           \A d \in DOMAIN D : Moved(D[d]) \in Int /\ Moved(E[d]) = Moved(D[d]), Moved(E[i]) \in Int
    PROVE  MovedBy(D) \in Int /\ MovedBy(E) = MovedBy(D) + Moved(E[i])
<1>1. PICK f : f = [d \in DOMAIN D |-> Moved(D[d])]
  OBVIOUS
<1>2. PICK h : h = [d \in DOMAIN E |-> Moved(E[d])]
  OBVIOUS
<1>3. TermMore(f, h, DOMAIN D, i, DOMAIN E)
  BY <1>1, <1>2 DEF TermMore, Whole, Same
<1>4. SumFunctionOnSet(f, DOMAIN D) \in Int /\ SumFunctionOnSet(h, DOMAIN E) = SumFunctionOnSet(f, DOMAIN D) + h[i]
  BY <1>3, SumOneMore
<1>5. MovedBy(D) = SumFunctionOnSet(f, DOMAIN D) /\ MovedBy(E) = SumFunctionOnSet(h, DOMAIN E)
  BY <1>1, <1>2 DEF MovedBy, SumFunction
<1>6. h[i] = Moved(E[i])
  BY <1>2
<1> QED
  BY <1>4, <1>5, <1>6

\* A document that has moved so much more changes the sum by so much.
LEMMA MovesOn ==
    ASSUME NEW D, NEW E, NEW i \in DOMAIN D, NEW more \in Int, IsFiniteSet(DOMAIN D), DOMAIN E = DOMAIN D,
           \A d \in DOMAIN D : Moved(D[d]) \in Int, \A d \in DOMAIN D \ {i} : Moved(E[d]) = Moved(D[d]),
           Moved(E[i]) = Moved(D[i]) + more
    PROVE  MovedBy(D) \in Int /\ MovedBy(E) = MovedBy(D) + more
<1>1. PICK f : f = [d \in DOMAIN D |-> Moved(D[d])]
  OBVIOUS
<1>2. PICK h : h = [d \in DOMAIN E |-> Moved(E[d])]
  OBVIOUS
<1>3. TermMoved(f, h, DOMAIN D, i, more)
  BY <1>1, <1>2 DEF TermMoved, Whole, Same
<1>4. SumFunctionOnSet(f, DOMAIN D) \in Int /\ SumFunctionOnSet(h, DOMAIN D) = SumFunctionOnSet(f, DOMAIN D) + more
  BY <1>3, SumMoves
<1>5. MovedBy(D) = SumFunctionOnSet(f, DOMAIN D) /\ MovedBy(E) = SumFunctionOnSet(h, DOMAIN D)
  BY <1>1, <1>2 DEF MovedBy, SumFunction
<1> QED
  BY <1>4, <1>5

\* Quantities of documents that are the same in both stores.
LEMMA QuantitiesStay ==
    ASSUME NEW s, NEW t, NEW ids, \A d \in ids : t.docs[d].qty = s.docs[d].qty
    PROVE  Quantities(t, ids) = Quantities(s, ids)
<1>1. [d \in ids |-> t.docs[d].qty] = [d \in ids |-> s.docs[d].qty]
  OBVIOUS
<1> QED
  BY <1>1 DEF Quantities

\* all is ids and i, and the documents ids have their quantity in both stores.
OneMoreOf(s, t, ids, i, all) ==
    /\ IsFiniteSet(ids) /\ i \notin ids /\ all = ids \cup {i} /\ t.docs[i].qty \in Int
    /\ \A d \in ids : s.docs[d].qty \in Int /\ t.docs[d].qty = s.docs[d].qty

\* One more document adds its quantity to the sum.
LEMMA QuantitiesMore ==
    ASSUME NEW s, NEW t, NEW ids, NEW i, NEW all, OneMoreOf(s, t, ids, i, all)
    PROVE  Quantities(s, ids) \in Int /\ Quantities(t, all) = Quantities(s, ids) + t.docs[i].qty
<1>1. PICK f : f = [d \in ids |-> s.docs[d].qty]
  OBVIOUS
<1>2. PICK h : h = [d \in all |-> t.docs[d].qty]
  OBVIOUS
<1>3. TermMore(f, h, ids, i, all)
  BY <1>1, <1>2 DEF OneMoreOf, TermMore, Whole, Same
<1>4. SumFunctionOnSet(f, ids) \in Int /\ SumFunctionOnSet(h, all) = SumFunctionOnSet(f, ids) + h[i]
  BY <1>3, SumOneMore
<1>5. Quantities(s, ids) = SumFunctionOnSet(f, ids) /\ Quantities(t, all) = SumFunctionOnSet(h, all)
  BY <1>1, <1>2 DEF Quantities, SumFunction
<1>6. h[i] = t.docs[i].qty
  BY <1>2 DEF OneMoreOf
<1> QED
  BY <1>4, <1>5, <1>6

\* No documents come to nothing.
LEMMA QuantitiesOfNothing == ASSUME NEW s PROVE Quantities(s, {}) = 0
<1>1. PICK f : f = [d \in {} |-> s.docs[d].qty]
  OBVIOUS
<1>2. PICK none : none = {}
  OBVIOUS
<1>3. DOMAIN f = none
  BY <1>1, <1>2
<1>4. SumFunctionOnSet(f, none) = 0
  BY <1>2, SumOfNothing
<1> QED
  BY <1>1, <1>3, <1>4 DEF Quantities, SumFunction

\* Documents of natural quantities come to a natural number.
LEMMA QuantitiesCount ==
    ASSUME NEW s, NEW ids, IsFiniteSet(ids), \A d \in ids : s.docs[d].qty \in Nat
    PROVE  Quantities(s, ids) \in Nat
<1>1. PICK f : f = [d \in ids |-> s.docs[d].qty]
  OBVIOUS
<1>2. SumFunctionOnSet(f, ids) \in Nat
  BY <1>1, SumOfNaturals
<1> QED
  BY <1>1, <1>2 DEF Quantities, SumFunction

-----------------------------------------------------------------------------
(* The books. *)

Tilled(s, till) == {d \in Filed(s, "sale") \cup Filed(s, "exchange") : s.docs[d].till = till}
Numbers(s) == {s.docs[d].number : d \in Filed(s, "sale")}

\* What BooksAgree says, one book at a time.
LEMMA BooksAre ==
    ASSUME NEW s
    PROVE  BooksAgree(s) <=> /\ s.stock["home"] = MovedBy(s.docs)
                             /\ s.stock["away"] = Quantities(s, Filed(s, "transfer"))
                             /\ \A till \in Filed(s, "till") : s.docs[till].cash = Quantities(s, Tilled(s, till))
                             /\ Numbers(s) = 1 .. s.invoices
BY DEF BooksAgree, MovedBy, Tilled, Numbers

\* t has the documents of s and no other, each alike, and its lots have lost as much.
Amends(s, t) ==
    /\ IsStore(s) /\ IsStore(t) /\ DOMAIN t.docs = DOMAIN s.docs
    /\ \A d \in DOMAIN s.docs : Alike(s.docs[d], t.docs[d])

\* What the documents of a store are.
LEMMA StoreDocuments ==
    ASSUME NEW s, IsStore(s)
    PROVE  /\ IsFiniteSet(DOMAIN s.docs) /\ \A d \in DOMAIN s.docs : s.docs[d] \in Documents
           /\ \A d \in DOMAIN s.docs : Moved(s.docs[d]) \in Int
BY StoreParts, DocumentFields

\* A step that rewrites documents leaves every folder and every quantity that moves stock or cash.
LEMMA RewritesFiled ==
    ASSUME NEW s, NEW t, Amends(s, t)
    PROVE  /\ \A kind : Filed(t, kind) = Filed(s, kind)
           /\ \A till : Tilled(t, till) = Tilled(s, till)
           /\ Numbers(t) = Numbers(s)
           /\ \A d \in Filed(s, "transfer") \cup Filed(s, "sale") \cup Filed(s, "exchange") :
                s.docs[d].qty \in Int /\ t.docs[d].qty = s.docs[d].qty
<1>1. DOMAIN t.docs = DOMAIN s.docs /\ \A d \in DOMAIN s.docs : Alike(s.docs[d], t.docs[d])
  BY DEF Amends
<1>2. \A d \in DOMAIN s.docs : s.docs[d].kind = t.docs[d].kind
  BY <1>1 DEF Alike
<1>3. ASSUME NEW kind PROVE Filed(t, kind) = Filed(s, kind)
  BY <1>1, <1>2 DEF Filed
<1>4. ASSUME NEW till PROVE Tilled(t, till) = Tilled(s, till)
  <2>1. \A d \in Filed(s, "sale") \cup Filed(s, "exchange") : t.docs[d].till = s.docs[d].till
    BY <1>1 DEF Alike, Filed
  <2> QED
    BY <1>3, <2>1 DEF Tilled
<1>5. Numbers(t) = Numbers(s)
  <2>1. \A d \in Filed(s, "sale") : t.docs[d].number = s.docs[d].number
    BY <1>1 DEF Alike, Filed
  <2> QED
    BY <1>3, <2>1 DEF Numbers
<1>6. ASSUME NEW d \in Filed(s, "transfer") \cup Filed(s, "sale") \cup Filed(s, "exchange")
      PROVE  s.docs[d].qty \in Int /\ t.docs[d].qty = s.docs[d].qty
  <2>1. d \in DOMAIN s.docs /\ s.docs[d].kind \in {"transfer", "sale", "exchange"}
    BY DEF Filed
  <2>2. s.docs[d] \in Documents /\ t.docs[d] \in Documents /\ Alike(s.docs[d], t.docs[d])
    BY <1>1, <2>1, StoreDocuments DEF Amends
  <2>3. t.docs[d].kind \in {"transfer", "sale", "exchange"} /\ Amount(t.docs[d]) = Amount(s.docs[d])
    BY <2>1, <2>2 DEF Alike
  <2>4. Amount(s.docs[d]) = s.docs[d].qty /\ Amount(t.docs[d]) = t.docs[d].qty /\ Amount(s.docs[d]) \in Int
    BY <2>1, <2>2, <2>3, DocumentFields
  <2> QED
    BY <2>3, <2>4
<1> QED
  BY <1>3, <1>4, <1>5, <1>6

\* Where nothing else is written, the books agree as before.
LEMMA BooksStay ==
    ASSUME NEW s, NEW t, Amends(s, t), BooksAgree(s), t.stock = s.stock, t.invoices = s.invoices,
           \A d \in DOMAIN s.docs : Still(s.docs[d], t.docs[d])
    PROVE  BooksAgree(t)
<1>1. MovedBy(t.docs) = MovedBy(s.docs)
  <2>1. ASSUME NEW d \in DOMAIN s.docs PROVE Moved(t.docs[d]) = Moved(s.docs[d])
    <3>1. s.docs[d] \in Documents /\ t.docs[d] \in Documents /\ Still(s.docs[d], t.docs[d]) /\ Alike(s.docs[d], t.docs[d])
      BY StoreDocuments DEF Amends
    <3> QED
      BY <3>1, AlikeMoves
  <2> QED
    BY <2>1, MovesStay DEF Amends
<1>2. Quantities(t, Filed(t, "transfer")) = Quantities(s, Filed(s, "transfer"))
  BY RewritesFiled, QuantitiesStay
<1>3. ASSUME NEW till \in Filed(t, "till") PROVE t.docs[till].cash = Quantities(t, Tilled(t, till))
  <2>1. till \in Filed(s, "till") /\ Tilled(t, till) = Tilled(s, till)
    BY RewritesFiled
  <2>2. \A d \in Tilled(s, till) : t.docs[d].qty = s.docs[d].qty
    BY RewritesFiled DEF Tilled
  <2>3. Quantities(t, Tilled(t, till)) = Quantities(s, Tilled(s, till))
    BY <2>1, <2>2, QuantitiesStay
  <2>4. t.docs[till].cash = s.docs[till].cash
    BY <2>1 DEF Still, Filed
  <2> QED
    BY <2>1, <2>3, <2>4, BooksAre
<1> QED
  BY <1>1, <1>2, <1>3, RewritesFiled, BooksAre

\* A lot that loses what leaves the stock.
LEMMA BooksLose ==
    ASSUME NEW s, NEW t, NEW of \in DOMAIN s.docs, NEW n \in Nat, Amends(s, t), BooksAgree(s), t.invoices = s.invoices,
           s.docs[of].kind = "lot", t.docs[of].off = s.docs[of].off + n,
           t.stock["home"] = s.stock["home"] - n, t.stock["away"] = s.stock["away"],
           \A d \in DOMAIN s.docs \ {of} : Still(s.docs[d], t.docs[d])
    PROVE  BooksAgree(t)
<1>0. ASSUME NEW d \in DOMAIN s.docs
      PROVE  s.docs[d] \in Documents /\ t.docs[d] \in Documents /\ Alike(s.docs[d], t.docs[d])
  BY StoreDocuments DEF Amends
<1>1. MovedBy(s.docs) \in Int /\ MovedBy(t.docs) = MovedBy(s.docs) + (-n)
  <2>1. \A d \in DOMAIN s.docs \ {of} : Moved(t.docs[d]) = Moved(s.docs[d])
    BY <1>0, AlikeMoves
  <2>2. t.docs[of].kind = "lot"
    BY <1>0 DEF Alike
  <2>3. Moved(t.docs[of]) = -t.docs[of].off /\ Moved(s.docs[of]) = -s.docs[of].off /\ s.docs[of].off \in Nat
    BY <1>0, <2>2, DocumentFields
  <2>4. Moved(t.docs[of]) = Moved(s.docs[of]) + (-n)
    BY <2>3
  <2>5. -n \in Int
    OBVIOUS
  <2>6. IsFiniteSet(DOMAIN s.docs) /\ DOMAIN t.docs = DOMAIN s.docs /\ \A d \in DOMAIN s.docs : Moved(s.docs[d]) \in Int
    BY StoreDocuments DEF Amends
  <2> QED
    BY <2>1, <2>4, <2>5, <2>6, MovesOn
<1>2. Quantities(t, Filed(t, "transfer")) = Quantities(s, Filed(s, "transfer"))
  BY RewritesFiled, QuantitiesStay
<1>3. ASSUME NEW till \in Filed(t, "till") PROVE t.docs[till].cash = Quantities(t, Tilled(t, till))
  <2>1. till \in Filed(s, "till") /\ Tilled(t, till) = Tilled(s, till)
    BY RewritesFiled
  <2>2. \A d \in Tilled(s, till) : t.docs[d].qty = s.docs[d].qty
    BY RewritesFiled DEF Tilled
  <2>3. Quantities(t, Tilled(t, till)) = Quantities(s, Tilled(s, till))
    BY <2>1, <2>2, QuantitiesStay
  <2>4. till # of /\ till \in DOMAIN s.docs /\ s.docs[till].kind = "till"
    BY <2>1 DEF Filed
  <2>5. t.docs[till].cash = s.docs[till].cash
    BY <2>4 DEF Still
  <2> QED
    BY <2>1, <2>3, <2>5, BooksAre
<1>4. s.stock["home"] = MovedBy(s.docs)
  BY BooksAre
<1>5. t.stock["home"] = MovedBy(t.docs)
  BY <1>1, <1>4
<1> QED
  BY <1>2, <1>3, <1>5, RewritesFiled, BooksAre

\* t has all of s, alike, lots with the same loss, and the document i.
Adds(s, t, i) ==
    /\ IsStore(s) /\ IsStore(t) /\ i \notin DOMAIN s.docs /\ i # 0 /\ DOMAIN t.docs = DOMAIN s.docs \cup {i}
    /\ \A d \in DOMAIN s.docs : Alike(s.docs[d], t.docs[d]) /\ (s.docs[d].kind = "lot" => t.docs[d].off = s.docs[d].off)

\* And its stock, tills and invoice numbers are what the new document makes of them.
Books(s, t, i) ==
    /\ t.stock["home"] = s.stock["home"] + Moved(t.docs[i])
    /\ t.stock["away"] = s.stock["away"] + (IF t.docs[i].kind = "transfer" THEN t.docs[i].qty ELSE 0)
    /\ \A till \in Filed(s, "till") :
         t.docs[till].cash =
            s.docs[till].cash + (IF t.docs[i].kind \in {"sale", "exchange"} /\ t.docs[i].till = till THEN t.docs[i].qty ELSE 0)
    /\ t.docs[i].kind = "till" => t.docs[i].cash = 0
    /\ t.invoices = s.invoices + (IF t.docs[i].kind = "sale" THEN 1 ELSE 0)
    /\ t.docs[i].kind = "sale" => t.docs[i].number = t.invoices

\* The documents of each kind are the same, but for the new one's.
LEMMA AddsFiled ==
    ASSUME NEW s, NEW t, NEW i, Adds(s, t, i)
    PROVE  /\ \A kind : Filed(t, kind) = Filed(s, kind) \cup (IF t.docs[i].kind = kind THEN {i} ELSE {})
           /\ \A kind : Filed(s, kind) \subseteq DOMAIN s.docs /\ IsFiniteSet(Filed(s, kind)) /\ i \notin Filed(s, kind)
           /\ \A d \in DOMAIN s.docs : s.docs[d] \in Documents /\ t.docs[d] \in Documents
           /\ t.docs[i] \in Documents
<1>1. DOMAIN t.docs = DOMAIN s.docs \cup {i} /\ i \notin DOMAIN s.docs
  BY DEF Adds
<1>2. \A d \in DOMAIN s.docs : s.docs[d].kind = t.docs[d].kind
  BY DEF Adds, Alike
<1>3. ASSUME NEW kind PROVE Filed(t, kind) = Filed(s, kind) \cup (IF t.docs[i].kind = kind THEN {i} ELSE {})
  BY <1>1, <1>2 DEF Filed
<1>4. ASSUME NEW kind PROVE Filed(s, kind) \subseteq DOMAIN s.docs /\ IsFiniteSet(Filed(s, kind)) /\ i \notin Filed(s, kind)
  <2>1. Filed(s, kind) \subseteq DOMAIN s.docs
    BY DEF Filed
  <2>2. IsFiniteSet(DOMAIN s.docs)
    BY StoreDocuments DEF Adds
  <2> QED
    BY <1>1, <2>1, <2>2, FS_Subset
<1>5. /\ \A d \in DOMAIN s.docs : s.docs[d] \in Documents
      /\ \A d \in DOMAIN t.docs : t.docs[d] \in Documents
  BY StoreDocuments DEF Adds
<1> QED
  BY <1>1, <1>3, <1>4, <1>5

\* A transfer, sale or exchange has its quantity still.
LEMMA AddsQuantities ==
    ASSUME NEW s, NEW t, NEW i, Adds(s, t, i)
    PROVE  /\ \A d \in Filed(s, "transfer") \cup Filed(s, "sale") \cup Filed(s, "exchange") :
                s.docs[d].qty \in Int /\ t.docs[d].qty = s.docs[d].qty
           /\ t.docs[i].kind \in {"transfer", "sale", "exchange"} => t.docs[i].qty \in Int
<1>1. ASSUME NEW d \in Filed(s, "transfer") \cup Filed(s, "sale") \cup Filed(s, "exchange")
      PROVE  s.docs[d].qty \in Int /\ t.docs[d].qty = s.docs[d].qty
  <2>1. d \in DOMAIN s.docs /\ s.docs[d].kind \in {"transfer", "sale", "exchange"}
    BY DEF Filed
  <2>2. s.docs[d] \in Documents /\ t.docs[d] \in Documents /\ Alike(s.docs[d], t.docs[d])
    BY <2>1, AddsFiled DEF Adds
  <2>3. t.docs[d].kind \in {"transfer", "sale", "exchange"} /\ Amount(t.docs[d]) = Amount(s.docs[d])
    BY <2>1, <2>2 DEF Alike
  <2>4. Amount(s.docs[d]) = s.docs[d].qty /\ Amount(t.docs[d]) = t.docs[d].qty /\ Amount(s.docs[d]) \in Int
    BY <2>1, <2>2, <2>3, DocumentFields
  <2> QED
    BY <2>3, <2>4
<1>2. t.docs[i].kind \in {"transfer", "sale", "exchange"} => t.docs[i].qty \in Int
  <2>1. t.docs[i] \in Documents
    BY AddsFiled
  <2> QED
    BY <2>1, DocumentFields
<1> QED
  BY <1>1, <1>2

\* A step that adds a document and books it leaves the home stock what its documents moved.
LEMMA BooksMove ==
    ASSUME NEW s, NEW t, NEW i, Adds(s, t, i), Books(s, t, i), BooksAgree(s)
    PROVE  t.stock["home"] = MovedBy(t.docs)
<1>1. \A d \in DOMAIN s.docs : Moved(s.docs[d]) \in Int /\ Moved(t.docs[d]) = Moved(s.docs[d])
  <2>1. ASSUME NEW d \in DOMAIN s.docs PROVE Moved(s.docs[d]) \in Int /\ Moved(t.docs[d]) = Moved(s.docs[d])
    <3>1. /\ s.docs[d] \in Documents /\ t.docs[d] \in Documents /\ Alike(s.docs[d], t.docs[d])
          /\ s.docs[d].kind = "lot" => t.docs[d].off = s.docs[d].off
      BY AddsFiled DEF Adds
    <3>2. CASE s.docs[d].kind = "lot"
      <4>1. t.docs[d].kind = "lot"
        BY <3>1, <3>2 DEF Alike
      <4> QED
        BY <3>1, <3>2, <4>1, DocumentFields
    <3>3. CASE s.docs[d].kind # "lot"
      BY <3>1, <3>3, AlikeMoves, DocumentFields
    <3> QED
      BY <3>2, <3>3
  <2> QED
    BY <2>1
<1>2. Moved(t.docs[i]) \in Int
  BY AddsFiled, DocumentFields
<1>3. IsFiniteSet(DOMAIN s.docs) /\ i \notin DOMAIN s.docs /\ DOMAIN t.docs = DOMAIN s.docs \cup {i}
  BY StoreDocuments DEF Adds
<1>4. MovedBy(t.docs) = MovedBy(s.docs) + Moved(t.docs[i])
  BY <1>1, <1>2, <1>3, MovesMore
<1>5. s.stock["home"] = MovedBy(s.docs)
  BY BooksAre
<1> QED
  BY <1>4, <1>5 DEF Books

\* A step that adds a document and books it leaves the other branch the stock transferred to it.
LEMMA BooksTransfer ==
    ASSUME NEW s, NEW t, NEW i, Adds(s, t, i), Books(s, t, i), BooksAgree(s)
    PROVE  t.stock["away"] = Quantities(t, Filed(t, "transfer"))
<1>1. PICK A : A = Filed(s, "transfer")
  OBVIOUS
<1>2. IsFiniteSet(A) /\ i \notin A
  BY <1>1, AddsFiled
<1>3. \A d \in A : s.docs[d].qty \in Int /\ t.docs[d].qty = s.docs[d].qty
  BY <1>1, AddsQuantities
<1>4. s.stock["away"] = Quantities(s, A)
  BY <1>1, BooksAre
<1>5. CASE t.docs[i].kind = "transfer"
  <2>1. Filed(t, "transfer") = A \cup {i} /\ t.docs[i].qty \in Int
    BY <1>1, <1>5, AddsFiled, AddsQuantities
  <2>2. Quantities(t, Filed(t, "transfer")) = Quantities(s, A) + t.docs[i].qty
    <3>1. OneMoreOf(s, t, A, i, Filed(t, "transfer"))
      BY <1>2, <1>3, <2>1 DEF OneMoreOf
    <3> QED
      BY <3>1, QuantitiesMore
  <2> QED
    BY <1>4, <1>5, <2>1, <2>2 DEF Books
<1>6. CASE t.docs[i].kind # "transfer"
  <2>1. Filed(t, "transfer") = A
    BY <1>1, <1>6, AddsFiled
  <2>2. Quantities(t, A) = Quantities(s, A)
    BY <1>3, QuantitiesStay
  <2>3. t.stock["away"] = s.stock["away"] + 0
    BY <1>6 DEF Books
  <2>4. s.stock["away"] \in Int
    BY StoreParts DEF Adds
  <2> QED
    BY <1>4, <2>1, <2>2, <2>3, <2>4
<1> QED
  BY <1>5, <1>6

\* A step that adds a document and books it leaves every till the cash of its sales.
LEMMA BooksTill ==
    ASSUME NEW s, NEW t, NEW i, Adds(s, t, i), Books(s, t, i), BooksAgree(s), NEW till \in Filed(t, "till")
    PROVE  t.docs[till].cash = Quantities(t, Tilled(t, till))
<1>0. /\ DOMAIN t.docs = DOMAIN s.docs \cup {i} /\ i \notin DOMAIN s.docs /\ i # 0
      /\ \A d \in DOMAIN s.docs : Alike(s.docs[d], t.docs[d])
  BY DEF Adds
<1>1. PICK A : A = Tilled(s, till)
  OBVIOUS
<1>2. Filed(s, "sale") \cup Filed(s, "exchange") \subseteq DOMAIN s.docs /\ A \subseteq Filed(s, "sale") \cup Filed(s, "exchange")
  BY <1>1 DEF Filed, Tilled
<1>3. IsFiniteSet(A) /\ i \notin A
  <2>1. IsFiniteSet(DOMAIN s.docs) /\ A \subseteq DOMAIN s.docs
    BY <1>2, StoreDocuments DEF Adds
  <2> QED
    BY <1>0, <2>1, FS_Subset
<1>4. \A d \in A : s.docs[d].qty \in Int /\ t.docs[d].qty = s.docs[d].qty
  BY <1>2, AddsQuantities
<1>5. Tilled(t, till) = A \cup (IF t.docs[i].kind \in {"sale", "exchange"} /\ t.docs[i].till = till THEN {i} ELSE {})
  <2>1. \A d \in Filed(s, "sale") \cup Filed(s, "exchange") : t.docs[d].till = s.docs[d].till
    BY <1>0 DEF Alike, Filed
  <2>2. /\ Filed(t, "sale") = Filed(s, "sale") \cup (IF t.docs[i].kind = "sale" THEN {i} ELSE {})
        /\ Filed(t, "exchange") = Filed(s, "exchange") \cup (IF t.docs[i].kind = "exchange" THEN {i} ELSE {})
    BY AddsFiled
  <2>3. ASSUME NEW d PROVE d \in Tilled(t, till) <=> d \in A \/ (d = i /\ t.docs[i].kind \in {"sale", "exchange"} /\ t.docs[i].till = till)
    BY <1>0, <1>1, <1>2, <2>1, <2>2 DEF Tilled
  <2> QED
    BY <2>3
<1>6. CASE till = i
  <2>1. t.docs[i].kind = "till"
    BY <1>6 DEF Filed
  <2>2. A = {}
    <3>1. ASSUME NEW d \in A PROVE FALSE
      <4>1. d \in DOMAIN s.docs /\ s.docs[d].kind \in {"sale", "exchange"} /\ s.docs[d].till = i
        BY <1>1, <1>6 DEF Tilled, Filed
      <4>2. s.docs[d].till = 0 \/ s.docs[d].till \in DOMAIN s.docs
        BY <4>1, StoreParts DEF Adds, TillsNamed
      <4> QED
        BY <1>0, <4>1, <4>2
    <3> QED
      BY <3>1
  <2>3. Tilled(t, till) = {}
    BY <1>5, <2>1, <2>2
  <2>4. t.docs[till].cash = 0
    BY <1>6, <2>1 DEF Books
  <2> QED
    BY <2>3, <2>4, QuantitiesOfNothing
<1>7. CASE till # i
  <2>1. till \in Filed(s, "till") /\ till \in DOMAIN s.docs /\ s.docs[till].kind = "till"
    BY <1>0, <1>7 DEF Filed, Alike
  <2>2. s.docs[till].cash = Quantities(s, A)
    BY <1>1, <2>1, BooksAre
  <2>3. CASE t.docs[i].kind \in {"sale", "exchange"} /\ t.docs[i].till = till
    <3>1. Tilled(t, till) = A \cup {i} /\ t.docs[i].qty \in Int
      BY <1>5, <2>3, AddsQuantities
    <3>2. Quantities(t, Tilled(t, till)) = Quantities(s, A) + t.docs[i].qty
      <4>1. OneMoreOf(s, t, A, i, Tilled(t, till))
        BY <1>3, <1>4, <3>1 DEF OneMoreOf
      <4> QED
        BY <4>1, QuantitiesMore
    <3> QED
      BY <2>1, <2>2, <2>3, <3>1, <3>2 DEF Books
  <2>4. CASE ~(t.docs[i].kind \in {"sale", "exchange"} /\ t.docs[i].till = till)
    <3>1. Tilled(t, till) = A
      BY <1>5, <2>4
    <3>2. Quantities(t, A) = Quantities(s, A)
      BY <1>4, QuantitiesStay
    <3>3. t.docs[till].cash = s.docs[till].cash + 0
      BY <2>1, <2>4 DEF Books
    <3>4. s.docs[till].cash \in Int
      BY <2>1, AddsFiled, DocumentFields
    <3> QED
      BY <2>2, <3>1, <3>2, <3>3, <3>4
  <2> QED
    BY <2>3, <2>4
<1> QED
  BY <1>6, <1>7

\* A step that adds a document and books it leaves the invoice numbers without a gap.
LEMMA BooksNumber ==
    ASSUME NEW s, NEW t, NEW i, Adds(s, t, i), Books(s, t, i), BooksAgree(s)
    PROVE  Numbers(t) = 1 .. t.invoices
<1>1. Numbers(s) = 1 .. s.invoices /\ s.invoices \in Nat
  BY BooksAre, StoreParts DEF Adds
<1>2. \A d \in Filed(s, "sale") : t.docs[d].number = s.docs[d].number
  BY DEF Adds, Alike, Filed
<1>3. Filed(t, "sale") = Filed(s, "sale") \cup (IF t.docs[i].kind = "sale" THEN {i} ELSE {})
  BY AddsFiled
<1>4. CASE t.docs[i].kind = "sale"
  <2>1. t.docs[i].number = t.invoices /\ t.invoices = s.invoices + 1 /\ Filed(t, "sale") = Filed(s, "sale") \cup {i}
    BY <1>3, <1>4 DEF Books
  <2>2. Numbers(t) = Numbers(s) \cup {s.invoices + 1}
    BY <1>2, <2>1 DEF Numbers
  <2>3. (1 .. s.invoices) \cup {s.invoices + 1} = 1 .. s.invoices + 1
    BY <1>1
  <2> QED
    BY <1>1, <2>1, <2>2, <2>3
<1>5. CASE t.docs[i].kind # "sale"
  <2>1. t.invoices = s.invoices + 0 /\ Filed(t, "sale") = Filed(s, "sale")
    BY <1>3, <1>5 DEF Books
  <2>2. Numbers(t) = Numbers(s)
    BY <1>2, <2>1 DEF Numbers
  <2> QED
    BY <1>1, <2>1, <2>2
<1> QED
  BY <1>4, <1>5

\* The books agree with one document more.
LEMMA BooksGrow ==
    ASSUME NEW s, NEW t, NEW i, Adds(s, t, i), Books(s, t, i), BooksAgree(s)
    PROVE  BooksAgree(t)
BY BooksMove, BooksTransfer, BooksTill, BooksNumber, BooksAre

-----------------------------------------------------------------------------
(* What documents settle. *)

SettlingKinds == {"receipt", "invoice", "lot", "supplier_return", "payment"}

\* t has all of s, alike.
Keeps(s, t) ==
    /\ IsStore(s) /\ IsStore(t) /\ DOMAIN s.docs \subseteq DOMAIN t.docs
    /\ \A d \in DOMAIN s.docs : Alike(s.docs[d], t.docs[d])

SameCites(s, t, d) == \A kind \in SettlingKinds : Citing(t, kind, d) = Citing(s, kind, d)

\* A step that rewrites documents keeps the kinds and the citations of all.
LEMMA RewritesKeeps == ASSUME NEW s, NEW t, Amends(s, t) PROVE Keeps(s, t)
BY DEF Amends, Keeps

\* A step that adds a document keeps the kinds and the citations of the others.
LEMMA AddsKeeps == ASSUME NEW s, NEW t, NEW i, Adds(s, t, i) PROVE Keeps(s, t)
BY DEF Adds, Keeps

\* What cites a document is filed, and has a quantity.
LEMMA CitingIsFiled ==
    ASSUME NEW s, IsStore(s), NEW kind \in SettlingKinds, NEW d
    PROVE  /\ Citing(s, kind, d) \subseteq DOMAIN s.docs /\ IsFiniteSet(Citing(s, kind, d))
           /\ \A e \in Citing(s, kind, d) : s.docs[e].kind = kind /\ s.docs[e].qty \in Nat /\ Cites(s.docs[e]) = d
<1>1. \A e \in Citing(s, kind, d) : e \in DOMAIN s.docs /\ s.docs[e].kind = kind /\ s.docs[e].of = d
  BY DEF Citing, Filed
<1>2. ASSUME NEW e \in Citing(s, kind, d) PROVE s.docs[e].qty \in Nat /\ Cites(s.docs[e]) = d
  <2>1. s.docs[e] \in Documents /\ s.docs[e].kind = kind /\ s.docs[e].of = d
    BY <1>1, StoreDocuments
  <2>2. s.docs[e].qty \in Nat
    BY <2>1, DocumentFields DEF SettlingKinds
  <2>3. Cites(s.docs[e]) = d
    BY <2>1 DEF Cites, SettlingKinds
  <2> QED
    BY <2>2, <2>3
<1>3. IsFiniteSet(DOMAIN s.docs) /\ Citing(s, kind, d) \subseteq DOMAIN s.docs
  BY <1>1, StoreDocuments
<1>4. IsFiniteSet(Citing(s, kind, d))
  BY <1>3, FS_Subset
<1> QED
  BY <1>1, <1>2, <1>3, <1>4

\* By what a document cites, one can tell what cites it.
LEMMA CitingIs ==
    ASSUME NEW s, NEW kind \in SettlingKinds, NEW d
    PROVE  Citing(s, kind, d) = {e \in DOMAIN s.docs : s.docs[e].kind = kind /\ Cites(s.docs[e]) = d}
BY DEF Citing, Filed, Cites, SettlingKinds

\* A step that rewrites documents leaves what cites a document.
LEMMA CitingKept ==
    ASSUME NEW s, NEW t, Amends(s, t), NEW d PROVE SameCites(s, t, d)
<1>1. ASSUME NEW kind \in SettlingKinds PROVE Citing(t, kind, d) = Citing(s, kind, d)
  <2>1. Citing(s, kind, d) = {e \in DOMAIN s.docs : s.docs[e].kind = kind /\ Cites(s.docs[e]) = d}
    BY CitingIs
  <2>2. Citing(t, kind, d) = {e \in DOMAIN t.docs : t.docs[e].kind = kind /\ Cites(t.docs[e]) = d}
    BY CitingIs
  <2>3. \A e \in DOMAIN s.docs : s.docs[e].kind = t.docs[e].kind /\ Cites(s.docs[e]) = Cites(t.docs[e])
    BY DEF Amends, Alike
  <2>4. DOMAIN t.docs = DOMAIN s.docs
    BY DEF Amends
  <2> QED
    BY <2>1, <2>2, <2>3, <2>4
<1> QED
  BY <1>1 DEF SameCites

\* A document that is added joins those that cite what it cites.
LEMMA CitingGrows ==
    ASSUME NEW s, NEW t, NEW i, Adds(s, t, i), NEW kind \in SettlingKinds, NEW d
    PROVE  Citing(t, kind, d) = Citing(s, kind, d) \cup (IF t.docs[i].kind = kind /\ Cites(t.docs[i]) = d THEN {i} ELSE {})
<1>1. Citing(s, kind, d) = {e \in DOMAIN s.docs : s.docs[e].kind = kind /\ Cites(s.docs[e]) = d}
  BY CitingIs
<1>2. Citing(t, kind, d) = {e \in DOMAIN t.docs : t.docs[e].kind = kind /\ Cites(t.docs[e]) = d}
  BY CitingIs
<1>3. \A e \in DOMAIN s.docs : s.docs[e].kind = t.docs[e].kind /\ Cites(s.docs[e]) = Cites(t.docs[e])
  BY DEF Adds, Alike
<1>4. DOMAIN t.docs = DOMAIN s.docs \cup {i} /\ i \notin DOMAIN s.docs
  BY DEF Adds
<1>5. ASSUME NEW e
      PROVE  e \in Citing(t, kind, d) <=> e \in Citing(s, kind, d) \/ (e = i /\ t.docs[i].kind = kind /\ Cites(t.docs[i]) = d)
  BY <1>1, <1>2, <1>3, <1>4
<1> QED
  BY <1>5

\* e cites d, in both stores.
CitedBy(s, t, kind, d, e) == Keeps(s, t) /\ kind \in SettlingKinds /\ e \in Citing(s, kind, d)

\* What cites a document in both stores has its quantity, and its lines, in both.
LEMMA CitedQuantities ==
    ASSUME NEW s, NEW t, NEW kind, NEW d, NEW e, CitedBy(s, t, kind, d, e)
    PROVE  t.docs[e].qty = s.docs[e].qty /\ (s.docs[e].kind = "supplier_return" => t.docs[e].lines = s.docs[e].lines)
<1>0. Keeps(s, t) /\ kind \in SettlingKinds /\ e \in Citing(s, kind, d)
  BY DEF CitedBy
<1>1. e \in DOMAIN s.docs /\ s.docs[e].kind = kind /\ IsStore(s) /\ IsStore(t) /\ e \in DOMAIN t.docs
  BY <1>0, CitingIsFiled DEF Keeps
<1>2. s.docs[e] \in Documents /\ t.docs[e] \in Documents /\ Alike(s.docs[e], t.docs[e])
  BY <1>0, <1>1, StoreDocuments DEF Keeps
<1>3. t.docs[e].kind = kind /\ Amount(t.docs[e]) = Amount(s.docs[e])
  BY <1>1, <1>2 DEF Alike
<1>4. Amount(t.docs[e]) = t.docs[e].qty /\ Amount(s.docs[e]) = s.docs[e].qty
  BY <1>0, <1>1, <1>2, <1>3, DocumentFields DEF SettlingKinds
<1> QED
  BY <1>1, <1>2, <1>3, <1>4 DEF Alike

\* An invoice bills as much still, a lot holds as much.
LEMMA BillsStill ==
    ASSUME NEW s, NEW t, Keeps(s, t), NEW d \in DOMAIN s.docs
    PROVE  /\ t.docs[d].kind = s.docs[d].kind
           /\ s.docs[d].kind \in {"invoice", "lot"} => t.docs[d].qty = s.docs[d].qty /\ s.docs[d].qty \in Nat
<1>1. s.docs[d] \in Documents /\ t.docs[d] \in Documents /\ Alike(s.docs[d], t.docs[d])
  BY StoreDocuments DEF Keeps
<1>2. t.docs[d].kind = s.docs[d].kind /\ Amount(t.docs[d]) = Amount(s.docs[d])
  BY <1>1 DEF Alike
<1> QED
  BY <1>1, <1>2, DocumentFields

\* What is paid on an invoice and what is sent back of it is the same, if the same cites it.
LEMMA PaidStays ==
    ASSUME NEW s, NEW t, Keeps(s, t), NEW d, SameCites(s, t, d)
    PROVE  /\ Paid(t, d) = Paid(s, d) /\ Credited(t, d) = Credited(s, d)
           /\ \A e \in Citing(s, "supplier_return", d) : t.docs[e].lines = s.docs[e].lines
<1>1. PICK pay \in SettlingKinds : pay = "payment"
  BY DEF SettlingKinds
<1>2. PICK back \in SettlingKinds : back = "supplier_return"
  BY DEF SettlingKinds
<1>3. PICK P : P = Citing(s, pay, d)
  OBVIOUS
<1>4. PICK B : B = Citing(s, back, d)
  OBVIOUS
<1>5. ASSUME NEW e \in P PROVE t.docs[e].qty = s.docs[e].qty
  <2>1. CitedBy(s, t, pay, d, e)
    BY <1>1, <1>3 DEF CitedBy
  <2> QED
    BY <2>1, CitedQuantities
<1>6. ASSUME NEW e \in B PROVE t.docs[e].qty = s.docs[e].qty /\ t.docs[e].lines = s.docs[e].lines
  <2>1. CitedBy(s, t, back, d, e)
    BY <1>2, <1>4 DEF CitedBy
  <2>2. s.docs[e].kind = "supplier_return"
    BY <1>2, <1>4, CitingIsFiled DEF Keeps
  <2> QED
    BY <2>1, <2>2, CitedQuantities
<1>7. Citing(t, pay, d) = P /\ Citing(t, back, d) = B
  BY <1>3, <1>4 DEF SameCites
<1>8. Quantities(t, P) = Quantities(s, P) /\ Quantities(t, B) = Quantities(s, B)
  BY <1>5, <1>6, QuantitiesStay
<1> QED
  BY <1>1, <1>2, <1>3, <1>4, <1>6, <1>7, <1>8 DEF Paid, Credited

\* What no further document cites is settled as before.
LEMMA SettledStays ==
    ASSUME NEW s, NEW t, Keeps(s, t), NEW d \in DOMAIN s.docs, SameCites(s, t, d), Settled(s, d),
           t.docs[d].kind = "lot" => t.docs[d].off <= t.docs[d].qty
    PROVE  Settled(t, d)
<1>1. \A kind \in SettlingKinds : Citing(t, kind, d) = Citing(s, kind, d)
  BY DEF SameCites
<1>2. \A kind \in {"receipt", "invoice", "lot"} : Cardinality(Citing(t, kind, d)) <= 1
  BY <1>1 DEF Settled, SettlingKinds
<1>3. ASSUME t.docs[d].kind = "invoice"
      PROVE  /\ Paid(t, d) <= Invoiced(t, d)
             /\ (\A e \in Citing(t, "supplier_return", d) : t.docs[e].lines = 1) => Credited(t, d) <= Invoiced(t, d)
  <2>0. "payment" \in SettlingKinds /\ "supplier_return" \in SettlingKinds
    BY DEF SettlingKinds
  <2>1. s.docs[d].kind = "invoice" /\ Invoiced(t, d) = Invoiced(s, d)
    BY <1>3, BillsStill DEF Invoiced
  <2>2. /\ Paid(t, d) = Paid(s, d) /\ Credited(t, d) = Credited(s, d)
        /\ \A e \in Citing(s, "supplier_return", d) : t.docs[e].lines = s.docs[e].lines
    BY PaidStays
  <2> QED
    BY <1>1, <2>0, <2>1, <2>2 DEF Settled
<1> QED
  BY <1>2, <1>3 DEF Settled

\* What is rewritten is settled as before, if no lot has lost more than it holds.
LEMMA SettledRewritten ==
    ASSUME NEW s, NEW t, NEW R, Amends(s, t), SettledAll(s, R),
           \A d \in DOMAIN s.docs : d \in R \/ (t.docs[d].kind = "lot" => t.docs[d].off <= t.docs[d].qty)
    PROVE  SettledAll(t, R)
<1>1. ASSUME NEW d \in DOMAIN t.docs, d \notin R PROVE Settled(t, d)
  <2>1. d \in DOMAIN s.docs /\ Settled(s, d) /\ (t.docs[d].kind = "lot" => t.docs[d].off <= t.docs[d].qty)
    BY <1>1 DEF Amends, SettledAll
  <2>2. Keeps(s, t) /\ SameCites(s, t, d)
    BY RewritesKeeps, CitingKept
  <2> QED
    BY <2>1, <2>2, SettledStays
<1> QED
  BY <1>1 DEF SettledAll

\* A lot that has lost no more than before is covered as before.
LEMMA LotsCoveredStill ==
    ASSUME NEW s, NEW t, Keeps(s, t), NEW d \in DOMAIN s.docs, Settled(s, d), s.docs[d].kind = "lot" => t.docs[d].off = s.docs[d].off
    PROVE  t.docs[d].kind = "lot" => t.docs[d].off <= t.docs[d].qty
BY BillsStill DEF Settled

-----------------------------------------------------------------------------
(* A new document, and what it settles. *)

\* It is the kind that cites d.
CitesSo(t, i, kind, d) == t.docs[i].kind = kind /\ Cites(t.docs[i]) = d

\* What cites d is as many, and of as much, as before, or by one more.
LEMMA CitedAsBefore ==
    ASSUME NEW s, NEW t, NEW i, Adds(s, t, i), NEW kind \in SettlingKinds, NEW d, ~CitesSo(t, i, kind, d)
    PROVE  /\ Citing(t, kind, d) = Citing(s, kind, d)
           /\ Quantities(t, Citing(t, kind, d)) = Quantities(s, Citing(s, kind, d))
<1>1. Citing(t, kind, d) = Citing(s, kind, d)
  <2>1. Citing(t, kind, d) = Citing(s, kind, d) \cup (IF t.docs[i].kind = kind /\ Cites(t.docs[i]) = d THEN {i} ELSE {})
    BY CitingGrows
  <2>2. ~(t.docs[i].kind = kind /\ Cites(t.docs[i]) = d)
    BY DEF CitesSo
  <2> QED
    BY <2>1, <2>2
<1>2. ASSUME NEW e \in Citing(s, kind, d) PROVE t.docs[e].qty = s.docs[e].qty
  <2>1. CitedBy(s, t, kind, d, e)
    BY AddsKeeps DEF CitedBy
  <2> QED
    BY <2>1, CitedQuantities
<1>3. PICK ids : ids = Citing(s, kind, d)
  OBVIOUS
<1>4. Quantities(t, ids) = Quantities(s, ids)
  BY <1>2, <1>3, QuantitiesStay
<1> QED
  BY <1>1, <1>3, <1>4

\* A document that is added adds its quantity to what cites its document.
LEMMA CitedOnceMore ==
    ASSUME NEW s, NEW t, NEW i, Adds(s, t, i), NEW kind \in SettlingKinds, NEW d, CitesSo(t, i, kind, d)
    PROVE  /\ Citing(t, kind, d) = Citing(s, kind, d) \cup {i}
           /\ t.docs[i].qty \in Nat /\ Quantities(s, Citing(s, kind, d)) \in Nat
           /\ Quantities(t, Citing(t, kind, d)) = Quantities(s, Citing(s, kind, d)) + t.docs[i].qty
<1>1. PICK ids : ids = Citing(s, kind, d)
  OBVIOUS
<1>2. PICK all : all = Citing(t, kind, d)
  OBVIOUS
<1>3. all = ids \cup {i}
  BY <1>1, <1>2, CitingGrows DEF CitesSo
<1>4. IsStore(s) /\ IsStore(t) /\ i \notin DOMAIN s.docs
  BY DEF Adds
<1>5. ids \subseteq DOMAIN s.docs /\ IsFiniteSet(ids) /\ \A e \in ids : s.docs[e].qty \in Nat
  BY <1>1, <1>4, CitingIsFiled
<1>6. i \notin ids
  BY <1>4, <1>5
<1>7. \A e \in all : t.docs[e].qty \in Nat
  BY <1>2, <1>4, CitingIsFiled
<1>8. t.docs[i].qty \in Nat
  BY <1>3, <1>7
<1>9. ASSUME NEW e \in ids PROVE s.docs[e].qty \in Int /\ t.docs[e].qty = s.docs[e].qty
  <2>1. CitedBy(s, t, kind, d, e)
    BY <1>1, AddsKeeps DEF CitedBy
  <2> QED
    BY <1>5, <2>1, CitedQuantities, NatIsWhole
<1>10. OneMoreOf(s, t, ids, i, all)
  BY <1>3, <1>5, <1>6, <1>8, <1>9, NatIsWhole DEF OneMoreOf
<1>11. Quantities(t, all) = Quantities(s, ids) + t.docs[i].qty
  BY <1>10, QuantitiesMore
<1>12. Quantities(s, ids) \in Nat
  BY <1>5, QuantitiesCount
<1> QED
  BY <1>1, <1>2, <1>3, <1>8, <1>11, <1>12

\* What nothing cites is settled.
LEMMA SettledNew ==
    ASSUME NEW s, NEW t, NEW i, Adds(s, t, i), Unused(i, s), Cites(t.docs[i]) # i,
           t.docs[i].kind = "lot" => t.docs[i].off <= t.docs[i].qty
    PROVE  Settled(t, i)
<1>1. ASSUME NEW kind \in SettlingKinds PROVE Citing(t, kind, i) = {}
  <2>1. Citing(t, kind, i) = {e \in DOMAIN t.docs : t.docs[e].kind = kind /\ Cites(t.docs[e]) = i}
    BY CitingIs
  <2>2. \A e \in DOMAIN t.docs : e \in DOMAIN s.docs \/ e = i
    BY DEF Adds
  <2>3. \A e \in DOMAIN s.docs : Cites(t.docs[e]) # i
    BY DEF Adds, Alike, Unused
  <2> QED
    BY <2>1, <2>2, <2>3
<1>2. \A kind \in {"receipt", "invoice", "lot"} : Cardinality(Citing(t, kind, i)) <= 1
  BY <1>1, FS_EmptySet DEF SettlingKinds
<1>3. ASSUME t.docs[i].kind = "invoice"
      PROVE  Paid(t, i) <= Invoiced(t, i) /\ Credited(t, i) <= Invoiced(t, i)
  <2>1. Paid(t, i) = 0 /\ Credited(t, i) = 0
    BY <1>1, QuantitiesOfNothing DEF Paid, Credited, SettlingKinds
  <2>2. t.docs[i] \in Documents
    BY AddsFiled
  <2>3. Invoiced(t, i) \in Nat
    BY <1>3, <2>2, DocumentFields DEF Invoiced
  <2> QED
    BY <2>1, <2>3
<1> QED
  BY <1>2, <1>3 DEF Settled

\* The document doc may be added to the store s.
MayCite(s, doc) ==
    /\ doc.kind \in {"receipt", "invoice", "lot"} => Citing(s, doc.kind, Cites(doc)) = {}
    /\ doc.kind = "payment" => Paid(s, Cites(doc)) + doc.qty <= Invoiced(s, Cites(doc))
    /\ doc.kind = "supplier_return" /\ doc.lines = 1 => Credited(s, Cites(doc)) + doc.qty <= Invoiced(s, Cites(doc))

\* At most one document settles d.
LEMMA SettledOnceStill ==
    ASSUME NEW s, NEW t, NEW i, Adds(s, t, i), NEW d, Settled(s, d),
           Cites(t.docs[i]) # d \/ MayCite(s, t.docs[i])
    PROVE  \A kind \in {"receipt", "invoice", "lot"} : Cardinality(Citing(t, kind, d)) <= 1
<1>1. ASSUME NEW kind \in {"receipt", "invoice", "lot"} PROVE Cardinality(Citing(t, kind, d)) <= 1
  <2>1. kind \in SettlingKinds
    BY <1>1 DEF SettlingKinds
  <2>2. CASE ~CitesSo(t, i, kind, d)
    <3>1. Citing(t, kind, d) = Citing(s, kind, d)
      BY <2>1, <2>2, CitedAsBefore
    <3>2. Cardinality(Citing(s, kind, d)) <= 1
      BY <1>1 DEF Settled
    <3> QED
      BY <3>1, <3>2
  <2>3. CASE CitesSo(t, i, kind, d)
    <3>1. Citing(t, kind, d) = Citing(s, kind, d) \cup {i}
      BY <2>1, <2>3, CitedOnceMore
    <3>2. Citing(s, kind, d) = {}
      BY <1>1, <2>3 DEF CitesSo, MayCite
    <3>3. Citing(t, kind, d) = {i} /\ Cardinality({i}) = 1
      BY <3>1, <3>2, FS_Singleton
    <3> QED
      BY <3>3
  <2> QED
    BY <2>2, <2>3
<1> QED
  BY <1>1

\* The invoice d is paid no more than it bills.
LEMMA SettledPaidStill ==
    ASSUME NEW s, NEW t, NEW i, Adds(s, t, i), NEW d, d \in DOMAIN s.docs, Settled(s, d), s.docs[d].kind = "invoice",
           Cites(t.docs[i]) # d \/ MayCite(s, t.docs[i])
    PROVE  Paid(t, d) <= Invoiced(t, d)
<1>1. PICK pay \in SettlingKinds : pay = "payment"
  BY DEF SettlingKinds
<1>2. Invoiced(t, d) = Invoiced(s, d)
  BY AddsKeeps, BillsStill DEF Invoiced
<1>3. Paid(s, d) = Quantities(s, Citing(s, pay, d)) /\ Paid(t, d) = Quantities(t, Citing(t, pay, d))
  BY <1>1 DEF Paid
<1>4. CASE ~CitesSo(t, i, pay, d)
  <2>1. Paid(t, d) = Paid(s, d)
    BY <1>3, <1>4, CitedAsBefore
  <2>2. Paid(s, d) <= Invoiced(s, d)
    BY DEF Settled
  <2> QED
    BY <1>2, <2>1, <2>2
<1>5. CASE CitesSo(t, i, pay, d)
  <2>1. Paid(t, d) = Paid(s, d) + t.docs[i].qty
    BY <1>3, <1>5, CitedOnceMore
  <2>2. Paid(s, d) + t.docs[i].qty <= Invoiced(s, d)
    BY <1>1, <1>5 DEF CitesSo, MayCite
  <2> QED
    BY <1>2, <2>1, <2>2
<1> QED
  BY <1>4, <1>5

\* And no more is sent back of it, as long as every return of it is of one line.
LEMMA SettledCreditedStill ==
    ASSUME NEW s, NEW t, NEW i, Adds(s, t, i), NEW d, d \in DOMAIN s.docs, Settled(s, d), s.docs[d].kind = "invoice",
           Cites(t.docs[i]) # d \/ MayCite(s, t.docs[i]),
           \A e \in Citing(t, "supplier_return", d) : t.docs[e].lines = 1
    PROVE  Credited(t, d) <= Invoiced(t, d)
<1>1. PICK back \in SettlingKinds : back = "supplier_return"
  BY DEF SettlingKinds
<1>2. Invoiced(t, d) = Invoiced(s, d)
  BY AddsKeeps, BillsStill DEF Invoiced
<1>3. Credited(s, d) = Quantities(s, Citing(s, back, d)) /\ Credited(t, d) = Quantities(t, Citing(t, back, d))
  BY <1>1 DEF Credited
<1>4. CASE ~CitesSo(t, i, back, d)
  <2>1. Citing(t, back, d) = Citing(s, back, d) /\ Credited(t, d) = Credited(s, d)
    BY <1>3, <1>4, CitedAsBefore
  <2>2. ASSUME NEW e \in Citing(s, back, d) PROVE s.docs[e].lines = 1
    <3>1. CitedBy(s, t, back, d, e)
      BY AddsKeeps DEF CitedBy
    <3>2. s.docs[e].kind = "supplier_return"
      BY <1>1, <2>2, CitingIsFiled DEF Adds
    <3>3. t.docs[e].lines = s.docs[e].lines
      BY <3>1, <3>2, CitedQuantities
    <3>4. t.docs[e].lines = 1
      BY <1>1, <2>1, <2>2
    <3> QED
      BY <3>3, <3>4
  <2>3. Credited(s, d) <= Invoiced(s, d)
    BY <1>1, <2>2 DEF Settled
  <2> QED
    BY <1>2, <2>1, <2>3
<1>5. CASE CitesSo(t, i, back, d)
  <2>1. Credited(t, d) = Credited(s, d) + t.docs[i].qty /\ i \in Citing(t, back, d)
    BY <1>3, <1>5, CitedOnceMore
  <2>2. t.docs[i].lines = 1
    BY <1>1, <2>1
  <2>3. Credited(s, d) + t.docs[i].qty <= Invoiced(s, d)
    BY <1>1, <1>5, <2>2 DEF CitesSo, MayCite
  <2> QED
    BY <1>2, <2>1, <2>3
<1> QED
  BY <1>4, <1>5

\* R: documents of which nothing is said.
MayAdd(s, t, i, R) ==
    /\ Unused(i, s) /\ Cites(t.docs[i]) # i
    /\ t.docs[i].kind = "lot" => t.docs[i].off <= t.docs[i].qty
    /\ Cites(t.docs[i]) \in DOMAIN s.docs \ R => MayCite(s, t.docs[i])

\* A document that is added within what its document has left leaves every document settled.
LEMMA SettledGrows ==
    ASSUME NEW s, NEW t, NEW i, Adds(s, t, i), NEW R, SettledAll(s, R), MayAdd(s, t, i, R)
    PROVE  SettledAll(t, R)
<1>1. ASSUME NEW d \in DOMAIN s.docs, d \notin R PROVE Settled(t, d)
  <2>1. Settled(s, d) /\ (Cites(t.docs[i]) # d \/ MayCite(s, t.docs[i]))
    BY <1>1 DEF SettledAll, MayAdd
  <2>2. \A kind \in {"receipt", "invoice", "lot"} : Cardinality(Citing(t, kind, d)) <= 1
    BY <2>1, SettledOnceStill
  <2>3. Keeps(s, t) /\ (s.docs[d].kind = "lot" => t.docs[d].off = s.docs[d].off)
    BY AddsKeeps DEF Adds
  <2>4. t.docs[d].kind = "lot" => t.docs[d].off <= t.docs[d].qty
    BY <2>1, <2>3, LotsCoveredStill
  <2>5. ASSUME t.docs[d].kind = "invoice"
        PROVE  /\ Paid(t, d) <= Invoiced(t, d)
               /\ (\A e \in Citing(t, "supplier_return", d) : t.docs[e].lines = 1) => Credited(t, d) <= Invoiced(t, d)
    <3>1. s.docs[d].kind = "invoice"
      BY <2>3, <2>5, BillsStill
    <3>2. Paid(t, d) <= Invoiced(t, d)
      BY <2>1, <3>1, SettledPaidStill
    <3>3. ASSUME \A e \in Citing(t, "supplier_return", d) : t.docs[e].lines = 1
          PROVE  Credited(t, d) <= Invoiced(t, d)
      BY <2>1, <3>1, <3>3, SettledCreditedStill
    <3> QED
      BY <3>2, <3>3
  <2> QED
    BY <2>2, <2>4, <2>5 DEF Settled
<1>2. Settled(t, i)
  BY SettledNew DEF MayAdd
<1>3. DOMAIN t.docs = DOMAIN s.docs \cup {i}
  BY DEF Adds
<1> QED
  BY <1>1, <1>2, <1>3 DEF SettledAll

-----------------------------------------------------------------------------
(* What a handler finds, and what it leaves. *)

\* What a handler may rely on; R: documents that changed between its checks and its writes, and others.
Ready(c, R) ==
    /\ IsStore(store) /\ 0 \notin DOMAIN store.docs
    /\ calls[c].id # 0 /\ calls[c].of # calls[c].id /\ Unused(calls[c].id, store)
    /\ calls[c].id \in Nat /\ calls[c].of \in Nat /\ calls[c].n \in Nat /\ calls[c].m \in Nat
    /\ calls[c].op \in {"decide", "complete", "tenant"} => calls[c].word \in Words
    /\ calls[c].op = "sell" => calls[c].word \in {"whole", "refused", "raised"}
    /\ calls[c].op = "pay" => calls[c].n # 0
    /\ IF calls[c].of = 0 THEN calls[c].op \in {"sell", "open", "transfer", "count", "order", "push", "tenant"}
       ELSE calls[c].of \in DOMAIN store.docs => IsAbout(calls[c].op, store.docs[calls[c].of].kind)
    /\ calls[c].stage = "looked" =>
         /\ IsStore(calls[c].seen) /\ calls[c].of \in DOMAIN calls[c].seen.docs
         /\ calls[c].of # 0 => IsAbout(calls[c].op, calls[c].seen.docs[calls[c].of].kind)
         /\ calls[c].aside \/ calls[c].of \in DOMAIN store.docs
         /\ calls[c].of \in R \/ calls[c].seen = store

\* What it leaves is a store with the same documents, and perhaps one more.
Leaves(c, s, how, R) ==
    /\ Keeps(store, s) /\ DOMAIN s.docs \subseteq DOMAIN store.docs \cup {calls[c].id}
    /\ \A d \in DOMAIN s.docs \ DOMAIN store.docs : Cites(s.docs[d]) \in {0, calls[c].of}
    /\ SettledAll(store, R) => SettledAll(s, R)
    /\ how = "done" /\ ~calls[c].aside /\ BooksAgree(store) => BooksAgree(s)

\* Documents rewritten, of which no lot has lost more than it holds.
LEMMA RewritesLeaves ==
    ASSUME NEW c, NEW s, NEW how, NEW R, Amends(store, s),
           SettledAll(store, R) => \A d \in DOMAIN store.docs : d \in R \/ (s.docs[d].kind = "lot" => s.docs[d].off <= s.docs[d].qty),
           how = "done" /\ ~calls[c].aside /\ BooksAgree(store) => BooksAgree(s)
    PROVE  Leaves(c, s, how, R)
<1>1. Keeps(store, s) /\ DOMAIN s.docs = DOMAIN store.docs
  BY RewritesKeeps DEF Amends
<1>2. SettledAll(store, R) => SettledAll(s, R)
  BY SettledRewritten
<1> QED
  BY <1>1, <1>2 DEF Leaves

\* Every document is like itself.
LEMMA AlikeItself == \A a : Alike(a, a) /\ Still(a, a)
BY DEF Alike, Still

\* The same documents.
LEMMA SameLeaves ==
    ASSUME NEW c, NEW s, NEW how, NEW R, IsStore(store), IsStore(s), s.docs = store.docs,
           how = "done" /\ ~calls[c].aside /\ BooksAgree(store) => BooksAgree(s)
    PROVE  Leaves(c, s, how, R)
<1>1. Amends(store, s)
  BY AlikeItself DEF Amends
<1>2. ASSUME SettledAll(store, R), NEW d \in DOMAIN store.docs, d \notin R, s.docs[d].kind = "lot"
      PROVE  s.docs[d].off <= s.docs[d].qty
  BY <1>2 DEF SettledAll, Settled
<1> QED
  BY <1>1, <1>2, RewritesLeaves

\* A handler that leaves the store alone leaves it whole.
LEMMA NothingLeaves ==
    ASSUME NEW c, NEW how, NEW R, Ready(c, R) PROVE Leaves(c, store, how, R)
BY SameLeaves DEF Ready

\* The counters of a store are numbers.
LEMMA StoreNumbers ==
    ASSUME NEW s, IsStore(s)
    PROVE  s.stock["home"] \in Int /\ s.stock["away"] \in Int /\ s.invoices \in Nat
BY StoreParts

\* An entry at home.
LEMMA EntryDoes ==
    ASSUME NEW s, IsStore(s), NEW n \in Int, NEW t, t = Post(s, "home", n)
    PROVE  /\ IsStore(t) /\ t.docs = s.docs /\ t.invoices = s.invoices /\ t.tenant = s.tenant
           /\ t.stock["home"] = s.stock["home"] + n /\ t.stock["away"] = s.stock["away"]
<1>1. PICK home \in {"home", "away"} : home = "home"
  OBVIOUS
<1>2. PICK away \in {"home", "away"} \ {home} : away = "away"
  BY <1>1
<1>3. t = Post(s, home, n)
  BY <1>1
<1>4. /\ IsStore(t) /\ t.docs = s.docs /\ t.invoices = s.invoices /\ t.tenant = s.tenant
      /\ t.stock[home] = s.stock[home] + n /\ \A o \in {"home", "away"} \ {home} : t.stock[o] = s.stock[o]
  BY <1>3, PostDoes
<1> QED
  BY <1>1, <1>2, <1>4

\* An entry that is left behind by a handler that refuses or raises.
LEMMA PostedLeaves ==
    ASSUME NEW c, NEW how \in {"refused", "raised"}, NEW R, Ready(c, R), NEW n \in Int
    PROVE  Leaves(c, Post(store, "home", n), how, R)
<1>1. PICK s : s = Post(store, "home", n)
  OBVIOUS
<1>2. IsStore(store)
  BY DEF Ready
<1>3. IsStore(s) /\ s.docs = store.docs
  BY <1>1, <1>2, EntryDoes
<1> QED
  BY <1>1, <1>2, <1>3, SameLeaves

\* A document that is put in the place of one which holds as much.
LEMMA AmendedLeaves ==
    ASSUME NEW c, NEW how, NEW R, Ready(c, R), NEW of \in DOMAIN store.docs, NEW doc \in Documents, Still(store.docs[of], doc),
           NEW s, s = [store EXCEPT !.docs[of] = doc]
    PROVE  Leaves(c, s, how, R)
<1>0. IsStore(store)
  BY DEF Ready
<1>1. /\ IsStore(s) /\ DOMAIN s.docs = DOMAIN store.docs /\ s.docs[of] = doc
      /\ \A d \in DOMAIN store.docs \ {of} : s.docs[d] = store.docs[d]
      /\ s.invoices = store.invoices /\ s.stock = store.stock
  BY <1>0, AmendDoes DEF Still
<1>2. \A d \in DOMAIN store.docs : Still(store.docs[d], s.docs[d])
  BY <1>1, AlikeItself
<1>3. Amends(store, s)
  BY <1>0, <1>1, <1>2 DEF Amends, Still
<1>4. ASSUME SettledAll(store, R), NEW d \in DOMAIN store.docs, d \notin R, s.docs[d].kind = "lot"
      PROVE  s.docs[d].off <= s.docs[d].qty
  <2>1. Keeps(store, s)
    BY <1>3, RewritesKeeps
  <2>2. Settled(store, d)
    BY <1>4 DEF SettledAll
  <2>3. s.docs[d].off = store.docs[d].off
    BY <1>2, <1>4 DEF Still, Alike
  <2> QED
    BY <1>4, <2>1, <2>2, <2>3, LotsCoveredStill
<1>5. BooksAgree(store) => BooksAgree(s)
  BY <1>1, <1>2, <1>3, BooksStay
<1> QED
  BY <1>3, <1>4, <1>5, RewritesLeaves

\* A document added to what is written so far.
LEMMA AddedLeaves ==
    ASSUME NEW c, NEW s, NEW how, NEW R, Adds(store, s, calls[c].id), how = "done" => Books(store, s, calls[c].id),
           MayAdd(store, s, calls[c].id, R), Cites(s.docs[calls[c].id]) \in {0, calls[c].of}
    PROVE  Leaves(c, s, how, R)
<1>1. PICK i : i = calls[c].id
  OBVIOUS
<1>2. Adds(store, s, i) /\ (how = "done" => Books(store, s, i)) /\ MayAdd(store, s, i, R) /\ Cites(s.docs[i]) \in {0, calls[c].of}
  BY <1>1
<1>3. Keeps(store, s) /\ DOMAIN s.docs = DOMAIN store.docs \cup {i}
  BY <1>2, AddsKeeps DEF Adds
<1>4. SettledAll(store, R) => SettledAll(s, R)
  BY <1>2, SettledGrows
<1>5. how = "done" /\ BooksAgree(store) => BooksAgree(s)
  BY <1>2, BooksGrow
<1> QED
  BY <1>1, <1>2, <1>3, <1>4, <1>5 DEF Leaves

\* A document of any kind but a sale or an exchange.
MayFile(c, s, doc, R) ==
    /\ IsStore(s) /\ s.docs = store.docs /\ doc \in Documents /\ doc.kind \notin {"sale", "exchange"}
    /\ s.stock["home"] = store.stock["home"] + Moved(doc)
    /\ s.stock["away"] = store.stock["away"] + (IF doc.kind = "transfer" THEN doc.qty ELSE 0)
    /\ s.invoices = store.invoices
    /\ doc.kind = "till" => doc.cash = 0
    /\ doc.kind = "lot" => doc.off = 0
    /\ Cites(doc) \in {0, calls[c].of}
    /\ Cites(doc) \in DOMAIN store.docs \ R => MayCite(store, doc)

\* A handler that files a document it may file leaves the store whole.
LEMMA FiledLeaves ==
    ASSUME NEW c, NEW s, NEW doc, NEW R, Ready(c, R), MayFile(c, s, doc, R)
    PROVE  Leaves(c, File(c, s, doc), "done", R)
<1>1. PICK i : i = calls[c].id
  OBVIOUS
<1>2. PICK t : t = File(c, s, doc)
  OBVIOUS
<1>3. /\ IsStore(store) /\ i # 0 /\ calls[c].of # i /\ Unused(i, store) /\ i \notin DOMAIN store.docs
  BY <1>1 DEF Ready, Unused
<1>4. IsStore(s) /\ s.docs = store.docs /\ doc \in Documents /\ doc.kind \notin {"sale", "exchange"}
  BY DEF MayFile
<1>5. /\ IsStore(t) /\ DOMAIN t.docs = DOMAIN s.docs \cup {i} /\ t.docs[i] = doc
      /\ \A d \in DOMAIN s.docs : t.docs[d] = s.docs[d]
      /\ t.invoices = s.invoices /\ t.stock = s.stock
  BY <1>1, <1>2, <1>3, <1>4, FileDoes
<1>6. Adds(store, t, i)
  BY <1>3, <1>4, <1>5, AlikeItself DEF Adds
<1>7. Books(store, t, i)
  <2>1. \A till \in Filed(store, "till") : t.docs[till].cash = store.docs[till].cash + 0
    <3>1. ASSUME NEW till \in Filed(store, "till") PROVE t.docs[till].cash = store.docs[till].cash + 0
      <4>1. till \in DOMAIN store.docs /\ store.docs[till].kind = "till"
        BY DEF Filed
      <4>2. store.docs[till].cash \in Int
        BY <1>3, <4>1, StoreDocuments, DocumentFields
      <4> QED
        BY <1>4, <1>5, <4>1, <4>2
    <3> QED
      BY <3>1
  <2>2. store.invoices + 0 = store.invoices
    BY <1>3, StoreParts
  <2>3. /\ t.stock["home"] = store.stock["home"] + Moved(doc)
        /\ t.stock["away"] = store.stock["away"] + (IF doc.kind = "transfer" THEN doc.qty ELSE 0)
        /\ t.invoices = store.invoices /\ (doc.kind = "till" => doc.cash = 0)
    BY <1>5 DEF MayFile
  <2> QED
    BY <1>4, <1>5, <2>1, <2>2, <2>3 DEF Books
<1>8. Cites(doc) \in {0, calls[c].of} /\ (Cites(doc) \in DOMAIN store.docs \ R => MayCite(store, doc))
  BY DEF MayFile
<1>9. doc.kind = "lot" => doc.off <= doc.qty
  <2>1. doc.kind = "lot" => doc.off = 0 /\ doc.qty \in Nat
    BY <1>4, DocumentFields DEF MayFile
  <2> QED
    BY <2>1
<1>10. MayAdd(store, t, i, R)
  BY <1>3, <1>5, <1>8, <1>9 DEF MayAdd
<1> QED
  BY <1>1, <1>2, <1>5, <1>6, <1>7, <1>8, <1>10, AddedLeaves

\* The takings of a till.
LEMMA TakesDoes ==
    ASSUME NEW s, IsStore(s), 0 \notin DOMAIN s.docs, NEW till, till = 0 \/ till \in Filed(s, "till"), NEW amount \in Int,
           NEW t, t = Takes(s, till, amount)
    PROVE  /\ IsStore(t) /\ DOMAIN t.docs = DOMAIN s.docs
           /\ \A d \in DOMAIN s.docs : Alike(s.docs[d], t.docs[d]) /\ (d # till => t.docs[d] = s.docs[d])
           /\ till # 0 => t.docs[till].cash = s.docs[till].cash + amount
           /\ t.invoices = s.invoices /\ t.stock = s.stock
<1>1. CASE till = 0
  BY <1>1, AlikeItself DEF Takes
<1>2. CASE till # 0
  <2>1. till \in DOMAIN s.docs /\ s.docs[till].kind = "till"
    BY <1>2 DEF Filed
  <2>2. s.docs[till] \in Documents
    BY <2>1, StoreDocuments
  <2>3. PICK doc : doc = [s.docs[till] EXCEPT !.cash = @ + amount]
    OBVIOUS
  <2>4. doc \in Documents /\ Alike(s.docs[till], doc) /\ doc.cash = s.docs[till].cash + amount
    BY <2>1, <2>2, <2>3, CashChanges
  <2>5. t = [s EXCEPT !.docs[till] = doc]
    BY <1>2, <2>1, <2>3, FieldsAreWritten DEF Takes
  <2>6. /\ IsStore(t) /\ DOMAIN t.docs = DOMAIN s.docs /\ t.docs[till] = doc
        /\ \A d \in DOMAIN s.docs \ {till} : t.docs[d] = s.docs[d]
        /\ t.invoices = s.invoices /\ t.stock = s.stock
    BY <2>1, <2>4, <2>5, AmendDoes
  <2> QED
    BY <2>4, <2>6, AlikeItself
<1> QED
  BY <1>1, <1>2

-----------------------------------------------------------------------------
(* One handler after the other. *)

Ends(c, R) == \E s, how : Answer(c, s, how) /\ how \in {"done", "refused", "raised"} /\ Leaves(c, s, how, R)

\* A handler that answers with a store that is whole ends well.
LEMMA EndsSo ==
    ASSUME NEW c, NEW R, NEW s, NEW how \in {"done", "refused", "raised"}, Answer(c, s, how), Leaves(c, s, how, R)
    PROVE  Ends(c, R)
BY DEF Ends

\* What is under way, or has looked, is about documents of its kind.
LEMMA UnderwayIs ==
    ASSUME NEW c, NEW R, Ready(c, R), NEW op, Underway(c, op)
    PROVE  /\ calls[c].op = op
           /\ IF calls[c].of = 0 THEN op \in {"sell", "open", "transfer", "count", "order", "push", "tenant"}
              ELSE calls[c].of \in DOMAIN store.docs /\ IsAbout(op, store.docs[calls[c].of].kind)
BY DEF Underway, Named, Ready

\* What a handler that looked at a document knows of it, then and now.
LEMMA LookedIs ==
    ASSUME NEW c, NEW R, Ready(c, R), NEW op, Looked(c, op),
           op \notin {"sell", "open", "transfer", "count", "order", "push", "tenant"}
    PROVE  /\ IsStore(calls[c].seen) /\ calls[c].of \in DOMAIN calls[c].seen.docs
           /\ calls[c].seen.docs[calls[c].of] \in Documents /\ IsAbout(op, calls[c].seen.docs[calls[c].of].kind)
           /\ ~calls[c].aside => calls[c].of \in DOMAIN store.docs
           /\ calls[c].of \in DOMAIN store.docs =>
                store.docs[calls[c].of] \in Documents /\ IsAbout(op, store.docs[calls[c].of].kind)
           /\ calls[c].of \in R \/ calls[c].seen = store
<1>1. calls[c].op = op /\ calls[c].stage = "looked"
  BY DEF Looked
<1>2. calls[c].of # 0
  BY <1>1 DEF Ready
<1>3. IsStore(calls[c].seen) /\ calls[c].of \in DOMAIN calls[c].seen.docs /\ IsStore(store)
  BY <1>1 DEF Ready
<1>4. calls[c].seen.docs[calls[c].of] \in Documents
  BY <1>3, StoreDocuments
<1>5. calls[c].of \in DOMAIN store.docs => store.docs[calls[c].of] \in Documents
  BY <1>3, StoreDocuments
<1> QED
  BY <1>1, <1>2, <1>3, <1>4, <1>5 DEF Ready

\* A handler whose document is missing refuses and leaves the store whole.
LEMMA MissingEnds == ASSUME NEW c, NEW R, Ready(c, R), Missing(c) PROVE Ends(c, R)
<1>1. PICK how \in {"refused", "raised"} : Answer(c, store, how)
  BY DEF Missing
<1>2. Leaves(c, store, how, R)
  BY NothingLeaves
<1> QED
  BY <1>1, <1>2, EndsSo

\* A document that neither moves stock nor settles anything.
LEMMA PlainEnds ==
    ASSUME NEW c, NEW R, Ready(c, R), NEW doc \in Documents, doc.kind \in {"till", "order", "dispute", "job", "sync"},
           doc.kind = "till" => doc.cash = 0, Answer(c, File(c, store, doc), "done")
    PROVE  Ends(c, R)
<1>1. IsStore(store) /\ store.stock["home"] \in Int /\ store.stock["away"] \in Int
  BY StoreNumbers DEF Ready
<1>2. Moved(doc) = 0
  BY DEF Moved
<1>3. Cites(doc) = 0
  BY DEF Cites
<1>4. 0 \notin DOMAIN store.docs
  BY DEF Ready
<1>5. MayFile(c, store, doc, R)
  BY <1>1, <1>2, <1>3, <1>4 DEF MayFile
<1>6. Leaves(c, File(c, store, doc), "done", R)
  BY <1>5, FiledLeaves
<1> QED
  BY <1>6, EndsSo

\* A document that settles another and moves no stock.
LEMMA CitingEnds ==
    ASSUME NEW c, NEW R, Ready(c, R), NEW doc \in Documents, doc.kind \in {"lot", "invoice", "payment"},
           doc.kind = "lot" => doc.off = 0, doc.of = calls[c].of,
           calls[c].of \in DOMAIN store.docs \ R => MayCite(store, doc), Answer(c, File(c, store, doc), "done")
    PROVE  Ends(c, R)
<1>1. IsStore(store) /\ store.stock["home"] \in Int /\ store.stock["away"] \in Int
  BY StoreNumbers DEF Ready
<1>2. Moved(doc) = 0
  <2>1. doc.kind = "lot" => Moved(doc) = 0
    BY DEF Moved
  <2>2. doc.kind = "invoice" => Moved(doc) = 0
    BY DEF Moved
  <2>3. doc.kind = "payment" => Moved(doc) = 0
    BY DEF Moved
  <2> QED
    BY <2>1, <2>2, <2>3
<1>3. Cites(doc) = calls[c].of
  BY DEF Cites
<1>4. MayFile(c, store, doc, R)
  BY <1>1, <1>2, <1>3 DEF MayFile
<1>5. Leaves(c, File(c, store, doc), "done", R)
  BY <1>4, FiledLeaves
<1> QED
  BY <1>5, EndsSo

\* A document filed after its entry in the ledger of the branch.
LEMMA MovingEnds ==
    ASSUME NEW c, NEW R, Ready(c, R), NEW doc \in Documents, doc.kind \in {"return", "count", "receipt", "supplier_return"},
           NEW s, IsStore(s), s.docs = store.docs, s.stock["home"] = store.stock["home"] + Moved(doc),
           s.stock["away"] = store.stock["away"], s.invoices = store.invoices,
           Cites(doc) \in {0, calls[c].of}, Cites(doc) \in DOMAIN store.docs \ R => MayCite(store, doc),
           Answer(c, File(c, s, doc), "done")
    PROVE  Ends(c, R)
<1>1. IsStore(store) /\ store.stock["home"] \in Int /\ store.stock["away"] \in Int
  BY StoreNumbers DEF Ready
<1>2. MayFile(c, s, doc, R)
  BY <1>1 DEF MayFile
<1>3. Leaves(c, File(c, s, doc), "done", R)
  BY <1>2, FiledLeaves
<1> QED
  BY <1>3, EndsSo

\* The handler of opening a cash session leaves the store whole, whatever it answers.
LEMMA OpenEnds == ASSUME NEW c, NEW R, Ready(c, R), OpenCashSession(c) PROVE Ends(c, R)
<1>1. PICK doc : doc = [kind |-> "till", status |-> "OPEN", cash |-> 0]
  OBVIOUS
<1>2. doc \in Documents /\ doc.kind = "till" /\ doc.cash = 0
  <2>1. doc \in [kind : {"till"}, status : Words, cash : Int]
    BY <1>1 DEF Ready, Words
  <2> QED
    BY <1>1, <2>1 DEF Documents
<1>3. Answer(c, File(c, store, doc), "done")
  BY <1>1 DEF OpenCashSession
<1> QED
  BY <1>2, <1>3, PlainEnds

\* The handler of creating a purchase order leaves the store whole, whatever it answers.
LEMMA OrderEnds == ASSUME NEW c, NEW R, Ready(c, R), CreatePurchaseOrder(c) PROVE Ends(c, R)
<1>1. PICK doc : doc = [kind |-> "order", qty |-> calls[c].n, status |-> "NOT_REQUESTED"]
  OBVIOUS
<1>2. doc \in Documents /\ doc.kind = "order"
  <2>1. doc \in [kind : {"order"}, qty : Nat, status : Words]
    BY <1>1 DEF Ready, Words
  <2> QED
    BY <1>1, <2>1 DEF Documents
<1>3. Answer(c, File(c, store, doc), "done")
  BY <1>1 DEF CreatePurchaseOrder
<1> QED
  BY <1>2, <1>3, PlainEnds

\* The handler of creating a vendor dispute leaves the store whole, whatever it answers.
LEMMA DisputeEnds == ASSUME NEW c, NEW R, Ready(c, R), CreateVendorDispute(c) PROVE Ends(c, R)
<1>1. PICK doc : doc = [kind |-> "dispute", of |-> calls[c].of, status |-> "OPEN"]
  OBVIOUS
<1>2. doc \in Documents /\ doc.kind = "dispute"
  <2>1. doc \in [kind : {"dispute", "job"}, of : Nat, status : Words]
    BY <1>1 DEF Ready, Words
  <2> QED
    BY <1>1, <2>1 DEF Documents
<1>3. Answer(c, File(c, store, doc), "done")
  BY <1>1 DEF CreateVendorDispute
<1> QED
  BY <1>2, <1>3, PlainEnds

\* The handler of queueing an invoice print leaves the store whole, whatever it answers.
LEMMA PrintEnds == ASSUME NEW c, NEW R, Ready(c, R), QueueInvoicePrintJob(c) PROVE Ends(c, R)
<1>1. PICK doc : doc = [kind |-> "job", of |-> calls[c].of, status |-> "QUEUED"]
  OBVIOUS
<1>2. doc \in Documents /\ doc.kind = "job"
  <2>1. doc \in [kind : {"dispute", "job"}, of : Nat, status : Words]
    BY <1>1 DEF Ready, Words
  <2> QED
    BY <1>1, <2>1 DEF Documents
<1>3. Answer(c, File(c, store, doc), "done")
  BY <1>1 DEF QueueInvoicePrintJob
<1> QED
  BY <1>2, <1>3, PlainEnds

\* The handler of pushing a sync record leaves the store whole, whatever it answers.
LEMMA PushEnds == ASSUME NEW c, NEW R, Ready(c, R), PushSyncRecord(c) PROVE Ends(c, R)
<1>1. PICK v \in Nat : v = IF calls[c].n < calls[c].m THEN calls[c].m ELSE calls[c].m + 1
  BY DEF Ready
<1>2. PICK doc : doc = [kind |-> "sync", version |-> v]
  OBVIOUS
<1>3. doc \in Documents /\ doc.kind = "sync"
  <2>1. doc \in [kind : {"sync"}, version : Nat]
    BY <1>2
  <2> QED
    BY <1>2, <2>1 DEF Documents
<1>4. Answer(c, File(c, store, doc), "done")
  BY <1>1, <1>2 DEF PushSyncRecord
<1> QED
  BY <1>3, <1>4, PlainEnds

\* The handler of creating a goods receipt leaves the store whole, whatever it answers.
LEMMA ReceiveEnds == ASSUME NEW c, NEW R, Ready(c, R), CreateGoodsReceipt(c) PROVE Ends(c, R)
<1>0. Looked(c, "receive")
  BY DEF CreateGoodsReceipt
<1>1. /\ calls[c].seen.docs[calls[c].of] \in Documents /\ IsAbout("receive", calls[c].seen.docs[calls[c].of].kind)
      /\ calls[c].of \in R \/ calls[c].seen = store
  BY <1>0, LookedIs
<1>2. PICK n \in Nat : n = calls[c].seen.docs[calls[c].of].qty
  <2>1. calls[c].seen.docs[calls[c].of].kind = "order"
    BY <1>1 DEF IsAbout
  <2> QED
    BY <1>1, <2>1, DocumentFields
<1>3. PICK doc : doc = [kind |-> "receipt", of |-> calls[c].of, qty |-> n]
  OBVIOUS
<1>4. PICK s : s = Post(store, "home", n)
  OBVIOUS
<1>5. CASE Receivable(calls[c].seen, calls[c].of)
  <2>1. doc \in Documents /\ doc.kind = "receipt" /\ Moved(doc) = n /\ Cites(doc) = calls[c].of
    <3>1. doc \in [kind : {"receipt", "invoice", "payment"}, of : Nat, qty : Nat]
      BY <1>3 DEF Ready
    <3>2. doc.kind = "receipt" /\ doc.qty = n /\ doc.of = calls[c].of
      BY <1>3
    <3>3. Moved(doc) = n
      BY <3>2 DEF Moved
    <3> QED
      BY <3>1, <3>2, <3>3 DEF Documents, Cites
  <2>2. /\ IsStore(s) /\ s.docs = store.docs /\ s.stock["home"] = store.stock["home"] + n
        /\ s.stock["away"] = store.stock["away"] /\ s.invoices = store.invoices
    <3>1. IsStore(store) /\ n \in Int
      BY <1>2 DEF Ready
    <3> QED
      BY <1>4, <3>1, EntryDoes
  <2>3. calls[c].of \notin R => MayCite(store, doc)
    BY <1>1, <1>5, <2>1 DEF Receivable, MayCite
  <2>4. Answer(c, File(c, s, doc), "done")
    BY <1>2, <1>3, <1>4, <1>5 DEF CreateGoodsReceipt
  <2> QED
    BY <2>1, <2>2, <2>3, <2>4, MovingEnds
<1>6. CASE ~Receivable(calls[c].seen, calls[c].of)
  <2>1. Answer(c, store, "refused")
    BY <1>6 DEF CreateGoodsReceipt
  <2> QED
    BY <2>1, NothingLeaves, EndsSo
<1> QED
  BY <1>5, <1>6

\* The handler of creating batch lots leaves the store whole, whatever it answers.
LEMMA LotsEnds == ASSUME NEW c, NEW R, Ready(c, R), CreateBatchLots(c) PROVE Ends(c, R)
<1>0. Looked(c, "lots")
  BY DEF CreateBatchLots
<1>1. calls[c].of \in R \/ calls[c].seen = store
  BY <1>0, LookedIs
<1>2. PICK doc : doc = [kind |-> "lot", of |-> calls[c].of, qty |-> calls[c].n, off |-> 0]
  OBVIOUS
<1>3. CASE Citing(calls[c].seen, "lot", calls[c].of) = {} /\ LotsMatch(calls[c].seen, calls[c].of, calls[c].n)
  <2>1. doc \in Documents /\ doc.kind = "lot" /\ doc.off = 0 /\ doc.of = calls[c].of /\ Cites(doc) = calls[c].of
    BY <1>2 DEF Documents, Ready, Cites
  <2>2. calls[c].of \notin R => MayCite(store, doc)
    BY <1>1, <1>3, <2>1 DEF MayCite
  <2>3. Answer(c, File(c, store, doc), "done")
    BY <1>2, <1>3 DEF CreateBatchLots
  <2> QED
    BY <2>1, <2>2, <2>3, CitingEnds
<1>4. CASE ~(Citing(calls[c].seen, "lot", calls[c].of) = {} /\ LotsMatch(calls[c].seen, calls[c].of, calls[c].n))
  <2>1. Answer(c, store, "refused")
    BY <1>4 DEF CreateBatchLots
  <2> QED
    BY <2>1, NothingLeaves, EndsSo
<1> QED
  BY <1>3, <1>4

\* The handler of creating a purchase invoice leaves the store whole, whatever it answers.
LEMMA InvoiceEnds == ASSUME NEW c, NEW R, Ready(c, R), CreatePurchaseInvoice(c) PROVE Ends(c, R)
<1>0. Looked(c, "invoice")
  BY DEF CreatePurchaseInvoice
<1>1. /\ calls[c].seen.docs[calls[c].of] \in Documents /\ IsAbout("invoice", calls[c].seen.docs[calls[c].of].kind)
      /\ calls[c].of \in R \/ calls[c].seen = store
  BY <1>0, LookedIs
<1>2. PICK n \in Nat : n = calls[c].seen.docs[calls[c].of].qty
  <2>1. calls[c].seen.docs[calls[c].of].kind = "receipt"
    BY <1>1 DEF IsAbout
  <2> QED
    BY <1>1, <2>1, DocumentFields
<1>3. PICK doc : doc = [kind |-> "invoice", of |-> calls[c].of, qty |-> n]
  OBVIOUS
<1>4. CASE Citing(calls[c].seen, "invoice", calls[c].of) = {}
  <2>1. doc \in Documents /\ doc.kind = "invoice" /\ doc.of = calls[c].of /\ Cites(doc) = calls[c].of
    BY <1>3 DEF Documents, Ready, Cites
  <2>2. calls[c].of \notin R => MayCite(store, doc)
    BY <1>1, <1>4, <2>1 DEF MayCite
  <2>3. Answer(c, File(c, store, doc), "done")
    BY <1>2, <1>3, <1>4 DEF CreatePurchaseInvoice
  <2> QED
    BY <2>1, <2>2, <2>3, CitingEnds
<1>5. CASE Citing(calls[c].seen, "invoice", calls[c].of) # {}
  <2>1. Answer(c, store, "refused")
    BY <1>5 DEF CreatePurchaseInvoice
  <2> QED
    BY <2>1, NothingLeaves, EndsSo
<1> QED
  BY <1>4, <1>5

\* What is paid on a document and what is sent back of it are natural numbers.
LEMMA PaidCounts ==
    ASSUME NEW s, IsStore(s), NEW d PROVE Paid(s, d) \in Nat /\ Credited(s, d) \in Nat
<1>1. PICK pay \in SettlingKinds : pay = "payment"
  BY DEF SettlingKinds
<1>2. PICK back \in SettlingKinds : back = "supplier_return"
  BY DEF SettlingKinds
<1>3. IsFiniteSet(Citing(s, pay, d)) /\ \A e \in Citing(s, pay, d) : s.docs[e].qty \in Nat
  BY CitingIsFiled
<1>4. IsFiniteSet(Citing(s, back, d)) /\ \A e \in Citing(s, back, d) : s.docs[e].qty \in Nat
  BY CitingIsFiled
<1>5. Quantities(s, Citing(s, pay, d)) \in Nat
  BY <1>3, QuantitiesCount
<1>6. Quantities(s, Citing(s, back, d)) \in Nat
  BY <1>4, QuantitiesCount
<1> QED
  BY <1>1, <1>2, <1>5, <1>6 DEF Paid, Credited

\* The greater of 0 and a number.
LEMMA GreaterIsThere ==
    ASSUME NEW x \in Int PROVE Max({0, x}) \in Int /\ Max({0, x}) >= 0 /\ Max({0, x}) \in {0, x}
<1>1. \E m \in {0, x} : \A y \in {0, x} : m >= y
  <2>1. CASE x >= 0
    BY <2>1
  <2>2. CASE ~(x >= 0)
    BY <2>2
  <2> QED
    BY <2>1, <2>2
<1> QED
  BY <1>1 DEF Max

\* The lesser of two numbers.
LEMMA LesserIsThere ==
    ASSUME NEW x \in Int, NEW y \in Int PROVE Min({x, y}) \in Int /\ Min({x, y}) \in {x, y}
<1>1. \E m \in {x, y} : \A z \in {x, y} : m <= z
  <2>1. CASE x <= y
    BY <2>1
  <2>2. CASE ~(x <= y)
    BY <2>2
  <2> QED
    BY <2>1, <2>2
<1> QED
  BY <1>1 DEF Min

\* The handler of creating a supplier payment leaves the store whole, whatever it answers.
LEMMA PayEnds == ASSUME NEW c, NEW R, Ready(c, R), CreateSupplierPayment(c) PROVE Ends(c, R)
<1>0. Looked(c, "pay")
  BY DEF CreateSupplierPayment
<1>1. /\ IsStore(calls[c].seen) /\ calls[c].seen.docs[calls[c].of] \in Documents
      /\ IsAbout("pay", calls[c].seen.docs[calls[c].of].kind)
      /\ calls[c].of \in R \/ calls[c].seen = store
  BY <1>0, LookedIs
<1>2. PICK n \in Nat : n = calls[c].n /\ n # 0
  BY <1>0 DEF Ready, Looked
<1>3. PICK bill \in Nat : bill = Invoiced(calls[c].seen, calls[c].of)
  <2>1. calls[c].seen.docs[calls[c].of].kind = "invoice"
    BY <1>1 DEF IsAbout
  <2> QED
    BY <1>1, <2>1, DocumentFields DEF Invoiced
<1>4. PICK back \in Nat, paid \in Nat : back = Credited(calls[c].seen, calls[c].of) /\ paid = Paid(calls[c].seen, calls[c].of)
  BY <1>1, PaidCounts
<1>5. PICK doc : doc = [kind |-> "payment", of |-> calls[c].of, qty |-> n]
  OBVIOUS
<1>6. CASE n <= Max({0, bill - back - paid})
  <2>1. doc \in Documents /\ doc.kind = "payment" /\ doc.of = calls[c].of /\ Cites(doc) = calls[c].of /\ doc.qty = n
    <3>1. doc \in [kind : {"receipt", "invoice", "payment"}, of : Nat, qty : Nat]
      BY <1>5 DEF Ready
    <3> QED
      BY <1>5, <3>1 DEF Documents, Cites
  <2>2. paid + n <= bill
    <3>1. bill - back - paid \in Int
      OBVIOUS
    <3>2. Max({0, bill - back - paid}) \in {0, bill - back - paid}
      BY <3>1, GreaterIsThere
    <3> QED
      BY <1>2, <1>6, <3>2
  <2>3. calls[c].of \notin R => MayCite(store, doc)
    BY <1>1, <1>3, <1>4, <2>1, <2>2 DEF MayCite
  <2>4. Answer(c, File(c, store, doc), "done")
    BY <1>2, <1>3, <1>4, <1>5, <1>6 DEF CreateSupplierPayment
  <2> QED
    BY <2>1, <2>3, <2>4, CitingEnds
<1>7. CASE ~(n <= Max({0, bill - back - paid}))
  <2>1. Answer(c, store, "refused")
    BY <1>2, <1>3, <1>4, <1>7 DEF CreateSupplierPayment
  <2> QED
    BY <2>1, NothingLeaves, EndsSo
<1> QED
  BY <1>6, <1>7

\* The handler of creating a supplier return leaves the store whole, whatever it answers.
LEMMA SupplierReturnEnds == ASSUME NEW c, NEW R, Ready(c, R), CreateSupplierReturn(c) PROVE Ends(c, R)
<1>0. Looked(c, "supplier_return")
  BY DEF CreateSupplierReturn
<1>1. /\ IsStore(calls[c].seen) /\ calls[c].seen.docs[calls[c].of] \in Documents
      /\ IsAbout("supplier_return", calls[c].seen.docs[calls[c].of].kind)
      /\ calls[c].of \in R \/ calls[c].seen = store
  BY <1>0, LookedIs
<1>2. PICK n \in Nat, m \in Nat : n = calls[c].n /\ m = calls[c].m
  BY DEF Ready
<1>3. PICK bill \in Nat : bill = Invoiced(calls[c].seen, calls[c].of)
  <2>1. calls[c].seen.docs[calls[c].of].kind = "invoice"
    BY <1>1 DEF IsAbout
  <2> QED
    BY <1>1, <2>1, DocumentFields DEF Invoiced
<1>4. PICK back \in Nat : back = Credited(calls[c].seen, calls[c].of)
  BY <1>1, PaidCounts
<1>5. PICK room \in Int : room = bill - back
  OBVIOUS
<1>6. PICK first : first = Post(store, "home", -n)
  OBVIOUS
<1>7. IsStore(store) /\ -n \in Int /\ -m \in Int /\ n + m \in Nat
  BY DEF Ready
<1>8. CASE n > room
  <2>1. Answer(c, store, "refused")
    BY <1>2, <1>3, <1>4, <1>5, <1>8 DEF CreateSupplierReturn
  <2> QED
    BY <2>1, NothingLeaves, EndsSo
<1>9. CASE n <= room /\ m > room
  <2>1. Answer(c, Post(store, "home", -n), "refused")
    BY <1>2, <1>3, <1>4, <1>5, <1>9 DEF CreateSupplierReturn
  <2>2. Leaves(c, Post(store, "home", -n), "refused", R)
    BY <1>7, PostedLeaves
  <2> QED
    BY <2>1, <2>2, EndsSo
<1>10. CASE n <= room /\ m <= room
  <2>1. PICK lines \in {1, 2} : lines = IF m = 0 THEN 1 ELSE 2
    OBVIOUS
  <2>2. PICK doc : doc = [kind |-> "supplier_return", of |-> calls[c].of, qty |-> n + m, lines |-> lines]
    OBVIOUS
  <2>3. PICK s : s = Post(first, "home", -m)
    OBVIOUS
  <2>4. /\ doc.kind = "supplier_return" /\ doc.of = calls[c].of /\ doc.qty = n + m /\ doc.lines = lines
        /\ Cites(doc) = calls[c].of /\ Moved(doc) = -(n + m)
    BY <2>2 DEF Cites, Moved
  <2>5. doc \in Documents
    <3>1. doc \in [kind : {"supplier_return"}, of : Nat, qty : Nat, lines : {1, 2}]
      BY <1>7, <2>2 DEF Ready
    <3> QED
      BY <3>1 DEF Documents
  <2>6. /\ IsStore(first) /\ first.docs = store.docs /\ first.invoices = store.invoices
        /\ first.stock["home"] = store.stock["home"] + (-n) /\ first.stock["away"] = store.stock["away"]
    BY <1>6, <1>7, EntryDoes
  <2>7. /\ IsStore(s) /\ s.docs = first.docs /\ s.invoices = first.invoices
        /\ s.stock["home"] = first.stock["home"] + (-m) /\ s.stock["away"] = first.stock["away"]
    BY <1>7, <2>3, <2>6, EntryDoes
  <2>8. PICK h \in Int : h = store.stock["home"]
    BY <1>7, StoreNumbers
  <2>9. s.stock["home"] = store.stock["home"] + Moved(doc)
    BY <2>4, <2>6, <2>7, <2>8
  <2>10. calls[c].of \notin R => MayCite(store, doc)
    <3>1. lines = 1 => back + (n + m) <= bill
      BY <1>5, <1>10, <2>1
    <3> QED
      BY <1>1, <1>3, <1>4, <2>4, <3>1 DEF MayCite
  <2>11. Answer(c, File(c, s, doc), "done")
    BY <1>2, <1>3, <1>4, <1>5, <1>6, <1>10, <2>1, <2>2, <2>3 DEF CreateSupplierReturn
  <2>12. Cites(doc) \in {0, calls[c].of} /\ (Cites(doc) \in DOMAIN store.docs \ R => MayCite(store, doc))
    BY <2>4, <2>10
  <2> QED
    BY <2>4, <2>5, <2>6, <2>7, <2>9, <2>11, <2>12, MovingEnds
<1> QED
  BY <1>8, <1>9, <1>10

\* The handler of creating a stock count leaves the store whole, whatever it answers.
LEMMA CountEnds == ASSUME NEW c, NEW R, Ready(c, R), CreateStockCount(c) PROVE Ends(c, R)
<1>0. IsStore(store) /\ calls[c].n \in Nat /\ 0 \notin DOMAIN store.docs
  BY DEF Ready
<1>1. PICK v \in Int : v = calls[c].n - store.stock["home"]
  BY <1>0, StoreNumbers
<1>2. PICK doc : doc = [kind |-> "count", qty |-> v]
  OBVIOUS
<1>3. PICK s : s = Post(store, "home", v)
  OBVIOUS
<1>4. doc.kind = "count" /\ doc.qty = v /\ Cites(doc) = 0 /\ Moved(doc) = v
  BY <1>2 DEF Cites, Moved
<1>5. doc \in Documents
  <2>1. doc \in [kind : {"count"}, qty : Int]
    BY <1>2
  <2> QED
    BY <2>1 DEF Documents
<1>6. /\ IsStore(s) /\ s.docs = store.docs /\ s.invoices = store.invoices
      /\ s.stock["home"] = store.stock["home"] + v /\ s.stock["away"] = store.stock["away"]
  BY <1>0, <1>3, EntryDoes
<1>7. Answer(c, File(c, s, doc), "done")
  BY <1>1, <1>2, <1>3 DEF CreateStockCount
<1>8. Cites(doc) \in {0, calls[c].of} /\ ~(Cites(doc) \in DOMAIN store.docs \ R)
  BY <1>0, <1>4
<1> QED
  BY <1>4, <1>5, <1>6, <1>7, <1>8, MovingEnds

\* The handler of creating a sale return leaves the store whole, whatever it answers.
LEMMA ReturnEnds ==
    ASSUME NEW c, NEW R, Ready(c, R), NEW status \in {"REFUND_APPROVED", "REFUND_PENDING_APPROVAL"}, CreateSaleReturn(c, status)
    PROVE  Ends(c, R)
<1>0. Underway(c, "return")
  BY DEF CreateSaleReturn
<1>1. calls[c].of \in DOMAIN store.docs /\ IsAbout("return", store.docs[calls[c].of].kind)
  BY <1>0, UnderwayIs
<1>2. IsStore(store) /\ 0 \notin DOMAIN store.docs /\ calls[c].of \in Nat
  BY DEF Ready
<1>3. PICK n \in Nat, m \in Nat : n = calls[c].n /\ m = calls[c].m
  BY DEF Ready
<1>4. PICK sold \in Nat : sold = store.docs[calls[c].of].qty
  <2>1. store.docs[calls[c].of].kind = "sale" /\ store.docs[calls[c].of] \in Documents
    BY <1>1, <1>2, StoreDocuments DEF IsAbout
  <2> QED
    BY <2>1, DocumentFields
<1>5. PICK s : s = Post(store, "home", n)
  OBVIOUS
<1>6. /\ IsStore(s) /\ s.docs = store.docs /\ s.invoices = store.invoices
      /\ s.stock["home"] = store.stock["home"] + n /\ s.stock["away"] = store.stock["away"]
  BY <1>2, <1>5, NatIsWhole, EntryDoes
<1>7. CASE m > sold
  <2>1. Answer(c, store, "refused")
    BY <1>3, <1>4, <1>7 DEF CreateSaleReturn
  <2> QED
    BY <2>1, NothingLeaves, EndsSo
<1>8. CASE m <= sold /\ m > n
  <2>1. Answer(c, Post(store, "home", n), "refused")
    BY <1>3, <1>4, <1>8 DEF CreateSaleReturn
  <2>2. n \in Int
    OBVIOUS
  <2>3. Leaves(c, Post(store, "home", n), "refused", R)
    BY <2>2, PostedLeaves
  <2> QED
    BY <2>1, <2>3, EndsSo
<1>9. CASE m <= sold /\ m <= n
  <2>1. PICK doc : doc = [kind |-> "return", of |-> calls[c].of, qty |-> n, refund |-> m, status |-> status]
    OBVIOUS
  <2>2. doc.kind = "return" /\ doc.qty = n /\ Cites(doc) = 0 /\ Moved(doc) = n
    BY <2>1 DEF Cites, Moved
  <2>3. doc \in Documents
    <3>1. doc \in [kind : {"return"}, of : Nat, qty : Nat, refund : Nat, status : Words]
      BY <1>2, <2>1 DEF Words
    <3> QED
      BY <3>1 DEF Documents
  <2>4. Answer(c, File(c, s, doc), "done")
    BY <1>3, <1>4, <1>5, <1>9, <2>1 DEF CreateSaleReturn
  <2>5. Cites(doc) \in {0, calls[c].of} /\ ~(Cites(doc) \in DOMAIN store.docs \ R)
    BY <1>2, <2>2
  <2> QED
    BY <1>6, <2>2, <2>3, <2>4, <2>5, MovingEnds
<1> QED
  BY <1>7, <1>8, <1>9

\* The handler of creating a transfer leaves the store whole, whatever it answers.
LEMMA TransferEnds == ASSUME NEW c, NEW R, Ready(c, R), CreateTransfer(c) PROVE Ends(c, R)
<1>1. IsStore(store) /\ 0 \notin DOMAIN store.docs
  BY DEF Ready
<1>2. PICK n \in Nat : n = calls[c].n
  BY DEF Ready
<1>3. PICK doc : doc = [kind |-> "transfer", qty |-> n]
  OBVIOUS
<1>4. PICK first : first = Post(store, "home", -n)
  OBVIOUS
<1>5. PICK s : s = Post(first, "away", n)
  OBVIOUS
<1>6. doc.kind = "transfer" /\ doc.qty = n /\ Cites(doc) = 0 /\ Moved(doc) = -n
  BY <1>3 DEF Cites, Moved
<1>7. doc \in Documents
  <2>1. doc \in [kind : {"transfer"}, qty : Nat]
    BY <1>3
  <2> QED
    BY <2>1 DEF Documents
<1>8. /\ IsStore(first) /\ first.docs = store.docs /\ first.invoices = store.invoices
      /\ first.stock["home"] = store.stock["home"] + (-n) /\ first.stock["away"] = store.stock["away"]
  BY <1>1, <1>4, NatIsWhole, EntryDoes
<1>9. /\ IsStore(s) /\ s.docs = first.docs /\ s.invoices = first.invoices
      /\ s.stock["away"] = first.stock["away"] + n /\ s.stock["home"] = first.stock["home"]
  <2>1. PICK away \in {"home", "away"} : away = "away"
    OBVIOUS
  <2>2. PICK home \in {"home", "away"} \ {away} : home = "home"
    BY <2>1
  <2>3. s = Post(first, away, n) /\ n \in Int /\ IsStore(first)
    BY <1>2, <1>5, <1>8, <2>1
  <2>4. /\ IsStore(s) /\ s.docs = first.docs /\ s.invoices = first.invoices
        /\ s.stock[away] = first.stock[away] + n /\ \A o \in {"home", "away"} \ {away} : s.stock[o] = first.stock[o]
    BY <2>1, <2>3, PostDoes
  <2> QED
    BY <2>1, <2>2, <2>4
<1>10. Answer(c, File(c, s, doc), "done")
  BY <1>2, <1>3, <1>4, <1>5 DEF CreateTransfer
<1>11. MayFile(c, s, doc, R)
  BY <1>1, <1>6, <1>7, <1>8, <1>9 DEF MayFile
<1>12. Leaves(c, File(c, s, doc), "done", R)
  BY <1>11, FiledLeaves
<1> QED
  BY <1>10, <1>12, EndsSo

\* A sale or an exchange that is filed: what is true of the store, and that nothing is settled by it.
LEMMA SaleMayAdd ==
    ASSUME NEW c, NEW R, Ready(c, R), NEW t, t.docs[calls[c].id].kind \in {"sale", "exchange"}
    PROVE  MayAdd(store, t, calls[c].id, R) /\ Cites(t.docs[calls[c].id]) \in {0, calls[c].of}
<1>1. Cites(t.docs[calls[c].id]) = 0
  BY DEF Cites
<1>2. 0 \notin DOMAIN store.docs /\ calls[c].id # 0 /\ Unused(calls[c].id, store)
  BY DEF Ready
<1> QED
  BY <1>1, <1>2 DEF MayAdd

\* The handler of creating a sale leaves the store whole, whatever it answers.
LEMMA SellEnds == ASSUME NEW c, NEW R, Ready(c, R), CreateSale(c) PROVE Ends(c, R)
<1>0. Underway(c, "sell")
  BY DEF CreateSale
<1>i. PICK i : i = calls[c].id
  OBVIOUS
<1>1. PICK till \in Nat, n \in Nat : till = calls[c].of /\ n = calls[c].n
  BY DEF Ready
<1>2. /\ IsStore(store) /\ 0 \notin DOMAIN store.docs /\ i # 0 /\ i \notin DOMAIN store.docs /\ till # i
      /\ calls[c].word \in {"whole", "refused", "raised"} /\ -n \in Int
  BY <1>0, <1>1, <1>i, UnderwayIs DEF Ready, Unused
<1>3. till = 0 \/ till \in Filed(store, "till")
  <2>1. till # 0 => till \in DOMAIN store.docs /\ IsAbout("sell", store.docs[till].kind)
    BY <1>0, <1>1, <1>i, UnderwayIs
  <2> QED
    BY <2>1 DEF IsAbout, Filed
<1>4. PICK sold : sold = Post(store, "home", -n)
  OBVIOUS
<1>5. /\ IsStore(sold) /\ sold.docs = store.docs /\ sold.invoices = store.invoices
      /\ sold.stock["home"] = store.stock["home"] + (-n) /\ sold.stock["away"] = store.stock["away"]
  BY <1>2, <1>4, EntryDoes
<1>6. PICK s : s = [sold EXCEPT !.invoices = @ + 1]
  OBVIOUS
<1>7. IsStore(s) /\ s.docs = store.docs /\ s.invoices = store.invoices + 1 /\ s.stock = sold.stock
  BY <1>5, <1>6, NumberDoes
<1>8. PICK number \in Nat : number = store.invoices + 1
  BY <1>2, StoreNumbers
<1>9. PICK doc : doc = [kind |-> "sale", qty |-> n, till |-> till, number |-> number, irn |-> "NOT_REQUIRED"]
  OBVIOUS
<1>10. doc.kind = "sale" /\ doc.qty = n /\ doc.till = till /\ doc.number = number /\ Moved(doc) = -n
  BY <1>9 DEF Moved
<1>11. doc \in Documents
  <2>1. doc \in [kind : {"sale"}, qty : Nat, till : Nat, number : Nat, irn : Words]
    BY <1>9 DEF Words
  <2> QED
    BY <2>1 DEF Documents
<1>12. PICK billed : billed = File(c, s, doc)
  OBVIOUS
<1>13. /\ IsStore(billed) /\ DOMAIN billed.docs = DOMAIN store.docs \cup {i} /\ billed.docs[i] = doc
       /\ \A d \in DOMAIN store.docs : billed.docs[d] = store.docs[d]
       /\ billed.invoices = s.invoices /\ billed.stock = s.stock
  <2>1. doc.till \in {0} \cup Filed(s, "till")
    BY <1>3, <1>7, <1>10 DEF Filed
  <2>2. calls[c].id \notin DOMAIN s.docs
    BY <1>1, <1>i, <1>2, <1>7
  <2> QED
    BY <1>1, <1>i, <1>7, <1>11, <1>12, <2>1, <2>2, FileDoes
<1>14. CASE calls[c].word # "whole" /\ Answer(c, sold, calls[c].word)
  <2>1. PICK how \in {"refused", "raised"} : how = calls[c].word
    BY <1>2, <1>14
  <2>2. Leaves(c, sold, how, R)
    BY <1>2, <1>4, PostedLeaves
  <2> QED
    BY <1>14, <2>1, <2>2, EndsSo
<1>15. CASE Answer(c, billed, "refused")
  <2>1. Adds(store, billed, i)
    BY <1>2, <1>13, AlikeItself DEF Adds
  <2>2. MayAdd(store, billed, calls[c].id, R) /\ Cites(billed.docs[calls[c].id]) \in {0, calls[c].of}
    BY <1>1, <1>i, <1>10, <1>13, SaleMayAdd
  <2>3. Leaves(c, billed, "refused", R)
    BY <1>1, <1>i, <2>1, <2>2, AddedLeaves
  <2> QED
    BY <1>15, <2>3, EndsSo
<1>16. CASE Answer(c, Takes(billed, till, n), "done")
  <2>1. PICK t : t = Takes(billed, till, n)
    OBVIOUS
  <2>2. 0 \notin DOMAIN billed.docs /\ n \in Int /\ (till = 0 \/ till \in Filed(billed, "till"))
    BY <1>2, <1>3, <1>13 DEF Filed
  <2>3. /\ IsStore(t) /\ DOMAIN t.docs = DOMAIN billed.docs
        /\ \A d \in DOMAIN billed.docs : Alike(billed.docs[d], t.docs[d]) /\ (d # till => t.docs[d] = billed.docs[d])
        /\ till # 0 => t.docs[till].cash = billed.docs[till].cash + n
        /\ t.invoices = billed.invoices /\ t.stock = billed.stock
    BY <1>13, <2>1, <2>2, TakesDoes
  <2>4. t.docs[i] = doc
    BY <1>2, <1>13, <2>3
  <2>5. Adds(store, t, i)
    <3>1. ASSUME NEW d \in DOMAIN store.docs
          PROVE  Alike(store.docs[d], t.docs[d]) /\ (store.docs[d].kind = "lot" => t.docs[d].off = store.docs[d].off)
      <4>1. Alike(store.docs[d], t.docs[d]) /\ (d # till => t.docs[d] = store.docs[d])
        BY <1>13, <2>3
      <4>2. store.docs[d].kind = "lot" => d # till
        BY <1>2, <1>3 DEF Filed
      <4> QED
        BY <4>1, <4>2
    <3> QED
      BY <1>2, <1>13, <2>3, <3>1 DEF Adds
  <2>6. Books(store, t, i)
    <3>1. t.stock["home"] = store.stock["home"] + Moved(doc)
      BY <1>5, <1>7, <1>10, <1>13, <2>3
    <3>2. t.stock["away"] = store.stock["away"] + 0
      BY <1>2, <1>5, <1>7, <1>13, <2>3, StoreNumbers
    <3>3. ASSUME NEW o \in Filed(store, "till")
          PROVE  t.docs[o].cash = store.docs[o].cash + (IF till = o THEN n ELSE 0)
      <4>1. o \in DOMAIN store.docs /\ o # 0 /\ store.docs[o].kind = "till"
        BY <1>2 DEF Filed
      <4>2. store.docs[o].cash \in Int
        BY <1>2, <4>1, StoreDocuments, DocumentFields
      <4>3. CASE till = o
        BY <1>13, <2>3, <4>1, <4>3
      <4>4. CASE till # o
        BY <1>13, <2>3, <4>1, <4>2, <4>4
      <4> QED
        BY <4>3, <4>4
    <3>4. t.invoices = store.invoices + 1 /\ doc.number = t.invoices
      BY <1>7, <1>8, <1>10, <1>13, <2>3
    <3> QED
      BY <1>10, <2>4, <3>1, <3>2, <3>3, <3>4 DEF Books
  <2>7. MayAdd(store, t, calls[c].id, R) /\ Cites(t.docs[calls[c].id]) \in {0, calls[c].of}
    BY <1>1, <1>i, <1>10, <2>4, SaleMayAdd
  <2>8. Leaves(c, t, "done", R)
    BY <1>1, <1>i, <2>5, <2>6, <2>7, AddedLeaves
  <2> QED
    BY <1>16, <2>1, <2>8, EndsSo
<1>17. \/ calls[c].word # "whole" /\ Answer(c, sold, calls[c].word)
       \/ Answer(c, billed, "refused")
       \/ Answer(c, Takes(billed, till, n), "done")
  BY <1>1, <1>i, <1>4, <1>6, <1>8, <1>9, <1>12 DEF CreateSale
<1> QED
  BY <1>14, <1>15, <1>16, <1>17

\* The handler of creating an exchange leaves the store whole, whatever it answers.
LEMMA ExchangeEnds == ASSUME NEW c, NEW R, Ready(c, R), CreateExchangeOrder(c) PROVE Ends(c, R)
<1>0. Underway(c, "exchange")
  BY DEF CreateExchangeOrder
<1>i. PICK i : i = calls[c].id
  OBVIOUS
<1>1. PICK of \in Nat, n \in Nat, m \in Nat : of = calls[c].of /\ n = calls[c].n /\ m = calls[c].m
  BY DEF Ready
<1>2. /\ IsStore(store) /\ 0 \notin DOMAIN store.docs /\ i # 0 /\ i \notin DOMAIN store.docs
      /\ n - m \in Int /\ m - n \in Int
  BY <1>1, <1>i DEF Ready, Unused
<1>3. of \in DOMAIN store.docs /\ store.docs[of].kind = "sale"
  BY <1>0, <1>1, <1>i, UnderwayIs DEF IsAbout
<1>4. PICK till \in Nat : till = store.docs[of].till /\ (till = 0 \/ till \in Filed(store, "till"))
  <2>1. of \in Filed(store, "sale")
    BY <1>3 DEF Filed
  <2>2. store.docs[of].till \in {0} \cup Filed(store, "till")
    BY <1>2, <2>1 DEF IsStore
  <2>3. store.docs[of].till \in Nat
    BY <1>2, <1>3, StoreDocuments, DocumentFields
  <2> QED
    BY <2>2, <2>3
<1>5. PICK moved : moved = Post(store, "home", n - m)
  OBVIOUS
<1>6. /\ IsStore(moved) /\ moved.docs = store.docs /\ moved.invoices = store.invoices
      /\ moved.stock["home"] = store.stock["home"] + (n - m) /\ moved.stock["away"] = store.stock["away"]
  BY <1>2, <1>5, EntryDoes
<1>7. PICK s : s = Takes(moved, till, m - n)
  OBVIOUS
<1>8. PICK doc : doc = [kind |-> "exchange", of |-> of, till |-> till, qty |-> m - n]
  OBVIOUS
<1>9. doc.kind = "exchange" /\ doc.qty = m - n /\ doc.till = till /\ Moved(doc) = -(m - n)
  BY <1>8 DEF Moved
<1>10. doc \in Documents
  <2>1. doc \in [kind : {"exchange"}, of : Nat, till : Nat, qty : Int]
    BY <1>2, <1>8
  <2> QED
    BY <2>1 DEF Documents
<1>11. CASE Answer(c, moved, "refused")
  <2>1. Leaves(c, moved, "refused", R)
    BY <1>2, <1>5, PostedLeaves
  <2> QED
    BY <1>11, <2>1, EndsSo
<1>12. CASE Answer(c, File(c, s, doc), "done")
  <2>1. /\ IsStore(s) /\ DOMAIN s.docs = DOMAIN store.docs
        /\ \A d \in DOMAIN store.docs : Alike(store.docs[d], s.docs[d]) /\ (d # till => s.docs[d] = store.docs[d])
        /\ till # 0 => s.docs[till].cash = store.docs[till].cash + (m - n)
        /\ s.invoices = store.invoices /\ s.stock = moved.stock
    <3>1. 0 \notin DOMAIN moved.docs /\ (till = 0 \/ till \in Filed(moved, "till"))
      BY <1>2, <1>4, <1>6 DEF Filed
    <3> QED
      BY <1>2, <1>6, <1>7, <3>1, TakesDoes
  <2>2. PICK t : t = File(c, s, doc)
    OBVIOUS
  <2>3. /\ IsStore(t) /\ DOMAIN t.docs = DOMAIN s.docs \cup {i} /\ t.docs[i] = doc
        /\ \A d \in DOMAIN s.docs : t.docs[d] = s.docs[d]
        /\ t.invoices = s.invoices /\ t.stock = s.stock
    <3>1. till = 0 \/ till \in Filed(s, "till")
      BY <1>4, <2>1 DEF Filed, Alike
    <3>2. doc.till \in {0} \cup Filed(s, "till") /\ calls[c].id \notin DOMAIN s.docs
      BY <1>1, <1>i, <1>2, <1>9, <2>1, <3>1
    <3> QED
      BY <1>1, <1>i, <1>10, <2>1, <2>2, <3>2, FileDoes
  <2>4. Adds(store, t, i)
    <3>1. ASSUME NEW d \in DOMAIN store.docs
          PROVE  Alike(store.docs[d], t.docs[d]) /\ (store.docs[d].kind = "lot" => t.docs[d].off = store.docs[d].off)
      <4>1. Alike(store.docs[d], t.docs[d]) /\ (d # till => t.docs[d] = store.docs[d])
        BY <2>1, <2>3
      <4>2. store.docs[d].kind = "lot" => d # till
        BY <1>2, <1>4 DEF Filed
      <4> QED
        BY <4>1, <4>2
    <3> QED
      BY <1>2, <2>1, <2>3, <3>1 DEF Adds
  <2>5. Books(store, t, i)
    <3>1. t.stock["home"] = store.stock["home"] + Moved(doc)
      <4>1. store.stock["home"] \in Int
        BY <1>2, StoreNumbers
      <4> QED
        BY <1>6, <1>9, <2>1, <2>3, <4>1
    <3>2. t.stock["away"] = store.stock["away"] + 0
      BY <1>2, <1>6, <2>1, <2>3, StoreNumbers
    <3>3. ASSUME NEW o \in Filed(store, "till")
          PROVE  t.docs[o].cash = store.docs[o].cash + (IF till = o THEN m - n ELSE 0)
      <4>1. o \in DOMAIN store.docs /\ o # 0 /\ store.docs[o].kind = "till"
        BY <1>2 DEF Filed
      <4>2. store.docs[o].cash \in Int
        BY <1>2, <4>1, StoreDocuments, DocumentFields
      <4>3. CASE till = o
        BY <2>1, <2>3, <4>1, <4>3
      <4>4. CASE till # o
        BY <2>1, <2>3, <4>1, <4>2, <4>4
      <4> QED
        BY <4>3, <4>4
    <3>4. t.invoices = store.invoices + 0
      BY <1>2, <2>1, <2>3, StoreNumbers
    <3> QED
      BY <1>9, <2>3, <3>1, <3>2, <3>3, <3>4 DEF Books
  <2>6. MayAdd(store, t, calls[c].id, R) /\ Cites(t.docs[calls[c].id]) \in {0, calls[c].of}
    BY <1>1, <1>i, <1>9, <2>3, SaleMayAdd
  <2>7. Leaves(c, t, "done", R)
    BY <1>1, <1>i, <2>4, <2>5, <2>6, AddedLeaves
  <2> QED
    BY <1>12, <2>2, <2>7, EndsSo
<1>13. Answer(c, moved, "refused") \/ Answer(c, File(c, s, doc), "done")
  BY <1>1, <1>i, <1>4, <1>5, <1>7, <1>8 DEF CreateExchangeOrder
<1> QED
  BY <1>11, <1>12, <1>13


\* A refusal that has written nothing.
LEMMA RefusedEnds == ASSUME NEW c, NEW R, Ready(c, R), Answer(c, store, "refused") PROVE Ends(c, R)
BY NothingLeaves, EndsSo

\* A status that is written into a document.
LEMMA StatusLeaves ==
    ASSUME NEW c, NEW R, Ready(c, R), NEW of \in DOMAIN store.docs, NEW word \in Words,
           store.docs[of].kind \in {"till", "order", "return", "dispute", "job"}
    PROVE  /\ Leaves(c, [store EXCEPT !.docs[of].status = word], "done", R)
           /\ Leaves(c, [store EXCEPT !.docs[of] = [store.docs[of] EXCEPT !.status = word]], "done", R)
<1>1. PICK doc : doc = [store.docs[of] EXCEPT !.status = word]
  OBVIOUS
<1>2. IsStore(store)
  BY DEF Ready
<1>3. store.docs[of] \in Documents
  BY <1>2, StoreDocuments
<1>4. doc \in Documents /\ Still(store.docs[of], doc)
  BY <1>1, <1>3, StatusChanges
<1>5. Leaves(c, [store EXCEPT !.docs[of] = doc], "done", R)
  BY <1>4, AmendedLeaves
<1>6. [store EXCEPT !.docs[of].status = word] = [store EXCEPT !.docs[of] = doc]
  BY <1>1, <1>2, FieldsAreWritten
<1> QED
  BY <1>1, <1>5, <1>6

\* A handler that marks a sale for the tax office leaves the store whole.
LEMMA MarkLeaves ==
    ASSUME NEW c, NEW R, Ready(c, R), NEW of \in DOMAIN store.docs, NEW word \in Words, store.docs[of].kind = "sale"
    PROVE  Leaves(c, [store EXCEPT !.docs[of].irn = word], "done", R)
<1>1. PICK doc : doc = [store.docs[of] EXCEPT !.irn = word]
  OBVIOUS
<1>2. IsStore(store)
  BY DEF Ready
<1>3. store.docs[of] \in Documents
  BY <1>2, StoreDocuments
<1>4. doc \in Documents /\ Still(store.docs[of], doc)
  BY <1>1, <1>3, MarkChanges
<1>5. Leaves(c, [store EXCEPT !.docs[of] = doc], "done", R)
  BY <1>4, AmendedLeaves
<1>6. [store EXCEPT !.docs[of].irn = word] = [store EXCEPT !.docs[of] = doc]
  BY <1>1, <1>2, FieldsAreWritten
<1> QED
  BY <1>5, <1>6

\* The handlers that write a status into what they have looked up.
LEMMA AmendEnds ==
    ASSUME NEW c, NEW R, Ready(c, R), NEW word \in Words,
           calls[c].of \in DOMAIN store.docs => store.docs[calls[c].of].kind \in {"till", "order", "dispute"},
           ~calls[c].aside => calls[c].of \in DOMAIN store.docs,
           Answer(c, Amend(c, [store.docs[calls[c].of] EXCEPT !.status = word]), "done")
    PROVE  Ends(c, R)
<1>1. CASE calls[c].aside
  <2>1. Answer(c, store, "done")
    BY <1>1 DEF Amend
  <2> QED
    BY <2>1, NothingLeaves, EndsSo
<1>2. CASE ~calls[c].aside
  <2>1. PICK of \in DOMAIN store.docs : of = calls[c].of
    BY <1>2
  <2>2. PICK s : s = [store EXCEPT !.docs[of] = [store.docs[of] EXCEPT !.status = word]]
    OBVIOUS
  <2>3. Leaves(c, s, "done", R)
    BY <2>1, <2>2, StatusLeaves
  <2>4. Answer(c, s, "done")
    BY <1>2, <2>1, <2>2 DEF Amend
  <2> QED
    BY <2>3, <2>4, EndsSo
<1> QED
  BY <1>1, <1>2

\* The handler of closing a cash session leaves the store whole, whatever it answers.
LEMMA CloseEnds == ASSUME NEW c, NEW R, Ready(c, R), CloseCashSession(c) PROVE Ends(c, R)
<1>0. Looked(c, "close")
  BY DEF CloseCashSession
<1>1. /\ ~calls[c].aside => calls[c].of \in DOMAIN store.docs
      /\ calls[c].of \in DOMAIN store.docs => IsAbout("close", store.docs[calls[c].of].kind)
  BY <1>0, LookedIs
<1>2. calls[c].of \in DOMAIN store.docs => store.docs[calls[c].of].kind = "till"
  BY <1>1 DEF IsAbout
<1>3. PICK word \in Words : word = "CLOSED"
  BY DEF Words
<1>4. \/ Answer(c, Amend(c, [store.docs[calls[c].of] EXCEPT !.status = word]), "done")
      \/ Answer(c, store, "refused")
  BY <1>3 DEF CloseCashSession
<1> QED
  BY <1>1, <1>2, <1>4, AmendEnds, RefusedEnds

\* Changed: a document of such a kind gets the status it is to have.
LEMMA ChangedEnds ==
    ASSUME NEW c, NEW R, Ready(c, R), NEW from, NEW word \in Words, Changed(c, from, word),
           calls[c].of \in DOMAIN store.docs => store.docs[calls[c].of].kind \in {"till", "order", "dispute"},
           ~calls[c].aside => calls[c].of \in DOMAIN store.docs
    PROVE  Ends(c, R)
<1>1. \/ Answer(c, Amend(c, [store.docs[calls[c].of] EXCEPT !.status = word]), "done")
      \/ Answer(c, store, "refused")
  BY DEF Changed
<1> QED
  BY <1>1, AmendEnds, RefusedEnds

\* The handler of submitting a purchase order leaves the store whole, whatever it answers.
LEMMA SubmitEnds == ASSUME NEW c, NEW R, Ready(c, R), SubmitPurchaseOrder(c) PROVE Ends(c, R)
<1>0. Looked(c, "submit")
  BY DEF SubmitPurchaseOrder
<1>1. /\ ~calls[c].aside => calls[c].of \in DOMAIN store.docs
      /\ calls[c].of \in DOMAIN store.docs => IsAbout("submit", store.docs[calls[c].of].kind)
  BY <1>0, LookedIs
<1>2. calls[c].of \in DOMAIN store.docs => store.docs[calls[c].of].kind = "order"
  BY <1>1 DEF IsAbout
<1>3. PICK word \in Words : word = "PENDING_APPROVAL"
  BY DEF Words
<1>4. Changed(c, {"NOT_REQUESTED", "REJECTED"}, word)
  BY <1>3 DEF SubmitPurchaseOrder
<1> QED
  BY <1>1, <1>2, <1>4, ChangedEnds

\* The handler of deciding a purchase order leaves the store whole, whatever it answers.
LEMMA DecideEnds == ASSUME NEW c, NEW R, Ready(c, R), DecidePurchaseOrder(c) PROVE Ends(c, R)
<1>0. Looked(c, "decide")
  BY DEF DecidePurchaseOrder
<1>1. /\ ~calls[c].aside => calls[c].of \in DOMAIN store.docs
      /\ calls[c].of \in DOMAIN store.docs => IsAbout("decide", store.docs[calls[c].of].kind)
  BY <1>0, LookedIs
<1>2. calls[c].of \in DOMAIN store.docs => store.docs[calls[c].of].kind = "order"
  BY <1>1 DEF IsAbout
<1>3. PICK word \in Words : word = calls[c].word
  BY <1>0 DEF Ready, Looked
<1>4. Changed(c, {"PENDING_APPROVAL"}, word)
  BY <1>3 DEF DecidePurchaseOrder
<1> QED
  BY <1>1, <1>2, <1>4, ChangedEnds

\* The handler of resolving a vendor dispute leaves the store whole, whatever it answers.
LEMMA ResolveEnds == ASSUME NEW c, NEW R, Ready(c, R), ResolveVendorDispute(c) PROVE Ends(c, R)
<1>0. Looked(c, "resolve")
  BY DEF ResolveVendorDispute
<1>1. /\ ~calls[c].aside => calls[c].of \in DOMAIN store.docs
      /\ calls[c].of \in DOMAIN store.docs => IsAbout("resolve", store.docs[calls[c].of].kind)
  BY <1>0, LookedIs
<1>2. calls[c].of \in DOMAIN store.docs => store.docs[calls[c].of].kind = "dispute"
  BY <1>1 DEF IsAbout
<1>3. PICK word \in Words : word = "RESOLVED"
  BY DEF Words
<1>4. Changed(c, {"OPEN"}, word)
  BY <1>3 DEF ResolveVendorDispute
<1> QED
  BY <1>1, <1>2, <1>4, ChangedEnds

\* The handler of approving a refund leaves the store whole, whatever it answers.
LEMMA ApproveEnds == ASSUME NEW c, NEW R, Ready(c, R), ApproveRefund(c) PROVE Ends(c, R)
<1>0. Underway(c, "approve")
  BY DEF ApproveRefund
<1>1. calls[c].of \in DOMAIN store.docs /\ IsAbout("approve", store.docs[calls[c].of].kind)
  BY <1>0, UnderwayIs
<1>2. store.docs[calls[c].of].kind = "return"
  BY <1>1 DEF IsAbout
<1>3. PICK word \in Words : word = "REFUND_APPROVED"
  BY DEF Words
<1>4. Answer(c, [store EXCEPT !.docs[calls[c].of].status = word], "done")
  BY <1>3 DEF ApproveRefund
<1> QED
  BY <1>1, <1>2, <1>4, StatusLeaves, EndsSo

\* The handler of completing a print job leaves the store whole, whatever it answers.
LEMMA CompleteEnds == ASSUME NEW c, NEW R, Ready(c, R), CompletePrintJob(c) PROVE Ends(c, R)
<1>0. Underway(c, "complete")
  BY DEF CompletePrintJob
<1>1. calls[c].of \in DOMAIN store.docs /\ IsAbout("complete", store.docs[calls[c].of].kind)
  BY <1>0, UnderwayIs
<1>2. store.docs[calls[c].of].kind = "job"
  BY <1>1 DEF IsAbout
<1>3. PICK word \in Words : word = calls[c].word
  BY <1>0 DEF Ready, Underway
<1>4. Answer(c, [store EXCEPT !.docs[calls[c].of].status = word], "done")
  BY <1>3 DEF CompletePrintJob
<1> QED
  BY <1>1, <1>2, <1>4, StatusLeaves, EndsSo

\* The handler of creating a GST export leaves the store whole, whatever it answers.
LEMMA ExportEnds == ASSUME NEW c, NEW R, Ready(c, R), CreateGstExport(c) PROVE Ends(c, R)
<1>0. Underway(c, "export")
  BY DEF CreateGstExport
<1>1. calls[c].of \in DOMAIN store.docs /\ IsAbout("export", store.docs[calls[c].of].kind)
  BY <1>0, UnderwayIs
<1>2. store.docs[calls[c].of].kind = "sale"
  BY <1>1 DEF IsAbout
<1>3. PICK word \in Words : word = "IRN_PENDING"
  BY DEF Words
<1>4. Answer(c, [store EXCEPT !.docs[calls[c].of].irn = word], "done")
  BY <1>3 DEF CreateGstExport
<1> QED
  BY <1>1, <1>2, <1>4, MarkLeaves, EndsSo

\* The handler of attaching an IRN leaves the store whole, whatever it answers.
LEMMA AttachEnds == ASSUME NEW c, NEW R, Ready(c, R), CompleteIrnAttachment(c) PROVE Ends(c, R)
<1>0. Underway(c, "attach")
  BY DEF CompleteIrnAttachment
<1>1. calls[c].of \in DOMAIN store.docs /\ IsAbout("attach", store.docs[calls[c].of].kind)
  BY <1>0, UnderwayIs
<1>2. store.docs[calls[c].of].kind = "sale"
  BY <1>1 DEF IsAbout
<1>3. PICK word \in Words : word = "IRN_ATTACHED"
  BY DEF Words
<1>4. Answer(c, [store EXCEPT !.docs[calls[c].of].irn = word], "done")
  BY <1>3 DEF CompleteIrnAttachment
<1> QED
  BY <1>1, <1>2, <1>4, MarkLeaves, EndsSo

\* The handler of updating the tenant status leaves the store whole, whatever it answers.
LEMMA TenantEnds == ASSUME NEW c, NEW R, Ready(c, R), UpdateTenantStatus(c) PROVE Ends(c, R)
<1>1. PICK word \in Words : word = calls[c].word
  BY DEF Ready, UpdateTenantStatus, Underway
<1>2. PICK s : s = [store EXCEPT !.tenant = word]
  OBVIOUS
<1>3. IsStore(store)
  BY DEF Ready
<1>4. IsStore(s) /\ s.docs = store.docs /\ s.invoices = store.invoices /\ s.stock = store.stock
  BY <1>2, <1>3, TenantDoes
<1>5. Amends(store, s)
  BY <1>3, <1>4, AlikeItself DEF Amends
<1>6. BooksAgree(store) => BooksAgree(s)
  <2>1. \A d \in DOMAIN store.docs : Still(store.docs[d], s.docs[d])
    BY <1>4, AlikeItself
  <2> QED
    BY <1>4, <1>5, <2>1, BooksStay
<1>7. Leaves(c, s, "done", R)
  BY <1>3, <1>4, <1>6, SameLeaves
<1>8. Answer(c, s, "done")
  BY <1>1, <1>2 DEF UpdateTenantStatus
<1> QED
  BY <1>7, <1>8, EndsSo


\* What is left of some lots.
LEMMA LeftSums ==
    ASSUME NEW s, NEW ids, IsFiniteSet(ids), \A l \in ids : Left(s, l) \in Int
    PROVE  SumFunction([l \in ids |-> Left(s, l)]) \in Int
<1>1. PICK f : f = [l \in ids |-> Left(s, l)]
  OBVIOUS
<1>2. SumFunctionOnSet(f, ids) \in Int
  <2>1. CASE ids = {}
    BY <2>1, SumOfNothing
  <2>2. CASE ids # {}
    <3>1. PICK x : x \in ids
      BY <2>2
    <3>2. f[x] = f[x] + 0
      BY <1>1, <3>1
    <3>3. TermMoved(f, f, ids, x, 0)
      BY <1>1, <3>1, <3>2 DEF TermMoved, Whole, Same
    <3> QED
      BY <3>3, SumMoves
  <2> QED
    BY <2>1, <2>2
<1> QED
  BY <1>1, <1>2 DEF SumFunction

\* What remains of a lot that has lost no more than it holds is no more than what is left of it.
LEMMA RemainingFits ==
    ASSUME NEW s, IsStore(s), NEW lot \in DOMAIN s.docs, s.docs[lot].kind = "lot", s.docs[lot].off <= s.docs[lot].qty
    PROVE  /\ Left(s, lot) \in Int /\ Remaining(s, lot) \in Int /\ Remaining(s, lot) <= Left(s, lot)
<1>1. PICK lots : lots = Filed(s, "lot")
  OBVIOUS
<1>2. IsFiniteSet(lots) /\ \A l \in lots : Left(s, l) \in Int
  <2>1. IsFiniteSet(DOMAIN s.docs) /\ lots \subseteq DOMAIN s.docs
    BY <1>1, StoreDocuments DEF Filed
  <2>2. ASSUME NEW l \in lots PROVE Left(s, l) \in Int
    <3>1. s.docs[l] \in Documents /\ s.docs[l].kind = "lot"
      BY <1>1, <2>1, StoreDocuments DEF Filed
    <3>2. s.docs[l].qty \in Nat /\ s.docs[l].off \in Nat
      BY <3>1, DocumentFields
    <3> QED
      BY <3>2 DEF Left
  <2> QED
    BY <2>1, <2>2, FS_Subset
<1>3. lot \in lots /\ s.docs[lot] \in Documents
  BY <1>1, StoreDocuments DEF Filed
<1>4. PICK left \in Nat : left = Left(s, lot)
  <2>1. s.docs[lot].qty \in Nat /\ s.docs[lot].off \in Nat
    BY <1>3, DocumentFields
  <2> QED
    BY <2>1 DEF Left
<1>5. PICK tracked \in Int : tracked = SumFunction([l \in lots |-> Left(s, l)])
  BY <1>2, LeftSums
<1>6. PICK before \in Int : before = SumFunction([l \in {k \in lots : k < lot} |-> Left(s, l)])
  <2>1. PICK earlier : earlier = {k \in lots : k < lot}
    OBVIOUS
  <2>2. IsFiniteSet(earlier) /\ \A l \in earlier : Left(s, l) \in Int
    BY <1>2, <2>1, FS_Subset
  <2> QED
    BY <2>1, <2>2, LeftSums
<1>7. PICK stock \in Int : stock = s.stock["home"]
  BY StoreNumbers
<1>8. PICK least \in Int : least = Min({stock, tracked})
  BY LesserIsThere
<1>9. PICK gone \in Int : gone = Max({0, (tracked - least) - before}) /\ gone >= 0
  <2>1. (tracked - least) - before \in Int
    OBVIOUS
  <2> QED
    BY <2>1, GreaterIsThere
<1>10. PICK out \in Int : out = Min({left, gone}) /\ out >= 0
  <2>1. Min({left, gone}) \in Int /\ Min({left, gone}) \in {left, gone}
    BY LesserIsThere
  <2> QED
    BY <1>9, <2>1
<1>11. Remaining(s, lot) = left - out
  BY <1>1, <1>4, <1>5, <1>6, <1>7, <1>8, <1>9, <1>10 DEF Remaining
<1> QED
  BY <1>4, <1>10, <1>11

\* The handler of creating an expiry write-off leaves the store whole, whatever it answers.
LEMMA WriteOffEnds == ASSUME NEW c, NEW R, Ready(c, R), CreateExpiryWriteOff(c) PROVE Ends(c, R)
<1>0. Looked(c, "write_off")
  BY DEF CreateExpiryWriteOff
<1>1. PICK of \in Nat, n \in Nat : of = calls[c].of /\ n = calls[c].n
  BY DEF Ready
<1>2. /\ IsStore(store) /\ -n \in Int
      /\ ~calls[c].aside => of \in DOMAIN store.docs
      /\ of \in DOMAIN store.docs => store.docs[of] \in Documents /\ IsAbout("write_off", store.docs[of].kind)
      /\ of \in R \/ calls[c].seen = store
  BY <1>0, <1>1, LookedIs DEF Ready
<1>3. of \in DOMAIN store.docs => store.docs[of].kind = "lot"
  BY <1>2 DEF IsAbout
<1>4. CASE ~(n <= Remaining(calls[c].seen, of))
  <2>1. Answer(c, store, "refused")
    BY <1>1, <1>4 DEF CreateExpiryWriteOff
  <2> QED
    BY <2>1, RefusedEnds
<1>5. CASE n <= Remaining(calls[c].seen, of) /\ calls[c].aside
  <2>1. PICK s : s = Post(store, "home", -n)
    OBVIOUS
  <2>2. IsStore(s) /\ s.docs = store.docs
    BY <1>2, <2>1, EntryDoes
  <2>3. Leaves(c, s, "done", R)
    BY <1>2, <1>5, <2>2, SameLeaves
  <2>4. Answer(c, s, "done")
    BY <1>1, <1>5, <2>1 DEF CreateExpiryWriteOff, Amend
  <2> QED
    BY <2>3, <2>4, EndsSo
<1>6. CASE n <= Remaining(calls[c].seen, of) /\ ~calls[c].aside
  <2>1. /\ of \in DOMAIN store.docs /\ store.docs[of] \in Documents /\ store.docs[of].kind = "lot"
    BY <1>2, <1>3, <1>6
  <2>2. PICK doc : doc = [store.docs[of] EXCEPT !.off = @ + n]
    OBVIOUS
  <2>3. doc \in Documents /\ Alike(store.docs[of], doc) /\ doc.off = store.docs[of].off + n
    BY <2>1, <2>2, LossChanges
  <2>4. PICK t : t = [store EXCEPT !.docs[of] = doc]
    OBVIOUS
  <2>5. /\ IsStore(t) /\ DOMAIN t.docs = DOMAIN store.docs /\ t.docs[of] = doc
        /\ \A d \in DOMAIN store.docs \ {of} : t.docs[d] = store.docs[d]
        /\ t.invoices = store.invoices /\ t.stock = store.stock
    BY <1>2, <2>1, <2>3, <2>4, AmendDoes
  <2>6. PICK s : s = Post(t, "home", -n)
    OBVIOUS
  <2>7. /\ IsStore(s) /\ s.docs = t.docs /\ s.invoices = t.invoices
        /\ s.stock["home"] = t.stock["home"] + (-n) /\ s.stock["away"] = t.stock["away"]
    BY <1>2, <2>5, <2>6, EntryDoes
  <2>8. Amends(store, s)
    BY <1>2, <2>3, <2>5, <2>7, AlikeItself DEF Amends
  <2>9. BooksAgree(store) => BooksAgree(s)
    <3>1. \A d \in DOMAIN store.docs \ {of} : Still(store.docs[d], s.docs[d])
      BY <2>5, <2>7, AlikeItself
    <3>2. s.stock["home"] = store.stock["home"] - n
      BY <1>2, <2>5, <2>7, StoreNumbers
    <3>3. s.docs[of].off = store.docs[of].off + n /\ s.invoices = store.invoices /\ s.stock["away"] = store.stock["away"]
      BY <2>3, <2>5, <2>7
    <3> QED
      BY <2>1, <2>8, <3>1, <3>2, <3>3, BooksLose
  <2>10. ASSUME SettledAll(store, R), NEW d \in DOMAIN store.docs, d \notin R, s.docs[d].kind = "lot"
         PROVE  s.docs[d].off <= s.docs[d].qty
    <3>1. Settled(store, d)
      BY <2>10 DEF SettledAll
    <3>2. CASE d # of
      <4>1. s.docs[d] = store.docs[d]
        BY <2>5, <2>7, <3>2
      <4> QED
        BY <2>10, <3>1, <4>1 DEF Settled
    <3>3. CASE d = of
      <4>1. store.docs[of].off <= store.docs[of].qty
        BY <2>1, <3>1, <3>3 DEF Settled
      <4>2. Left(store, of) \in Int /\ Remaining(store, of) \in Int /\ Remaining(store, of) <= Left(store, of)
        BY <1>2, <2>1, <4>1, RemainingFits
      <4>3. n <= Left(store, of)
        <5>1. n <= Remaining(store, of)
          BY <1>2, <1>6, <2>10, <3>3
        <5> QED
          BY <4>2, <5>1
      <4>4. store.docs[of].qty \in Nat /\ store.docs[of].off \in Nat
        BY <2>1, DocumentFields
      <4>5. s.docs[of].off = store.docs[of].off + n
        BY <2>3, <2>5, <2>7
      <4>6. s.docs[of].qty = store.docs[of].qty
        BY <2>1, <2>2, <2>5, <2>7 DEF Documents
      <4> QED
        BY <3>3, <4>3, <4>4, <4>5, <4>6 DEF Left
    <3> QED
      BY <3>2, <3>3
  <2>11. Leaves(c, s, "done", R)
    BY <2>8, <2>9, <2>10, RewritesLeaves
  <2>12. Answer(c, s, "done")
    BY <1>1, <1>6, <2>2, <2>4, <2>6 DEF CreateExpiryWriteOff, Amend
  <2> QED
    BY <2>11, <2>12, EndsSo
<1> QED
  BY <1>4, <1>5, <1>6

\* Whatever handler it is.
LEMMA HandlerEnds == ASSUME NEW c, NEW R, Ready(c, R), Handler(c) PROVE Ends(c, R)
<1>1. CASE OpenCashSession(c) \/ CloseCashSession(c) \/ CreateSale(c) \/ ApproveRefund(c) \/ CreateExchangeOrder(c)
  BY <1>1, OpenEnds, CloseEnds, SellEnds, ApproveEnds, ExchangeEnds
<1>2. CASE \E status \in {"REFUND_APPROVED", "REFUND_PENDING_APPROVAL"} : CreateSaleReturn(c, status)
  BY <1>2, ReturnEnds
<1>3. CASE CreateTransfer(c) \/ CreateStockCount(c) \/ CreatePurchaseOrder(c) \/ SubmitPurchaseOrder(c)
           \/ DecidePurchaseOrder(c) \/ CreateGoodsReceipt(c) \/ CreateBatchLots(c) \/ CreateExpiryWriteOff(c)
  BY <1>3, TransferEnds, CountEnds, OrderEnds, SubmitEnds, DecideEnds, ReceiveEnds, LotsEnds, WriteOffEnds
<1>4. CASE CreatePurchaseInvoice(c) \/ CreateSupplierReturn(c) \/ CreateSupplierPayment(c) \/ CreateVendorDispute(c)
           \/ ResolveVendorDispute(c) \/ QueueInvoicePrintJob(c)
  BY <1>4, InvoiceEnds, SupplierReturnEnds, PayEnds, DisputeEnds, ResolveEnds, PrintEnds
<1>5. CASE CompletePrintJob(c) \/ CreateGstExport(c) \/ CompleteIrnAttachment(c) \/ PushSyncRecord(c)
           \/ UpdateTenantStatus(c) \/ Missing(c)
  BY <1>5, CompleteEnds, ExportEnds, AttachEnds, PushEnds, TenantEnds, MissingEnds
<1> QED
  BY <1>1, <1>2, <1>3, <1>4, <1>5 DEF Handler

-----------------------------------------------------------------------------
(* What a step makes of the stores and of the other requests. *)

\* Stores that hold together.
AllHold(W, n, R) == (\A s \in W : Coheres(s, n, R)) /\ (\A s, t \in W : KindsAgree(s, t))

\* They hold with more ids given out, and with more documents of which nothing is said.
LEMMA AllHoldOn ==
    ASSUME NEW W, NEW n \in Nat, NEW R, AllHold(W, n, R), NEW V, V \subseteq W, NEW m \in Nat, n <= m, NEW Q, R \subseteq Q
    PROVE  AllHold(V, m, Q)
<1>1. ASSUME NEW s \in V PROVE Coheres(s, m, Q)
  <2>1. Coheres(s, n, R)
    BY DEF AllHold
  <2>2. IsStore(s) /\ SettledAll(s, Q)
    BY <2>1 DEF Coheres, SettledAll
  <2>3. DOMAIN s.docs \subseteq 1 .. m
    BY <2>1 DEF Coheres
  <2>4. \A d \in DOMAIN s.docs : Cites(s.docs[d]) \in 0 .. m
    BY <2>1 DEF Coheres
  <2> QED
    BY <2>2, <2>3, <2>4 DEF Coheres
<1>2. \A s, t \in V : KindsAgree(s, t)
  BY DEF AllHold
<1> QED
  BY <1>1, <1>2 DEF AllHold

\* The store that a handler leaves: the documents of the one before, and at most one more.
LEMMA AllHoldWith ==
    ASSUME NEW W, NEW n \in Nat, NEW R, AllHold(W, n, R), NEW s \in W, NEW t, NEW i \in 1 .. n, NEW of \in 0 .. n,
           Keeps(s, t), DOMAIN t.docs \subseteq DOMAIN s.docs \cup {i},
           \A d \in DOMAIN t.docs \ DOMAIN s.docs : Cites(t.docs[d]) \in {0, of},
           SettledAll(s, R) => SettledAll(t, R), \A u \in W : Unused(i, u)
    PROVE  AllHold(W \cup {t}, n, R)
<1>1. Coheres(s, n, R)
  BY DEF AllHold
<1>2. Coheres(t, n, R)
  <2>1. IsStore(t) /\ SettledAll(t, R)
    BY <1>1 DEF Keeps, Coheres
  <2>2. DOMAIN t.docs \subseteq 1 .. n
    BY <1>1 DEF Coheres
  <2>3. ASSUME NEW d \in DOMAIN t.docs PROVE Cites(t.docs[d]) \in 0 .. n
    <3>1. CASE d \in DOMAIN s.docs
      BY <1>1, <3>1 DEF Keeps, Alike, Coheres
    <3>2. CASE d \notin DOMAIN s.docs
      BY <3>2
    <3> QED
      BY <3>1, <3>2
  <2> QED
    BY <2>1, <2>2, <2>3 DEF Coheres
<1>3. ASSUME NEW u \in W, NEW d \in DOMAIN t.docs \cap DOMAIN u.docs PROVE t.docs[d].kind = u.docs[d].kind
  <2>1. d # i
    BY <1>3 DEF Unused
  <2>2. d \in DOMAIN s.docs
    BY <1>3, <2>1
  <2>3. KindsAgree(s, u) /\ t.docs[d].kind = s.docs[d].kind
    BY <2>2 DEF AllHold, Keeps, Alike
  <2> QED
    BY <1>3, <2>2, <2>3 DEF KindsAgree
<1>4. ASSUME NEW u \in W \cup {t}, NEW v \in W \cup {t} PROVE KindsAgree(u, v)
  <2>1. CASE u \in W /\ v \in W
    BY <2>1 DEF AllHold
  <2>2. CASE u = t /\ v \in W
    BY <1>3, <2>2 DEF KindsAgree
  <2>3. CASE u \in W /\ v = t
    BY <1>3, <2>3 DEF KindsAgree
  <2>4. CASE u = t /\ v = t
    BY <2>4 DEF KindsAgree
  <2> QED
    BY <2>1, <2>2, <2>3, <2>4
<1>5. \A u \in W \cup {t} : Coheres(u, n, R)
  BY <1>2 DEF AllHold
<1> QED
  BY <1>4, <1>5 DEF AllHold

\* The stores of the invariant, and their documents.
LEMMA StoresOf ==
    ASSUME LegacyInv
    PROVE  /\ Limit \in Nat /\ called \in Nat /\ AllHold(World, Limit, raced) /\ store \in World /\ snapshot \in World /\ Opening \in World
           /\ \A c \in Callers : calls[c].stage # "none" => calls[c].before \in World
           /\ \A c \in Callers : Active(c) => calls[c].seen \in World /\ calls[c].before \in World
<1>1. called \in Nat
  BY DEF LegacyInv, LegacyShape
<1>2. Cardinality(DOMAIN Opening.docs) \in Nat
  <2>1. IsFiniteSet(DOMAIN Opening.docs)
    BY OpeningAssumption DEF IsStore
  <2> QED
    BY <2>1, FS_CardinalityType
<1>3. AllHold(World, Limit, raced)
  BY DEF LegacyInv, AllHold
<1>4. Limit \in Nat
  BY <1>1, <1>2 DEF Limit
<1>5. \A c \in Callers : calls[c].stage # "none" => calls[c].before \in World
  BY DEF World
<1>6. \A c \in Callers : Active(c) => calls[c].seen \in World /\ calls[c].stage # "none"
  BY DEF World, Active
<1>7. store \in World /\ snapshot \in World /\ Opening \in World
  BY DEF World
<1> QED
  BY <1>1, <1>3, <1>4, <1>5, <1>6, <1>7

\* Documents that have changed since a handler looked at them.
Outdated(c) == IF calls[c].stage = "looked" /\ calls[c].seen # store THEN raced \cup {calls[c].of} ELSE raced

\* A request under way is about a document that one of its stores has.
LEMMA AboutNumber ==
    ASSUME LegacyInv, NEW c \in Callers, Active(c)
    PROVE  /\ calls[c].of \in 0 .. Limit /\ calls[c].id \in 1 .. Limit /\ calls[c].of # calls[c].id
           /\ \A s \in World : Unused(calls[c].id, s)
           /\ calls[c].of # 0 => calls[c].of \in DOMAIN calls[c].before.docs
<1>1. IdIsFree(c) /\ CallHolds(c)
  BY DEF LegacyInv
<1>2. Limit \in Nat /\ AllHold(World, Limit, raced) /\ calls[c].before \in World
  BY StoresOf
<1>3. Coheres(calls[c].before, Limit, raced) /\ Unused(calls[c].id, calls[c].before)
  BY <1>1, <1>2 DEF AllHold, IdIsFree
<1>4. calls[c].of # 0 => calls[c].of \in DOMAIN calls[c].before.docs
  BY <1>1 DEF CallHolds, About
<1>5. calls[c].id \in 1 .. Limit /\ \A s \in World : Unused(calls[c].id, s)
  BY <1>1 DEF IdIsFree
<1>6. DOMAIN calls[c].before.docs \subseteq 1 .. Limit /\ calls[c].id \notin DOMAIN calls[c].before.docs
  BY <1>3 DEF Coheres, Unused
<1>7. calls[c].of \in 0 .. Limit
  <2>1. CASE calls[c].of = 0
    BY <1>2, <2>1
  <2>2. CASE calls[c].of # 0
    BY <1>2, <1>4, <1>6, <2>2
  <2> QED
    BY <2>1, <2>2
<1> QED
  BY <1>2, <1>4, <1>5, <1>6, <1>7

\* A handler finds what it may rely on.
LEMMA ActiveIsReady ==
    ASSUME LegacyInv, NEW c \in Callers, Active(c), NEW R, R = Outdated(c) PROVE Ready(c, R)
<1>1. CallHolds(c) /\ IsCall(calls[c])
  BY DEF LegacyInv, LegacyShape
<1>2. /\ AllHold(World, Limit, raced) /\ store \in World /\ calls[c].before \in World /\ calls[c].seen \in World
      /\ Limit \in Nat
  BY StoresOf
<1>3. /\ calls[c].of \in 0 .. Limit /\ calls[c].id \in 1 .. Limit /\ calls[c].of # calls[c].id
      /\ \A s \in World : Unused(calls[c].id, s)
      /\ calls[c].of # 0 => calls[c].of \in DOMAIN calls[c].before.docs
  BY AboutNumber
<1>4. IsStore(store) /\ DOMAIN store.docs \subseteq 1 .. Limit /\ IsStore(calls[c].seen)
  BY <1>2 DEF AllHold, Coheres
<1>5. 0 \notin DOMAIN store.docs /\ calls[c].id # 0 /\ calls[c].id \in Nat /\ calls[c].of \in Nat
  BY <1>2, <1>3, <1>4
<1>6. /\ calls[c].n \in Nat /\ calls[c].m \in Nat
      /\ calls[c].op \in {"decide", "complete", "tenant"} => calls[c].word \in Words
      /\ calls[c].op = "sell" => calls[c].word \in {"whole", "refused", "raised"}
      /\ calls[c].op = "pay" => calls[c].n # 0
  BY <1>1 DEF IsCall, Active, NoCall
<1>7. KindsAgree(calls[c].before, store) /\ KindsAgree(calls[c].before, calls[c].seen)
  BY <1>2 DEF AllHold
<1>8. About(calls[c], calls[c].before)
  BY <1>1 DEF CallHolds
<1>9. IF calls[c].of = 0 THEN calls[c].op \in {"sell", "open", "transfer", "count", "order", "push", "tenant"}
      ELSE calls[c].of \in DOMAIN store.docs => IsAbout(calls[c].op, store.docs[calls[c].of].kind)
  BY <1>3, <1>7, <1>8 DEF About, KindsAgree
<1>10. ASSUME calls[c].stage = "looked"
       PROVE  /\ IsStore(calls[c].seen) /\ calls[c].of \in DOMAIN calls[c].seen.docs
              /\ calls[c].of # 0 => IsAbout(calls[c].op, calls[c].seen.docs[calls[c].of].kind)
              /\ calls[c].aside \/ calls[c].of \in DOMAIN store.docs
              /\ calls[c].of \in R \/ calls[c].seen = store
  <2>1. calls[c].of \in DOMAIN calls[c].seen.docs /\ (calls[c].aside \/ calls[c].of \in DOMAIN store.docs)
    BY <1>1, <1>10 DEF CallHolds
  <2>2. calls[c].of # 0 => IsAbout(calls[c].op, calls[c].seen.docs[calls[c].of].kind)
    BY <1>3, <1>7, <1>8, <2>1 DEF About, KindsAgree
  <2>3. calls[c].of \in R \/ calls[c].seen = store
    BY <1>10 DEF Outdated
  <2> QED
    BY <1>4, <2>1, <2>2, <2>3
<1> QED
  BY <1>2, <1>3, <1>4, <1>5, <1>6, <1>9, <1>10 DEF Ready

\* A handler runs on a request under way.
LEMMA HandlerIsActive == ASSUME NEW c, Handler(c) PROVE Active(c)
<1>1. \A op : Underway(c, op) => Active(c)
  BY DEF Underway, Active
<1>2. \A op : Looked(c, op) => Active(c)
  BY DEF Looked, Active
<1>3. Missing(c) => Active(c)
  BY DEF Missing, Active
<1>4. \/ \E op : Underway(c, op)
      \/ \E op : Looked(c, op)
      \/ Missing(c)
  <2>1. CASE OpenCashSession(c) \/ CreateSale(c) \/ ApproveRefund(c) \/ CreateExchangeOrder(c) \/ CreateTransfer(c) \/ CreateStockCount(c)
    BY <2>1 DEF OpenCashSession, CreateSale, ApproveRefund, CreateExchangeOrder, CreateTransfer, CreateStockCount
  <2>2. CASE \E status \in {"REFUND_APPROVED", "REFUND_PENDING_APPROVAL"} : CreateSaleReturn(c, status)
    BY <2>2 DEF CreateSaleReturn
  <2>3. CASE CloseCashSession(c) \/ SubmitPurchaseOrder(c) \/ DecidePurchaseOrder(c) \/ CreateGoodsReceipt(c) \/ CreateBatchLots(c)
    BY <2>3 DEF CloseCashSession, SubmitPurchaseOrder, DecidePurchaseOrder, CreateGoodsReceipt, CreateBatchLots
  <2>4. CASE CreateExpiryWriteOff(c) \/ CreatePurchaseInvoice(c) \/ CreateSupplierReturn(c) \/ CreateSupplierPayment(c)
             \/ ResolveVendorDispute(c)
    BY <2>4 DEF CreateExpiryWriteOff, CreatePurchaseInvoice, CreateSupplierReturn, CreateSupplierPayment, ResolveVendorDispute
  <2>5. CASE CreatePurchaseOrder(c) \/ CreateVendorDispute(c) \/ QueueInvoicePrintJob(c) \/ CompletePrintJob(c) \/ CreateGstExport(c)
    BY <2>5 DEF CreatePurchaseOrder, CreateVendorDispute, QueueInvoicePrintJob, CompletePrintJob, CreateGstExport
  <2>6. CASE CompleteIrnAttachment(c) \/ PushSyncRecord(c) \/ UpdateTenantStatus(c) \/ Missing(c)
    BY <2>6 DEF CompleteIrnAttachment, PushSyncRecord, UpdateTenantStatus
  <2> QED
    BY <2>1, <2>2, <2>3, <2>4, <2>5, <2>6 DEF Handler
<1> QED
  BY <1>1, <1>2, <1>3, <1>4

-----------------------------------------------------------------------------
(* The other requests, while one makes its step. *)

\* The request r is q after a step of another.
Follows(q, r) ==
    /\ IsCall(r) /\ r.stage = q.stage
    /\ q.stage # "none" => r.id = q.id /\ r.before = q.before /\ (q.overtaken => r.overtaken)
    /\ q.stage = "answered" => r.answer = q.answer
    /\ q.stage \in {"begun", "looked"} => r.op = q.op /\ r.of = q.of /\ r.seen = q.seen
    /\ q.stage = "begun" => r.aside = q.aside

\* A request that did not change follows itself.
LEMMA SameFollows == ASSUME NEW q, IsCall(q) PROVE Follows(q, q)
BY DEF Follows

\* A request that another overtook follows itself.
LEMMA OvertakenFollows ==
    ASSUME NEW q, IsCall(q), q.stage # "none", NEW r, r = [q EXCEPT !.overtaken = TRUE]
    PROVE  Follows(q, r) /\ r.overtaken /\ (q.stage = "looked" => r.aside = q.aside)
<1>1. CASE q.stage = "answered"
  <2>1. /\ q = [op |-> q.op, stage |-> q.stage, answer |-> q.answer, id |-> q.id, before |-> q.before,
                overtaken |-> q.overtaken, suspended |-> q.suspended]
        /\ q.answer \in {"done", "refused", "raised"} /\ q.id \in Nat
    BY <1>1 DEF IsCall, NoCall
  <2>2. r = [op |-> q.op, stage |-> q.stage, answer |-> q.answer, id |-> q.id, before |-> q.before,
             overtaken |-> TRUE, suspended |-> q.suspended]
    BY <2>1
  <2>3. IsCall(r)
    BY <1>1, <2>1, <2>2 DEF IsCall
  <2> QED
    BY <1>1, <2>2, <2>3 DEF Follows
<1>2. CASE q.stage \in {"begun", "looked"}
  <2>1. q = [op |-> q.op, of |-> q.of, n |-> q.n, m |-> q.m, word |-> q.word, id |-> q.id, stage |-> q.stage,
             before |-> q.before, seen |-> q.seen, overtaken |-> q.overtaken, aside |-> q.aside, suspended |-> q.suspended]
    BY <1>2 DEF IsCall, NoCall
  <2>2. /\ q.n \in Nat /\ q.m \in Nat /\ q.id \in Nat /\ q.of \in Nat /\ q.aside \in BOOLEAN
        /\ q.op = "sell" => q.word \in {"whole", "refused", "raised"}
        /\ q.op = "pay" => q.n # 0
        /\ q.op \in {"decide", "complete", "tenant"} => q.word \in Words
    BY <1>2 DEF IsCall, NoCall
  <2>3. r = [op |-> q.op, of |-> q.of, n |-> q.n, m |-> q.m, word |-> q.word, id |-> q.id, stage |-> q.stage,
             before |-> q.before, seen |-> q.seen, overtaken |-> TRUE, aside |-> q.aside, suspended |-> q.suspended]
    BY <2>1
  <2>4. IsCall(r)
    BY <1>2, <2>2, <2>3 DEF IsCall
  <2> QED
    BY <1>2, <2>3, <2>4 DEF Follows
<1> QED
  BY <1>1, <1>2 DEF IsCall, NoCall

\* A request whose document was put aside by a rollback follows itself.
LEMMA AsideFollows ==
    ASSUME NEW q, IsCall(q), q.stage = "looked", NEW r, r = [[q EXCEPT !.overtaken = TRUE] EXCEPT !.aside = TRUE]
    PROVE  Follows(q, r) /\ r.overtaken /\ r.aside
<1>1. q = [op |-> q.op, of |-> q.of, n |-> q.n, m |-> q.m, word |-> q.word, id |-> q.id, stage |-> q.stage,
           before |-> q.before, seen |-> q.seen, overtaken |-> q.overtaken, aside |-> q.aside, suspended |-> q.suspended]
  BY DEF IsCall, NoCall
<1>2. /\ q.n \in Nat /\ q.m \in Nat /\ q.id \in Nat /\ q.of \in Nat
      /\ q.op = "sell" => q.word \in {"whole", "refused", "raised"}
      /\ q.op = "pay" => q.n # 0
      /\ q.op \in {"decide", "complete", "tenant"} => q.word \in Words
  BY DEF IsCall, NoCall
<1>3. r = [op |-> q.op, of |-> q.of, n |-> q.n, m |-> q.m, word |-> q.word, id |-> q.id, stage |-> q.stage,
           before |-> q.before, seen |-> q.seen, overtaken |-> TRUE, aside |-> TRUE, suspended |-> q.suspended]
  BY <1>1
<1>4. IsCall(r)
  BY <1>2, <1>3 DEF IsCall
<1> QED
  BY <1>3, <1>4 DEF Follows

\* All requests but c, in a step that takes the store from s to t; tears: the history is torn after it.
OthersFollow(c, now, next, s, t, tears) ==
    \A d \in Callers \ {c} :
        /\ Follows(now[d], next[d])
        /\ IF t = s THEN next[d] = now[d] ELSE now[d].stage # "none" => next[d].overtaken
        /\ now[d].stage = "looked" => (IF next[d].aside THEN tears ELSE now[d].of \in DOMAIN t.docs)

\* The shape of the variables after a step.
LEMMA ShapeStays ==
    ASSUME calls' = [d \in Callers |-> calls'[d]], \A d \in Callers : IsCall(calls'[d]), called' \in Nat, torn' \in BOOLEAN
    PROVE  LegacyShape'
BY DEF LegacyShape

\* What is in the stores of the next state.
LEMMA WorldGrows ==
    ASSUME NEW c, OthersFollow(c, calls, calls', store, store', torn'), NEW V, World \subseteq V, store' \in V, snapshot' \in V,
           calls'[c].stage # "none" => calls'[c].before \in V, Active(c)' => calls'[c].seen \in V
    PROVE  World' \subseteq V
<1>1. Opening \in V
  BY DEF World
<1>2. ASSUME NEW d \in Callers, calls'[d].stage # "none" PROVE calls'[d].before \in V
  <2>1. CASE d = c
    BY <1>2, <2>1
  <2>2. CASE d # c
    <3>1. Follows(calls[d], calls'[d])
      BY <2>2 DEF OthersFollow
    <3>2. calls[d].stage # "none" /\ calls'[d].before = calls[d].before
      BY <1>2, <3>1 DEF Follows
    <3>3. calls[d].before \in World
      BY <3>2 DEF World
    <3> QED
      BY <3>2, <3>3
  <2> QED
    BY <2>1, <2>2
<1>3. ASSUME NEW d \in Callers, Active(d)' PROVE calls'[d].seen \in V
  <2>1. CASE d = c
    BY <1>3, <2>1
  <2>2. CASE d # c
    <3>1. Follows(calls[d], calls'[d])
      BY <2>2 DEF OthersFollow
    <3>2. Active(d) /\ calls'[d].seen = calls[d].seen
      BY <1>3, <3>1 DEF Follows, Active
    <3>3. calls[d].seen \in World
      BY <3>2 DEF World
    <3> QED
      BY <3>2, <3>3
  <2> QED
    BY <2>1, <2>2
<1> QED
  BY <1>1, <1>2, <1>3 DEF World

\* The others that are under way still know what they knew.
LEMMA OthersKnow ==
    ASSUME LegacyInv, NEW c, OthersFollow(c, calls, calls', store, store', torn'), NEW d \in Callers \ {c}, Active(d)'
    PROVE  Active(d) /\ CallHolds(d)'
<1>1. /\ Follows(calls[d], calls'[d])
      /\ IF store' = store THEN calls'[d] = calls[d] ELSE calls[d].stage # "none" => calls'[d].overtaken
      /\ calls[d].stage = "looked" => (IF calls'[d].aside THEN torn' ELSE calls[d].of \in DOMAIN store'.docs)
  BY DEF OthersFollow
<1>2. Active(d) /\ calls[d].stage = calls'[d].stage /\ calls[d].stage # "none"
  BY <1>1 DEF Follows, Active
<1>3. CallHolds(d)
  BY <1>2 DEF LegacyInv
<1>4. /\ calls'[d].op = calls[d].op /\ calls'[d].of = calls[d].of /\ calls'[d].seen = calls[d].seen
      /\ calls'[d].before = calls[d].before
      /\ calls[d].stage = "begun" => calls'[d].aside = calls[d].aside
  BY <1>1, <1>2 DEF Follows, Active
<1>5. About(calls'[d], calls'[d].before)
  BY <1>3, <1>4 DEF CallHolds, About
<1>6. calls'[d].overtaken \/ calls'[d].before = store'
  <2>1. CASE store' = store
    BY <1>1, <1>3, <2>1 DEF CallHolds
  <2>2. CASE store' # store
    BY <1>1, <1>2, <2>2
  <2> QED
    BY <2>1, <2>2
<1>7. calls'[d].stage = "begun" => ~calls'[d].aside
  BY <1>2, <1>3, <1>4 DEF CallHolds
<1>8. calls'[d].stage = "looked" =>
        /\ calls'[d].of \in DOMAIN calls'[d].seen.docs
        /\ IF calls'[d].aside THEN torn' ELSE calls'[d].of \in DOMAIN store'.docs
  BY <1>1, <1>2, <1>3, <1>4 DEF CallHolds
<1> QED
  BY <1>2, <1>5, <1>6, <1>7, <1>8 DEF CallHolds

\* And their ids are still no document's.
LEMMA OthersFresh ==
    ASSUME LegacyInv, NEW c, OthersFollow(c, calls, calls', store, store', torn'), NEW d \in Callers \ {c}, Active(d)',
           NEW V, World' \subseteq World \cup V, \A s \in V : Unused(calls[d].id, s), called' \in Nat, called <= called',
           Active(c)' => calls'[c].id # calls[d].id
    PROVE  IdIsFree(d)'
<1>1. /\ \A e \in Callers \ {c} : Follows(calls[e], calls'[e])
      /\ Active(d) /\ calls'[d].id = calls[d].id
  BY DEF OthersFollow, Follows, Active
<1>2. IdIsFree(d)
  BY <1>1 DEF LegacyInv
<1>3. Limit \in Nat /\ called \in Nat /\ Cardinality(DOMAIN Opening.docs) \in Nat
  <2>1. IsFiniteSet(DOMAIN Opening.docs)
    BY OpeningAssumption DEF IsStore
  <2> QED
    BY <2>1, StoresOf, FS_CardinalityType
<1>4. calls'[d].id \in 1 .. Limit'
  BY <1>1, <1>2, <1>3 DEF IdIsFree, Limit
<1>5. \A s \in World' : Unused(calls'[d].id, s)
  BY <1>1, <1>2 DEF IdIsFree
<1>6. ASSUME NEW e \in Callers \ {d}, Active(e)' PROVE calls'[e].id # calls'[d].id
  <2>1. CASE e = c
    BY <1>1, <1>6, <2>1
  <2>2. CASE e # c
    <3>1. Active(e) /\ calls'[e].id = calls[e].id
      BY <1>1, <1>6, <2>2 DEF Follows, Active
    <3> QED
      BY <1>1, <1>2, <3>1 DEF IdIsFree
  <2> QED
    BY <2>1, <2>2
<1> QED
  BY <1>4, <1>5, <1>6 DEF IdIsFree

-----------------------------------------------------------------------------
(* A handler's step. *)

\* The invariant after a step, from its parts.
LEMMA InvFromParts ==
    ASSUME LegacyShape', AllHold(World', Limit', raced'), \A d \in Callers : Active(d)' => IdIsFree(d)' /\ CallHolds(d)',
           StateFile /\ ~torn' => WholeSoFar'
    PROVE  LegacyInv'
BY DEF LegacyInv, AllHold

\* What an answer leaves in each variable.
LEMMA AnswerDoes ==
    ASSUME LegacyInv, NEW c \in Callers, Active(c), NEW s, NEW how \in {"done", "refused", "raised"}, Answer(c, s, how)
    PROVE  /\ store' = s /\ snapshot' = snapshot /\ called' = called /\ answered' = answered
           /\ torn' = (torn \/ how = "raised") /\ raced' = Outdated(c) /\ raced \subseteq raced'
           /\ calls' = [d \in Callers |-> calls'[d]]
           /\ IsCall(calls'[c]) /\ calls'[c].stage = "answered" /\ calls'[c].answer = how
           /\ calls'[c].before = (IF how = "refused" THEN calls[c].before ELSE Opening)
           /\ calls'[c].overtaken = calls[c].overtaken
           /\ \A d \in Callers \ {c} : calls'[d] = IF calls[d].stage # "none" /\ s # store
                                                   THEN [calls[d] EXCEPT !.overtaken = TRUE] ELSE calls[d]
<1>1. /\ store' = s /\ snapshot' = snapshot /\ called' = called /\ answered' = answered
      /\ torn' = (torn \/ how = "raised") /\ raced' = Outdated(c) /\ raced \subseteq raced'
  BY DEF Answer, Outdated
<1>2. PICK all : all = Overtaken(c, s)
  OBVIOUS
<1>3. PICK q : q = calls[c]
  OBVIOUS
<1>4. all = [d \in Callers |-> all[d]] /\ all[c] = q
      /\ \A d \in Callers \ {c} : all[d] = IF calls[d].stage # "none" /\ s # store
                                           THEN [calls[d] EXCEPT !.overtaken = TRUE] ELSE calls[d]
  BY <1>2, <1>3 DEF Overtaken
<1>5. PICK r : r = [op |-> q.op, stage |-> "answered", answer |-> how, id |-> q.id,
                    before |-> IF how = "refused" THEN q.before ELSE Opening, overtaken |-> q.overtaken, suspended |-> q.suspended]
  OBVIOUS
<1>6. calls' = [all EXCEPT ![c] = r]
  BY <1>2, <1>4, <1>5 DEF Answer
<1>7. calls' = [d \in Callers |-> calls'[d]] /\ calls'[c] = r /\ \A d \in Callers \ {c} : calls'[d] = all[d]
  BY <1>4, <1>6
<1>8. /\ r.stage = "answered" /\ r.answer = how /\ r.overtaken = q.overtaken /\ r.id = q.id
      /\ r.before = (IF how = "refused" THEN q.before ELSE Opening)
      /\ r = [op |-> r.op, stage |-> r.stage, answer |-> r.answer, id |-> r.id, before |-> r.before,
              overtaken |-> r.overtaken, suspended |-> r.suspended]
  BY <1>5
<1>9. q.id \in Nat /\ q.overtaken \in BOOLEAN
  BY <1>3 DEF LegacyInv, LegacyShape, IsCall, NoCall, Active
<1>10. IsCall(r)
  BY <1>8, <1>9 DEF IsCall
<1> QED
  BY <1>1, <1>3, <1>4, <1>7, <1>8, <1>10

\* What the others see of it.
LEMMA AnswerFollows ==
    ASSUME LegacyInv, NEW c \in Callers, Active(c), NEW s, NEW how \in {"done", "refused", "raised"}, Answer(c, s, how),
           Keeps(store, s)
    PROVE  OthersFollow(c, calls, calls', store, store', torn')
<1>1. /\ store' = s /\ torn' = (torn \/ how = "raised")
      /\ \A d \in Callers \ {c} : calls'[d] = IF calls[d].stage # "none" /\ s # store
                                              THEN [calls[d] EXCEPT !.overtaken = TRUE] ELSE calls[d]
  BY AnswerDoes
<1>2. ASSUME NEW d \in Callers \ {c}
      PROVE  /\ Follows(calls[d], calls'[d])
             /\ IF s = store THEN calls'[d] = calls[d] ELSE calls[d].stage # "none" => calls'[d].overtaken
             /\ calls[d].stage = "looked" => calls'[d].aside = calls[d].aside
  <2>1. IsCall(calls[d])
    BY DEF LegacyInv, LegacyShape
  <2>2. CASE calls[d].stage # "none" /\ s # store
    BY <1>1, <2>1, <2>2, OvertakenFollows
  <2>3. CASE ~(calls[d].stage # "none" /\ s # store)
    BY <1>1, <2>1, <2>3, SameFollows
  <2> QED
    BY <2>2, <2>3
<1>3. ASSUME NEW d \in Callers \ {c}, calls[d].stage = "looked"
      PROVE  IF calls'[d].aside THEN torn' ELSE calls[d].of \in DOMAIN s.docs
  <2>1. CallHolds(d)
    BY <1>3 DEF LegacyInv, Active
  <2>2. IF calls[d].aside THEN torn ELSE calls[d].of \in DOMAIN store.docs
    BY <1>3, <2>1 DEF CallHolds
  <2>3. DOMAIN store.docs \subseteq DOMAIN s.docs
    BY DEF Keeps
  <2> QED
    BY <1>1, <1>2, <1>3, <2>2, <2>3
<1> QED
  BY <1>1, <1>2, <1>3 DEF OthersFollow

\* The stores, and what the others know.
LEMMA AnswerHolds ==
    ASSUME LegacyInv, NEW c \in Callers, Active(c), NEW s, NEW how \in {"done", "refused", "raised"}, Answer(c, s, how),
           Leaves(c, s, how, Outdated(c))
    PROVE  /\ LegacyShape' /\ AllHold(World', Limit', raced')
           /\ \A d \in Callers : Active(d)' => IdIsFree(d)' /\ CallHolds(d)'
<1>1. /\ store' = s /\ snapshot' = snapshot /\ called' = called
      /\ torn' = (torn \/ how = "raised") /\ raced' = Outdated(c) /\ raced \subseteq raced'
      /\ calls' = [d \in Callers |-> calls'[d]]
      /\ IsCall(calls'[c]) /\ calls'[c].stage = "answered"
      /\ calls'[c].before = (IF how = "refused" THEN calls[c].before ELSE Opening)
  BY AnswerDoes
<1>2. /\ Keeps(store, s) /\ DOMAIN s.docs \subseteq DOMAIN store.docs \cup {calls[c].id}
      /\ \A d \in DOMAIN s.docs \ DOMAIN store.docs : Cites(s.docs[d]) \in {0, calls[c].of}
      /\ SettledAll(store, raced') => SettledAll(s, raced')
  BY <1>1 DEF Leaves
<1>3. OthersFollow(c, calls, calls', store, store', torn')
  BY <1>2, AnswerFollows
<1>4. /\ Limit \in Nat /\ called \in Nat /\ AllHold(World, Limit, raced) /\ store \in World /\ snapshot \in World /\ Opening \in World
      /\ calls[c].before \in World
  BY StoresOf
<1>5. calls[c].of \in 0 .. Limit /\ calls[c].id \in 1 .. Limit /\ \A u \in World : Unused(calls[c].id, u)
  BY AboutNumber
<1>6. LegacyShape'
  <2>1. \A d \in Callers : IsCall(calls'[d])
    BY <1>1, <1>3 DEF OthersFollow, Follows
  <2>2. torn' \in BOOLEAN /\ called' \in Nat
    BY <1>1, <1>4
  <2> QED
    BY <1>1, <2>1, <2>2, ShapeStays
<1>7. World' \subseteq World \cup {s}
  <2>1. ~Active(c)' /\ calls'[c].before \in World
    BY <1>1, <1>4 DEF Active
  <2>2. PICK V : V = World \cup {s}
    OBVIOUS
  <2>3. World \subseteq V /\ store' \in V /\ snapshot' \in V /\ calls'[c].before \in V
    BY <1>1, <1>4, <2>1, <2>2
  <2> QED
    BY <1>3, <2>1, <2>2, <2>3, WorldGrows
<1>8. AllHold(World', Limit', raced')
  <2>1. Limit' = Limit
    BY <1>1 DEF Limit
  <2>2. PICK n \in Nat : n = Limit
    BY <1>4
  <2>3. PICK R : R = raced'
    OBVIOUS
  <2>4. PICK W : W = World
    OBVIOUS
  <2>5. AllHold(W, n, R)
    BY <1>1, <1>4, <2>2, <2>3, <2>4, AllHoldOn
  <2>6. PICK i \in 1 .. n, of \in 0 .. n : i = calls[c].id /\ of = calls[c].of
    BY <1>5, <2>2
  <2>7. AllHold(W \cup {s}, n, R)
    <3>1. store \in W /\ \A u \in W : Unused(i, u)
      BY <1>4, <1>5, <2>4, <2>6
    <3>2. DOMAIN s.docs \subseteq DOMAIN store.docs \cup {i} /\ \A d \in DOMAIN s.docs \ DOMAIN store.docs : Cites(s.docs[d]) \in {0, of}
      BY <1>2, <2>6
    <3>3. SettledAll(store, R) => SettledAll(s, R)
      BY <1>2, <2>3
    <3> QED
      BY <1>2, <2>5, <3>1, <3>2, <3>3, AllHoldWith
  <2>8. World' \subseteq W \cup {s}
    BY <1>7, <2>4
  <2>9. PICK V : V = World'
    OBVIOUS
  <2>10. AllHold(V, n, R)
    BY <2>7, <2>8, <2>9, AllHoldOn
  <2> QED
    BY <2>1, <2>2, <2>3, <2>9, <2>10
<1>9. ASSUME NEW d \in Callers, Active(d)' PROVE IdIsFree(d)' /\ CallHolds(d)'
  <2>1. d # c
    BY <1>1, <1>9 DEF Active
  <2>2. Active(d) /\ CallHolds(d)'
    BY <1>3, <1>9, <2>1, OthersKnow
  <2>3. Unused(calls[d].id, s)
    <3>1. calls[d].id # calls[c].id
      BY <2>1, <2>2 DEF LegacyInv, IdIsFree
    <3>2. \A u \in World : Unused(calls[d].id, u)
      BY <2>2, AboutNumber
    <3>3. calls[d].id # 0 /\ calls[d].id # calls[c].of
      <4>1. calls[d].id \in 1 .. Limit
        BY <2>2, AboutNumber
      <4>2. calls[c].of # 0 => calls[c].of \in DOMAIN calls[c].before.docs
        BY AboutNumber
      <4> QED
        BY <1>4, <3>2, <4>1, <4>2 DEF Unused
    <3>4. Unused(calls[d].id, store)
      BY <1>4, <3>2
    <3>5. calls[d].id \notin DOMAIN s.docs
      BY <1>2, <3>1, <3>4 DEF Unused
    <3>6. ASSUME NEW e \in DOMAIN s.docs PROVE Cites(s.docs[e]) # calls[d].id
      <4>1. CASE e \in DOMAIN store.docs
        BY <1>2, <3>4, <4>1 DEF Keeps, Alike, Unused
      <4>2. CASE e \notin DOMAIN store.docs
        BY <1>2, <3>3, <4>2
      <4> QED
        BY <4>1, <4>2
    <3> QED
      BY <3>5, <3>6 DEF Unused
  <2>4. ~Active(c)'
    BY <1>1 DEF Active
  <2>5. IdIsFree(d)'
    <3>1. PICK V : V = {s}
      OBVIOUS
    <3>2. World' \subseteq World \cup V /\ \A u \in V : Unused(calls[d].id, u)
      BY <1>7, <2>3, <3>1
    <3>3. called' \in Nat /\ called <= called'
      BY <1>1, <1>4
    <3> QED
      BY <1>3, <1>9, <2>1, <2>4, <3>2, <3>3, OthersFresh
  <2> QED
    BY <2>2, <2>5
<1> QED
  BY <1>6, <1>8, <1>9


\* Requests that wait to be rolled back, and others that are answered, still are.
LEMMA PendingFollows ==
    ASSUME NEW c, NEW now, NEW next, NEW s, NEW t, NEW tears, OthersFollow(c, now, next, s, t, tears), NEW d \in Callers \ {c}
    PROVE  /\ next[d].stage = now[d].stage
           /\ now[d].stage = "answered" =>
                /\ next[d].answer = now[d].answer /\ next[d].before = now[d].before
                /\ now[d].overtaken \/ t # s => next[d].overtaken
<1>1. Follows(now[d], next[d]) /\ (IF t = s THEN next[d] = now[d] ELSE now[d].stage # "none" => next[d].overtaken)
  BY DEF OthersFollow
<1> QED
  BY <1>1 DEF Follows

\* An answer leaves the served store whole, unless a handler tore it.
LEMMA AnswerWhole ==
    ASSUME LegacyInv, NEW c \in Callers, Active(c), NEW s, NEW how \in {"done", "refused", "raised"}, Answer(c, s, how),
           Leaves(c, s, how, Outdated(c)), StateFile, ~torn'
    PROVE  WholeSoFar'
<1>1. /\ store' = s /\ snapshot' = snapshot /\ answered' = answered /\ torn' = (torn \/ how = "raised")
      /\ calls'[c].stage = "answered" /\ calls'[c].answer = how
      /\ calls'[c].before = (IF how = "refused" THEN calls[c].before ELSE Opening)
      /\ calls'[c].overtaken = calls[c].overtaken
  BY AnswerDoes
<1>2. ~torn /\ how # "raised"
  BY <1>1 DEF LegacyInv, LegacyShape
<1>3. WholeSoFar
  BY <1>2 DEF LegacyInv
<1>4. Keeps(store, s)
  BY DEF Leaves
<1>5. OthersFollow(c, calls, calls', store, store', torn')
  BY <1>4, AnswerFollows
<1>6. ASSUME NEW d \in Callers \ {c}
      PROVE  /\ calls'[d].stage = calls[d].stage
             /\ calls[d].stage = "answered" =>
                  /\ calls'[d].answer = calls[d].answer /\ calls'[d].before = calls[d].before
                  /\ calls[d].overtaken \/ s # store => calls'[d].overtaken
  BY <1>1, <1>5, PendingFollows
<1>7. CallHolds(c) /\ ~Pending(c)
  BY DEF LegacyInv, Active, Pending
<1>8. ~calls[c].aside
  BY <1>2, <1>7 DEF CallHolds, Active
<1>9. DOMAIN store.docs \subseteq DOMAIN s.docs
  BY <1>4 DEF Keeps
<1>10. how = "done" /\ Clean(store) => BooksAgree(s) /\ answered \subseteq DOMAIN s.docs
  BY <1>8, <1>9 DEF Leaves, Clean
<1>11. Clean(snapshot)'
  BY <1>1, <1>3 DEF WholeSoFar, Clean
<1>12. ASSUME NEW d \in Callers, calls'[d].stage = "answered" PROVE calls'[d].answer # "raised"
  <2>1. CASE d = c
    BY <1>1, <1>2, <2>1
  <2>2. CASE d # c
    BY <1>3, <1>6, <1>12, <2>2 DEF WholeSoFar
  <2> QED
    BY <2>1, <2>2
<1>13. CASE \E d \in Callers \ {c} : Pending(d) /\ (calls[d].overtaken \/ s # store)
  <2>1. PICK d \in Callers \ {c} : Pending(d) /\ (calls[d].overtaken \/ s # store)
    BY <1>13
  <2>2. calls'[d].stage = "answered" /\ calls'[d].answer = "refused" /\ calls'[d].overtaken
    BY <1>6, <2>1 DEF Pending
  <2>3. \E e \in Callers : Pending(e)' /\ calls'[e].overtaken
    BY <2>2 DEF Pending
  <2> QED
    BY <1>11, <1>12, <2>3 DEF WholeSoFar
<1>14. CASE how = "refused" /\ calls[c].overtaken
  <2>1. \E e \in Callers : Pending(e)' /\ calls'[e].overtaken
    BY <1>1, <1>14 DEF Pending
  <2> QED
    BY <1>11, <1>12, <2>1 DEF WholeSoFar
<1>15. CASE /\ ~\E d \in Callers \ {c} : Pending(d) /\ (calls[d].overtaken \/ s # store)
            /\ ~(how = "refused" /\ calls[c].overtaken)
            /\ \A d \in Callers : ~Pending(d)
  <2>1. Clean(store)
    BY <1>3, <1>15 DEF WholeSoFar
  <2>2. CASE how = "done"
    <3>1. \A d \in Callers : ~Pending(d)'
      BY <1>1, <1>6, <1>15, <2>2 DEF Pending
    <3>2. Clean(store)'
      BY <1>1, <1>10, <2>1, <2>2 DEF Clean
    <3> QED
      BY <1>11, <1>12, <3>1, <3>2 DEF WholeSoFar
  <2>3. CASE how = "refused"
    <3>1. calls[c].before = store
      BY <1>7, <1>15, <2>3 DEF CallHolds
    <3>2. calls'[c].before = store
      BY <1>1, <2>3, <3>1
    <3>3. Pending(c)' /\ \A d \in Callers : Pending(d)' => d = c
      BY <1>1, <1>6, <1>15, <2>3 DEF Pending
    <3>4. Clean(calls[c].before)'
      BY <1>1, <2>1, <3>2 DEF Clean
    <3> QED
      BY <1>11, <1>12, <3>3, <3>4 DEF WholeSoFar
  <2> QED
    BY <1>2, <2>2, <2>3
<1>16. CASE /\ ~\E d \in Callers \ {c} : Pending(d) /\ (calls[d].overtaken \/ s # store)
            /\ ~(how = "refused" /\ calls[c].overtaken)
            /\ \E d \in Callers : Pending(d)
  <2>1. PICK d \in Callers : Pending(d)
    BY <1>16
  <2>2. s = store /\ \A e \in Callers : Pending(e) => ~calls[e].overtaken
    BY <1>7, <1>16, <2>1
  <2>3. /\ \A e \in Callers : Pending(e) => calls[e].before = store \/ Clean(calls[e].before)
        /\ \E e \in Callers : Pending(e) /\ (Clean(store) \/ Clean(calls[e].before))
    BY <1>3, <2>1, <2>2 DEF WholeSoFar
  <2>4. ASSUME NEW e \in Callers, Pending(e)' PROVE calls'[e].before = store' \/ Clean(calls[e].before)'
    <3>1. CASE e = c
      <4>1. how = "refused" /\ calls[c].before = store
        BY <1>1, <1>7, <1>16, <2>4, <3>1 DEF Pending, CallHolds
      <4> QED
        BY <1>1, <2>2, <3>1, <4>1
    <3>2. CASE e # c
      BY <1>1, <1>6, <2>2, <2>3, <2>4, <3>2 DEF Pending, Clean
    <3> QED
      BY <3>1, <3>2
  <2>5. PICK e \in Callers : Pending(e) /\ (Clean(store) \/ Clean(calls[e].before))
    BY <2>3
  <2>6. Pending(e)' /\ (Clean(store)' \/ Clean(calls[e].before)')
    <3>1. e # c
      BY <1>7, <2>5
    <3>2. Pending(e)' /\ calls'[e].before = calls[e].before
      BY <1>6, <2>5, <3>1 DEF Pending
    <3> QED
      BY <1>1, <2>2, <2>5, <3>2 DEF Clean
  <2> QED
    BY <1>11, <1>12, <2>4, <2>6 DEF WholeSoFar
<1> QED
  BY <1>13, <1>14, <1>15, <1>16

\* The invariant is kept by whatever handler.
LEMMA HandlerKeeps == ASSUME LegacyInv, NEW c \in Callers, Handler(c) PROVE LegacyInv'
<1>1. Active(c)
  BY HandlerIsActive
<1>2. PICK R : R = Outdated(c)
  OBVIOUS
<1>3. Ready(c, R)
  BY <1>1, <1>2, ActiveIsReady
<1>4. PICK s, how : Answer(c, s, how) /\ how \in {"done", "refused", "raised"} /\ Leaves(c, s, how, R)
  BY <1>3, HandlerEnds DEF Ends
<1>5. /\ LegacyShape' /\ AllHold(World', Limit', raced')
      /\ \A d \in Callers : Active(d)' => IdIsFree(d)' /\ CallHolds(d)'
  BY <1>1, <1>2, <1>4, AnswerHolds
<1>6. StateFile /\ ~torn' => WholeSoFar'
  BY <1>1, <1>2, <1>4, AnswerWhole
<1> QED
  BY <1>5, <1>6, InvFromParts

-----------------------------------------------------------------------------
(* A request that begins, and one that has looked. *)

\* What requests ask.
Proper(op, of, n, m, word) ==
    /\ of \in Nat /\ n \in Nat /\ m \in Nat
    /\ op = "sell" => word \in {"whole", "refused", "raised"}
    /\ op = "pay" => n # 0
    /\ op \in {"decide", "complete", "tenant"} => word \in Words
    /\ IF of = 0 THEN op \in {"sell", "open", "transfer", "count", "order", "push", "tenant"}
       ELSE of \in DOMAIN store.docs /\ IsAbout(op, store.docs[of].kind)
Calling(c) == \E op, of, n, m, word : Call(c, op, of, n, m, word) /\ Proper(op, of, n, m, word)

\* A call with proper arguments is a call of the model.
LEMMA CallingSo ==
    ASSUME NEW c, NEW op, NEW of, NEW n, NEW m, NEW word, Call(c, op, of, n, m, word), Proper(op, of, n, m, word)
    PROVE  Calling(c)
BY DEF Calling

\* A document of some kind, and the amounts of a request.
LEMMA OnKind ==
    ASSUME LegacyInv, NEW kind, NEW d \in Filed(store, kind)
    PROVE  d \in Nat /\ d # 0 /\ d \in DOMAIN store.docs /\ store.docs[d].kind = kind
<1>1. Coheres(store, Limit, raced) /\ Limit \in Nat
  BY StoresOf DEF AllHold
<1>2. d \in DOMAIN store.docs /\ store.docs[d].kind = kind
  BY DEF Filed
<1> QED
  BY <1>1, <1>2 DEF Coheres

\* The amounts a request asks for are natural numbers.
LEMMA AmountsCount ==
    MaxAmount \in Nat /\ (\A n \in 1 .. MaxAmount : n \in Nat /\ n # 0) /\ (\A n \in 0 .. MaxAmount + 1 : n \in Nat)
BY LegacyAssumption

\* Every request is one of these.
LEMMA AskedIsProper == ASSUME LegacyInv, NEW c, Asked(c) PROVE Calling(c)
<1>1. ASSUME NEW till \in {0} \cup Filed(store, "till"), NEW n \in 1 .. MaxAmount, NEW how \in {"whole", "refused", "raised"},
             Says(c, "sell", till, n, how)
      PROVE  Calling(c)
  <2>1. till = 0 \/ (till # 0 /\ till \in DOMAIN store.docs /\ store.docs[till].kind = "till" /\ till \in Nat)
    BY <1>1, OnKind
  <2>2. Proper("sell", till, n, 0, how)
    BY <1>1, <2>1, AmountsCount DEF Proper, IsAbout
  <2> QED
    BY <1>1, <2>2, CallingSo DEF Says
<1>2. ASSUME NEW sale \in Filed(store, "sale"), NEW n \in 1 .. MaxAmount, NEW m \in 0 .. MaxAmount + 1,
             Begin(c, "return", sale, n, m) \/ Begin(c, "exchange", sale, n, m)
      PROVE  Calling(c)
  <2>1. sale \in Nat /\ sale # 0 /\ sale \in DOMAIN store.docs /\ store.docs[sale].kind = "sale"
    BY OnKind
  <2>2. Proper("return", sale, n, m, "") /\ Proper("exchange", sale, n, m, "")
    BY <2>1, AmountsCount DEF Proper, IsAbout
  <2> QED
    BY <1>2, <2>2, CallingSo DEF Begin
<1>3. ASSUME NEW sale \in Filed(store, "sale"),
             Begin(c, "print", sale, 0, 0) \/ Begin(c, "export", sale, 0, 0) \/ Begin(c, "attach", sale, 0, 0)
      PROVE  Calling(c)
  <2>1. sale \in Nat /\ sale # 0 /\ sale \in DOMAIN store.docs /\ store.docs[sale].kind = "sale"
    BY OnKind
  <2>2. Proper("print", sale, 0, 0, "") /\ Proper("export", sale, 0, 0, "") /\ Proper("attach", sale, 0, 0, "")
    BY <2>1 DEF Proper, IsAbout
  <2> QED
    BY <1>3, <2>2, CallingSo DEF Begin
<1>4. ASSUME NEW back \in Filed(store, "return"), Begin(c, "approve", back, 0, 0) PROVE Calling(c)
  <2>1. Proper("approve", back, 0, 0, "")
    BY OnKind DEF Proper, IsAbout
  <2> QED
    BY <1>4, <2>1, CallingSo DEF Begin
<1>5. ASSUME NEW till \in Filed(store, "till"), Begin(c, "close", till, 0, 0) PROVE Calling(c)
  <2>1. Proper("close", till, 0, 0, "")
    BY OnKind DEF Proper, IsAbout
  <2> QED
    BY <1>5, <2>1, CallingSo DEF Begin
<1>6. ASSUME NEW n \in 0 .. MaxAmount + 1,
             Begin(c, "transfer", 0, n, 0) \/ Begin(c, "order", 0, n, 0) \/ Begin(c, "count", 0, n, 0)
      PROVE  Calling(c)
  <2>1. Proper("transfer", 0, n, 0, "") /\ Proper("order", 0, n, 0, "") /\ Proper("count", 0, n, 0, "")
    BY AmountsCount DEF Proper
  <2> QED
    BY <1>6, <2>1, CallingSo DEF Begin
<1>7. ASSUME Begin(c, "open", 0, 0, 0) PROVE Calling(c)
  <2>1. Proper("open", 0, 0, 0, "")
    BY DEF Proper
  <2> QED
    BY <1>7, <2>1, CallingSo DEF Begin
<1>8. ASSUME NEW order \in Filed(store, "order"), Begin(c, "submit", order, 0, 0) \/ Begin(c, "receive", order, 0, 0)
      PROVE  Calling(c)
  <2>1. Proper("submit", order, 0, 0, "") /\ Proper("receive", order, 0, 0, "")
    BY OnKind DEF Proper, IsAbout
  <2> QED
    BY <1>8, <2>1, CallingSo DEF Begin
<1>9. ASSUME NEW order \in Filed(store, "order"), NEW how \in {"APPROVED", "REJECTED"}, Says(c, "decide", order, 0, how)
      PROVE  Calling(c)
  <2>1. Proper("decide", order, 0, 0, how)
    BY OnKind DEF Proper, IsAbout, Words
  <2> QED
    BY <1>9, <2>1, CallingSo DEF Says
<1>10. ASSUME NEW receipt \in Filed(store, "receipt"), Begin(c, "invoice", receipt, 0, 0) PROVE Calling(c)
  <2>1. Proper("invoice", receipt, 0, 0, "")
    BY OnKind DEF Proper, IsAbout
  <2> QED
    BY <1>10, <2>1, CallingSo DEF Begin
<1>11. ASSUME NEW receipt \in Filed(store, "receipt"), NEW n \in 1 .. MaxAmount, Begin(c, "lots", receipt, n, 0)
       PROVE  Calling(c)
  <2>1. receipt \in Nat /\ receipt # 0 /\ receipt \in DOMAIN store.docs /\ store.docs[receipt].kind = "receipt"
    BY OnKind
  <2>2. Proper("lots", receipt, n, 0, "")
    BY <2>1, AmountsCount DEF Proper, IsAbout
  <2> QED
    BY <1>11, <2>2, CallingSo DEF Begin
<1>12. ASSUME NEW lot \in Filed(store, "lot"), NEW n \in 1 .. MaxAmount, Begin(c, "write_off", lot, n, 0)
       PROVE  Calling(c)
  <2>1. lot \in Nat /\ lot # 0 /\ lot \in DOMAIN store.docs /\ store.docs[lot].kind = "lot"
    BY OnKind
  <2>2. Proper("write_off", lot, n, 0, "")
    BY <2>1, AmountsCount DEF Proper, IsAbout
  <2> QED
    BY <1>12, <2>2, CallingSo DEF Begin
<1>13. ASSUME NEW invoice \in Filed(store, "invoice"), NEW n \in 1 .. MaxAmount, NEW m \in 0 .. MaxAmount + 1,
              Begin(c, "pay", invoice, n, 0) \/ Begin(c, "supplier_return", invoice, n, m)
       PROVE  Calling(c)
  <2>1. invoice \in Nat /\ invoice # 0 /\ invoice \in DOMAIN store.docs /\ store.docs[invoice].kind = "invoice"
    BY OnKind
  <2>2. Proper("pay", invoice, n, 0, "") /\ Proper("supplier_return", invoice, n, m, "")
    BY <2>1, AmountsCount DEF Proper, IsAbout
  <2> QED
    BY <1>13, <2>2, CallingSo DEF Begin
<1>14. ASSUME NEW d \in Filed(store, "invoice") \cup Filed(store, "receipt"), Begin(c, "dispute", d, 0, 0) PROVE Calling(c)
  <2>1. d \in Nat /\ d # 0 /\ d \in DOMAIN store.docs /\ store.docs[d].kind \in {"invoice", "receipt"}
    BY OnKind
  <2>2. Proper("dispute", d, 0, 0, "")
    BY <2>1 DEF Proper, IsAbout
  <2> QED
    BY <1>14, <2>2, CallingSo DEF Begin
<1>15. ASSUME NEW dispute \in Filed(store, "dispute"), Begin(c, "resolve", dispute, 0, 0) PROVE Calling(c)
  <2>1. Proper("resolve", dispute, 0, 0, "")
    BY OnKind DEF Proper, IsAbout
  <2> QED
    BY <1>15, <2>1, CallingSo DEF Begin
<1>16. ASSUME NEW job \in Filed(store, "job"), NEW how \in {"COMPLETED", "FAILED"}, Says(c, "complete", job, 0, how)
       PROVE  Calling(c)
  <2>1. Proper("complete", job, 0, 0, how)
    BY OnKind DEF Proper, IsAbout, Words
  <2> QED
    BY <1>16, <2>1, CallingSo DEF Says
<1>17. ASSUME NEW n \in {0, 1}, NEW m \in {0, 1}, Begin(c, "push", 0, n, m) PROVE Calling(c)
  <2>1. Proper("push", 0, n, m, "")
    BY DEF Proper
  <2> QED
    BY <1>17, <2>1, CallingSo DEF Begin
<1>18. ASSUME NEW how \in {"ACTIVE", "SUSPENDED"}, Says(c, "tenant", 0, 0, how) PROVE Calling(c)
  <2>1. Proper("tenant", 0, 0, 0, how)
    BY DEF Proper, Words
  <2> QED
    BY <1>18, <2>1, CallingSo DEF Says
<1>19. \A n \in 1 .. MaxAmount : n \in 0 .. MaxAmount + 1
  BY LegacyAssumption
<1> QED
  BY <1>1, <1>2, <1>3, <1>4, <1>5, <1>6, <1>7, <1>8, <1>9, <1>10, <1>11, <1>12, <1>13, <1>14, <1>15, <1>16, <1>17, <1>18, <1>19
     DEF Asked


\* The others in a step that writes nothing.
LEMMA OthersSame ==
    ASSUME LegacyInv, NEW c, \A d \in Callers \ {c} : calls'[d] = calls[d], store' = store, torn' = torn
    PROVE  OthersFollow(c, calls, calls', store, store', torn')
<1>1. ASSUME NEW d \in Callers \ {c} PROVE Follows(calls[d], calls'[d])
  BY SameFollows DEF LegacyInv, LegacyShape
<1>2. ASSUME NEW d \in Callers \ {c}, calls[d].stage = "looked"
      PROVE  IF calls'[d].aside THEN torn' ELSE calls[d].of \in DOMAIN store'.docs
  BY <1>2 DEF LegacyInv, CallHolds, Active
<1> QED
  BY <1>1, <1>2 DEF OthersFollow

\* A step that neither serves nor answers leaves the served store as whole as it was.
LEMMA WholeSame ==
    ASSUME LegacyInv, NEW c \in Callers, \A d \in Callers \ {c} : calls'[d] = calls[d],
           calls[c].stage # "answered", calls'[c].stage # "answered",
           store' = store, snapshot' = snapshot, answered' = answered, torn' = torn
    PROVE  StateFile /\ ~torn' => WholeSoFar'
<1>1. SUFFICES ASSUME StateFile, ~torn' PROVE WholeSoFar'
  OBVIOUS
<1>2. WholeSoFar
  BY <1>1 DEF LegacyInv
<1>3. \A d \in Callers : /\ Pending(d)' <=> Pending(d)
                         /\ calls'[d].stage = "answered" <=> calls[d].stage = "answered"
                         /\ calls[d].stage = "answered" => calls'[d] = calls[d]
  BY DEF Pending
<1>4. \A s : Clean(s)' <=> Clean(s)
  BY DEF Clean
<1>5. Clean(snapshot)' /\ \A d \in Callers : calls'[d].stage = "answered" => calls'[d].answer # "raised"
  BY <1>2, <1>3, <1>4 DEF WholeSoFar
<1>6. CASE (\A d \in Callers : ~Pending(d)) /\ Clean(store)
  BY <1>3, <1>4, <1>5, <1>6 DEF WholeSoFar
<1>7. CASE \E d \in Callers : Pending(d) /\ calls[d].overtaken
  <2>1. \E d \in Callers : Pending(d)' /\ calls'[d].overtaken
    BY <1>3, <1>7 DEF Pending
  <2> QED
    BY <1>5, <2>1 DEF WholeSoFar
<1>8. CASE /\ \A d \in Callers : Pending(d) => calls[d].before = store \/ Clean(calls[d].before)
           /\ \E d \in Callers : Pending(d) /\ (Clean(store) \/ Clean(calls[d].before))
  <2>1. \A d \in Callers : Pending(d)' => calls'[d].before = store' \/ Clean(calls[d].before)'
    BY <1>3, <1>4, <1>8 DEF Pending
  <2>2. \E d \in Callers : Pending(d)' /\ (Clean(store)' \/ Clean(calls[d].before)')
    <3>1. PICK d \in Callers : Pending(d) /\ (Clean(store) \/ Clean(calls[d].before))
      BY <1>8
    <3>2. Pending(d)' /\ calls'[d].before = calls[d].before
      BY <1>3, <3>1 DEF Pending
    <3> QED
      BY <1>4, <3>1, <3>2
  <2> QED
    BY <1>5, <2>1, <2>2 DEF WholeSoFar
<1> QED
  BY <1>2, <1>6, <1>7, <1>8 DEF WholeSoFar

\* A step of c that writes nothing, after which c is under way.
LEMMA UnderwayKeeps ==
    ASSUME LegacyInv, NEW c \in Callers, NEW q, IsCall(q), q.stage \in {"begun", "looked"}, calls' = [calls EXCEPT ![c] = q],
           calls[c].stage # "answered", q.before \in World, q.seen \in World, q.id \in 1 .. Limit',
           \A s \in World : Unused(q.id, s), \A d \in Callers \ {c} : Active(d) => calls[d].id # q.id,
           About(q, q.before), q.overtaken \/ q.before = store, q.stage = "begun" => ~q.aside,
           q.stage = "looked" => q.of \in DOMAIN q.seen.docs /\ ~q.aside /\ q.of \in DOMAIN store.docs,
           store' = store, snapshot' = snapshot, answered' = answered, torn' = torn, raced' = raced,
           called' \in Nat, called <= called'
    PROVE  LegacyInv'
<1>1. /\ calls' = [d \in Callers |-> calls'[d]] /\ calls'[c] = q
      /\ \A d \in Callers \ {c} : calls'[d] = calls[d]
      /\ \A d \in Callers : IsCall(calls[d])
      /\ torn \in BOOLEAN
  BY DEF LegacyInv, LegacyShape
<1>2. OthersFollow(c, calls, calls', store, store', torn')
  BY <1>1, OthersSame
<1>3. /\ Limit \in Nat /\ called \in Nat /\ AllHold(World, Limit, raced) /\ store \in World /\ snapshot \in World
      /\ Cardinality(DOMAIN Opening.docs) \in Nat
  <2>1. IsFiniteSet(DOMAIN Opening.docs)
    BY OpeningAssumption DEF IsStore
  <2> QED
    BY <2>1, StoresOf, FS_CardinalityType
<1>4. LegacyShape'
  <2>1. \A d \in Callers : IsCall(calls'[d])
    BY <1>1
  <2> QED
    BY <1>1, <2>1, ShapeStays
<1>5. World' \subseteq World
  <2>1. PICK V : V = World
    OBVIOUS
  <2>2. World \subseteq V /\ store' \in V /\ snapshot' \in V /\ calls'[c].before \in V /\ calls'[c].seen \in V
    BY <1>1, <1>3, <2>1
  <2>3. World' \subseteq V
    BY <1>2, <2>2, WorldGrows
  <2> QED
    BY <2>1, <2>3
<1>6. AllHold(World', Limit', raced')
  <2>1. PICK n \in Nat, m \in Nat : n = Limit /\ m = Limit' /\ n <= m
    BY <1>3 DEF Limit
  <2>2. PICK W, V, R : W = World /\ V = World' /\ R = raced
    OBVIOUS
  <2>3. AllHold(V, m, R)
    BY <1>3, <1>5, <2>1, <2>2, AllHoldOn
  <2> QED
    BY <2>1, <2>2, <2>3
<1>7. IdIsFree(c)' /\ CallHolds(c)'
  <2>1. IdIsFree(c)'
    BY <1>1, <1>5 DEF IdIsFree, Active
  <2>2. CallHolds(c)'
    BY <1>1 DEF CallHolds
  <2> QED
    BY <2>1, <2>2
<1>8. ASSUME NEW d \in Callers \ {c}, Active(d)' PROVE IdIsFree(d)' /\ CallHolds(d)'
  <2>1. Active(d) /\ CallHolds(d)'
    BY <1>2, <1>8, OthersKnow
  <2>2. PICK V : V = {}
    OBVIOUS
  <2>3. World' \subseteq World \cup V /\ (\A s \in V : Unused(calls[d].id, s)) /\ calls'[c].id # calls[d].id
    BY <1>1, <1>5, <2>1, <2>2
  <2> QED
    BY <1>2, <1>8, <2>1, <2>3, OthersFresh
<1>9. StateFile /\ ~torn' => WholeSoFar'
  BY <1>1, WholeSame
<1> QED
  BY <1>4, <1>6, <1>7, <1>8, <1>9, InvFromParts

\* A request that comes in keeps the invariant.
LEMMA CallKeeps == ASSUME LegacyInv, NEW c \in Callers, Asked(c) PROVE LegacyInv'
<1>1. PICK op, of, n, m, word : Call(c, op, of, n, m, word) /\ Proper(op, of, n, m, word)
  BY AskedIsProper DEF Calling
<1>2. PICK q : q = [op |-> op, of |-> of, n |-> n, m |-> m, word |-> word, id |-> Cardinality(DOMAIN Opening.docs) + called + 1,
                    stage |-> "begun", before |-> store, seen |-> Opening,
                    overtaken |-> FALSE, aside |-> FALSE, suspended |-> store.tenant = "SUSPENDED"]
  OBVIOUS
<1>3. /\ calls' = [calls EXCEPT ![c] = q] /\ calls[c].stage = "none" /\ called' = called + 1
      /\ store' = store /\ snapshot' = snapshot /\ answered' = answered /\ torn' = torn /\ raced' = raced
  BY <1>1, <1>2 DEF Call
<1>4. /\ Limit \in Nat /\ called \in Nat /\ AllHold(World, Limit, raced) /\ store \in World /\ Opening \in World
      /\ Cardinality(DOMAIN Opening.docs) \in Nat
  <2>1. IsFiniteSet(DOMAIN Opening.docs)
    BY OpeningAssumption DEF IsStore
  <2> QED
    BY <2>1, StoresOf, FS_CardinalityType
<1>5. /\ q.op = op /\ q.of = of /\ q.n = n /\ q.m = m /\ q.word = word /\ q.stage = "begun" /\ q.before = store
      /\ q.seen = Opening /\ q.overtaken = FALSE /\ q.aside = FALSE /\ q.id = Limit + 1
  BY <1>2, <1>4 DEF Limit
<1>6. q = [op |-> q.op, of |-> q.of, n |-> q.n, m |-> q.m, word |-> q.word, id |-> q.id, stage |-> q.stage,
           before |-> q.before, seen |-> q.seen, overtaken |-> q.overtaken, aside |-> q.aside, suspended |-> q.suspended]
  BY <1>2
<1>7. IsCall(q)
  <2>1. /\ n \in Nat /\ m \in Nat /\ of \in Nat /\ q.id \in Nat
        /\ op = "sell" => word \in {"whole", "refused", "raised"}
        /\ op = "pay" => n # 0
        /\ op \in {"decide", "complete", "tenant"} => word \in Words
    BY <1>1, <1>4, <1>5 DEF Proper
  <2> QED
    BY <1>5, <1>6, <2>1 DEF IsCall
<1>8. About(q, q.before)
  BY <1>1, <1>5 DEF About, Proper
<1>9. q.id \in 1 .. Limit'
  BY <1>3, <1>4, <1>5 DEF Limit
<1>10. ASSUME NEW s \in World PROVE Unused(q.id, s)
  <2>1. Coheres(s, Limit, raced)
    BY <1>4 DEF AllHold
  <2>2. q.id \notin 0 .. Limit
    BY <1>4, <1>5
  <2> QED
    BY <1>4, <2>1, <2>2 DEF Coheres, Unused
<1>11. ASSUME NEW d \in Callers \ {c}, Active(d) PROVE calls[d].id # q.id
  <2>1. calls[d].id \in 1 .. Limit
    BY <1>11, AboutNumber
  <2> QED
    BY <1>4, <1>5, <2>1
<1>12. calls[c].stage # "answered" /\ q.before \in World /\ q.seen \in World
  BY <1>3, <1>4, <1>5
<1>13. called' \in Nat /\ called <= called'
  BY <1>3, <1>4
<1> QED
  BY <1>3, <1>5, <1>7, <1>8, <1>9, <1>10, <1>11, <1>12, <1>13, UnderwayKeeps

\* A handler that looks its document up keeps the invariant.
LEMMA LookKeeps == ASSUME LegacyInv, NEW c \in Callers, Look(c) PROVE LegacyInv'
<1>1. /\ calls[c].stage = "begun" /\ Named(c)
      /\ calls[c].op \in {"submit", "decide", "receive", "lots", "write_off", "invoice", "supplier_return", "pay", "close", "resolve"}
      /\ calls' = [calls EXCEPT ![c].stage = "looked", ![c].seen = store]
      /\ store' = store /\ snapshot' = snapshot /\ called' = called /\ answered' = answered /\ torn' = torn /\ raced' = raced
  BY DEF Look
<1>2. PICK p : p = calls[c]
  OBVIOUS
<1>3. PICK q : q = [[p EXCEPT !.stage = "looked"] EXCEPT !.seen = store]
  OBVIOUS
<1>4. /\ IsCall(p) /\ Active(c) /\ CallHolds(c) /\ IdIsFree(c) /\ p.stage = "begun"
      /\ calls = [d \in Callers |-> calls[d]]
  BY <1>1, <1>2 DEF LegacyInv, LegacyShape, Active
<1>5. calls' = [calls EXCEPT ![c] = q]
  BY <1>1, <1>2, <1>3, <1>4
<1>6. p = [op |-> p.op, of |-> p.of, n |-> p.n, m |-> p.m, word |-> p.word, id |-> p.id, stage |-> p.stage,
           before |-> p.before, seen |-> p.seen, overtaken |-> p.overtaken, aside |-> p.aside, suspended |-> p.suspended]
  BY <1>4 DEF IsCall, NoCall
<1>7. q = [op |-> p.op, of |-> p.of, n |-> p.n, m |-> p.m, word |-> p.word, id |-> p.id, stage |-> "looked",
           before |-> p.before, seen |-> store, overtaken |-> p.overtaken, aside |-> p.aside, suspended |-> p.suspended]
  BY <1>3, <1>6
<1>8. /\ q.op = p.op /\ q.of = p.of /\ q.n = p.n /\ q.m = p.m /\ q.word = p.word /\ q.id = p.id /\ q.stage = "looked"
      /\ q.before = p.before /\ q.seen = store /\ q.overtaken = p.overtaken /\ q.aside = p.aside
      /\ q = [op |-> q.op, of |-> q.of, n |-> q.n, m |-> q.m, word |-> q.word, id |-> q.id, stage |-> q.stage,
              before |-> q.before, seen |-> q.seen, overtaken |-> q.overtaken, aside |-> q.aside, suspended |-> q.suspended]
  BY <1>7
<1>9. IsCall(q)
  <2>1. /\ p.n \in Nat /\ p.m \in Nat /\ p.of \in Nat /\ p.id \in Nat /\ p.overtaken \in BOOLEAN /\ p.aside \in BOOLEAN
        /\ p.op = "sell" => p.word \in {"whole", "refused", "raised"}
        /\ p.op = "pay" => p.n # 0
        /\ p.op \in {"decide", "complete", "tenant"} => p.word \in Words
    BY <1>4 DEF IsCall, NoCall
  <2> QED
    BY <1>8, <2>1 DEF IsCall
<1>10. /\ store \in World /\ p.before \in World /\ called \in Nat /\ Limit' = Limit
  BY <1>1, <1>2, <1>4, StoresOf DEF Limit
<1>11. /\ p.id \in 1 .. Limit /\ (\A s \in World : Unused(p.id, s))
       /\ \A d \in Callers \ {c} : Active(d) => calls[d].id # p.id
  BY <1>2, <1>4 DEF IdIsFree
<1>12. /\ About(p, p.before) /\ (p.overtaken \/ p.before = store) /\ ~p.aside
  BY <1>2, <1>4 DEF CallHolds
<1>13. About(q, q.before)
  BY <1>8, <1>12 DEF About
<1>14. q.of \in DOMAIN store.docs
  <2>1. p.op \notin {"sell", "open", "transfer", "count", "order", "push", "tenant"}
    BY <1>1, <1>2
  <2>2. p.of # 0
    BY <1>12, <2>1 DEF About
  <2> QED
    BY <1>1, <1>2, <1>8, <2>2 DEF Named
<1>15. q.id \in 1 .. Limit' /\ \A s \in World : Unused(q.id, s)
  BY <1>8, <1>10, <1>11
<1>16. \A d \in Callers \ {c} : Active(d) => calls[d].id # q.id
  BY <1>8, <1>11
<1>17. called' \in Nat /\ called <= called' /\ calls[c].stage # "answered" /\ q.before \in World /\ q.seen \in World
  BY <1>1, <1>8, <1>10
<1>18. (q.overtaken \/ q.before = store) /\ ~q.aside /\ q.of \in DOMAIN q.seen.docs
  BY <1>8, <1>12, <1>14
<1> QED
  BY <1>1, <1>5, <1>8, <1>9, <1>13, <1>14, <1>15, <1>16, <1>17, <1>18, UnderwayKeeps

-----------------------------------------------------------------------------
(* A response, a restart, the first store. *)

\* What the middleware's response leaves in each variable.
LEMMA RespondDoes ==
    ASSUME LegacyInv, NEW c \in Callers, Respond(c)
    PROVE  /\ calls[c].stage = "answered" /\ calls[c].answer \in {"done", "refused", "raised"}
           /\ calls' = [d \in Callers |-> calls'[d]] /\ calls'[c] = NoCall /\ called' = called /\ raced' = raced
           /\ IF StateFile THEN SaveOrRestore(c) ELSE store' = store /\ snapshot' = snapshot
           /\ store' # store => StateFile /\ calls[c].answer = "refused" /\ store' = calls[c].before
           /\ snapshot' \in {store, snapshot}
           /\ torn \in BOOLEAN /\ torn' \in BOOLEAN /\ (torn => torn')
           /\ ~torn' => /\ calls[c].answer = "done" => \A d \in Callers \ {c} : ~Pending(d)
                        /\ calls[c].answer = "refused" => ~calls[c].overtaken /\ \A d \in Callers : calls[d].stage # "looked"
           /\ \A d \in Callers \ {c} : calls'[d] =
                IF store' = store THEN calls[d]
                ELSE IF calls[d].stage = "looked" THEN [[calls[d] EXCEPT !.overtaken = TRUE] EXCEPT !.aside = TRUE]
                ELSE IF calls[d].stage # "none" THEN [calls[d] EXCEPT !.overtaken = TRUE] ELSE calls[d]
<1>1. PICK t : t = store'
  OBVIOUS
<1>2. PICK all : all = Overtaken(c, t)
  OBVIOUS
<1>3. \A d \in Callers \ {c} : all[d] = IF calls[d].stage # "none" /\ t # store
                                        THEN [calls[d] EXCEPT !.overtaken = TRUE] ELSE calls[d]
  BY <1>2 DEF Overtaken
<1>4. calls' = [d \in Callers |->
          IF d = c THEN NoCall
          ELSE IF t = store THEN calls[d]
          ELSE IF calls[d].stage = "looked" THEN [all[d] EXCEPT !.aside = TRUE] ELSE all[d]]
  BY <1>1, <1>2 DEF Respond
<1>5. calls' = [d \in Callers |-> calls'[d]] /\ calls'[c] = NoCall
  BY <1>4
<1>6. \A d \in Callers \ {c} : calls'[d] =
         IF t = store THEN calls[d]
         ELSE IF calls[d].stage = "looked" THEN [[calls[d] EXCEPT !.overtaken = TRUE] EXCEPT !.aside = TRUE]
         ELSE IF calls[d].stage # "none" THEN [calls[d] EXCEPT !.overtaken = TRUE] ELSE calls[d]
  BY <1>3, <1>4
<1>7. calls[c].stage = "answered" /\ IsCall(calls[c]) /\ torn \in BOOLEAN
  BY DEF Respond, LegacyInv, LegacyShape
<1>8. calls[c].answer \in {"done", "refused", "raised"} /\ calls[c].overtaken \in BOOLEAN
  BY <1>7 DEF IsCall, NoCall
<1>9. /\ IF StateFile THEN SaveOrRestore(c) ELSE store' = store /\ snapshot' = snapshot
      /\ called' = called /\ raced' = raced
  BY DEF Respond
<1>10. /\ store' # store => StateFile /\ calls[c].answer = "refused" /\ store' = calls[c].before
       /\ snapshot' \in {store, snapshot}
  BY <1>9 DEF SaveOrRestore, Saved
<1>11. PICK pending : pending = {d \in Callers \ {c} : calls[d].stage = "answered" /\ calls[d].answer = "refused"}
  OBVIOUS
<1>12. torn' = (torn \/ (calls[c].answer = "done" /\ pending # {})
                     \/ (calls[c].answer = "refused" /\ (calls[c].overtaken \/ \E d \in Callers : calls[d].stage = "looked")))
  BY <1>11 DEF Respond
<1>13. torn' \in BOOLEAN /\ (torn => torn')
  BY <1>7, <1>8, <1>12
<1>14. ASSUME ~torn'
       PROVE  /\ calls[c].answer = "done" => \A d \in Callers \ {c} : ~Pending(d)
              /\ calls[c].answer = "refused" => ~calls[c].overtaken /\ \A d \in Callers : calls[d].stage # "looked"
  <2>1. calls[c].answer = "done" => pending = {}
    BY <1>12, <1>14
  <2>2. calls[c].answer = "refused" => ~calls[c].overtaken /\ \A d \in Callers : calls[d].stage # "looked"
    BY <1>12, <1>14
  <2> QED
    BY <1>11, <2>1, <2>2 DEF Pending
<1> QED
  BY <1>1, <1>5, <1>6, <1>7, <1>8, <1>9, <1>10, <1>13, <1>14

\* The middleware's response leaves the other requests what they were, or overtaken.
LEMMA RespondFollows ==
    ASSUME LegacyInv, NEW c \in Callers, Respond(c) PROVE OthersFollow(c, calls, calls', store, store', torn')
<1>1. ASSUME NEW d \in Callers \ {c}
      PROVE  /\ Follows(calls[d], calls'[d])
             /\ IF store' = store THEN calls'[d] = calls[d] ELSE calls[d].stage # "none" => calls'[d].overtaken
             /\ calls[d].stage = "looked" /\ store' # store => calls'[d].aside
  <2>0. calls'[d] =
          IF store' = store THEN calls[d]
          ELSE IF calls[d].stage = "looked" THEN [[calls[d] EXCEPT !.overtaken = TRUE] EXCEPT !.aside = TRUE]
          ELSE IF calls[d].stage # "none" THEN [calls[d] EXCEPT !.overtaken = TRUE] ELSE calls[d]
    BY RespondDoes
  <2>1. IsCall(calls[d])
    BY DEF LegacyInv, LegacyShape
  <2>2. CASE store' = store
    BY <2>0, <2>1, <2>2, SameFollows
  <2>3. CASE store' # store /\ calls[d].stage = "looked"
    BY <2>0, <2>1, <2>3, AsideFollows
  <2>4. CASE store' # store /\ calls[d].stage # "looked" /\ calls[d].stage # "none"
    BY <2>0, <2>1, <2>4, OvertakenFollows
  <2>5. CASE calls[d].stage = "none"
    BY <2>0, <2>1, <2>5, SameFollows
  <2> QED
    BY <2>2, <2>3, <2>4, <2>5
<1>2. ASSUME NEW d \in Callers \ {c}, calls[d].stage = "looked"
      PROVE  IF calls'[d].aside THEN torn' ELSE calls[d].of \in DOMAIN store'.docs
  <2>1. CallHolds(d)
    BY <1>2 DEF LegacyInv, Active
  <2>2. IF calls[d].aside THEN torn ELSE calls[d].of \in DOMAIN store.docs
    BY <1>2, <2>1 DEF CallHolds
  <2>3. CASE store' = store
    BY <1>1, <2>2, <2>3, RespondDoes
  <2>4. CASE store' # store
    <3>1. calls'[d].aside
      BY <1>1, <1>2, <2>4
    <3>2. calls[c].answer = "refused"
      BY <2>4, RespondDoes
    <3>3. torn'
      BY <1>2, <3>2, RespondDoes
    <3> QED
      BY <3>1, <3>3
  <2> QED
    BY <2>3, <2>4
<1> QED
  BY <1>1, <1>2 DEF OthersFollow

\* The middleware's response leaves every store in the world whole.
LEMMA RespondHolds ==
    ASSUME LegacyInv, NEW c \in Callers, Respond(c)
    PROVE  /\ LegacyShape' /\ AllHold(World', Limit', raced')
           /\ \A d \in Callers : Active(d)' => IdIsFree(d)' /\ CallHolds(d)'
<1>1. /\ calls[c].stage = "answered"
      /\ calls' = [d \in Callers |-> calls'[d]] /\ calls'[c] = NoCall /\ called' = called /\ raced' = raced
      /\ store' # store => store' = calls[c].before
      /\ snapshot' \in {store, snapshot} /\ torn' \in BOOLEAN
  BY RespondDoes
<1>2. OthersFollow(c, calls, calls', store, store', torn')
  BY RespondFollows
<1>3. /\ Limit \in Nat /\ called \in Nat /\ AllHold(World, Limit, raced) /\ store \in World /\ snapshot \in World
      /\ calls[c].before \in World
  BY <1>1, StoresOf
<1>4. LegacyShape'
  <2>1. \A d \in Callers : IsCall(calls'[d])
    BY <1>1, <1>2 DEF OthersFollow, Follows, IsCall
  <2>2. called' \in Nat
    BY <1>1, <1>3
  <2> QED
    BY <1>1, <2>1, <2>2, ShapeStays
<1>5. calls'[c].stage = "none" /\ ~Active(c)'
  BY <1>1 DEF NoCall, Active
<1>6. World' \subseteq World
  <2>1. PICK V : V = World
    OBVIOUS
  <2>2. World \subseteq V /\ store' \in V /\ snapshot' \in V
    BY <1>1, <1>3, <2>1
  <2>3. World' \subseteq V
    BY <1>2, <1>5, <2>2, WorldGrows
  <2> QED
    BY <2>1, <2>3
<1>7. AllHold(World', Limit', raced')
  <2>1. PICK n \in Nat : n = Limit /\ n = Limit'
    BY <1>1, <1>3 DEF Limit
  <2>2. PICK W, V, R : W = World /\ V = World' /\ R = raced
    OBVIOUS
  <2>3. AllHold(V, n, R)
    BY <1>3, <1>6, <2>1, <2>2, AllHoldOn
  <2> QED
    BY <1>1, <2>1, <2>2, <2>3
<1>8. ASSUME NEW d \in Callers, Active(d)' PROVE IdIsFree(d)' /\ CallHolds(d)'
  <2>1. d # c
    BY <1>5, <1>8
  <2>2. Active(d) /\ CallHolds(d)'
    BY <1>2, <1>8, <2>1, OthersKnow
  <2>3. PICK V : V = {}
    OBVIOUS
  <2>4. World' \subseteq World \cup V /\ (\A s \in V : Unused(calls[d].id, s)) /\ called' \in Nat /\ called <= called'
    BY <1>1, <1>3, <1>6, <2>3
  <2> QED
    BY <1>2, <1>5, <1>8, <2>1, <2>2, <2>4, OthersFresh
<1> QED
  BY <1>4, <1>7, <1>8

\* The middleware's response leaves what is served or saved whole, unless a handler tore it.
LEMMA RespondWhole == ASSUME LegacyInv, NEW c \in Callers, Respond(c), StateFile, ~torn' PROVE WholeSoFar'
<1>1. /\ calls[c].stage = "answered" /\ calls[c].answer \in {"done", "refused", "raised"} /\ calls'[c] = NoCall
      /\ SaveOrRestore(c) /\ ~torn
      /\ calls[c].answer = "done" => \A d \in Callers \ {c} : ~Pending(d)
      /\ calls[c].answer = "refused" => ~calls[c].overtaken
  BY RespondDoes
<1>2. WholeSoFar
  BY <1>1 DEF LegacyInv
<1>3. OthersFollow(c, calls, calls', store, store', torn')
  BY RespondFollows
<1>4. ASSUME NEW d \in Callers \ {c}
      PROVE  /\ calls'[d].stage = calls[d].stage
             /\ calls[d].stage = "answered" =>
                  /\ calls'[d].answer = calls[d].answer /\ calls'[d].before = calls[d].before
                  /\ calls[d].overtaken \/ store' # store => calls'[d].overtaken
  BY <1>3, PendingFollows
<1>5. calls'[c].stage = "none" /\ ~Pending(c)'
  BY <1>1 DEF NoCall, Pending
<1>6. ASSUME NEW d \in Callers, calls'[d].stage = "answered" PROVE calls'[d].answer # "raised"
  BY <1>2, <1>4, <1>5, <1>6 DEF WholeSoFar
<1>7. CASE calls[c].answer = "raised"
  BY <1>1, <1>2, <1>7 DEF WholeSoFar
<1>8. CASE calls[c].answer = "done"
  <2>1. \A d \in Callers : ~Pending(d)
    BY <1>1, <1>8 DEF Pending
  <2>2. Clean(store)
    BY <1>2, <2>1 DEF WholeSoFar
  <2>3. store' = store /\ snapshot' = store
    BY <1>1, <1>8 DEF SaveOrRestore, Saved
  <2>4. answered' \subseteq answered \cup DOMAIN store.docs
    BY DEF Respond
  <2>5. Clean(store)' /\ Clean(snapshot)'
    BY <2>2, <2>3, <2>4 DEF Clean
  <2>6. \A d \in Callers : ~Pending(d)'
    BY <1>4, <1>5, <2>1 DEF Pending
  <2> QED
    BY <1>6, <2>5, <2>6 DEF WholeSoFar
<1>9. CASE calls[c].answer = "refused"
  <2>1. store' = calls[c].before /\ snapshot' = snapshot /\ answered' = answered
    BY <1>1, <1>9 DEF SaveOrRestore, Respond
  <2>2. \A s : Clean(s)' <=> Clean(s)
    BY <2>1 DEF Clean
  <2>3. Clean(snapshot)'
    BY <1>2, <2>1, <2>2 DEF WholeSoFar
  <2>4. Pending(c) /\ ~calls[c].overtaken
    BY <1>1, <1>9 DEF Pending
  <2>5. CASE \E d \in Callers \ {c} : Pending(d) /\ (calls[d].overtaken \/ store' # store)
    <3>1. PICK d \in Callers \ {c} : Pending(d) /\ (calls[d].overtaken \/ store' # store)
      BY <2>5
    <3>2. Pending(d)' /\ calls'[d].overtaken
      BY <1>4, <3>1 DEF Pending
    <3> QED
      BY <1>6, <2>3, <3>2 DEF WholeSoFar
  <2>6. CASE ~\E d \in Callers \ {c} : Pending(d) /\ (calls[d].overtaken \/ store' # store)
    <3>1. /\ \A d \in Callers : Pending(d) => calls[d].before = store \/ Clean(calls[d].before)
          /\ \E d \in Callers : Pending(d) /\ (Clean(store) \/ Clean(calls[d].before))
      <4>1. ~\E d \in Callers : Pending(d) /\ calls[d].overtaken
        BY <2>4, <2>6
      <4> QED
        BY <1>2, <2>4, <4>1 DEF WholeSoFar
    <3>2. CASE \A d \in Callers \ {c} : ~Pending(d)
      <4>1. Clean(store')
        BY <2>1, <3>1, <3>2
      <4>2. Clean(store)'
        BY <2>2, <4>1
      <4>3. \A d \in Callers : ~Pending(d)'
        BY <1>4, <1>5, <3>2 DEF Pending
      <4> QED
        BY <1>6, <2>3, <4>2, <4>3 DEF WholeSoFar
    <3>3. CASE \E d \in Callers \ {c} : Pending(d)
      <4>1. store' = store
        BY <2>6, <3>3
      <4>2. \A d \in Callers : Pending(d)' => calls'[d].before = store' \/ Clean(calls[d].before)'
        BY <1>4, <1>5, <2>2, <3>1, <4>1 DEF Pending
      <4>3. \E d \in Callers : Pending(d)' /\ (Clean(store)' \/ Clean(calls[d].before)')
        <5>1. PICK e \in Callers : Pending(e) /\ (Clean(store) \/ Clean(calls[e].before))
          BY <3>1
        <5>2. CASE e = c
          <6>1. PICK d \in Callers \ {c} : Pending(d)
            BY <3>3
          <6>2. Pending(d)'
            BY <1>4, <6>1 DEF Pending
          <6>3. Clean(store)
            BY <2>1, <4>1, <5>1, <5>2
          <6>4. Clean(store)'
            BY <2>2, <4>1, <6>3
          <6> QED
            BY <6>2, <6>4
        <5>3. CASE e # c
          <6>1. Pending(e)' /\ calls'[e].before = calls[e].before
            BY <1>4, <5>1, <5>3 DEF Pending
          <6>2. Clean(store)' \/ Clean(calls[e].before)'
            BY <2>2, <4>1, <5>1, <6>1
          <6> QED
            BY <6>1, <6>2
        <5> QED
          BY <5>2, <5>3
      <4> QED
        BY <1>6, <2>3, <4>2, <4>3 DEF WholeSoFar
    <3> QED
      BY <3>2, <3>3
  <2> QED
    BY <2>5, <2>6
<1> QED
  BY <1>1, <1>7, <1>8, <1>9


\* A restart keeps the invariant: what the state file held was a store of the world.
LEMMA RestartKeeps == ASSUME LegacyInv, Restart PROVE LegacyInv'
<1>1. /\ StateFile /\ called' = called + 1 /\ store' = snapshot /\ snapshot' = snapshot
      /\ calls' = [c \in Callers |-> NoCall] /\ answered' = answered /\ torn' = torn /\ raced' = raced
  BY DEF Restart
<1>2. /\ Limit \in Nat /\ called \in Nat /\ AllHold(World, Limit, raced) /\ snapshot \in World /\ Opening \in World
      /\ Cardinality(DOMAIN Opening.docs) \in Nat
  <2>1. IsFiniteSet(DOMAIN Opening.docs)
    BY OpeningAssumption DEF IsStore
  <2> QED
    BY <2>1, StoresOf, FS_CardinalityType
<1>3. \A c \in Callers : calls'[c] = NoCall /\ calls'[c].stage = "none"
  BY <1>1 DEF NoCall
<1>4. LegacyShape'
  <2>1. calls' = [d \in Callers |-> calls'[d]] /\ \A d \in Callers : IsCall(calls'[d])
    BY <1>1, <1>3 DEF IsCall
  <2>2. called' \in Nat /\ torn' \in BOOLEAN
    BY <1>1, <1>2 DEF LegacyInv, LegacyShape
  <2> QED
    BY <2>1, <2>2, ShapeStays
<1>5. World' \subseteq World
  BY <1>1, <1>2, <1>3 DEF World, Active
<1>6. AllHold(World', Limit', raced')
  <2>1. PICK n \in Nat, m \in Nat : n = Limit /\ m = Limit' /\ n <= m
    BY <1>1, <1>2 DEF Limit
  <2>2. PICK W, V, R : W = World /\ V = World' /\ R = raced
    OBVIOUS
  <2>3. AllHold(V, m, R)
    BY <1>2, <1>5, <2>1, <2>2, AllHoldOn
  <2> QED
    BY <1>1, <2>1, <2>2, <2>3
<1>7. \A c \in Callers : ~Active(c)' /\ ~Pending(c)'
  BY <1>3 DEF Active, Pending
<1>8. StateFile /\ ~torn' => WholeSoFar'
  <2>1. SUFFICES ASSUME ~torn' PROVE WholeSoFar'
    OBVIOUS
  <2>2. Clean(snapshot)
    BY <1>1, <2>1 DEF LegacyInv, WholeSoFar
  <2>3. Clean(snapshot)' /\ Clean(store)'
    BY <1>1, <2>2 DEF Clean
  <2> QED
    BY <1>3, <1>7, <2>3 DEF WholeSoFar
<1> QED
  BY <1>4, <1>6, <1>7, <1>8, InvFromParts

\* The opening store satisfies the invariant.
LEMMA LegacyStarts == ASSUME LegacyInit PROVE LegacyInv
<1>1. /\ store = Opening /\ snapshot = Opening /\ calls = [c \in Callers |-> NoCall]
      /\ called = 0 /\ answered = {} /\ torn = FALSE /\ raced = {}
  BY DEF LegacyInit
<1>2. \A c \in Callers : calls[c] = NoCall /\ calls[c].stage = "none"
  BY <1>1 DEF NoCall
<1>3. LegacyShape
  BY <1>1, <1>2 DEF LegacyShape, IsCall
<1>4. World = {Opening}
  BY <1>1, <1>2 DEF World, Active
<1>5. IsStore(Opening) /\ BooksAgree(Opening) /\ DOMAIN Opening.docs = 1 .. Cardinality(DOMAIN Opening.docs)
  BY OpeningAssumption
<1>6. PICK n \in Nat : n = Cardinality(DOMAIN Opening.docs) /\ n = Limit
  <2>1. Cardinality(DOMAIN Opening.docs) \in Nat
    BY <1>5, FS_CardinalityType DEF IsStore
  <2> QED
    BY <1>1, <2>1 DEF Limit
<1>7. Coheres(Opening, Limit, raced)
  <2>1. \A d \in DOMAIN Opening.docs : Settled(Opening, d) /\ Cites(Opening.docs[d]) \in {0} \cup DOMAIN Opening.docs
    BY OpeningAssumption
  <2>2. DOMAIN Opening.docs = 1 .. n
    BY <1>5, <1>6
  <2>3. \A d \in DOMAIN Opening.docs : Cites(Opening.docs[d]) \in 0 .. n
    BY <2>1, <2>2
  <2> QED
    BY <1>5, <1>6, <2>1, <2>2, <2>3 DEF Coheres, SettledAll
<1>8. KindsAgree(Opening, Opening)
  BY DEF KindsAgree
<1>9. \A c \in Callers : ~Active(c) /\ ~Pending(c)
  BY <1>2 DEF Active, Pending
<1>10. WholeSoFar
  BY <1>1, <1>2, <1>5, <1>9 DEF WholeSoFar, Clean
<1> QED
  BY <1>3, <1>4, <1>7, <1>8, <1>9, <1>10 DEF LegacyInv

\* Every step of the legacy store keeps the invariant.
LEMMA LegacySteps == ASSUME LegacyInv, [LegacyNext]_legacyVars PROVE LegacyInv'
<1>1. CASE LegacyNext
  <2>1. ASSUME NEW c \in Callers, Asked(c) \/ Look(c) \/ Handler(c) \/ Respond(c) PROVE LegacyInv'
    <3>1. CASE Asked(c)
      BY <3>1, CallKeeps
    <3>2. CASE Look(c)
      BY <3>2, LookKeeps
    <3>3. CASE Handler(c)
      BY <3>3, HandlerKeeps
    <3>4. CASE Respond(c)
      <4>1. /\ LegacyShape' /\ AllHold(World', Limit', raced')
            /\ \A d \in Callers : Active(d)' => IdIsFree(d)' /\ CallHolds(d)'
        BY <3>4, RespondHolds
      <4>2. StateFile /\ ~torn' => WholeSoFar'
        BY <3>4, RespondWhole
      <4> QED
        BY <4>1, <4>2, InvFromParts
    <3> QED
      BY <2>1, <3>1, <3>2, <3>3, <3>4
  <2>2. CASE Restart
    BY <2>2, RestartKeeps
  <2> QED
    BY <1>1, <2>1, <2>2 DEF LegacyNext
<1>2. CASE UNCHANGED legacyVars
  <2>1. /\ store' = store /\ snapshot' = snapshot /\ calls' = calls /\ called' = called /\ answered' = answered
        /\ torn' = torn /\ raced' = raced
    BY <1>2 DEF legacyVars
  <2>2. LegacyShape' /\ World' = World /\ Limit' = Limit
    BY <2>1 DEF LegacyInv, LegacyShape, World, Active, Limit
  <2>3. AllHold(World', Limit', raced')
    BY <2>1, <2>2 DEF LegacyInv, AllHold
  <2>4. \A c \in Callers : Active(c)' => IdIsFree(c)' /\ CallHolds(c)'
    BY <2>1, <2>2 DEF LegacyInv, IdIsFree, CallHolds, Active
  <2>5. StateFile /\ ~torn' => WholeSoFar'
    <3>1. \A s : Clean(s)' <=> Clean(s)
      BY <2>1 DEF Clean
    <3>2. \A c : Pending(c)' <=> Pending(c)
      BY <2>1 DEF Pending
    <3> QED
      BY <2>1, <3>1, <3>2 DEF LegacyInv, WholeSoFar
  <2> QED
    BY <2>2, <2>3, <2>4, <2>5, InvFromParts
<1> QED
  BY <1>1, <1>2

\* The legacy store keeps its invariant: every copy of the store that is anywhere is one whose documents
\* belong together, and what waits to be rolled back takes the store back to one whose books agree.
THEOREM LegacyInvariant == LegacySpec => []LegacyInv
<1>1. LegacyInit => LegacyInv
  BY LegacyStarts
<1>2. LegacyInv /\ [LegacyNext]_legacyVars => LegacyInv'
  BY LegacySteps
<1> QED
  BY <1>1, <1>2, PTL DEF LegacySpec

\* The invariant gives that what is served is whole or not there at all.
LEMMA LegacyInvServes == ASSUME LegacyInv PROVE ServedWholeOrNotAtAll
<1>1. SUFFICES ASSUME StateFile, ~torn
      PROVE  /\ BooksAgree(snapshot) /\ answered \subseteq DOMAIN snapshot.docs
             /\ (\A c \in Callers : calls[c].stage = "answered" => calls[c].answer = "done") =>
                  BooksAgree(store) /\ answered \subseteq DOMAIN store.docs
  BY DEF ServedWholeOrNotAtAll
<1>2. WholeSoFar
  BY <1>1 DEF LegacyInv
<1>3. Clean(snapshot)
  BY <1>2 DEF WholeSoFar
<1>4. ASSUME \A c \in Callers : calls[c].stage = "answered" => calls[c].answer = "done" PROVE Clean(store)
  <2>1. \A c \in Callers : ~Pending(c)
    BY <1>4 DEF Pending
  <2> QED
    BY <1>2, <2>1 DEF WholeSoFar
<1> QED
  BY <1>3, <1>4 DEF Clean

\* The invariant gives that no document is settled beyond what it has.
LEMMA LegacyInvSettles == ASSUME LegacyInv PROVE LegacySettledOnce
<1>1. Coheres(store, Limit, raced)
  BY StoresOf DEF AllHold
<1> QED
  BY <1>1 DEF Coheres, SettledAll, LegacySettledOnce

\* A request is served whole or not at all, whatever the requests, their number and the amounts they
\* ask for: the middleware's snapshots and rollbacks, between all interleavings of handlers and restarts,
\* leave books that agree and lose nothing that was answered with success, until one of them runs over
\* another request's work.
THEOREM LegacyServesWhole == LegacySpec => []ServedWholeOrNotAtAll
<1>1. LegacyInv => ServedWholeOrNotAtAll
  BY LegacyInvServes
<1> QED
  BY <1>1, LegacyInvariant, PTL

\* What a handler has looked at before it writes is settled once, though it writes after other requests
\* have, and though a rollback may take its work away: but for documents that changed in between.
THEOREM LegacySettles == LegacySpec => []LegacySettledOnce
<1>1. LegacyInv => LegacySettledOnce
  BY LegacyInvSettles
<1> QED
  BY <1>1, LegacyInvariant, PTL
=============================================================================
