---------------------------- MODULE BillingProofs ----------------------------
(***************************************************************************)
(* What Billing's runs check of one small branch, for any number of        *)
(* requests, products, prices and quantities.                              *)
(*                                                                         *)
(* Numbers and units.  A number is a count read some time before it is     *)
(* used, and a unit is looked up some time before it is sold.  Both are    *)
(* safe for one reason: a request whose document is in but not committed   *)
(* (saleIn, noteIn) holds the next number of the branch, it is the only    *)
(* one to hold it, and until it commits no other document is posted.       *)
(* HeldSaleNo and HeldNoteNo say this; the unique constraint of the two    *)
(* tables is what establishes it.                                          *)
(*                                                                         *)
(* Stock, returns, refunds and credit.  A request that no commit has       *)
(* overtaken still finds, when it commits, what it found when it was       *)
(* checked: Knows.  A commit changes only what it has read itself, and     *)
(* whoever has read the same is behind from then on.                       *)
(*                                                                         *)
(* The books.  Read in the order of their numbers the tables are the       *)
(* account that BranchLedger describes, one entry a commit.                *)
(***************************************************************************)
EXTENDS Billing, SumProofs, Sequences

IsTable(f) == f = [r \in Requests |-> f[r]]

IsNote(n) == n = [number |-> n.number, of |-> n.of, qty |-> n.qty, refund |-> n.refund,
                  method |-> n.method, status |-> n.status]

Stages == {"idle", "checked", "noteCounted", "noteIn", "saleCounted", "saleIn", "done"}

Shape ==
    /\ pc \in [Requests -> Stages]
    /\ noteNo \in [Requests -> Nat]
    /\ saleNo \in [Requests -> Nat]
    /\ IsTable(op) /\ IsTable(sale) /\ IsTable(note)
    /\ \A n \in Returned :
         IsNote(note[n])

\* What a request's stage says of what it asks for and of what it has posted.
StageMatches ==
    \A r \in Requests :
        /\ pc[r] \in {"noteCounted", "noteIn"} => op[r].kind \in {"return", "exchange"}
        /\ pc[r] \in {"saleCounted", "saleIn"} => op[r].kind \in {"sale", "exchange"}
        /\ pc[r] # "done" => sale[r] = NoSale /\ note[r] = NoNote

HeldSaleNo ==
    /\ {sale[r].number : r \in Sold} = 1 .. Cardinality(Sold)
    /\ \A r \in Requests :
         /\ pc[r] = "saleCounted" => saleNo[r] \in 1 .. Cardinality(Sold) + 1
         /\ HasSaleNo(r) => saleNo[r] = Cardinality(Sold) + 1
    /\ \A r1, r2 \in Requests : HasSaleNo(r1) /\ HasSaleNo(r2) => r1 = r2

HeldNoteNo ==
    /\ {note[r].number : r \in Returned} = 1 .. Cardinality(Returned)
    /\ \A r \in Requests :
         /\ pc[r] = "noteCounted" => noteNo[r] \in 1 .. Cardinality(Returned) + 1
         /\ HasNoteNo(r) => noteNo[r] = Cardinality(Returned) + 1
    /\ \A r1, r2 \in Requests : HasNoteNo(r1) /\ HasNoteNo(r2) => r1 = r2

\* The units a sale is about to post are still nobody's.
HeldUnits ==
    /\ \A r \in Requests :
         HasSaleNo(r) /\ op[r].kind = "sale" => \A s \in Sold : op[r].units \cap sale[s].units = {}
    /\ UnitSoldOnce

IInv == Shape /\ StageMatches /\ HeldSaleNo /\ HeldNoteNo /\ HeldUnits

-----------------------------------------------------------------------------
\* Counting the documents of the branch gives a number: there are finitely many requests.
LEMMA TablesFinite ==
    /\ IsFiniteSet(Sold) /\ Cardinality(Sold) \in Nat
    /\ IsFiniteSet(Returned) /\ Cardinality(Returned) \in Nat
<1>1. Sold \in SUBSET Requests /\ Returned \in SUBSET Requests
  BY DEF Sold, Returned
<1> QED
  BY <1>1, BillingAssumption, FS_Subset, FS_CardinalityType

\* A branch that has sold nothing yet satisfies the invariant.
LEMMA InitIInv == Init => IInv
<1> SUFFICES ASSUME Init PROVE IInv
  OBVIOUS
<1> USE DEF Init
<1>1. Sold = {} /\ Returned = {}
  BY DEF Sold, Returned
<1>2. Cardinality(Sold) = 0 /\ Cardinality(Returned) = 0
  BY <1>1, FS_EmptySet
<1>3. Shape
  BY <1>1 DEF Shape, IsTable, Stages
<1>4. StageMatches
  BY DEF StageMatches
<1>5. HeldSaleNo /\ HeldNoteNo
  <2>1. {sale[r].number : r \in Sold} = {} /\ {note[r].number : r \in Returned} = {}
    BY <1>1
  <2>2. 1 .. 0 = {}
    OBVIOUS
  <2> QED
    BY <1>2, <2>1, <2>2 DEF HeldSaleNo, HeldNoteNo, HasSaleNo, HasNoteNo
<1>6. HeldUnits
  BY <1>1 DEF HeldUnits, UnitSoldOnce, HasSaleNo
<1> QED
  BY <1>3, <1>4, <1>5, <1>6 DEF IInv

-----------------------------------------------------------------------------
(* Before the commit: the tables do not change. *)

\* Whatever a request reads and asks for, it has no number yet.
LEMMA CheckedIInv ==
    ASSUME IInv, NEW r \in Requests, NEW o, Checked(r, o)
    PROVE  IInv'
<1>1. /\ pc[r] = "idle"
      /\ pc' = [pc EXCEPT ![r] = "checked"]
      /\ op' = [op EXCEPT ![r] = o]
      /\ UNCHANGED <<noteNo, saleNo, sale, note>>
  BY DEF Checked
<1>2. Sold' = Sold /\ Returned' = Returned
  BY <1>1 DEF Sold, Returned
<1>3. \A i \in Requests \ {r} : op'[i] = op[i] /\ pc'[i] = pc[i]
  BY <1>1 DEF IInv, Shape, IsTable
<1>4. pc'[r] = "checked"
  BY <1>1 DEF IInv, Shape
<1>5. Shape'
  BY <1>1, <1>2 DEF IInv, Shape, IsTable, Stages
<1>6. StageMatches'
  BY <1>1, <1>3, <1>4 DEF IInv, StageMatches
<1>7. \A i \in Requests : /\ HasSaleNo(i)' => HasSaleNo(i) /\ i # r
                          /\ HasNoteNo(i)' => HasNoteNo(i) /\ i # r
  BY <1>1, <1>3, <1>4 DEF HasSaleNo, HasNoteNo
<1>8. HeldSaleNo' /\ HeldNoteNo'
  BY <1>1, <1>2, <1>3, <1>4, <1>7 DEF IInv, HeldSaleNo, HeldNoteNo
<1>9. HeldUnits'
  BY <1>1, <1>2, <1>3, <1>7 DEF IInv, HeldUnits, UnitSoldOnce
<1> QED
  BY <1>5, <1>6, <1>8, <1>9 DEF IInv

\* next_branch_credit_note_sequence: the count is at most one above the committed notes.
LEMMA CountNotesIInv ==
    ASSUME IInv, NEW r \in Requests, CountNotes(r)
    PROVE  IInv'
<1>1. /\ pc[r] = "checked" /\ op[r].kind \in {"return", "exchange"}
      /\ pc' = [pc EXCEPT ![r] = "noteCounted"]
      /\ noteNo' = [noteNo EXCEPT ![r] = Cardinality(Returned) + 1]
      /\ UNCHANGED <<op, saleNo, sale, note>>
  BY DEF CountNotes
<1>2. Sold' = Sold /\ Returned' = Returned
  BY <1>1 DEF Sold, Returned
<1>3. \A i \in Requests \ {r} : pc'[i] = pc[i] /\ noteNo'[i] = noteNo[i]
  BY <1>1 DEF IInv, Shape
<1>4. pc'[r] = "noteCounted" /\ noteNo'[r] = Cardinality(Returned) + 1
  BY <1>1 DEF IInv, Shape
<1>5. Shape'
  <2>1. noteNo' \in [Requests -> Nat]
    BY <1>1, TablesFinite DEF IInv, Shape
  <2>2. pc' \in [Requests -> Stages]
    BY <1>1 DEF IInv, Shape, Stages
  <2> QED
    BY <1>1, <1>2, <2>1, <2>2 DEF IInv, Shape, IsTable
<1>6. StageMatches'
  BY <1>1, <1>3, <1>4 DEF IInv, StageMatches
<1>7. \A i \in Requests : /\ HasSaleNo(i)' => HasSaleNo(i) /\ i # r
                          /\ HasNoteNo(i)' => HasNoteNo(i) /\ i # r
  BY <1>1, <1>3, <1>4 DEF HasSaleNo, HasNoteNo
<1>8. HeldSaleNo'
  BY <1>1, <1>2, <1>3, <1>4, <1>7 DEF IInv, HeldSaleNo
<1>9. HeldNoteNo'
  BY <1>1, <1>2, <1>3, <1>4, <1>7, TablesFinite DEF IInv, HeldNoteNo
<1>10. HeldUnits'
  BY <1>1, <1>2, <1>7 DEF IInv, HeldUnits, UnitSoldOnce
<1> QED
  BY <1>5, <1>6, <1>8, <1>9, <1>10 DEF IInv

\* A number that no committed note has is the next one, and whoever holds a
\* number holds the next one too: a request that may insert is alone with it.
LEMMA InsertNoteIInv ==
    ASSUME IInv, NEW r \in Requests, InsertNote(r)
    PROVE  IInv'
<1>1. /\ pc[r] = "noteCounted" /\ ~NoteNoTaken(r) /\ ~NoteNoHeld(r)
      /\ pc' = [pc EXCEPT ![r] = "noteIn"]
      /\ UNCHANGED <<op, noteNo, saleNo, sale, note>>
  BY DEF InsertNote
<1>2. Sold' = Sold /\ Returned' = Returned
  BY <1>1 DEF Sold, Returned
<1>3. pc'[r] = "noteIn" /\ \A i \in Requests \ {r} : pc'[i] = pc[i]
  BY <1>1 DEF IInv, Shape
<1>4. Shape'
  BY <1>1, <1>2 DEF IInv, Shape, IsTable, Stages
<1>5. StageMatches'
  BY <1>1, <1>3 DEF IInv, StageMatches
<1>6. \A i \in Requests : /\ HasSaleNo(i)' => HasSaleNo(i) /\ i # r
                          /\ HasNoteNo(i)' => HasNoteNo(i) \/ i = r
  BY <1>1, <1>3 DEF HasSaleNo, HasNoteNo
<1>7. noteNo[r] = Cardinality(Returned) + 1
  <2>1. noteNo[r] \notin {note[i].number : i \in Returned}
    BY <1>1 DEF NoteNoTaken
  <2>2. noteNo[r] \notin 1 .. Cardinality(Returned) /\ noteNo[r] \in 1 .. Cardinality(Returned) + 1
    BY <1>1, <2>1 DEF IInv, HeldNoteNo
  <2> QED
    BY <2>2, TablesFinite
<1>8. \A i \in Requests : ~HasNoteNo(i)
  BY <1>1, <1>7 DEF IInv, HeldNoteNo, NoteNoHeld
<1>9. HeldNoteNo'
  BY <1>1, <1>2, <1>3, <1>6, <1>7, <1>8 DEF IInv, HeldNoteNo
<1>10. HeldSaleNo'
  BY <1>1, <1>2, <1>3, <1>6 DEF IInv, HeldSaleNo
<1>11. HeldUnits'
  BY <1>1, <1>2, <1>6 DEF IInv, HeldUnits, UnitSoldOnce
<1> QED
  BY <1>4, <1>5, <1>9, <1>10, <1>11 DEF IInv

\* next_branch_sale_sequence: the count is at most one above the committed sales.
LEMMA CountSalesIInv ==
    ASSUME IInv, NEW r \in Requests, CountSales(r)
    PROVE  IInv'
<1>1. /\ \/ pc[r] = "checked" /\ op[r].kind = "sale"
         \/ pc[r] = "noteIn" /\ op[r].kind = "exchange"
      /\ pc' = [pc EXCEPT ![r] = "saleCounted"]
      /\ saleNo' = [saleNo EXCEPT ![r] = Cardinality(Sold) + 1]
      /\ UNCHANGED <<op, noteNo, sale, note>>
  BY DEF CountSales
<1>2. Sold' = Sold /\ Returned' = Returned
  BY <1>1 DEF Sold, Returned
<1>3. \A i \in Requests \ {r} : pc'[i] = pc[i] /\ saleNo'[i] = saleNo[i]
  BY <1>1 DEF IInv, Shape
<1>4. pc'[r] = "saleCounted" /\ saleNo'[r] = Cardinality(Sold) + 1
  BY <1>1 DEF IInv, Shape
<1>5. Shape'
  <2>1. saleNo' \in [Requests -> Nat]
    BY <1>1, TablesFinite DEF IInv, Shape
  <2>2. pc' \in [Requests -> Stages]
    BY <1>1 DEF IInv, Shape, Stages
  <2> QED
    BY <1>1, <1>2, <2>1, <2>2 DEF IInv, Shape, IsTable
<1>6. StageMatches'
  BY <1>1, <1>3, <1>4 DEF IInv, StageMatches
<1>7. \A i \in Requests : /\ HasSaleNo(i)' => HasSaleNo(i) /\ i # r
                          /\ HasNoteNo(i)' => HasNoteNo(i)
  BY <1>1, <1>3, <1>4 DEF HasSaleNo, HasNoteNo
<1>8. HeldSaleNo'
  BY <1>1, <1>2, <1>3, <1>4, <1>7, TablesFinite DEF IInv, HeldSaleNo
<1>9. HeldNoteNo'
  BY <1>1, <1>2, <1>3, <1>4, <1>7 DEF IInv, HeldNoteNo
<1>10. HeldUnits'
  BY <1>1, <1>2, <1>7 DEF IInv, HeldUnits, UnitSoldOnce
<1> QED
  BY <1>5, <1>6, <1>8, <1>9, <1>10 DEF IInv

\* As for a note; and the units looked up now stay free while the number is held.
LEMMA InsertSaleIInv ==
    ASSUME IInv, NEW r \in Requests, InsertSale(r)
    PROVE  IInv'
<1>1. /\ pc[r] = "saleCounted" /\ ~SaleNoTaken(r) /\ ~SaleNoHeld(r)
      /\ op[r].kind = "sale" => op[r].units \subseteq Available(op[r].product)
      /\ pc' = [pc EXCEPT ![r] = "saleIn"]
      /\ UNCHANGED <<op, noteNo, saleNo, sale, note>>
  BY DEF InsertSale
<1>2. Sold' = Sold /\ Returned' = Returned
  BY <1>1 DEF Sold, Returned
<1>3. pc'[r] = "saleIn" /\ \A i \in Requests \ {r} : pc'[i] = pc[i]
  BY <1>1 DEF IInv, Shape
<1>4. Shape'
  BY <1>1, <1>2 DEF IInv, Shape, IsTable, Stages
<1>5. StageMatches'
  BY <1>1, <1>3 DEF IInv, StageMatches
<1>6. \A i \in Requests : /\ HasSaleNo(i)' => HasSaleNo(i) \/ i = r
                          /\ HasNoteNo(i)' => HasNoteNo(i)
  BY <1>1, <1>3 DEF HasSaleNo, HasNoteNo
<1>7. saleNo[r] = Cardinality(Sold) + 1
  <2>1. saleNo[r] \notin {sale[i].number : i \in Sold}
    BY <1>1 DEF SaleNoTaken
  <2>2. saleNo[r] \notin 1 .. Cardinality(Sold) /\ saleNo[r] \in 1 .. Cardinality(Sold) + 1
    BY <1>1, <2>1 DEF IInv, HeldSaleNo
  <2> QED
    BY <2>2, TablesFinite
<1>8. \A i \in Requests : ~HasSaleNo(i)
  BY <1>1, <1>7 DEF IInv, HeldSaleNo, SaleNoHeld
<1>9. HeldSaleNo'
  BY <1>1, <1>2, <1>3, <1>6, <1>7, <1>8 DEF IInv, HeldSaleNo
<1>10. HeldNoteNo'
  BY <1>1, <1>2, <1>3, <1>6 DEF IInv, HeldNoteNo
<1>11. HeldUnits'
  <2>1. op[r].kind = "sale" => \A s \in Sold : op[r].units \cap sale[s].units = {}
    BY <1>1 DEF Available, SoldUnits
  <2> QED
    BY <1>1, <1>2, <1>6, <1>8, <2>1 DEF IInv, HeldUnits, UnitSoldOnce
<1> QED
  BY <1>4, <1>5, <1>9, <1>10, <1>11 DEF IInv

\* A refused request gives its numbers back and posts nothing.
LEMMA RollBackIInv ==
    ASSUME IInv, NEW r \in Requests, RollBack(r)
    PROVE  IInv'
<1>1. /\ pc' = [pc EXCEPT ![r] = "done"]
      /\ UNCHANGED <<op, noteNo, saleNo, sale, note>>
  BY DEF RollBack
<1>2. Sold' = Sold /\ Returned' = Returned
  BY <1>1 DEF Sold, Returned
<1>3. pc'[r] = "done" /\ \A i \in Requests \ {r} : pc'[i] = pc[i]
  BY <1>1 DEF IInv, Shape
<1>4. Shape'
  BY <1>1, <1>2 DEF IInv, Shape, IsTable, Stages
<1>5. StageMatches'
  BY <1>1, <1>3 DEF IInv, StageMatches
<1>6. \A i \in Requests : (HasSaleNo(i)' => HasSaleNo(i)) /\ (HasNoteNo(i)' => HasNoteNo(i))
  BY <1>1, <1>3 DEF HasSaleNo, HasNoteNo
<1>7. HeldSaleNo' /\ HeldNoteNo'
  BY <1>1, <1>2, <1>3, <1>6 DEF IInv, HeldSaleNo, HeldNoteNo
<1>8. HeldUnits'
  BY <1>1, <1>2, <1>6 DEF IInv, HeldUnits, UnitSoldOnce
<1> QED
  BY <1>4, <1>5, <1>7, <1>8 DEF IInv

-----------------------------------------------------------------------------
(* The commits. *)

\* Posting the sale of the request that holds the next invoice number: the
\* numbers grow by one, and nobody else was about to post a sale.
LEMMA SalePosted ==
    ASSUME IInv, NEW r \in Requests, HasSaleNo(r),
           NEW new, new.number = saleNo[r], new # NoSale,
           new.units = {} \/ (op[r].kind = "sale" /\ new.units = op[r].units),
           sale' = [sale EXCEPT ![r] = new], pc' = [pc EXCEPT ![r] = "done"], UNCHANGED <<op, saleNo>>
    PROVE  /\ HeldSaleNo' /\ HeldUnits' /\ IsTable(sale)'
           /\ \A i \in Requests \ {r} : sale'[i] = sale[i]
<1>1. /\ sale'[r] = new /\ \A i \in Requests \ {r} : sale'[i] = sale[i]
      /\ pc'[r] = "done" /\ \A i \in Requests \ {r} : pc'[i] = pc[i]
      /\ IsTable(sale)'
  BY DEF IInv, Shape, IsTable
<1>2. r \notin Sold /\ Sold' = Sold \cup {r}
  BY <1>1 DEF IInv, StageMatches, HasSaleNo, Sold
<1>3. Cardinality(Sold') = Cardinality(Sold) + 1 /\ Cardinality(Sold) \in Nat
  BY <1>2, TablesFinite, FS_AddElement
<1>4. saleNo[r] = Cardinality(Sold) + 1
  BY DEF IInv, HeldSaleNo
<1>5. {sale'[i].number : i \in Sold'} = {sale[i].number : i \in Sold} \cup {Cardinality(Sold) + 1}
  <2>1. \A i \in Sold : sale'[i] = sale[i]
    BY <1>1, <1>2 DEF Sold
  <2>2. sale'[r].number = Cardinality(Sold) + 1
    BY <1>1, <1>4
  <2>3. {sale'[i].number : i \in Sold \cup {r}} = {sale[i].number : i \in Sold} \cup {sale'[r].number}
    BY <2>1
  <2> QED
    BY <1>2, <2>2, <2>3
<1>6. \A i \in Requests : ~HasSaleNo(i)'
  BY <1>1 DEF IInv, HeldSaleNo, HasSaleNo
<1>7. HeldSaleNo'
  <2>1. {sale'[i].number : i \in Sold'} = 1 .. Cardinality(Sold) + 1
    <3>1. {sale[i].number : i \in Sold} = 1 .. Cardinality(Sold)
      BY DEF IInv, HeldSaleNo
    <3>2. (1 .. Cardinality(Sold)) \cup {Cardinality(Sold) + 1} = 1 .. Cardinality(Sold) + 1
      BY <1>3
    <3> QED
      BY <1>5, <3>1, <3>2
  <2>2. \A i \in Requests : pc'[i] = "saleCounted" => saleNo[i] \in 1 .. Cardinality(Sold) + 2
    BY <1>1, <1>3 DEF IInv, HeldSaleNo
  <2> QED
    BY <1>3, <1>6, <2>1, <2>2 DEF HeldSaleNo
<1>8. HeldUnits'
  BY <1>1, <1>2, <1>6 DEF IInv, HeldUnits, UnitSoldOnce, Sold
<1> QED
  BY <1>1, <1>7, <1>8

\* Committing a credit note that holds its number: the notes stay without a
\* gap, and no one else holds a number.
LEMMA NotePosted ==
    ASSUME IInv, NEW r \in Requests, HasNoteNo(r), NEW new, new.number = noteNo[r], new # NoNote,
           note' = [note EXCEPT ![r] = new], pc' = [pc EXCEPT ![r] = "done"], UNCHANGED <<op, noteNo>>
    PROVE  /\ HeldNoteNo' /\ IsTable(note)' /\ Returned' = Returned \cup {r}
           /\ note'[r] = new /\ \A i \in Requests \ {r} : note'[i] = note[i]
<1>1. /\ note'[r] = new /\ \A i \in Requests \ {r} : note'[i] = note[i]
      /\ pc'[r] = "done" /\ \A i \in Requests \ {r} : pc'[i] = pc[i]
      /\ IsTable(note)'
  BY DEF IInv, Shape, IsTable
<1>2. r \notin Returned /\ Returned' = Returned \cup {r}
  BY <1>1 DEF IInv, StageMatches, HasNoteNo, Returned
<1>3. Cardinality(Returned') = Cardinality(Returned) + 1 /\ Cardinality(Returned) \in Nat
  BY <1>2, TablesFinite, FS_AddElement
<1>4. noteNo[r] = Cardinality(Returned) + 1
  BY DEF IInv, HeldNoteNo
<1>5. {note'[i].number : i \in Returned'} = {note[i].number : i \in Returned} \cup {Cardinality(Returned) + 1}
  <2>1. \A i \in Returned : note'[i] = note[i]
    BY <1>1, <1>2 DEF Returned
  <2>2. note'[r].number = Cardinality(Returned) + 1
    BY <1>1, <1>4
  <2>3. {note'[i].number : i \in Returned \cup {r}} = {note[i].number : i \in Returned} \cup {note'[r].number}
    BY <2>1
  <2> QED
    BY <1>2, <2>2, <2>3
<1>6. \A i \in Requests : ~HasNoteNo(i)'
  BY <1>1 DEF IInv, HeldNoteNo, HasNoteNo
<1>7. HeldNoteNo'
  <2>1. {note'[i].number : i \in Returned'} = 1 .. Cardinality(Returned) + 1
    <3>1. {note[i].number : i \in Returned} = 1 .. Cardinality(Returned)
      BY DEF IInv, HeldNoteNo
    <3>2. (1 .. Cardinality(Returned)) \cup {Cardinality(Returned) + 1} = 1 .. Cardinality(Returned) + 1
      BY <1>3
    <3> QED
      BY <1>5, <3>1, <3>2
  <2>2. \A i \in Requests : pc'[i] = "noteCounted" => noteNo[i] \in 1 .. Cardinality(Returned) + 2
    BY <1>1, <1>3 DEF IInv, HeldNoteNo
  <2> QED
    BY <1>3, <1>6, <2>1, <2>2 DEF HeldNoteNo
<1> QED
  BY <1>1, <1>2, <1>7

\* create_sale's commit posts the number it holds and units nobody else has.
LEMMA PostSaleIInv ==
    ASSUME IInv, NEW r \in Requests, PostSale(r)
    PROVE  IInv'
<1> DEFINE new == SaleOf(r, Total(r), op[r].units)
<1>1. /\ pc[r] = "saleIn" /\ op[r].kind = "sale" /\ HasSaleNo(r)
      /\ sale' = [sale EXCEPT ![r] = new]
      /\ pc' = [pc EXCEPT ![r] = "done"]
      /\ UNCHANGED <<op, noteNo, saleNo, note>>
  BY DEF PostSale, Commit, HasSaleNo
<1>2. new.number = saleNo[r] /\ new.units = op[r].units
  BY DEF SaleOf
<1>3. new # NoSale
  <2>1. saleNo[r] # 0
    BY <1>1, TablesFinite DEF IInv, HeldSaleNo
  <2> HIDE DEF new
  <2> QED
    BY <1>2, <2>1 DEF NoSale
<1> HIDE DEF new
<1>4. /\ HeldSaleNo' /\ HeldUnits' /\ IsTable(sale)'
      /\ \A i \in Requests \ {r} : sale'[i] = sale[i]
  BY <1>1, <1>2, <1>3, SalePosted
<1>5. pc'[r] = "done" /\ \A i \in Requests \ {r} : pc'[i] = pc[i]
  BY <1>1 DEF IInv, Shape
<1>6. Returned' = Returned
  BY <1>1 DEF Returned
<1>7. Shape'
  BY <1>1, <1>4, <1>6 DEF IInv, Shape, IsTable, Stages
<1>8. StageMatches'
  BY <1>1, <1>4, <1>5 DEF IInv, StageMatches
<1>9. \A i \in Requests : HasNoteNo(i)' => HasNoteNo(i)
  BY <1>1, <1>5 DEF HasNoteNo
<1>10. HeldNoteNo'
  BY <1>1, <1>5, <1>6, <1>9 DEF IInv, HeldNoteNo
<1> QED
  BY <1>4, <1>7, <1>8, <1>10 DEF IInv

\* A credit note is never the empty note, and has its six columns.
LEMMA NoteOfShape ==
    ASSUME NEW r, noteNo[r] # 0
    PROVE  LET n == NoteOf(r) IN
           /\ n.number = noteNo[r] /\ n # NoNote
           /\ IsNote(n)
<1> DEFINE n == NoteOf(r)
<1>1. /\ n.number = noteNo[r]
      /\ IsNote(n)
  BY DEF NoteOf, IsNote
<1> HIDE DEF n
<1>2. n # NoNote
  BY <1>1 DEF NoNote
<1>3. QED
  BY <1>1, <1>2 DEF n

\* create_sale_return's commit posts the number it holds.
LEMMA PostReturnIInv ==
    ASSUME IInv, NEW r \in Requests, PostReturn(r)
    PROVE  IInv'
<1> DEFINE new == NoteOf(r)
<1>1. /\ pc[r] = "noteIn" /\ HasNoteNo(r)
      /\ note' = [note EXCEPT ![r] = new]
      /\ pc' = [pc EXCEPT ![r] = "done"]
      /\ UNCHANGED <<op, noteNo, saleNo, sale>>
  BY DEF PostReturn, Commit, HasNoteNo
<1>2. /\ new.number = noteNo[r] /\ new # NoNote
      /\ IsNote(new)
  <2>1. noteNo[r] # 0
    BY <1>1, TablesFinite DEF IInv, HeldNoteNo
  <2> QED
    BY <2>1, NoteOfShape
<1> HIDE DEF new
<1>3. /\ HeldNoteNo' /\ IsTable(note)' /\ Returned' = Returned \cup {r}
      /\ note'[r] = new /\ \A i \in Requests \ {r} : note'[i] = note[i]
  BY <1>1, <1>2, NotePosted
<1>4. pc'[r] = "done" /\ \A i \in Requests \ {r} : pc'[i] = pc[i]
  BY <1>1 DEF IInv, Shape
<1>5. Sold' = Sold
  BY <1>1 DEF Sold
<1>6. Shape'
  <2>1. \A i \in Returned' : IsNote(note'[i])
    BY <1>2, <1>3 DEF IInv, Shape, Returned
  <2> QED
    BY <1>1, <1>3, <2>1 DEF IInv, Shape, IsTable, Stages
<1>7. StageMatches'
  BY <1>1, <1>3, <1>4 DEF IInv, StageMatches
<1>8. \A i \in Requests : HasSaleNo(i)' => HasSaleNo(i)
  BY <1>1, <1>4 DEF HasSaleNo
<1>9. HeldSaleNo'
  BY <1>1, <1>4, <1>5, <1>8 DEF IInv, HeldSaleNo
<1>10. HeldUnits'
  BY <1>1, <1>5, <1>8 DEF IInv, HeldUnits, UnitSoldOnce
<1> QED
  BY <1>3, <1>6, <1>7, <1>9, <1>10 DEF IInv

\* An exchange holds both numbers, and its replacement sells no unit.
LEMMA PostExchangeIInv ==
    ASSUME IInv, NEW r \in Requests, PostExchange(r)
    PROVE  IInv'
<1> DEFINE newSale == Replacement(r)
           newNote == NoteOf(r)
<1>1. /\ pc[r] = "saleIn" /\ HasSaleNo(r) /\ HasNoteNo(r)
      /\ sale' = [sale EXCEPT ![r] = newSale]
      /\ note' = [note EXCEPT ![r] = newNote]
      /\ pc' = [pc EXCEPT ![r] = "done"]
      /\ UNCHANGED <<op, noteNo, saleNo>>
  BY DEF PostExchange, Commit, HasNoteNo, HasSaleNo
<1>2. saleNo[r] # 0 /\ noteNo[r] # 0
  BY <1>1, TablesFinite DEF IInv, HeldSaleNo, HeldNoteNo
<1>3. newSale.number = saleNo[r] /\ newSale.units = {}
  BY DEF Replacement, SaleOf
<1>4. newSale # NoSale
  <2> HIDE DEF newSale
  <2> QED
    BY <1>2, <1>3 DEF NoSale
<1>5. /\ newNote.number = noteNo[r] /\ newNote # NoNote
      /\ IsNote(newNote)
  BY <1>2, NoteOfShape
<1> HIDE DEF newSale, newNote
<1>6. /\ HeldSaleNo' /\ HeldUnits' /\ IsTable(sale)'
      /\ \A i \in Requests \ {r} : sale'[i] = sale[i]
  BY <1>1, <1>3, <1>4, SalePosted
<1>7. /\ HeldNoteNo' /\ IsTable(note)' /\ Returned' = Returned \cup {r}
      /\ note'[r] = newNote /\ \A i \in Requests \ {r} : note'[i] = note[i]
  BY <1>1, <1>5, NotePosted
<1>8. pc'[r] = "done" /\ \A i \in Requests \ {r} : pc'[i] = pc[i]
  BY <1>1 DEF IInv, Shape
<1>9. Shape'
  <2>1. \A i \in Returned' : IsNote(note'[i])
    BY <1>5, <1>7 DEF IInv, Shape, Returned
  <2> QED
    BY <1>1, <1>6, <1>7, <2>1 DEF IInv, Shape, IsTable, Stages
<1>10. StageMatches'
  BY <1>1, <1>6, <1>7, <1>8 DEF IInv, StageMatches
<1> QED
  BY <1>6, <1>7, <1>9, <1>10 DEF IInv

\* An approval changes the status of a note and nothing the numbers depend on.
LEMMA PostApprovalIInv ==
    ASSUME IInv, NEW r \in Requests, PostApproval(r)
    PROVE  IInv'
<1>1. /\ pc[r] = "checked"
      /\ note' = [note EXCEPT ![op[r].note].status = "REFUND_APPROVED"]
      /\ pc' = [pc EXCEPT ![r] = "done"]
      /\ UNCHANGED <<op, noteNo, saleNo, sale>>
  BY DEF PostApproval, Approved, Commit
<1>2. pc'[r] = "done" /\ \A i \in Requests \ {r} : pc'[i] = pc[i]
  BY <1>1 DEF IInv, Shape
<1>3. Sold' = Sold
  BY <1>1 DEF Sold
<1>4. \A i \in Requests : note[i] = NoNote => note'[i] = NoNote
  <2>1. [NoNote EXCEPT !.status = "REFUND_APPROVED"] = NoNote
    BY DEF NoNote
  <2> QED
    BY <1>1, <2>1 DEF IInv, Shape, IsTable
<1>5. \A i \in Returned : /\ note'[i].number = note[i].number /\ note'[i] # NoNote
                          /\ IsNote(note'[i])
  <2> SUFFICES ASSUME NEW i \in Returned
               PROVE  /\ note'[i].number = note[i].number /\ note'[i] # NoNote
                      /\ IsNote(note'[i])
    OBVIOUS
  <2> DEFINE old == note[i]
             new == [old EXCEPT !.status = "REFUND_APPROVED"]
  <2>1. i \in Requests /\ note'[i] \in {old, new}
    BY <1>1 DEF IInv, Shape, IsTable, Returned
  <2>2. IsNote(old)
    BY DEF IInv, Shape
  <2>3. old.number # 0
    BY TablesFinite DEF IInv, HeldNoteNo
  <2>4. /\ new.number = old.number
        /\ IsNote(new)
    <3> HIDE DEF old
    <3> QED
      BY <2>2 DEF IsNote
  <2> HIDE DEF old, new
  <2>5. /\ note'[i].number = old.number
        /\ IsNote(note'[i])
    BY <2>1, <2>2, <2>4
  <2>6. note'[i] # NoNote
    BY <2>3, <2>5 DEF NoNote
  <2> QED
    BY <2>5, <2>6 DEF old
<1>6. Returned' = Returned
  BY <1>4, <1>5 DEF Returned
<1>7. Shape'
  BY <1>1, <1>5, <1>6 DEF IInv, Shape, IsTable, Stages
<1>8. StageMatches'
  BY <1>1, <1>2, <1>4 DEF IInv, StageMatches
<1>9. \A i \in Requests : (HasSaleNo(i)' => HasSaleNo(i)) /\ (HasNoteNo(i)' => HasNoteNo(i))
  BY <1>1, <1>2 DEF HasSaleNo, HasNoteNo
<1>10. HeldSaleNo'
  BY <1>1, <1>2, <1>3, <1>9 DEF IInv, HeldSaleNo
<1>11. HeldNoteNo'
  <2>1. {note'[i].number : i \in Returned} = {note[i].number : i \in Returned}
    BY <1>5
  <2> QED
    BY <1>1, <1>2, <1>6, <1>9, <2>1 DEF IInv, HeldNoteNo
<1>12. HeldUnits'
  BY <1>1, <1>3, <1>9 DEF IInv, HeldUnits, UnitSoldOnce
<1> QED
  BY <1>7, <1>8, <1>10, <1>11, <1>12 DEF IInv

-----------------------------------------------------------------------------
(* The specification. *)

\* Every step of a request keeps the invariant.
LEMMA NextIInv == IInv /\ [Next]_vars => IInv'
<1> SUFFICES ASSUME IInv, [Next]_vars PROVE IInv'
  OBVIOUS
<1>1. CASE UNCHANGED vars
  <2>1. Sold' = Sold /\ Returned' = Returned
    BY <1>1 DEF vars, Sold, Returned
  <2>2. \A r \in Requests : (HasSaleNo(r)' <=> HasSaleNo(r)) /\ (HasNoteNo(r)' <=> HasNoteNo(r))
    BY <1>1 DEF vars, HasSaleNo, HasNoteNo
  <2>3. Shape' /\ StageMatches'
    BY <1>1, <2>1 DEF vars, IInv, Shape, IsTable, StageMatches
  <2>4. HeldSaleNo' /\ HeldNoteNo'
    BY <1>1, <2>1, <2>2 DEF vars, IInv, HeldSaleNo, HeldNoteNo
  <2>5. HeldUnits'
    BY <1>1, <2>1, <2>2 DEF vars, IInv, HeldUnits, UnitSoldOnce
  <2> QED
    BY <2>3, <2>4, <2>5 DEF IInv
<1>2. ASSUME NEW r \in Requests, Ask(r) PROVE IInv'
  <2>1. ASSUME NEW p, NEW l, NEW units, CheckSale(r, p, l, units) PROVE \E o : Checked(r, o)
    BY <2>1, Zenon DEF CheckSale
  <2>2. ASSUME NEW s, NEW l, NEW refund, NEW m, NEW approver, CheckReturn(r, s, l, refund, m, approver)
        PROVE  \E o : Checked(r, o)
    BY <2>2, Zenon DEF CheckReturn
  <2>3. ASSUME NEW s, NEW l, NEW p, NEW out, NEW m, NEW approver, CheckExchange(r, s, l, p, out, m, approver)
        PROVE  \E o : Checked(r, o)
    BY <2>3, Zenon DEF CheckExchange
  <2>4. ASSUME NEW n, ReadForApproval(r, n) PROVE \E o : Checked(r, o)
    BY <2>4, Zenon DEF ReadForApproval
  <2>5. \E o : Checked(r, o)
    BY <1>2, <2>1, <2>2, <2>3, <2>4, Zenon DEF Ask
  <2> QED
    BY <2>5, CheckedIInv
<1>3. ASSUME NEW r \in Requests, Step(r) PROVE IInv'
  BY <1>3, CountNotesIInv, InsertNoteIInv, CountSalesIInv, InsertSaleIInv, RollBackIInv,
     PostSaleIInv, PostReturnIInv, PostExchangeIInv, PostApprovalIInv
     DEF Step
<1> QED
  BY <1>1, <1>2, <1>3 DEF Next, Quiet

\* Every reachable state of the branch's documents satisfies the invariant.
THEOREM BillingInvariant == Spec => []IInv
<1> QED
  BY InitIInv, NextIInv, PTL DEF Spec

\* The count-then-insert numbering of next_branch_invoice_sequence and
\* next_branch_credit_note_sequence leaves no gap and repeats no number,
\* whatever the requests do in between and however many roll back.
THEOREM BillingNumbersWithoutGap == Spec => []NumbersWithoutGap
<1>1. IInv => NumbersWithoutGap
  BY DEF IInv, HeldSaleNo, HeldNoteNo, NumbersWithoutGap
<1> QED
  BY <1>1, BillingInvariant, PTL

\* create_sale sells no serialized unit twice, although it chose the units
\* before it had a number.
THEOREM BillingUnitSoldOnce == Spec => []UnitSoldOnce
<1>1. IInv => UnitSoldOnce
  BY DEF IInv, HeldUnits
<1> QED
  BY <1>1, BillingInvariant, PTL
-----------------------------------------------------------------------------
(* What requests ask for, and what they have read. *)

InFlight(r) == pc[r] \notin {"idle", "done"}
Quantity    == 1 .. MaxQty + MaxSecond
Worth(s, q) == q * Price[sale[s].product]
Sells(o)    == o.kind \in {"sale", "exchange"}
TakesBack(o) == o.kind \in {"return", "exchange"}

\* A request was checked for what there is, and what there is stays.
Proper(o) ==
    /\ o.kind \in {"sale", "return", "exchange", "approve"}
    /\ Sells(o) => o.product \in Products /\ o.out \in Quantity /\ o.last \in 0 .. o.out
    /\ o.kind = "sale" => o.units \subseteq Serials[o.product]
    /\ TakesBack(o) =>
         /\ o.of \in Sold /\ o.in \in Quantity /\ o.refund \in Nat /\ o.refund <= Worth(o.of, o.in)
         /\ o.method \in Methods \cup {"EXCHANGE_CREDIT"} /\ o.status \in NoteStatus
    /\ o.kind = "exchange" =>
         /\ o.value = Worth(o.of, o.in)
         /\ o.refund = IF o.out * Price[o.product] < o.value THEN o.value - o.out * Price[o.product] ELSE 0
    /\ o.kind = "approve" => o.note \in Returned /\ o.already \in BOOLEAN

\* What a request found is still so.  Lines are checked one by one, so it takes
\* one line a product for them to be covered together.
StockCovers(o) ==
    MaxSecond = 0 =>
      /\ o.kind = "sale" => o.out <= ledger[o.product]
      /\ o.kind = "exchange" =>
           o.out <= ledger[o.product] + (IF o.product = sale[o.of].product THEN o.in ELSE 0)
SaleCovers(o) ==
    TakesBack(o) =>
      /\ MaxSecond = 0 => ReturnedQty(o.of) + o.in <= sale[o.of].last
      /\ Refunded(o.of) + o.refund <= sale[o.of].qty * Price[sale[o.of].product]
NoteShows(o) == o.kind = "approve" => (o.already <=> note[o.note].status = "REFUND_APPROVED")
Latest(o) == StockCovers(o) /\ SaleCovers(o) /\ NoteShows(o)

IsSale(s) == s = [number |-> s.number, product |-> s.product, qty |-> s.qty, last |-> s.last,
                  cash |-> s.cash, units |-> s.units]

\* The rows of the tables.
SaleRow(s) ==
    /\ IsSale(sale[s]) /\ sale[s].product \in Products /\ sale[s].qty \in Quantity
    /\ sale[s].last \in 0 .. sale[s].qty /\ sale[s].cash \in Nat /\ sale[s].units \subseteq Serials[sale[s].product]
NoteRow(n) ==
    /\ note[n].of \in Sold /\ note[n].qty \in Quantity /\ note[n].refund \in Nat
    /\ note[n].method \in Methods \cup {"EXCHANGE_CREDIT"} /\ note[n].status \in NoteStatus
Rows ==
    /\ \A s \in Sold : SaleRow(s)
    /\ \A n \in Returned : NoteRow(n)
    /\ ledger \in [Products -> Int] /\ credited \in [Requests -> Nat]

Asks    == op \in [Requests -> Ops] /\ \A r \in Requests : pc[r] # "idle" => Proper(op[r])
Knows   == \A r \in Requests : InFlight(r) /\ r \notin behind => Latest(op[r])
History == behind \subseteq Requests /\ late \subseteq {r \in Requests : pc[r] = "done"}

BooksInv == IInv /\ Rows /\ Asks /\ Knows /\ History

-----------------------------------------------------------------------------
\* Amounts are natural numbers.
LEMMA Amounts ==
    /\ \A a, b \in Nat : a * b \in Nat
    /\ \A a, b, c \in Nat : a <= b => a * c <= b * c
    /\ \A a, b, c \in Int : (a - b) * c = a * c - b * c /\ (a + b) * c = a * c + b * c
<1>1. \A a, b \in Nat : a * b \in Nat
  OBVIOUS
<1>2. \A a, b, c \in Nat : a <= b => a * c <= b * c
  OBVIOUS
<1>3. \A a, b, c \in Int : (a - b) * c = a * c - b * c
  OBVIOUS
<1>4. \A a, b, c \in Int : (a + b) * c = a * c + b * c
  OBVIOUS
<1> QED
  BY <1>1, <1>2, <1>3, <1>4

\* A line, or two.
LEMMA LineFacts ==
    ASSUME NEW l \in Lines
    PROVE  /\ Qty(l) \in Quantity /\ Qty(l) \in Nat /\ LastLine(l) \in 0 .. Qty(l)
           /\ MaxSecond = 0 => l.second = 0 /\ Qty(l) = l.first /\ LastLine(l) = l.first
<1>1. l.first \in 1 .. MaxQty /\ l.second \in 0 .. MaxSecond /\ MaxQty \in Nat /\ MaxSecond \in Nat
  BY BillingAssumption DEF Lines
<1> QED
  BY <1>1 DEF Qty, LastLine, Quantity

\* What has come back of a sale are natural numbers.
LEMMA SumsOfNotes ==
    ASSUME Rows, NEW s
    PROVE  ReturnedQty(s) \in Nat /\ Refunded(s) \in Nat
<1>1. IsFiniteSet(NotesOf(s))
  <2>1. NotesOf(s) \in SUBSET Returned
    BY DEF NotesOf
  <2> QED
    BY <2>1, TablesFinite, FS_Subset
<1>2. PICK S : S = NotesOf(s)
  OBVIOUS
<1>3. \A n \in S : note[n].qty \in Nat /\ note[n].refund \in Nat
  BY <1>2 DEF Rows, NoteRow, NotesOf, Quantity
<1>4. PICK f : f = [r \in S |-> note[r].qty]
  OBVIOUS
<1>5. PICK g : g = [r \in S |-> note[r].refund]
  OBVIOUS
<1>6. (\A n \in S : f[n] \in Nat) /\ (\A n \in S : g[n] \in Nat)
  BY <1>3, <1>4, <1>5
<1>7. SumFunctionOnSet(f, S) \in Nat /\ SumFunctionOnSet(g, S) \in Nat
  BY <1>1, <1>2, <1>6, SumOfNaturals
<1> QED
  BY <1>2, <1>4, <1>5, <1>7 DEF ReturnedQty, Refunded

-----------------------------------------------------------------------------
(* What a request asks for when it has been checked. *)

FoundSo(o) == o \in Ops /\ Proper(o) /\ Latest(o)

\* build_preview leaves a sale that the stock covers.
LEMMA SaleFound ==
    ASSUME BooksInv, NEW p \in Products, NEW l \in Lines, NEW units \in SUBSET Serials[p],
           EachLine(l, ledger[p]), units \subseteq Available(p)
    PROVE  FoundSo([kind |-> "sale", product |-> p, out |-> Qty(l), last |-> LastLine(l), units |-> units])
<1> DEFINE o == [kind |-> "sale", product |-> p, out |-> Qty(l), last |-> LastLine(l), units |-> units]
<1>1. /\ o.kind = "sale" /\ o.product = p /\ o.out = Qty(l) /\ o.last = LastLine(l) /\ o.units = units
  OBVIOUS
<1>2. /\ Qty(l) \in Quantity /\ Qty(l) \in Nat /\ LastLine(l) \in 0 .. Qty(l)
      /\ MaxSecond = 0 => l.second = 0 /\ Qty(l) = l.first
  BY LineFacts
<1>3. units \subseteq Serials[p]
  OBVIOUS
<1>4. o \in Ops
  <2>1. LastLine(l) \in Nat
    BY <1>2
  <2>2. units \in SUBSET UNION {Serials[q] : q \in Products}
    BY <1>3
  <2>3. o \in [kind : {"sale"}, product : Products, out : Nat, last : Nat, units : SUBSET UNION {Serials[q] : q \in Products}]
    BY <1>2, <2>1, <2>2
  <2> QED
    BY <2>3 DEF Ops
<1> HIDE DEF o
<1>5. Proper(o)
  BY <1>1, <1>2, <1>3 DEF Proper, Sells, TakesBack
<1>6. Latest(o)
  BY <1>1, <1>2 DEF Latest, StockCovers, SaleCovers, NoteShows, TakesBack, EachLine
<1> QED
  BY <1>4, <1>5, <1>6 DEF FoundSo, o

\* What a line is worth, and how much a refund may be.
LEMMA WorthFacts ==
    ASSUME BooksInv, NEW s \in Sold, NEW q \in Nat
    PROVE  Worth(s, q) \in Nat /\ sale[s].qty * Price[sale[s].product] \in Nat /\ sale[s].product \in Products
           /\ Price[sale[s].product] \in Nat /\ sale[s].qty \in Nat /\ sale[s].last \in Nat
<1>1. sale[s].product \in Products /\ sale[s].qty \in Quantity /\ sale[s].last \in 0 .. sale[s].qty
  BY DEF BooksInv, Rows, SaleRow
<1>2. Price[sale[s].product] \in Nat /\ sale[s].qty \in Nat
  BY <1>1, BillingAssumption DEF Quantity
<1>3. q * Price[sale[s].product] \in Nat /\ sale[s].qty * Price[sale[s].product] \in Nat
  BY <1>2, Amounts
<1> QED
  BY <1>1, <1>2, <1>3 DEF Worth

\* build_sale_return_draft and ensure_refund_amount_allowed leave a return that the sale covers.
LEMMA ReturnFound ==
    ASSUME BooksInv, NEW s \in Sold, NEW l \in Lines, NEW refund \in Nat, NEW method \in Methods, NEW approver \in BOOLEAN,
           ReturnAllowed(s, l), RefundAllowed(s, refund, Qty(l) * Price[sale[s].product])
    PROVE  FoundSo([kind |-> "return", of |-> s, in |-> Qty(l), refund |-> refund, method |-> method,
                    status |-> IF approver THEN "REFUND_APPROVED" ELSE "REFUND_PENDING_APPROVAL"])
<1>0. PICK status \in NoteStatus : status = IF approver THEN "REFUND_APPROVED" ELSE "REFUND_PENDING_APPROVAL"
  BY DEF NoteStatus
<1> DEFINE o == [kind |-> "return", of |-> s, in |-> Qty(l), refund |-> refund, method |-> method, status |-> status]
<1>1. /\ o.kind = "return" /\ o.of = s /\ o.in = Qty(l) /\ o.refund = refund /\ o.method = method /\ o.status = status
  OBVIOUS
<1>2. /\ Qty(l) \in Quantity /\ Qty(l) \in Nat
      /\ MaxSecond = 0 => l.second = 0 /\ Qty(l) = l.first
  BY LineFacts
<1>3. o \in Ops
  <2>1. s \in Requests
    BY DEF Sold
  <2>2. o \in [kind : {"return"}, of : Requests, in : Nat, refund : Nat, method : Methods, status : NoteStatus]
    BY <1>2, <2>1
  <2> QED
    BY <2>2 DEF Ops
<1> HIDE DEF o
<1>4. Qty(l) * Price[sale[s].product] = Worth(s, Qty(l))
  BY DEF Worth
<1>5. refund <= Worth(s, Qty(l)) /\ refund <= sale[s].qty * Price[sale[s].product] - Refunded(s)
  BY <1>4 DEF RefundAllowed
<1>6. Proper(o)
  BY <1>1, <1>2, <1>5 DEF Proper, Sells, TakesBack
<1>7. SaleCovers(o)
  <2>1. PICK total \in Nat : total = sale[s].qty * Price[sale[s].product]
    BY WorthFacts
  <2>2. PICK back \in Nat : back = Refunded(s)
    BY SumsOfNotes DEF BooksInv
  <2>3. PICK came \in Nat : came = ReturnedQty(s)
    BY SumsOfNotes DEF BooksInv
  <2>4. PICK last \in Nat : last = sale[s].last
    BY WorthFacts
  <2>5. back + refund <= total
    BY <1>5, <2>1, <2>2
  <2>6. MaxSecond = 0 => l.first <= last - came /\ Qty(l) = l.first
    BY <1>2, <2>3, <2>4 DEF ReturnAllowed, EachLine
  <2>7. MaxSecond = 0 => came + Qty(l) <= last
    BY <1>2, <2>6
  <2> QED
    BY <1>1, <2>1, <2>2, <2>3, <2>4, <2>5, <2>7 DEF SaleCovers
<1>8. Latest(o)
  BY <1>1, <1>7 DEF Latest, StockCovers, NoteShows
<1> QED
  BY <1>0, <1>3, <1>6, <1>8 DEF FoundSo, o

\* An exchange's return is covered by the sale, and its replacement by the stock with what comes back.
LEMMA ExchangeFound ==
    ASSUME BooksInv, NEW s \in Sold, NEW l \in Lines, NEW p \in Products, NEW out \in Lines,
           NEW method \in Methods, NEW approver \in BOOLEAN, NEW settle, NEW value,
           value = Qty(l) * Price[sale[s].product],
           settle = Settlement(value, Qty(out) * Price[p], method, approver),
           ReturnAllowed(s, l), EachLine(out, ledger[p] + ComingBack(s, l, p)), RefundAllowed(s, settle.refund, value)
    PROVE  FoundSo([kind |-> "exchange", of |-> s, in |-> Qty(l), product |-> p, out |-> Qty(out),
                    last |-> LastLine(out), refund |-> settle.refund, method |-> settle.method, status |-> settle.status,
                    value |-> value])
<1>1. /\ Qty(l) \in Quantity /\ Qty(l) \in Nat
      /\ MaxSecond = 0 => l.second = 0 /\ Qty(l) = l.first /\ LastLine(l) = l.first
  BY LineFacts
<1>2. /\ Qty(out) \in Quantity /\ Qty(out) \in Nat /\ LastLine(out) \in 0 .. Qty(out)
      /\ MaxSecond = 0 => out.second = 0 /\ Qty(out) = out.first
  BY LineFacts
<1>3. PICK total \in Nat : total = Qty(out) * Price[p]
  BY <1>2, Amounts, BillingAssumption
<1>4. value = Worth(s, Qty(l)) /\ value \in Nat
  BY <1>1, WorthFacts DEF Worth
<1>5. PICK refund \in Nat : refund = settle.refund /\ refund = IF total < value THEN value - total ELSE 0
  BY <1>3, <1>4 DEF Settlement
<1>6. PICK how : how = settle.method /\ how \in Methods \cup {"EXCHANGE_CREDIT"}
  BY <1>3 DEF Settlement
<1>7. PICK status \in NoteStatus : status = settle.status
  BY <1>3 DEF Settlement, NoteStatus
<1> DEFINE o == [kind |-> "exchange", of |-> s, in |-> Qty(l), product |-> p, out |-> Qty(out),
                 last |-> LastLine(out), refund |-> refund, method |-> how, status |-> status, value |-> value]
<1>8. /\ o.kind = "exchange" /\ o.of = s /\ o.in = Qty(l) /\ o.product = p /\ o.out = Qty(out) /\ o.last = LastLine(out)
      /\ o.refund = refund /\ o.method = how /\ o.status = status /\ o.value = value
  OBVIOUS
<1>9. o \in Ops
  <2>1. s \in Requests /\ LastLine(out) \in Nat
    BY <1>2 DEF Sold
  <2>2. o \in [kind : {"exchange"}, of : Requests, in : Nat, product : Products, out : Nat, last : Nat, refund : Nat,
               method : Methods \cup {"EXCHANGE_CREDIT"}, status : NoteStatus, value : Nat]
    BY <1>1, <1>2, <1>4, <1>6, <2>1
  <2> QED
    BY <2>2 DEF Ops
<1> HIDE DEF o
<1>10. refund <= value /\ refund <= sale[s].qty * Price[sale[s].product] - Refunded(s)
  BY <1>5 DEF RefundAllowed
<1>11. Proper(o)
  <2>1. o.kind \in {"sale", "return", "exchange", "approve"} /\ o.kind # "sale" /\ o.kind # "approve"
    BY <1>8
  <2>2. o.product \in Products /\ o.out \in Quantity /\ o.last \in 0 .. o.out
    BY <1>2, <1>8
  <2>3. /\ o.of \in Sold /\ o.in \in Quantity /\ o.refund \in Nat /\ o.refund <= Worth(o.of, o.in)
        /\ o.method \in Methods \cup {"EXCHANGE_CREDIT"} /\ o.status \in NoteStatus
    BY <1>1, <1>4, <1>6, <1>8, <1>10
  <2>4. /\ o.value = Worth(o.of, o.in)
        /\ o.refund = IF o.out * Price[o.product] < o.value THEN o.value - o.out * Price[o.product] ELSE 0
    BY <1>3, <1>4, <1>5, <1>8
  <2> QED
    BY <2>1, <2>2, <2>3, <2>4 DEF Proper
<1>12. SaleCovers(o)
  <2>1. PICK paid \in Nat : paid = sale[s].qty * Price[sale[s].product]
    BY WorthFacts
  <2>2. PICK back \in Nat : back = Refunded(s)
    BY SumsOfNotes DEF BooksInv
  <2>3. PICK came \in Nat : came = ReturnedQty(s)
    BY SumsOfNotes DEF BooksInv
  <2>4. PICK last \in Nat : last = sale[s].last
    BY WorthFacts
  <2>5. back + refund <= paid
    BY <1>10, <2>1, <2>2
  <2>6. MaxSecond = 0 => l.first <= last - came /\ Qty(l) = l.first
    BY <1>1, <2>3, <2>4 DEF ReturnAllowed, EachLine
  <2>7. MaxSecond = 0 => came + Qty(l) <= last
    BY <1>1, <2>6
  <2> QED
    BY <1>8, <2>1, <2>2, <2>3, <2>4, <2>5, <2>7 DEF SaleCovers
<1>13. StockCovers(o)
  <2>1. MaxSecond = 0 => Qty(out) <= ledger[p] + (IF p = sale[s].product THEN Qty(l) ELSE 0)
    BY <1>1, <1>2 DEF EachLine, ComingBack
  <2> QED
    BY <1>8, <2>1 DEF StockCovers
<1>14. Latest(o)
  BY <1>8, <1>12, <1>13 DEF Latest, NoteShows
<1> QED
  BY <1>5, <1>6, <1>7, <1>9, <1>11, <1>14 DEF FoundSo, o

\* An approval has read the status of its return.
LEMMA ApprovalFound ==
    ASSUME BooksInv, NEW n \in Returned
    PROVE  FoundSo([kind |-> "approve", note |-> n, already |-> note[n].status = "REFUND_APPROVED"])
<1>0. PICK already \in BOOLEAN : already = (note[n].status = "REFUND_APPROVED")
  OBVIOUS
<1> DEFINE o == [kind |-> "approve", note |-> n, already |-> already]
<1>1. o.kind = "approve" /\ o.note = n /\ o.already = already
  OBVIOUS
<1>2. o \in Ops
  <2>1. n \in Requests
    BY DEF Returned
  <2>2. o \in [kind : {"approve"}, note : Requests, already : BOOLEAN]
    BY <2>1
  <2> QED
    BY <2>2 DEF Ops
<1> HIDE DEF o
<1>3. Proper(o)
  BY <1>1 DEF Proper, Sells, TakesBack
<1>4. o.already <=> note[o.note].status = "REFUND_APPROVED"
  BY <1>0, <1>1, Zenon
<1>5. Latest(o)
  BY <1>1, <1>4 DEF Latest, StockCovers, SaleCovers, NoteShows, TakesBack
<1> QED
  BY <1>0, <1>2, <1>3, <1>5 DEF FoundSo, o

\* Whatever is asked for has been checked.
LEMMA AskFindsIt ==
    ASSUME BooksInv, NEW r \in Requests, Ask(r)
    PROVE  \E o : Checked(r, o) /\ FoundSo(o)
<1>1. ASSUME NEW p \in Products, NEW l \in Lines, NEW units \in SUBSET Serials[p], CheckSale(r, p, l, units)
      PROVE  \E o : Checked(r, o) /\ FoundSo(o)
  <2>1. EachLine(l, ledger[p]) /\ units \subseteq Available(p)
    BY <1>1 DEF CheckSale
  <2>2. Checked(r, [kind |-> "sale", product |-> p, out |-> Qty(l), last |-> LastLine(l), units |-> units])
    BY <1>1 DEF CheckSale
  <2> QED
    BY <2>1, <2>2, SaleFound
<1>2. ASSUME NEW s \in Sold, NEW l \in Lines, NEW m \in Methods, NEW approver \in BOOLEAN,
             NEW refund \in 0 .. Qty(l) * Price[sale[s].product], CheckReturn(r, s, l, refund, m, approver)
      PROVE  \E o : Checked(r, o) /\ FoundSo(o)
  <2>1. ReturnAllowed(s, l) /\ RefundAllowed(s, refund, Qty(l) * Price[sale[s].product])
    BY <1>2 DEF CheckReturn
  <2>2. refund \in Nat
    OBVIOUS
  <2>3. FoundSo([kind |-> "return", of |-> s, in |-> Qty(l), refund |-> refund, method |-> m,
                 status |-> IF approver THEN "REFUND_APPROVED" ELSE "REFUND_PENDING_APPROVAL"])
    BY <2>1, <2>2, ReturnFound
  <2>4. Checked(r, [kind |-> "return", of |-> s, in |-> Qty(l), refund |-> refund, method |-> m,
                    status |-> IF approver THEN "REFUND_APPROVED" ELSE "REFUND_PENDING_APPROVAL"])
    BY <1>2, Zenon DEF CheckReturn
  <2> QED
    BY <2>3, <2>4
<1>3. ASSUME NEW s \in Sold, NEW l \in Lines, NEW m \in Methods, NEW approver \in BOOLEAN,
             NEW p \in Products, NEW out \in Lines, CheckExchange(r, s, l, p, out, m, approver)
      PROVE  \E o : Checked(r, o) /\ FoundSo(o)
  <2>1. PICK value : value = Qty(l) * Price[sale[s].product]
    OBVIOUS
  <2>2. PICK settle : settle = Settlement(value, Qty(out) * Price[p], m, approver)
    OBVIOUS
  <2>3. ReturnAllowed(s, l) /\ EachLine(out, ledger[p] + ComingBack(s, l, p)) /\ RefundAllowed(s, settle.refund, value)
    BY <1>3, <2>1, <2>2 DEF CheckExchange
  <2>4. Checked(r, [kind |-> "exchange", of |-> s, in |-> Qty(l), product |-> p, out |-> Qty(out),
                    last |-> LastLine(out), refund |-> settle.refund, method |-> settle.method, status |-> settle.status,
                    value |-> value])
    BY <1>3, <2>1, <2>2, Zenon DEF CheckExchange
  <2>5. FoundSo([kind |-> "exchange", of |-> s, in |-> Qty(l), product |-> p, out |-> Qty(out),
                 last |-> LastLine(out), refund |-> settle.refund, method |-> settle.method, status |-> settle.status,
                 value |-> value])
    BY <2>1, <2>2, <2>3, ExchangeFound
  <2> QED
    BY <2>4, <2>5
<1>4. ASSUME NEW n \in Returned, ReadForApproval(r, n) PROVE \E o : Checked(r, o) /\ FoundSo(o)
  BY <1>4, ApprovalFound, Zenon DEF ReadForApproval
<1> QED
  BY <1>1, <1>2, <1>3, <1>4, Zenon DEF Ask

-----------------------------------------------------------------------------
(* What stays as it is while others commit. *)

GrownSold  == Sold \subseteq Sold' /\ \A s \in Sold : sale'[s] = sale[s]
GrownNotes ==
    /\ Returned \subseteq Returned'
    /\ \A n \in Returned : /\ note'[n].of = note[n].of /\ note'[n].qty = note[n].qty
                           /\ note'[n].refund = note[n].refund /\ note'[n].method = note[n].method

\* What was proper to ask for stays proper.
LEMMA ProperStays == ASSUME NEW o, Proper(o), GrownSold, GrownNotes PROVE Proper(o)'
<1>1. o.kind \in {"sale", "return", "exchange", "approve"}
  BY DEF Proper
<1>2. Sells(o) => o.product \in Products /\ o.out \in Quantity /\ o.last \in 0 .. o.out
  BY DEF Proper
<1>3. o.kind = "sale" => o.units \subseteq Serials[o.product]
  BY DEF Proper
<1>4. TakesBack(o) => o.of \in Sold /\ o.of \in Sold' /\ sale'[o.of] = sale[o.of]
  BY DEF Proper, GrownSold
<1>5. (TakesBack(o) =>
         /\ o.of \in Sold /\ o.in \in Quantity /\ o.refund \in Nat /\ o.refund <= Worth(o.of, o.in)
         /\ o.method \in Methods \cup {"EXCHANGE_CREDIT"} /\ o.status \in NoteStatus)'
  BY <1>4 DEF Proper, TakesBack, Worth
<1>6. (o.kind = "exchange" =>
         /\ o.value = Worth(o.of, o.in)
         /\ o.refund = IF o.out * Price[o.product] < o.value THEN o.value - o.out * Price[o.product] ELSE 0)'
  BY <1>4 DEF Proper, TakesBack, Worth
<1>7. o.kind = "approve" => o.note \in Returned' /\ o.already \in BOOLEAN
  BY DEF Proper, GrownNotes
<1> QED
  BY <1>1, <1>2, <1>3, <1>5, <1>6, <1>7 DEF Proper, Sells

\* Stock that was enough for a request stays enough when no one takes of it.
LEMMA StockStays ==
    ASSUME NEW o, Proper(o), StockCovers(o), Rows, Rows', GrownSold, Sells(o) => ledger'[o.product] >= ledger[o.product]
    PROVE  StockCovers(o)'
<1>1. ASSUME MaxSecond = 0, o.kind = "sale" PROVE o.out <= ledger'[o.product]
  <2>1. o.product \in Products /\ o.out \in Nat
    BY <1>1 DEF Proper, Sells, Quantity
  <2>2. ledger[o.product] \in Int /\ ledger'[o.product] \in Int
    BY <2>1 DEF Rows
  <2>3. o.out <= ledger[o.product] /\ ledger'[o.product] >= ledger[o.product]
    BY <1>1 DEF StockCovers, Sells
  <2> QED
    BY <2>1, <2>2, <2>3
<1>2. ASSUME MaxSecond = 0, o.kind = "exchange"
      PROVE  o.out <= ledger'[o.product] + (IF o.product = sale'[o.of].product THEN o.in ELSE 0)
  <2>1. o.product \in Products /\ o.out \in Nat /\ o.in \in Nat /\ sale'[o.of] = sale[o.of]
    BY <1>2 DEF Proper, Sells, TakesBack, Quantity, GrownSold
  <2>2. ledger[o.product] \in Int /\ ledger'[o.product] \in Int
    BY <2>1 DEF Rows
  <2>3. PICK more \in Nat : more = IF o.product = sale[o.of].product THEN o.in ELSE 0
    BY <2>1
  <2>4. o.out <= ledger[o.product] + more /\ ledger'[o.product] >= ledger[o.product]
    BY <1>2, <2>3 DEF StockCovers, Sells
  <2>5. o.out <= ledger'[o.product] + more
    BY <2>1, <2>2, <2>4
  <2> QED
    BY <2>1, <2>3, <2>5
<1> QED
  BY <1>1, <1>2 DEF StockCovers

\* What is left of a sale stays when nothing of it comes back.
LEMMA SaleStays ==
    ASSUME NEW o, Proper(o), SaleCovers(o), GrownSold,
           TakesBack(o) => ReturnedQty(o.of)' = ReturnedQty(o.of) /\ Refunded(o.of)' = Refunded(o.of)
    PROVE  SaleCovers(o)'
<1>1. TakesBack(o) => sale'[o.of] = sale[o.of]
  BY DEF Proper, GrownSold
<1> QED
  BY <1>1 DEF SaleCovers, TakesBack

\* The notes of a sale, when there is none more, and when there is one more.
NotesKeep(s) ==
    /\ NotesOf(s)' = NotesOf(s)
    /\ \A n \in NotesOf(s) : note'[n].qty = note[n].qty /\ note'[n].refund = note[n].refund
NotesGrow(s, r, q, m) ==
    /\ NotesOf(s)' = NotesOf(s) \cup {r} /\ r \notin NotesOf(s)
    /\ \A n \in NotesOf(s) : note'[n].qty = note[n].qty /\ note'[n].refund = note[n].refund
    /\ q \in Nat /\ m \in Nat /\ note'[r].qty = q /\ note'[r].refund = m

\* The notes of a sale are finitely many, of whole numbers.
LEMMA NotesFinite ==
    ASSUME Rows, NEW s
    PROVE  IsFiniteSet(NotesOf(s)) /\ \A n \in NotesOf(s) : note[n].qty \in Int /\ note[n].refund \in Int
<1>1. NotesOf(s) \in SUBSET Returned
  BY DEF NotesOf
<1>2. IsFiniteSet(NotesOf(s))
  BY <1>1, TablesFinite, FS_Subset
<1> QED
  BY <1>1, <1>2 DEF Rows, NoteRow, Quantity

\* The same notes come to the same.
LEMMA SumsKeep ==
    ASSUME Rows, NEW s, NotesKeep(s)
    PROVE  ReturnedQty(s)' = ReturnedQty(s) /\ Refunded(s)' = Refunded(s)
<1>1. PICK S : S = NotesOf(s)
  OBVIOUS
<1>2. IsFiniteSet(S) /\ NotesOf(s)' = S /\ \A n \in S : note'[n].qty = note[n].qty /\ note'[n].refund = note[n].refund
  BY <1>1, NotesFinite DEF NotesKeep
<1>3. [r \in S |-> note'[r].qty] = [r \in S |-> note[r].qty] /\ [r \in S |-> note'[r].refund] = [r \in S |-> note[r].refund]
  BY <1>2
<1> QED
  BY <1>1, <1>2, <1>3 DEF ReturnedQty, Refunded

\* One note more comes to as much more.
LEMMA SumsGrow ==
    ASSUME Rows, NEW s, NEW r, NEW q, NEW m, NotesGrow(s, r, q, m)
    PROVE  ReturnedQty(s)' = ReturnedQty(s) + q /\ Refunded(s)' = Refunded(s) + m
<1>1. PICK S : S = NotesOf(s)
  OBVIOUS
<1>2. PICK T : T = S \cup {r}
  OBVIOUS
<1>3. /\ IsFiniteSet(S) /\ r \notin S /\ T = NotesOf(s)'
      /\ \A n \in S : note'[n].qty = note[n].qty /\ note'[n].refund = note[n].refund
      /\ \A n \in S : note[n].qty \in Int /\ note[n].refund \in Int
      /\ q \in Int /\ m \in Int /\ note'[r].qty = q /\ note'[r].refund = m
  BY <1>1, <1>2, NotesFinite DEF NotesGrow
<1>4. PICK f : f = [n \in S |-> note[n].qty]
  OBVIOUS
<1>5. PICK g : g = [n \in S |-> note[n].refund]
  OBVIOUS
<1>6. PICK h : h = [n \in T |-> note'[n].qty]
  OBVIOUS
<1>7. PICK k : k = [n \in T |-> note'[n].refund]
  OBVIOUS
<1>8. TermMore(f, h, S, r, T) /\ h[r] = q
  BY <1>2, <1>3, <1>4, <1>6 DEF TermMore, Same, Whole
<1>9. TermMore(g, k, S, r, T) /\ k[r] = m
  BY <1>2, <1>3, <1>5, <1>7 DEF TermMore, Same, Whole
<1>10. SumFunctionOnSet(h, T) = SumFunctionOnSet(f, S) + q
  BY <1>8, SumOneMore
<1>11. SumFunctionOnSet(k, T) = SumFunctionOnSet(g, S) + m
  BY <1>9, SumOneMore
<1>12. ReturnedQty(s) = SumFunctionOnSet(f, S) /\ Refunded(s) = SumFunctionOnSet(g, S)
  BY <1>1, <1>4, <1>5 DEF ReturnedQty, Refunded
<1>13. ReturnedQty(s)' = SumFunctionOnSet(h, T) /\ Refunded(s)' = SumFunctionOnSet(k, T)
  BY <1>3, <1>6, <1>7 DEF ReturnedQty, Refunded
<1> QED
  BY <1>10, <1>11, <1>12, <1>13

-----------------------------------------------------------------------------
(* Every step keeps what requests know. *)

TablesStand == UNCHANGED <<sale, note, ledger, credited>>

\* Where no table changes, rows stay and what was asked for and found stays so.
LEMMA TablesStay ==
    ASSUME Rows, TablesStand
    PROVE  /\ Rows' /\ Sold' = Sold /\ Returned' = Returned /\ GrownSold /\ GrownNotes
           /\ \A s : ReturnedQty(s)' = ReturnedQty(s) /\ Refunded(s)' = Refunded(s)
<1>1. Sold' = Sold /\ Returned' = Returned /\ sale' = sale /\ note' = note /\ ledger' = ledger /\ credited' = credited
  BY DEF TablesStand, Sold, Returned
<1>2. Rows'
  BY <1>1 DEF Rows, SaleRow, NoteRow, IsSale
<1>3. ASSUME NEW s PROVE ReturnedQty(s)' = ReturnedQty(s) /\ Refunded(s)' = Refunded(s)
  <2>1. NotesKeep(s)
    BY <1>1 DEF NotesKeep, NotesOf
  <2> QED
    BY <2>1, SumsKeep
<1> QED
  BY <1>1, <1>2, <1>3 DEF GrownSold, GrownNotes

\* And what was found.
LEMMA FoundStays ==
    ASSUME NEW o, Rows, TablesStand, Proper(o)
    PROVE  Proper(o)' /\ (Latest(o) => Latest(o)')
<1>1. /\ Rows' /\ GrownSold /\ GrownNotes
      /\ ReturnedQty(o.of)' = ReturnedQty(o.of) /\ Refunded(o.of)' = Refunded(o.of)
  BY TablesStay
<1>2. Proper(o)'
  BY <1>1, ProperStays
<1>3. ASSUME Latest(o) PROVE Latest(o)'
  <2>1. StockCovers(o) /\ SaleCovers(o) /\ NoteShows(o)
    BY <1>3 DEF Latest
  <2>2. StockCovers(o)'
    <3>1. Sells(o) => ledger'[o.product] >= ledger[o.product]
      <4>1. ASSUME Sells(o) PROVE ledger[o.product] \in Int
        BY <4>1 DEF Proper, Rows
      <4> QED
        BY <4>1 DEF TablesStand
    <3> QED
      BY <1>1, <2>1, <3>1, StockStays
  <2>3. SaleCovers(o)'
    BY <1>1, <2>1, SaleStays
  <2>4. NoteShows(o)'
    BY <2>1 DEF NoteShows, TablesStand
  <2> QED
    BY <2>2, <2>3, <2>4 DEF Latest
<1> QED
  BY <1>2, <1>3

\* A request that has been checked knows what it found.
LEMMA CheckedBooks ==
    ASSUME BooksInv, NEW r \in Requests, NEW o, Checked(r, o), FoundSo(o)
    PROVE  BooksInv'
<1>1. /\ pc[r] = "idle" /\ TablesStand /\ UNCHANGED <<behind, late>>
      /\ pc' = [pc EXCEPT ![r] = "checked"] /\ op' = [op EXCEPT ![r] = o]
  BY DEF Checked, TablesStand
<1>2. pc \in [Requests -> Stages] /\ op \in [Requests -> Ops]
  BY DEF BooksInv, IInv, Shape, Asks
<1>3. /\ pc'[r] = "checked" /\ op'[r] = o
      /\ \A i \in Requests \ {r} : pc'[i] = pc[i] /\ op'[i] = op[i]
  BY <1>1, <1>2
<1>4. IInv'
  BY CheckedIInv DEF BooksInv
<1>5. Rows'
  BY <1>1, TablesStay DEF BooksInv
<1>6. Proper(o)' /\ Latest(o)'
  BY <1>1, FoundStays DEF FoundSo, BooksInv
<1>7. Asks'
  <2>1. ASSUME NEW i \in Requests, pc'[i] # "idle" PROVE Proper(op[i])'
    <3>1. PICK a : a = op'[i]
      OBVIOUS
    <3>2. CASE i = r
      BY <1>3, <1>6, <3>1, <3>2
    <3>3. CASE i # r
      <4>1. a = op[i] /\ pc[i] # "idle"
        BY <1>3, <2>1, <3>1, <3>3
      <4>2. Proper(a)
        BY <4>1 DEF BooksInv, Asks
      <4>3. Proper(a)'
        BY <1>1, <4>2, FoundStays DEF BooksInv
      <4> QED
        BY <3>1, <4>3
    <3> QED
      BY <3>2, <3>3
  <2>2. op' \in [Requests -> Ops]
    BY <1>1, <1>2 DEF FoundSo
  <2> QED
    BY <2>1, <2>2 DEF Asks
<1>8. Knows'
  <2>1. ASSUME NEW i \in Requests, InFlight(i)', i \notin behind' PROVE Latest(op[i])'
    <3>1. PICK a : a = op'[i]
      OBVIOUS
    <3>2. CASE i = r
      BY <1>3, <1>6, <3>1, <3>2
    <3>3. CASE i # r
      <4>1. a = op[i] /\ InFlight(i) /\ pc[i] # "idle" /\ i \notin behind
        BY <1>1, <1>3, <2>1, <3>1, <3>3 DEF InFlight
      <4>2. Proper(a) /\ Latest(a)
        BY <4>1 DEF BooksInv, Asks, Knows
      <4>3. Latest(a)'
        BY <1>1, <4>2, FoundStays DEF BooksInv
      <4> QED
        BY <3>1, <4>3
    <3> QED
      BY <3>2, <3>3
  <2> QED
    BY <2>1 DEF Knows
<1>9. History'
  BY <1>1, <1>3 DEF BooksInv, History
<1> QED
  BY <1>4, <1>5, <1>7, <1>8, <1>9 DEF BooksInv

\* A step before the commit, or a rollback.
OneGoesOn(r) ==
    /\ pc'[r] # "idle"
    /\ \A i \in Requests \ {r} : pc'[i] = pc[i]
    /\ behind' = behind \/ (behind' = behind \ {r} /\ pc'[r] = "done")
    /\ UNCHANGED <<op, late>> /\ TablesStand

\* It changes nothing anyone has read.
LEMMA GoingOnBooks ==
    ASSUME BooksInv, IInv', NEW r \in Requests, pc[r] # "idle", pc[r] # "done", OneGoesOn(r)
    PROVE  BooksInv'
<1>1. /\ \A i \in Requests \ {r} : pc'[i] = pc[i]
      /\ UNCHANGED <<op, late>> /\ TablesStand
      /\ behind' = behind \/ (behind' = behind \ {r} /\ pc'[r] = "done")
      /\ pc'[r] # "idle"
  BY DEF OneGoesOn, InFlight
<1>2. Rows'
  BY <1>1, TablesStay DEF BooksInv
<1>3. Asks'
  <2>1. ASSUME NEW i \in Requests, pc'[i] # "idle" PROVE Proper(op[i])'
    <3>1. PICK a : a = op[i] /\ a = op'[i]
      BY <1>1
    <3>2. Proper(a)
      BY <1>1, <2>1, <3>1 DEF BooksInv, Asks
    <3>3. Proper(a)'
      BY <1>1, <3>2, FoundStays DEF BooksInv
    <3> QED
      BY <3>1, <3>3
  <2> QED
    BY <1>1, <2>1 DEF BooksInv, Asks
<1>4. Knows'
  <2>1. ASSUME NEW i \in Requests, InFlight(i)', i \notin behind' PROVE Latest(op[i])'
    <3>1. PICK a : a = op[i] /\ a = op'[i]
      BY <1>1
    <3>2. InFlight(i) /\ i \notin behind /\ pc[i] # "idle"
      BY <1>1, <2>1 DEF InFlight
    <3>3. Proper(a) /\ Latest(a)
      BY <3>1, <3>2 DEF BooksInv, Asks, Knows
    <3>4. Latest(a)'
      BY <1>1, <3>3, FoundStays DEF BooksInv
    <3> QED
      BY <3>1, <3>4
  <2> QED
    BY <2>1 DEF Knows
<1>5. History'
  BY <1>1 DEF BooksInv, History
<1> QED
  BY <1>2, <1>3, <1>4, <1>5 DEF BooksInv

-----------------------------------------------------------------------------
(* Commits. *)

\* A request that was neither overtaken nor read what this one changes.
Still(i, r) == i # r /\ InFlight(i) /\ i \notin behind /\ Figures(op[i]) \cap Figures(op[r]) = {}

\* A commit overtakes whoever has read what it changes; the others still know.
LEMMA CommitBooks ==
    ASSUME BooksInv, IInv', NEW r \in Requests, InFlight(r), Commit(r), Rows', GrownSold, GrownNotes,
           \A i \in Requests : Still(i, r) => Latest(op[i])'
    PROVE  BooksInv'
<1>1. /\ pc' = [pc EXCEPT ![r] = "done"] /\ UNCHANGED op
      /\ late' = IF r \in behind THEN late \cup {r} ELSE late
      /\ behind' = (behind \cup Overtaken(r)) \ {r}
  BY DEF Commit
<1>2. pc'[r] = "done" /\ \A i \in Requests \ {r} : pc'[i] = pc[i]
  BY <1>1 DEF BooksInv, IInv, Shape
<1>3. Asks'
  <2>1. ASSUME NEW i \in Requests, pc'[i] # "idle" PROVE Proper(op[i])'
    <3>1. PICK a : a = op[i] /\ a = op'[i]
      BY <1>1
    <3>2. Proper(a)
      BY <1>2, <2>1, <3>1 DEF BooksInv, Asks, InFlight
    <3>3. Proper(a)'
      BY <3>2, ProperStays
    <3> QED
      BY <3>1, <3>3
  <2> QED
    BY <1>1, <2>1 DEF BooksInv, Asks
<1>4. Knows'
  <2>1. ASSUME NEW i \in Requests, InFlight(i)', i \notin behind' PROVE Latest(op[i])'
    <3>1. i # r /\ InFlight(i)
      BY <1>2, <2>1 DEF InFlight
    <3>2. i \notin behind /\ i \notin Overtaken(r)
      BY <1>1, <2>1, <3>1
    <3>3. Figures(op[i]) \cap Figures(op[r]) = {}
      BY <3>1, <3>2 DEF Overtaken, InFlight
    <3> QED
      BY <3>1, <3>2, <3>3 DEF Still
  <2> QED
    BY <2>1 DEF Knows
<1>5. History'
  <2>1. behind' \subseteq Requests
    BY <1>1 DEF BooksInv, History, Overtaken
  <2>2. late' \subseteq {i \in Requests : pc'[i] = "done"}
    BY <1>1, <1>2 DEF BooksInv, History
  <2> QED
    BY <2>1, <2>2 DEF History
<1> QED
  BY <1>3, <1>4, <1>5 DEF BooksInv

\* What a request reads of stock, of returns and of an approval.
ReadsFigures(o) ==
    /\ Sells(o) => <<"stock", o.product>> \in Figures(o)
    /\ TakesBack(o) => <<"returns", o.of>> \in Figures(o)
    /\ o.kind = "approve" => <<"approval", o.note>> \in Figures(o)

\* A request reads all of them.
LEMMA FiguresRead == ASSUME NEW o PROVE ReadsFigures(o)
BY DEF ReadsFigures, Figures, Sells, TakesBack

\* Two requests that read different figures.
LEMMA FiguresApart ==
    ASSUME NEW a, NEW b, Figures(a) \cap Figures(b) = {}
    PROVE  /\ Sells(a) /\ Sells(b) => a.product # b.product
           /\ TakesBack(a) /\ TakesBack(b) => a.of # b.of
           /\ a.kind = "approve" /\ b.kind = "approve" => a.note # b.note
<1>1. ReadsFigures(a)
  BY FiguresRead
<1>2. ReadsFigures(b)
  BY FiguresRead
<1>3. ASSUME NEW x, x \in Figures(a), x \in Figures(b) PROVE FALSE
  BY <1>3
<1> QED
  BY <1>1, <1>2, <1>3 DEF ReadsFigures

\* What a commit does to the tables.
PutSale(r) ==
    /\ r \notin Sold /\ Sold' = Sold \cup {r} /\ \A s \in Sold : sale'[s] = sale[s]
    /\ sale'[r].number = Cardinality(Sold) + 1
    /\ sale'[r].product = op[r].product /\ sale'[r].qty = op[r].out /\ SaleRow(r)'
PutNote(r) ==
    /\ r \notin Returned /\ Returned' = Returned \cup {r} /\ \A n \in Returned : note'[n] = note[n]
    /\ note'[r].number = Cardinality(Returned) + 1
    /\ note'[r].of = op[r].of /\ note'[r].qty = op[r].in /\ note'[r].refund = op[r].refund
    /\ note'[r].method = op[r].method /\ note'[r].status = op[r].status
KeptSales == Sold' = Sold /\ \A s \in Sold : sale'[s] = sale[s]
KeptNotes == Returned' = Returned /\ \A n \in Returned : note'[n] = note[n]

\* What was asked for is proper.
LEMMA AskedProperly ==
    ASSUME BooksInv, NEW r \in Requests, pc[r] # "idle"
    PROVE  Proper(op[r]) /\ op[r] \in Ops
BY DEF BooksInv, Asks

\* A sale that is posted is the one that was asked for.
LEMMA SaleIsPut ==
    ASSUME BooksInv, NEW r \in Requests, pc[r] = "saleIn", NEW cash \in Nat, NEW units,
           op[r].product \in Products, op[r].out \in Quantity, op[r].last \in 0 .. op[r].out,
           units \subseteq Serials[op[r].product], sale' = [sale EXCEPT ![r] = SaleOf(r, cash, units)]
    PROVE  PutSale(r) /\ sale'[r].cash = cash
<1> DEFINE new == SaleOf(r, cash, units)
<1>1. /\ new.number = saleNo[r] /\ new.product = op[r].product /\ new.qty = op[r].out /\ new.last = op[r].last
      /\ new.cash = cash /\ new.units = units
  BY DEF SaleOf
<1>2. new = [number |-> new.number, product |-> new.product, qty |-> new.qty, last |-> new.last,
             cash |-> new.cash, units |-> new.units]
  BY <1>1 DEF SaleOf
<1> HIDE DEF new
<1>3. saleNo[r] = Cardinality(Sold) + 1 /\ saleNo[r] # 0
  BY TablesFinite DEF BooksInv, IInv, HeldSaleNo, HasSaleNo
<1>4. new # NoSale
  BY <1>1, <1>3 DEF NoSale
<1>5. sale'[r] = new /\ \A i \in Requests \ {r} : sale'[i] = sale[i]
  BY DEF new, BooksInv, IInv, Shape, IsTable
<1>6. r \notin Sold
  BY DEF BooksInv, IInv, StageMatches, Sold
<1>7. Sold' = Sold \cup {r}
  BY <1>4, <1>5, <1>6 DEF Sold
<1>8. \A s \in Sold : sale'[s] = sale[s]
  BY <1>5, <1>6 DEF Sold
<1>9. SaleRow(r)'
  BY <1>1, <1>2, <1>5 DEF SaleRow, IsSale
<1> QED
  BY <1>1, <1>3, <1>5, <1>6, <1>7, <1>8, <1>9 DEF PutSale

\* A credit note that is posted is the one that was asked for.
LEMMA NoteIsPut ==
    ASSUME BooksInv, NEW r \in Requests, HasNoteNo(r), note' = [note EXCEPT ![r] = NoteOf(r)]
    PROVE  PutNote(r)
<1> DEFINE new == NoteOf(r)
<1>1. /\ new.number = noteNo[r] /\ new.of = op[r].of /\ new.qty = op[r].in /\ new.refund = op[r].refund
      /\ new.method = op[r].method /\ new.status = op[r].status
  BY DEF NoteOf
<1>2. new # NoNote /\ noteNo[r] = Cardinality(Returned) + 1
  <2>1. noteNo[r] # 0 /\ noteNo[r] = Cardinality(Returned) + 1
    BY TablesFinite DEF BooksInv, IInv, HeldNoteNo
  <2> QED
    BY <2>1, NoteOfShape
<1> HIDE DEF new
<1>3. note'[r] = new /\ \A i \in Requests \ {r} : note'[i] = note[i]
  BY DEF new, BooksInv, IInv, Shape, IsTable
<1>4. r \notin Returned
  BY DEF BooksInv, IInv, StageMatches, Returned, HasNoteNo
<1>5. Returned' = Returned \cup {r}
  BY <1>2, <1>3, <1>4 DEF Returned
<1>6. \A n \in Returned : note'[n] = note[n]
  BY <1>3, <1>4 DEF Returned
<1> QED
  BY <1>1, <1>2, <1>3, <1>4, <1>5, <1>6 DEF PutNote


\* A sale more, or none, leaves the other sales.
LEMMA SalesAfter ==
    ASSUME Rows, NEW r, PutSale(r) \/ KeptSales
    PROVE  GrownSold /\ \A s \in Sold' : SaleRow(s)'
<1>1. GrownSold
  BY DEF PutSale, KeptSales, GrownSold
<1>2. ASSUME NEW s \in Sold PROVE SaleRow(s)'
  <2>1. sale'[s] = sale[s]
    BY <1>1 DEF GrownSold
  <2> QED
    BY <2>1 DEF Rows, SaleRow, IsSale
<1> QED
  BY <1>1, <1>2 DEF PutSale, KeptSales

\* A note more, or none, leaves the other notes.
LEMMA NotesAfter ==
    ASSUME Rows, GrownSold, NEW r, KeptNotes \/ (PutNote(r) /\ Proper(op[r]) /\ TakesBack(op[r]))
    PROVE  GrownNotes /\ \A n \in Returned' : NoteRow(n)'
<1>1. GrownNotes
  BY DEF PutNote, KeptNotes, GrownNotes
<1>2. ASSUME NEW n \in Returned PROVE NoteRow(n)'
  <2>1. note'[n] = note[n]
    BY DEF PutNote, KeptNotes
  <2> QED
    BY <2>1 DEF Rows, NoteRow, GrownSold
<1>3. ASSUME PutNote(r), Proper(op[r]), TakesBack(op[r]) PROVE NoteRow(r)'
  BY <1>3 DEF PutNote, NoteRow, Proper, GrownSold
<1> QED
  BY <1>1, <1>2, <1>3 DEF PutNote, KeptNotes

\* A note more is one of its sale and of no other.
LEMMA NotesOfAfter ==
    ASSUME Rows, NEW r, PutNote(r), Proper(op[r]), TakesBack(op[r])
    PROVE  /\ NotesGrow(op[r].of, r, op[r].in, op[r].refund)
           /\ \A s : s # op[r].of => NotesKeep(s)
<1>1. PICK o : o = op[r]
  OBVIOUS
<1>2. /\ r \notin Returned /\ Returned' = Returned \cup {r} /\ \A n \in Returned : note'[n] = note[n]
      /\ note'[r].of = o.of /\ note'[r].qty = o.in /\ note'[r].refund = o.refund
  BY <1>1 DEF PutNote
<1>3. o.in \in Nat /\ o.refund \in Nat
  BY <1>1 DEF Proper, Quantity
<1>4. NotesGrow(o.of, r, o.in, o.refund)
  BY <1>2, <1>3 DEF NotesGrow, NotesOf
<1>5. ASSUME NEW s, s # o.of PROVE NotesKeep(s)
  BY <1>2, <1>5 DEF NotesKeep, NotesOf
<1> QED
  BY <1>1, <1>4, <1>5

\* And when there is none more, every sale keeps its notes.
LEMMA NotesOfStay == ASSUME KeptNotes, NEW s PROVE NotesKeep(s)
BY DEF KeptNotes, NotesKeep, NotesOf

\* What a request has read is left alone.
LeftAlone(o) ==
    /\ Sells(o) => ledger'[o.product] >= ledger[o.product]
    /\ TakesBack(o) => NotesKeep(o.of)
    /\ o.kind = "approve" => note'[o.note] = note[o.note]

\* What it found is then still so.
LEMMA StillSo ==
    ASSUME Rows, Rows', GrownSold, NEW o, Proper(o), Latest(o), LeftAlone(o)
    PROVE  Latest(o)'
<1>1. StockCovers(o) /\ SaleCovers(o) /\ NoteShows(o)
  BY DEF Latest
<1>2. Sells(o) => ledger'[o.product] >= ledger[o.product]
  BY DEF LeftAlone
<1>3. StockCovers(o)'
  BY <1>1, <1>2, StockStays
<1>4. TakesBack(o) => ReturnedQty(o.of)' = ReturnedQty(o.of) /\ Refunded(o.of)' = Refunded(o.of)
  <2>1. ASSUME TakesBack(o) PROVE NotesKeep(o.of)
    BY <2>1 DEF LeftAlone
  <2> QED
    BY <2>1, SumsKeep
<1>5. SaleCovers(o)'
  BY <1>1, <1>4, SaleStays
<1>6. NoteShows(o)'
  BY <1>1 DEF NoteShows, LeftAlone
<1> QED
  BY <1>3, <1>5, <1>6 DEF Latest

\* A commit that leaves alone what those have read who read other figures.
LEMMA CommitKeepsBooks ==
    ASSUME BooksInv, IInv', NEW r \in Requests, InFlight(r), Commit(r), Rows', GrownSold, GrownNotes,
           \A i \in Requests : Still(i, r) => LeftAlone(op[i])
    PROVE  BooksInv'
<1>1. ASSUME NEW i \in Requests, Still(i, r) PROVE Latest(op[i])'
  <2>1. PICK o : o = op[i] /\ o = op'[i]
    BY DEF Commit
  <2>2. Proper(o) /\ Latest(o) /\ LeftAlone(o)
    BY <1>1, <2>1 DEF Still, InFlight, BooksInv, Asks, Knows
  <2>3. Latest(o)'
    BY <2>2, StillSo DEF BooksInv
  <2> QED
    BY <2>1, <2>3
<1> QED
  BY <1>1, CommitBooks

\* What a request that reads other figures reads.
LEMMA StillReads ==
    ASSUME NEW i, NEW r, Still(i, r)
    PROVE  /\ Sells(op[i]) /\ Sells(op[r]) => op[i].product # op[r].product
           /\ TakesBack(op[i]) /\ TakesBack(op[r]) => op[i].of # op[r].of
           /\ op[i].kind = "approve" /\ op[r].kind = "approve" => op[i].note # op[r].note
BY FiguresApart DEF Still

\* What create_sale commits.
LEMMA PostSaleDoes ==
    ASSUME BooksInv, NEW r \in Requests, PostSale(r)
    PROVE  /\ PutSale(r) /\ sale'[r].cash = op[r].out * Price[op[r].product] /\ KeptNotes
           /\ op[r].product \in Products /\ op[r].out \in Quantity /\ op[r].kind = "sale" /\ Proper(op[r])
           /\ ledger' = [ledger EXCEPT ![op[r].product] = @ - op[r].out]
           /\ InFlight(r) /\ Commit(r) /\ credited' = credited
<1>1. /\ pc[r] = "saleIn" /\ op[r].kind = "sale" /\ sale' = [sale EXCEPT ![r] = SaleOf(r, Total(r), op[r].units)]
      /\ ledger' = [ledger EXCEPT ![op[r].product] = @ - op[r].out] /\ Commit(r) /\ note' = note /\ credited' = credited
  BY DEF PostSale
<1>2. Proper(op[r])
  BY <1>1, AskedProperly
<1>3. /\ op[r].product \in Products /\ op[r].out \in Quantity /\ op[r].last \in 0 .. op[r].out
      /\ op[r].units \subseteq Serials[op[r].product]
  BY <1>1, <1>2 DEF Proper, Sells
<1>4. PICK cash : cash = Total(r)
  OBVIOUS
<1>5. cash \in Nat /\ cash = op[r].out * Price[op[r].product]
  <2>1. op[r].out \in Nat /\ Price[op[r].product] \in Nat
    BY <1>3, BillingAssumption DEF Quantity
  <2>2. op[r].out * Price[op[r].product] \in Nat
    BY <2>1, Amounts
  <2> QED
    BY <1>4, <2>2 DEF Total
<1>6. PutSale(r) /\ sale'[r].cash = cash
  BY <1>1, <1>3, <1>4, <1>5, SaleIsPut
<1>7. KeptNotes
  BY <1>1 DEF KeptNotes, Returned
<1> QED
  BY <1>1, <1>2, <1>3, <1>5, <1>6, <1>7 DEF InFlight

\* What create_sale_return commits.
LEMMA PostReturnDoes ==
    ASSUME BooksInv, NEW r \in Requests, PostReturn(r)
    PROVE  /\ PutNote(r) /\ KeptSales /\ op[r].kind = "return" /\ Proper(op[r])
           /\ op[r].of \in Sold /\ op[r].in \in Quantity /\ sale[op[r].of].product \in Products
           /\ ledger' = [ledger EXCEPT ![sale[op[r].of].product] = @ + op[r].in]
           /\ credited' = [credited EXCEPT ![r] =
                              IF op[r].status = "REFUND_APPROVED" /\ op[r].method = "STORE_CREDIT"
                              THEN op[r].refund ELSE 0]
           /\ op[r].refund \in Nat /\ InFlight(r) /\ Commit(r)
<1>1. /\ pc[r] = "noteIn" /\ op[r].kind = "return" /\ note' = [note EXCEPT ![r] = NoteOf(r)]
      /\ ledger' = [ledger EXCEPT ![sale[op[r].of].product] = @ + op[r].in] /\ Commit(r) /\ sale' = sale
      /\ credited' = [credited EXCEPT ![r] =
                         IF op[r].status = "REFUND_APPROVED" /\ op[r].method = "STORE_CREDIT"
                         THEN op[r].refund ELSE 0]
  BY DEF PostReturn
<1>2. Proper(op[r])
  BY <1>1, AskedProperly
<1>3. op[r].of \in Sold /\ op[r].in \in Quantity /\ op[r].refund \in Nat
  BY <1>1, <1>2 DEF Proper, TakesBack
<1>4. sale[op[r].of].product \in Products
  BY <1>3 DEF BooksInv, Rows, SaleRow
<1>5. HasNoteNo(r)
  BY <1>1 DEF HasNoteNo
<1>6. PutNote(r)
  BY <1>1, <1>5, NoteIsPut
<1>7. KeptSales
  BY <1>1 DEF KeptSales, Sold
<1> QED
  BY <1>1, <1>2, <1>3, <1>4, <1>6, <1>7 DEF InFlight

\* What create_exchange commits.
LEMMA PostExchangeDoes ==
    ASSUME BooksInv, NEW r \in Requests, PostExchange(r)
    PROVE  /\ PutSale(r) /\ PutNote(r) /\ op[r].kind = "exchange" /\ Proper(op[r])
           /\ op[r].product \in Products /\ op[r].out \in Quantity
           /\ op[r].of \in Sold /\ op[r].in \in Quantity /\ sale[op[r].of].product \in Products
           /\ sale'[r].cash = (IF Total(r) > op[r].value THEN Total(r) - op[r].value ELSE 0)
           /\ ledger' = [p \in Products |-> ledger[p]
                            + (IF p = sale[op[r].of].product THEN op[r].in ELSE 0)
                            - (IF p = op[r].product THEN op[r].out ELSE 0)]
           /\ InFlight(r) /\ Commit(r) /\ credited' = credited
<1>1. /\ pc[r] = "saleIn" /\ op[r].kind = "exchange" /\ sale' = [sale EXCEPT ![r] = Replacement(r)]
      /\ note' = [note EXCEPT ![r] = NoteOf(r)] /\ Commit(r) /\ credited' = credited
      /\ ledger' = [p \in Products |-> ledger[p]
                            + (IF p = sale[op[r].of].product THEN op[r].in ELSE 0)
                            - (IF p = op[r].product THEN op[r].out ELSE 0)]
  BY DEF PostExchange
<1>2. Proper(op[r])
  BY <1>1, AskedProperly
<1>3. /\ op[r].product \in Products /\ op[r].out \in Quantity /\ op[r].last \in 0 .. op[r].out
      /\ op[r].of \in Sold /\ op[r].in \in Quantity /\ op[r].value = Worth(op[r].of, op[r].in)
  BY <1>1, <1>2 DEF Proper, Sells, TakesBack
<1>4. sale[op[r].of].product \in Products
  BY <1>3 DEF BooksInv, Rows, SaleRow
<1>5. PICK cash : cash = IF Total(r) > op[r].value THEN Total(r) - op[r].value ELSE 0
  OBVIOUS
<1>6. cash \in Nat
  <2>1. op[r].out \in Nat /\ op[r].in \in Nat /\ Price[op[r].product] \in Nat
    BY <1>3, BillingAssumption DEF Quantity
  <2>2. op[r].out * Price[op[r].product] \in Nat
    BY <2>1, Amounts
  <2>3. op[r].value \in Nat
    BY <1>3, <2>1, WorthFacts
  <2>4. Total(r) \in Nat
    BY <2>2 DEF Total
  <2> QED
    BY <1>5, <2>3, <2>4
<1>7. HasNoteNo(r)
  BY <1>1 DEF HasNoteNo
<1>8. PutNote(r)
  BY <1>1, <1>7, NoteIsPut
<1>9. PutSale(r) /\ sale'[r].cash = cash
  <2>1. sale' = [sale EXCEPT ![r] = SaleOf(r, cash, {})]
    BY <1>1, <1>5 DEF Replacement
  <2>2. {} \subseteq Serials[op[r].product]
    OBVIOUS
  <2> QED
    BY <1>1, <1>3, <1>6, <2>1, <2>2, SaleIsPut
<1> QED
  BY <1>1, <1>2, <1>3, <1>4, <1>5, <1>8, <1>9 DEF InFlight

\* What approve_sale_return_refund commits.
LEMMA PostApprovalDoes ==
    ASSUME BooksInv, NEW r \in Requests, PostApproval(r)
    PROVE  /\ op[r].note \in Returned /\ op[r].kind = "approve" /\ op[r].already \in BOOLEAN
           /\ note'[op[r].note] = [note[op[r].note] EXCEPT !.status = "REFUND_APPROVED"]
           /\ note'[op[r].note].status = "REFUND_APPROVED"
           /\ Returned' = Returned /\ \A n \in Returned : n # op[r].note => note'[n] = note[n]
           /\ GrownNotes /\ (\A s : NotesKeep(s)) /\ \A n \in Returned' : NoteRow(n)'
           /\ \A n \in Returned : note'[n].number = note[n].number
           /\ credited' = [credited EXCEPT ![op[r].note] =
                              IF ~op[r].already /\ note[op[r].note].method = "STORE_CREDIT"
                              THEN @ + note[op[r].note].refund ELSE @]
           /\ InFlight(r) /\ Commit(r) /\ UNCHANGED <<sale, ledger>>
<1>1. PICK m : m = op[r].note
  OBVIOUS
<1>2. /\ pc[r] = "checked" /\ op[r].kind = "approve" /\ note' = [note EXCEPT ![m].status = "REFUND_APPROVED"]
      /\ credited' = [credited EXCEPT ![m] = IF ~op[r].already /\ note[m].method = "STORE_CREDIT"
                                             THEN @ + note[m].refund ELSE @]
      /\ Commit(r) /\ UNCHANGED <<sale, ledger>>
  BY <1>1 DEF PostApproval, Approved
<1>3. Proper(op[r])
  BY <1>2, AskedProperly
<1>4. m \in Returned /\ op[r].already \in BOOLEAN
  BY <1>1, <1>2, <1>3 DEF Proper
<1>5. PICK old : old = note[m]
  OBVIOUS
<1>6. PICK new : new = [old EXCEPT !.status = "REFUND_APPROVED"]
  OBVIOUS
<1>7. IsNote(old) /\ old # NoNote /\ m \in Requests
  BY <1>4, <1>5 DEF BooksInv, IInv, Shape, Returned
<1>8. /\ new.number = old.number /\ new.of = old.of /\ new.qty = old.qty /\ new.refund = old.refund
      /\ new.method = old.method /\ new.status = "REFUND_APPROVED"
  BY <1>6, <1>7 DEF IsNote
<1>9. new # NoNote
  <2>1. old.number # 0
    <3>1. {note[i].number : i \in Returned} = 1 .. Cardinality(Returned)
      BY DEF BooksInv, IInv, HeldNoteNo
    <3>2. old.number \in 1 .. Cardinality(Returned)
      BY <1>4, <1>5, <3>1
    <3> QED
      BY <3>2, TablesFinite
  <2> QED
    BY <1>8, <2>1 DEF NoNote
<1>10. note'[m] = new /\ \A i \in Requests \ {m} : note'[i] = note[i]
  BY <1>2, <1>5, <1>6, <1>7 DEF BooksInv, IInv, Shape, IsTable
<1>11. Returned' = Returned
  BY <1>5, <1>7, <1>9, <1>10 DEF Returned
<1>12. \A n \in Returned : n # m => note'[n] = note[n]
  BY <1>10 DEF Returned
<1>13. \A n \in Returned : /\ note'[n].of = note[n].of /\ note'[n].qty = note[n].qty
                           /\ note'[n].refund = note[n].refund /\ note'[n].method = note[n].method
                           /\ note'[n].status \in {note[n].status, "REFUND_APPROVED"}
  BY <1>5, <1>8, <1>10, <1>12
<1>17. \A n \in Returned : note'[n].number = note[n].number
  BY <1>5, <1>8, <1>10, <1>12
<1>14. GrownNotes
  BY <1>11, <1>13 DEF GrownNotes
<1>15. ASSUME NEW s PROVE NotesKeep(s)
  BY <1>11, <1>13 DEF NotesKeep, NotesOf
<1>16. ASSUME NEW n \in Returned' PROVE NoteRow(n)'
  <2>1. n \in Returned
    BY <1>11
  <2>2. NoteRow(n)
    BY <2>1 DEF BooksInv, Rows
  <2>3. Sold' = Sold
    BY <1>2 DEF Sold
  <2>4. /\ note'[n].of = note[n].of /\ note'[n].qty = note[n].qty
        /\ note'[n].refund = note[n].refund /\ note'[n].method = note[n].method
        /\ note'[n].status \in {note[n].status, "REFUND_APPROVED"}
    BY <1>13, <2>1
  <2>5. "REFUND_APPROVED" \in NoteStatus
    BY DEF NoteStatus
  <2> QED
    BY <2>2, <2>3, <2>4, <2>5 DEF NoteRow
<1>18. note'[m] = [note[m] EXCEPT !.status = "REFUND_APPROVED"] /\ note'[m].status = "REFUND_APPROVED"
  BY <1>5, <1>6, <1>8, <1>10
<1>19. InFlight(r)
  BY <1>2 DEF InFlight
<1>20. op[r].note \in Returned /\ op[r].kind = "approve" /\ op[r].already \in BOOLEAN
  BY <1>1, <1>2, <1>4
<1>21. note'[op[r].note] = [note[op[r].note] EXCEPT !.status = "REFUND_APPROVED"]
  BY <1>1, <1>18
<1>22. note'[op[r].note].status = "REFUND_APPROVED"
  BY <1>1, <1>18
<1>23. \A n \in Returned : n # op[r].note => note'[n] = note[n]
  BY <1>1, <1>12
<1>24. credited' = [credited EXCEPT ![op[r].note] =
                       IF ~op[r].already /\ note[op[r].note].method = "STORE_CREDIT"
                       THEN @ + note[op[r].note].refund ELSE @]
  BY <1>1, <1>2
<1>25. Commit(r) /\ UNCHANGED <<sale, ledger>>
  BY <1>2
<1> QED
  BY <1>11, <1>14, <1>15, <1>16, <1>17, <1>19, <1>20, <1>21, <1>22, <1>23, <1>24, <1>25

\* create_sale's commit overtakes who has read its product's stock, and no one else.
LEMMA PostSaleBooks ==
    ASSUME BooksInv, NEW r \in Requests, PostSale(r)
    PROVE  BooksInv'
<1>1. PICK p \in Products : p = op[r].product
  BY PostSaleDoes
<1>2. /\ PutSale(r) /\ KeptNotes /\ op[r].kind = "sale" /\ op[r].out \in Int
      /\ ledger' = [ledger EXCEPT ![p] = @ - op[r].out] /\ InFlight(r) /\ Commit(r) /\ credited' = credited
  BY <1>1, PostSaleDoes DEF Quantity
<1>3. Rows /\ IInv
  BY DEF BooksInv
<1>4. GrownSold /\ \A s \in Sold' : SaleRow(s)'
  BY <1>2, <1>3, SalesAfter
<1>5. GrownNotes /\ \A n \in Returned' : NoteRow(n)'
  BY <1>2, <1>3, <1>4, NotesAfter
<1>6. Rows'
  <2>1. ledger' \in [Products -> Int] /\ credited' \in [Requests -> Nat]
    BY <1>1, <1>2, <1>3 DEF Rows
  <2> QED
    BY <1>4, <1>5, <2>1 DEF Rows
<1>7. ASSUME NEW i \in Requests, Still(i, r) PROVE LeftAlone(op[i])
  <2>1. Sells(op[i]) => op[i].product # p /\ op[i].product \in Products
    <3>1. Sells(op[i]) => op[i].product # p
      BY <1>1, <1>2, <1>7, StillReads DEF Sells
    <3>2. Proper(op[i])
      BY <1>7, AskedProperly DEF Still, InFlight
    <3> QED
      BY <3>1, <3>2 DEF Proper
  <2>2. \A q \in Products : q # p => ledger'[q] = ledger[q] /\ ledger[q] \in Int
    BY <1>2, <1>3 DEF Rows
  <2>3. Sells(op[i]) => ledger'[op[i].product] >= ledger[op[i].product]
    BY <2>1, <2>2
  <2>4. NotesKeep(op[i].of)
    BY <1>2, NotesOfStay
  <2>5. op[i].kind = "approve" => note'[op[i].note] = note[op[i].note]
    <3>1. Proper(op[i])
      BY <1>7, AskedProperly DEF Still, InFlight
    <3> QED
      BY <1>2, <3>1 DEF Proper, KeptNotes
  <2> QED
    BY <2>3, <2>4, <2>5 DEF LeftAlone
<1>8. IInv'
  BY <1>3, PostSaleIInv
<1> QED
  BY <1>2, <1>4, <1>5, <1>6, <1>7, <1>8, CommitKeepsBooks

\* create_sale_return's commit overtakes who has read what came back of its sale.
LEMMA PostReturnBooks ==
    ASSUME BooksInv, NEW r \in Requests, PostReturn(r)
    PROVE  BooksInv'
<1>1. PICK p \in Products : p = sale[op[r].of].product
  BY PostReturnDoes
<1>2. /\ PutNote(r) /\ KeptSales /\ op[r].kind = "return" /\ Proper(op[r]) /\ op[r].in \in Nat
      /\ ledger' = [ledger EXCEPT ![p] = @ + op[r].in] /\ InFlight(r) /\ Commit(r)
  BY <1>1, PostReturnDoes DEF Quantity
<1>3. Rows /\ IInv
  BY DEF BooksInv
<1>4. GrownSold /\ \A s \in Sold' : SaleRow(s)'
  BY <1>2, <1>3, SalesAfter
<1>5. TakesBack(op[r])
  BY <1>2 DEF TakesBack
<1>6. GrownNotes /\ \A n \in Returned' : NoteRow(n)'
  BY <1>2, <1>3, <1>4, <1>5, NotesAfter
<1>7. \A q \in Products : ledger'[q] >= ledger[q] /\ ledger'[q] \in Int
  BY <1>1, <1>2, <1>3 DEF Rows
<1>8. Rows'
  <2>1. ledger' \in [Products -> Int]
    BY <1>1, <1>2, <1>3 DEF Rows
  <2>2. credited' \in [Requests -> Nat]
    <3>1. op[r].refund \in Nat
      BY PostReturnDoes
    <3>2. PICK c \in Nat : credited' = [credited EXCEPT ![r] = c]
      BY <3>1, PostReturnDoes
    <3> QED
      BY <1>3, <3>2 DEF Rows
  <2> QED
    BY <1>4, <1>6, <2>1, <2>2 DEF Rows
<1>9. ASSUME NEW i \in Requests, Still(i, r) PROVE LeftAlone(op[i])
  <2>1. Proper(op[i])
    BY <1>9, AskedProperly DEF Still, InFlight
  <2>2. Sells(op[i]) => ledger'[op[i].product] >= ledger[op[i].product]
    BY <1>7, <2>1 DEF Proper
  <2>3. TakesBack(op[i]) => op[i].of # op[r].of
    BY <1>5, <1>9, StillReads
  <2>4. TakesBack(op[i]) => NotesKeep(op[i].of)
    BY <1>2, <1>3, <1>5, <2>3, NotesOfAfter
  <2>5. op[i].kind = "approve" => note'[op[i].note] = note[op[i].note]
    BY <1>2, <2>1 DEF Proper, PutNote
  <2> QED
    BY <2>2, <2>4, <2>5 DEF LeftAlone
<1>10. IInv'
  BY <1>3, PostReturnIInv
<1> QED
  BY <1>2, <1>4, <1>6, <1>8, <1>9, <1>10, CommitKeepsBooks

\* create_exchange's commit does both.
LEMMA PostExchangeBooks ==
    ASSUME BooksInv, NEW r \in Requests, PostExchange(r)
    PROVE  BooksInv'
<1>1. PICK p \in Products : p = sale[op[r].of].product
  BY PostExchangeDoes
<1>2. PICK w \in Products : w = op[r].product
  BY PostExchangeDoes
<1>3. PICK a \in Nat : a = op[r].in
  BY PostExchangeDoes DEF Quantity
<1>4. PICK b \in Nat : b = op[r].out
  BY PostExchangeDoes DEF Quantity
<1>5. /\ PutSale(r) /\ PutNote(r) /\ op[r].kind = "exchange" /\ Proper(op[r])
      /\ ledger' = [q \in Products |-> ledger[q] + (IF q = p THEN a ELSE 0) - (IF q = w THEN b ELSE 0)]
      /\ InFlight(r) /\ Commit(r) /\ credited' = credited
  BY <1>1, <1>2, <1>3, <1>4, PostExchangeDoes
<1>6. Rows /\ IInv
  BY DEF BooksInv
<1>7. GrownSold /\ \A s \in Sold' : SaleRow(s)'
  BY <1>5, <1>6, SalesAfter
<1>8. TakesBack(op[r]) /\ Sells(op[r])
  BY <1>5 DEF TakesBack, Sells
<1>9. GrownNotes /\ \A n \in Returned' : NoteRow(n)'
  BY <1>5, <1>6, <1>7, <1>8, NotesAfter
<1>10. ledger' \in [Products -> Int] /\ \A q \in Products : q # w => ledger'[q] >= ledger[q]
  <2>1. \A q \in Products : ledger[q] \in Int
    BY <1>6 DEF Rows
  <2> QED
    BY <1>5, <2>1
<1>11. Rows'
  BY <1>5, <1>6, <1>7, <1>9, <1>10 DEF Rows
<1>12. ASSUME NEW i \in Requests, Still(i, r) PROVE LeftAlone(op[i])
  <2>1. Proper(op[i])
    BY <1>12, AskedProperly DEF Still, InFlight
  <2>2. Sells(op[i]) => op[i].product # w
    BY <1>2, <1>8, <1>12, StillReads
  <2>3. Sells(op[i]) => ledger'[op[i].product] >= ledger[op[i].product]
    BY <1>10, <2>1, <2>2 DEF Proper
  <2>4. TakesBack(op[i]) => op[i].of # op[r].of
    BY <1>8, <1>12, StillReads
  <2>5. TakesBack(op[i]) => NotesKeep(op[i].of)
    BY <1>5, <1>6, <1>8, <2>4, NotesOfAfter
  <2>6. op[i].kind = "approve" => note'[op[i].note] = note[op[i].note]
    BY <1>5, <2>1 DEF Proper, PutNote
  <2> QED
    BY <2>3, <2>5, <2>6 DEF LeftAlone
<1>13. IInv'
  BY <1>6, PostExchangeIInv
<1> QED
  BY <1>5, <1>7, <1>9, <1>11, <1>12, <1>13, CommitKeepsBooks

\* approve_sale_return_refund's commit overtakes who has read the same return's status.
LEMMA PostApprovalBooks ==
    ASSUME BooksInv, NEW r \in Requests, PostApproval(r)
    PROVE  BooksInv'
<1>1. PICK m \in Returned : m = op[r].note
  BY PostApprovalDoes
<1>2. /\ op[r].kind = "approve" /\ Returned' = Returned /\ \A n \in Returned : n # m => note'[n] = note[n]
      /\ GrownNotes /\ (\A s : NotesKeep(s)) /\ \A n \in Returned' : NoteRow(n)'
      /\ InFlight(r) /\ Commit(r) /\ UNCHANGED <<sale, ledger>>
  BY <1>1, PostApprovalDoes
<1>3. Rows /\ IInv
  BY DEF BooksInv
<1>4. KeptSales
  BY <1>2 DEF KeptSales, Sold
<1>5. GrownSold /\ \A s \in Sold' : SaleRow(s)'
  BY <1>3, <1>4, SalesAfter
<1>6. Rows'
  <2>1. note[m].refund \in Nat /\ credited[m] \in Nat
    BY <1>1, <1>3 DEF Rows, NoteRow, Returned
  <2>2. PICK c \in Nat : credited' = [credited EXCEPT ![m] = c]
    <3>1. PICK f \in Nat : f = note[m].refund
      BY <2>1
    <3>2. PICK b \in Nat : b = credited[m]
      BY <2>1
    <3>3. PICK c : c = IF ~op[r].already /\ note[m].method = "STORE_CREDIT" THEN b + f ELSE b
      OBVIOUS
    <3>4. credited' = [credited EXCEPT ![m] = IF ~op[r].already /\ note[m].method = "STORE_CREDIT"
                                               THEN @ + note[m].refund ELSE @]
      BY <1>1, PostApprovalDoes
    <3>5. credited' = [credited EXCEPT ![m] = c]
      BY <3>1, <3>2, <3>3, <3>4
    <3>6. c \in Nat
      BY <3>3
    <3> QED
      BY <3>5, <3>6
  <2>3. ledger' \in [Products -> Int] /\ credited' \in [Requests -> Nat]
    BY <1>2, <1>3, <2>2 DEF Rows
  <2> QED
    BY <1>2, <1>5, <2>3 DEF Rows
<1>7. ASSUME NEW i \in Requests, Still(i, r) PROVE LeftAlone(op[i])
  <2>1. Proper(op[i])
    BY <1>7, AskedProperly DEF Still, InFlight
  <2>2. Sells(op[i]) => ledger'[op[i].product] >= ledger[op[i].product]
    <3>1. Sells(op[i]) => ledger[op[i].product] \in Int
      BY <1>3, <2>1 DEF Proper, Rows
    <3> QED
      BY <1>2, <3>1
  <2>3. op[i].kind = "approve" => op[i].note # m
    BY <1>1, <1>2, <1>7, StillReads
  <2>4. op[i].kind = "approve" => note'[op[i].note] = note[op[i].note]
    BY <1>2, <2>1, <2>3 DEF Proper
  <2>5. NotesKeep(op[i].of)
    BY <1>2
  <2> QED
    BY <2>2, <2>4, <2>5 DEF LeftAlone
<1>8. IInv'
  BY <1>3, PostApprovalIInv
<1> QED
  BY <1>2, <1>5, <1>6, <1>7, <1>8, CommitKeepsBooks

-----------------------------------------------------------------------------
(* What requests know, of every reachable state. *)

\* A branch that has sold nothing.
LEMMA InitBooks == Init => BooksInv
<1> SUFFICES ASSUME Init PROVE BooksInv
  OBVIOUS
<1>1. IInv
  BY InitIInv
<1>2. Sold = {} /\ Returned = {}
  BY DEF Init, Sold, Returned
<1>3. Rows
  <2>1. ledger \in [Products -> Int]
    BY BillingAssumption DEF Init
  <2>2. credited \in [Requests -> Nat]
    BY DEF Init
  <2> QED
    BY <1>2, <2>1, <2>2 DEF Rows
<1>4. Asks
  <2>1. NoOp \in Ops
    BY DEF Ops
  <2> QED
    BY <2>1 DEF Init, Asks
<1>5. Knows /\ History
  BY DEF Init, Knows, History, InFlight
<1> QED
  BY <1>1, <1>3, <1>4, <1>5 DEF BooksInv

\* Numbering, inserting and rolling back touch no table.
LEMMA EarlierStepsBooks ==
    ASSUME BooksInv, NEW r \in Requests,
           CountNotes(r) \/ InsertNote(r) \/ CountSales(r) \/ InsertSale(r) \/ RollBack(r)
    PROVE  BooksInv'
<1>1. IInv
  BY DEF BooksInv
<1>2. IInv'
  BY <1>1, CountNotesIInv, InsertNoteIInv, CountSalesIInv, InsertSaleIInv, RollBackIInv
<1>3. PICK q : /\ pc' = [pc EXCEPT ![r] = q] /\ q # "idle" /\ (behind' = behind \/ (behind' = behind \ {r} /\ q = "done"))
               /\ UNCHANGED <<op, late>> /\ TablesStand /\ pc[r] \notin {"idle", "done"}
  <2>1. CASE CountNotes(r)
    BY <2>1 DEF CountNotes, TablesStand
  <2>2. CASE InsertNote(r)
    BY <2>2 DEF InsertNote, TablesStand
  <2>3. CASE CountSales(r)
    BY <2>3 DEF CountSales, TablesStand
  <2>4. CASE InsertSale(r)
    BY <2>4 DEF InsertSale, TablesStand
  <2>5. CASE RollBack(r)
    BY <2>5 DEF RollBack, Refused, TablesStand
  <2> QED
    BY <2>1, <2>2, <2>3, <2>4, <2>5
<1>4. pc'[r] = q /\ \A i \in Requests \ {r} : pc'[i] = pc[i]
  BY <1>1, <1>3 DEF IInv, Shape
<1>5. OneGoesOn(r)
  BY <1>3, <1>4 DEF OneGoesOn
<1> QED
  BY <1>2, <1>3, <1>5, GoingOnBooks

\* Nothing happens.
LEMMA StutterBooks == ASSUME BooksInv, UNCHANGED vars PROVE BooksInv'
<1>1. /\ TablesStand /\ UNCHANGED <<pc, op, noteNo, saleNo, behind, late>>
  BY DEF vars, TablesStand
<1>2. IInv'
  BY NextIInv DEF BooksInv
<1>3. Rows'
  BY <1>1, TablesStay DEF BooksInv
<1>4. Asks'
  <2>1. ASSUME NEW i \in Requests, pc[i] # "idle" PROVE Proper(op[i])'
    <3>1. PICK a : a = op[i] /\ a = op'[i]
      BY <1>1
    <3>2. Proper(a)
      BY <2>1, <3>1 DEF BooksInv, Asks
    <3>3. Proper(a)'
      BY <1>1, <3>2, FoundStays DEF BooksInv
    <3> QED
      BY <3>1, <3>3
  <2> QED
    BY <1>1, <2>1 DEF BooksInv, Asks
<1>5. Knows'
  <2>1. ASSUME NEW i \in Requests, InFlight(i), i \notin behind PROVE Latest(op[i])'
    <3>1. PICK a : a = op[i] /\ a = op'[i]
      BY <1>1
    <3>2. Proper(a) /\ Latest(a)
      BY <2>1, <3>1 DEF BooksInv, Asks, Knows, InFlight
    <3>3. Latest(a)'
      BY <1>1, <3>2, FoundStays DEF BooksInv
    <3> QED
      BY <3>1, <3>3
  <2> QED
    BY <1>1, <2>1 DEF Knows, InFlight
<1>6. History'
  BY <1>1 DEF BooksInv, History
<1> QED
  BY <1>2, <1>3, <1>4, <1>5, <1>6 DEF BooksInv

\* Every step keeps what requests know.
LEMMA NextBooks == BooksInv /\ [Next]_vars => BooksInv'
<1> SUFFICES ASSUME BooksInv, [Next]_vars PROVE BooksInv'
  OBVIOUS
<1>1. CASE UNCHANGED vars
  BY <1>1, StutterBooks
<1>2. ASSUME NEW r \in Requests, Ask(r) PROVE BooksInv'
  <2>1. PICK o : Checked(r, o) /\ FoundSo(o)
    BY <1>2, AskFindsIt
  <2> QED
    BY <2>1, CheckedBooks
<1>3. ASSUME NEW r \in Requests, Step(r) PROVE BooksInv'
  BY <1>3, EarlierStepsBooks, PostSaleBooks, PostReturnBooks, PostExchangeBooks, PostApprovalBooks DEF Step
<1> QED
  BY <1>1, <1>2, <1>3 DEF Next, Quiet

\* A request that nobody has overtaken finds, until it commits, what it found
\* when it was checked.
THEOREM BillingKnows == Spec => []BooksInv
<1> QED
  BY InitBooks, NextBooks, PTL DEF Spec

-----------------------------------------------------------------------------
(* Stock and store credit. *)

\* A step that is not a commit leaves the tables and the requests in flight.
NoCommit ==
    /\ TablesStand /\ late' = late
    /\ \A i \in Requests : pc[i] # "idle" => op'[i] = op[i]

\* A step is a commit or it is not.
LEMMA CommitOrNot ==
    ASSUME BooksInv, [Next]_vars
    PROVE  \/ NoCommit
           \/ \E r \in Requests : PostSale(r) \/ PostReturn(r) \/ PostExchange(r) \/ PostApproval(r)
<1>1. CASE UNCHANGED vars
  BY <1>1 DEF vars, NoCommit, TablesStand
<1>2. ASSUME NEW r \in Requests, Ask(r) PROVE NoCommit
  <2>1. PICK o : Checked(r, o)
    BY <1>2, AskFindsIt
  <2>2. op \in [Requests -> Ops]
    BY DEF BooksInv, Asks
  <2> QED
    BY <2>1, <2>2 DEF Checked, NoCommit, TablesStand
<1>3. ASSUME NEW r \in Requests,
             CountNotes(r) \/ InsertNote(r) \/ CountSales(r) \/ InsertSale(r) \/ RollBack(r)
      PROVE  NoCommit
  BY <1>3 DEF CountNotes, InsertNote, CountSales, InsertSale, RollBack, NoCommit, TablesStand
<1> QED
  BY <1>1, <1>2, <1>3 DEF Next, Quiet, Step

\* A request knows what it found, or commits as one that was overtaken.
LEMMA KnowsOrLate ==
    ASSUME BooksInv, NEW r \in Requests, InFlight(r), Commit(r)
    PROVE  late \subseteq late' /\ (r \in late' \/ Latest(op[r])) /\ op' = op
BY DEF BooksInv, Knows, Commit

\* Whoever took the stock below zero is among the late still.
LEMMA StockWitness ==
    ASSUME StockCovered, NEW p \in Products, ledger[p] < 0, GrownSold, late \subseteq late'
    PROVE  \E s \in Sold' \cap late' : sale'[s].product = p
<1>1. PICK s \in Sold \cap late : sale[s].product = p
  BY DEF StockCovered
<1> QED
  BY <1>1 DEF GrownSold

\* A commit that takes out of stock takes no more than there is, or is late.
LEMMA StockAfter ==
    ASSUME StockCovered, Rows, NEW r \in Requests, NEW w \in Products, GrownSold, late \subseteq late',
           r \in Sold', sale'[r].product = w, \A q \in Products : q # w => ledger'[q] >= ledger[q],
           ledger' \in [Products -> Int], r \in late' \/ ledger'[w] >= 0
    PROVE  StockCovered'
<1>1. ASSUME NEW q \in Products, ledger'[q] < 0 PROVE \E s \in Sold' \cap late' : sale'[s].product = q
  <2>1. ledger[q] \in Int /\ ledger'[q] \in Int /\ ledger'[w] \in Int
    BY DEF Rows
  <2>2. CASE q # w
    <3>1. ledger[q] < 0
      BY <1>1, <2>1, <2>2
    <3> QED
      BY <3>1, StockWitness
  <2>3. CASE q = w
    <3>1. r \in late'
      BY <1>1, <2>1, <2>3
    <3> QED
      BY <2>3, <3>1
  <2> QED
    BY <2>2, <2>3
<1> QED
  BY <1>1 DEF StockCovered

\* And a step that takes nothing out leaves it covered.
LEMMA StockMore ==
    ASSUME StockCovered, Rows, GrownSold, late \subseteq late', ledger' \in [Products -> Int],
           \A q \in Products : ledger'[q] >= ledger[q]
    PROVE  StockCovered'
<1>1. ASSUME NEW q \in Products, ledger'[q] < 0 PROVE \E s \in Sold' \cap late' : sale'[s].product = q
  <2>1. ledger[q] \in Int /\ ledger'[q] \in Int
    BY DEF Rows
  <2>2. ledger[q] < 0
    BY <1>1, <2>1
  <2> QED
    BY <2>2, StockWitness
<1> QED
  BY <1>1 DEF StockCovered

\* Every step keeps the stock covered, where a product has one line.
LEMMA NextStock ==
    ASSUME MaxSecond = 0, BooksInv, BooksInv', StockCovered, [Next]_vars
    PROVE  StockCovered'
<1>1. Rows
  BY DEF BooksInv
<1>2. CASE NoCommit
  BY <1>1, <1>2 DEF NoCommit, TablesStand, StockCovered, Sold
<1>3. ASSUME NEW r \in Requests, PostSale(r) PROVE StockCovered'
  <2>1. PICK w \in Products : w = op[r].product
    BY <1>3, PostSaleDoes
  <2>2. PICK n \in Nat : n = op[r].out
    BY <1>3, PostSaleDoes DEF Quantity
  <2>3. /\ PutSale(r) /\ op[r].kind = "sale" /\ ledger' = [ledger EXCEPT ![w] = @ - n] /\ InFlight(r) /\ Commit(r)
    BY <1>3, <2>1, <2>2, PostSaleDoes
  <2>4. GrownSold /\ r \in Sold' /\ sale'[r].product = w
    BY <2>1, <2>3 DEF PutSale, GrownSold
  <2>5. late \subseteq late' /\ (r \in late' \/ Latest(op[r]))
    BY <2>3, KnowsOrLate
  <2>6. Latest(op[r]) => n <= ledger[w]
    BY <2>1, <2>2, <2>3 DEF Latest, StockCovers
  <2>7. ledger[w] \in Int /\ ledger'[w] = ledger[w] - n /\ \A q \in Products : q # w => ledger'[q] = ledger[q] /\ ledger[q] \in Int
    BY <1>1, <2>3 DEF Rows
  <2>8. r \in late' \/ ledger'[w] >= 0
    BY <2>5, <2>6, <2>7
  <2>9. \A q \in Products : q # w => ledger'[q] >= ledger[q]
    BY <2>7
  <2>10. ledger' \in [Products -> Int]
    BY DEF BooksInv, Rows
  <2> QED
    BY <1>1, <2>4, <2>5, <2>8, <2>9, <2>10, StockAfter
<1>4. ASSUME NEW r \in Requests, PostExchange(r) PROVE StockCovered'
  <2>1. PICK p \in Products : p = sale[op[r].of].product
    BY <1>4, PostExchangeDoes
  <2>2. PICK w \in Products : w = op[r].product
    BY <1>4, PostExchangeDoes
  <2>3. PICK a \in Nat : a = op[r].in
    BY <1>4, PostExchangeDoes DEF Quantity
  <2>4. PICK b \in Nat : b = op[r].out
    BY <1>4, PostExchangeDoes DEF Quantity
  <2>5. /\ PutSale(r) /\ op[r].kind = "exchange" /\ InFlight(r) /\ Commit(r)
        /\ ledger' = [q \in Products |-> ledger[q] + (IF q = p THEN a ELSE 0) - (IF q = w THEN b ELSE 0)]
    BY <1>4, <2>1, <2>2, <2>3, <2>4, PostExchangeDoes
  <2>6. GrownSold /\ r \in Sold' /\ sale'[r].product = w
    BY <2>2, <2>5 DEF PutSale, GrownSold
  <2>7. late \subseteq late' /\ (r \in late' \/ Latest(op[r]))
    BY <2>5, KnowsOrLate
  <2>8. Latest(op[r]) => b <= ledger[w] + (IF w = p THEN a ELSE 0)
    BY <2>1, <2>2, <2>3, <2>4, <2>5 DEF Latest, StockCovers
  <2>9. ledger[w] \in Int /\ \A q \in Products : ledger[q] \in Int
    BY <1>1 DEF Rows
  <2>10. r \in late' \/ ledger'[w] >= 0
    BY <2>5, <2>7, <2>8, <2>9
  <2>11. \A q \in Products : q # w => ledger'[q] >= ledger[q]
    BY <2>5, <2>9
  <2>12. ledger' \in [Products -> Int]
    BY DEF BooksInv, Rows
  <2> QED
    BY <1>1, <2>6, <2>7, <2>10, <2>11, <2>12, StockAfter
<1>5. ASSUME NEW r \in Requests, PostReturn(r) PROVE StockCovered'
  <2>1. PICK p \in Products : p = sale[op[r].of].product
    BY <1>5, PostReturnDoes
  <2>2. PICK a \in Nat : a = op[r].in
    BY <1>5, PostReturnDoes DEF Quantity
  <2>3. KeptSales /\ ledger' = [ledger EXCEPT ![p] = @ + a] /\ InFlight(r) /\ Commit(r)
    BY <1>5, <2>1, <2>2, PostReturnDoes
  <2>4. GrownSold /\ late \subseteq late'
    BY <2>3, KnowsOrLate DEF KeptSales, GrownSold
  <2>5. \A q \in Products : ledger'[q] >= ledger[q]
    BY <1>1, <2>1, <2>2, <2>3 DEF Rows
  <2>6. ledger' \in [Products -> Int]
    BY DEF BooksInv, Rows
  <2> QED
    BY <1>1, <2>4, <2>5, <2>6, StockMore
<1>6. ASSUME NEW r \in Requests, PostApproval(r) PROVE StockCovered'
  <2>1. UNCHANGED <<sale, ledger>> /\ InFlight(r) /\ Commit(r)
    BY <1>6, PostApprovalDoes
  <2>2. GrownSold /\ late \subseteq late'
    BY <2>1, KnowsOrLate DEF Sold, GrownSold
  <2>3. ledger' \in [Products -> Int] /\ \A q \in Products : ledger'[q] >= ledger[q]
    BY <1>1, <2>1 DEF Rows
  <2> QED
    BY <1>1, <2>2, <2>3, StockMore
<1> QED
  BY <1>2, <1>3, <1>4, <1>5, <1>6, CommitOrNot

\* Where a request has one line of a product, stock goes below zero only through
\* a sale or an exchange that committed after another one took what it had checked.
THEOREM BillingStockCovered == MaxSecond = 0 => (Spec => []StockCovered)
<1> SUFFICES ASSUME MaxSecond = 0 PROVE Spec => []StockCovered
  OBVIOUS
<1>1. Init => StockCovered
  <2> SUFFICES ASSUME Init PROVE StockCovered
    OBVIOUS
  <2>1. \A p \in Products : ledger[p] \in Nat
    BY BillingAssumption DEF Init
  <2> QED
    BY <2>1 DEF StockCovered
<1>2. BooksInv /\ BooksInv' /\ StockCovered /\ [Next]_vars => StockCovered'
  BY NextStock
<1> QED
  BY <1>1, <1>2, BillingKnows, PTL DEF Spec

\* What issued store credit says, and that nothing is issued for what has not come back.
Credits == (\A n \in Requests \ Returned : credited[n] = 0) /\ CreditMatchesApproval

\* What credit a note has issued, unless two approvals raced.
RightCredit(n) ==
    IF note[n].status = "REFUND_APPROVED" /\ note[n].method = "STORE_CREDIT"
    THEN IF op[n].kind = "return" THEN credited[n] = note[n].refund ELSE credited[n] \in {0, note[n].refund}
    ELSE credited[n] = 0
Raced(n) == \E r \in late : op[r].kind = "approve" /\ op[r].note = n

\* The property, by note.
LEMMA CreditByNote == CreditMatchesApproval <=> \A n \in Returned : Raced(n) \/ RightCredit(n)
BY DEF CreditMatchesApproval, Raced, RightCredit

\* A note that nothing touches keeps its credit right.
LEMMA CreditStays ==
    ASSUME NEW n, Raced(n) \/ RightCredit(n), op'[n] = op[n], note'[n] = note[n], credited'[n] = credited[n],
           late \subseteq late', \A r \in late : op'[r] = op[r]
    PROVE  Raced(n)' \/ RightCredit(n)'
BY DEF Raced, RightCredit

\* Every step keeps the credit right.
LEMMA NextCredits ==
    ASSUME BooksInv, Credits, [Next]_vars
    PROVE  Credits'
<1>0. /\ Rows /\ (\A i \in Returned : pc[i] # "idle") /\ (\A i \in late : pc[i] # "idle" /\ i \in Requests)
      /\ \A n \in Returned : Raced(n) \/ RightCredit(n)
  <2>1. \A i \in Returned : pc[i] # "idle"
    BY DEF BooksInv, IInv, StageMatches, Returned
  <2>2. \A i \in late : pc[i] # "idle" /\ i \in Requests
    BY DEF BooksInv, History
  <2>3. \A n \in Returned : Raced(n) \/ RightCredit(n)
    BY CreditByNote DEF Credits
  <2> QED
    BY <2>1, <2>2, <2>3 DEF BooksInv
<1>1. ASSUME \A n \in Returned' : Raced(n)' \/ RightCredit(n)' PROVE CreditMatchesApproval'
  BY <1>1 DEF CreditMatchesApproval, Raced, RightCredit
<1>2. CASE NoCommit
  <2>1. /\ Returned' = Returned /\ note' = note /\ credited' = credited /\ late' = late
        /\ \A i \in Requests : pc[i] # "idle" => op'[i] = op[i]
    BY <1>2 DEF NoCommit, TablesStand, Returned
  <2>2. \A i \in late : op'[i] = op[i]
    BY <1>0, <2>1
  <2>3. ASSUME NEW n \in Returned' PROVE Raced(n)' \/ RightCredit(n)'
    <3>1. n \in Returned /\ n \in Requests /\ op'[n] = op[n]
      BY <1>0, <2>1 DEF Returned
    <3> QED
      BY <1>0, <2>1, <2>2, <3>1, CreditStays
  <2>4. \A n \in Requests \ Returned' : credited'[n] = 0
    BY <2>1 DEF Credits
  <2> QED
    BY <1>1, <2>3, <2>4 DEF Credits
<1>3. ASSUME NEW r \in Requests, InFlight(r), Commit(r), KeptNotes, credited' = credited PROVE Credits'
  <2>1. Returned' = Returned /\ (\A n \in Returned : note'[n] = note[n]) /\ late \subseteq late' /\ op' = op
    BY <1>3, KnowsOrLate DEF KeptNotes
  <2>2. ASSUME NEW n \in Returned' PROVE Raced(n)' \/ RightCredit(n)'
    <3>1. n \in Returned
      BY <2>1
    <3> QED
      BY <1>0, <1>3, <2>1, <3>1, CreditStays
  <2>3. \A n \in Requests \ Returned' : credited'[n] = 0
    BY <1>3, <2>1 DEF Credits
  <2> QED
    BY <1>1, <2>2, <2>3 DEF Credits
<1>4. ASSUME NEW r \in Requests, PostSale(r) PROVE Credits'
  BY <1>3, <1>4, PostSaleDoes
<1>5. ASSUME NEW r \in Requests, InFlight(r), Commit(r), PutNote(r), NEW c \in Nat,
             credited' = [credited EXCEPT ![r] = c],
             op[r].kind = "return" =>
               c = IF op[r].status = "REFUND_APPROVED" /\ op[r].method = "STORE_CREDIT" THEN op[r].refund ELSE 0,
             op[r].kind # "return" => c = 0
      PROVE  Credits'
  <2>1. /\ r \notin Returned /\ Returned' = Returned \cup {r} /\ (\A n \in Returned : note'[n] = note[n])
        /\ note'[r].refund = op[r].refund /\ note'[r].method = op[r].method /\ note'[r].status = op[r].status
    BY <1>5 DEF PutNote
  <2>2. late \subseteq late' /\ op' = op
    BY <1>5, KnowsOrLate
  <2>3. credited'[r] = c /\ \A n \in Requests \ {r} : credited'[n] = credited[n]
    BY <1>0, <1>5 DEF Rows
  <2>4. ASSUME NEW n \in Returned PROVE Raced(n)' \/ RightCredit(n)'
    <3>1. n \in Requests /\ n # r
      BY <2>1 DEF Returned
    <3> QED
      BY <1>0, <2>1, <2>2, <2>3, <3>1, CreditStays
  <2>5. RightCredit(r)'
    BY <1>5, <2>1, <2>2, <2>3 DEF RightCredit
  <2>6. \A n \in Requests \ Returned' : credited'[n] = 0
    BY <2>1, <2>3 DEF Credits
  <2> QED
    BY <1>1, <2>1, <2>4, <2>5, <2>6 DEF Credits
<1>6. ASSUME NEW r \in Requests, PostReturn(r) PROVE Credits'
  <2>1. PICK c \in Nat : c = IF op[r].status = "REFUND_APPROVED" /\ op[r].method = "STORE_CREDIT"
                             THEN op[r].refund ELSE 0
    BY <1>6, PostReturnDoes
  <2>2. /\ InFlight(r) /\ Commit(r) /\ PutNote(r) /\ op[r].kind = "return"
        /\ credited' = [credited EXCEPT ![r] = c]
    BY <1>6, <2>1, PostReturnDoes
  <2> QED
    BY <1>5, <2>1, <2>2
<1>7. ASSUME NEW r \in Requests, PostExchange(r) PROVE Credits'
  <2>1. InFlight(r) /\ Commit(r) /\ PutNote(r) /\ op[r].kind = "exchange" /\ credited' = credited
    BY <1>7, PostExchangeDoes
  <2>2. credited[r] = 0
    BY <2>1 DEF PutNote, Credits
  <2>3. credited' = [credited EXCEPT ![r] = 0]
    BY <1>0, <2>1, <2>2 DEF Rows
  <2> QED
    BY <1>5, <2>1, <2>3
<1>8. ASSUME NEW r \in Requests, PostApproval(r) PROVE Credits'
  <2>1. PICK m \in Returned : m = op[r].note
    BY <1>8, PostApprovalDoes
  <2>2. /\ op[r].kind = "approve" /\ op[r].already \in BOOLEAN
        /\ note'[m].status = "REFUND_APPROVED" /\ Returned' = Returned /\ (\A n \in Returned : n # m => note'[n] = note[n])
        /\ GrownNotes /\ InFlight(r) /\ Commit(r)
        /\ note'[m] = [note[m] EXCEPT !.status = "REFUND_APPROVED"]
    BY <1>8, <2>1, PostApprovalDoes
  <2>3. PICK f \in Nat : f = note[m].refund
    BY <1>0, <2>1 DEF Rows, NoteRow
  <2>4. PICK b \in Nat : b = credited[m]
    BY <1>0, <2>1 DEF Rows, Returned
  <2>5. PICK c : c = IF ~op[r].already /\ note[m].method = "STORE_CREDIT" THEN b + f ELSE b
    OBVIOUS
  <2>6. credited' = [credited EXCEPT ![m] = c]
    <3>1. credited' = [credited EXCEPT ![m] = IF ~op[r].already /\ note[m].method = "STORE_CREDIT"
                                              THEN @ + note[m].refund ELSE @]
      BY <1>8, <2>1, PostApprovalDoes
    <3> QED
      BY <2>3, <2>4, <2>5, <3>1
  <2>7. credited'[m] = c /\ \A n \in Requests \ {m} : credited'[n] = credited[n]
    BY <1>0, <2>1, <2>6 DEF Rows, Returned
  <2>8. late \subseteq late' /\ op' = op /\ (r \in late' \/ Latest(op[r]))
    BY <2>2, KnowsOrLate
  <2>9. note'[m].method = note[m].method /\ note'[m].refund = f
    BY <2>1, <2>2, <2>3 DEF GrownNotes
  <2>10. Raced(m)' \/ RightCredit(m)'
    <3>1. CASE r \in late'
      BY <2>1, <2>2, <2>8, <3>1 DEF Raced
    <3>2. CASE Raced(m)
      BY <2>8, <3>2 DEF Raced
    <3>3. CASE RightCredit(m) /\ Latest(op[r])
      <4>1. op[r].already <=> note[m].status = "REFUND_APPROVED"
        BY <2>1, <2>2, <3>3, Zenon DEF Latest, NoteShows
      <4>2. CASE op[r].already
        <5>1. c = b /\ note[m].status = "REFUND_APPROVED"
          BY <2>5, <4>1, <4>2
        <5> QED
          BY <2>2, <2>3, <2>4, <2>7, <2>8, <2>9, <3>3, <5>1 DEF RightCredit
      <4>3. CASE ~op[r].already
        <5>1. b = 0
          BY <2>4, <3>3, <4>1, <4>3 DEF RightCredit
        <5>2. c = IF note[m].method = "STORE_CREDIT" THEN f ELSE 0
          BY <2>5, <4>3, <5>1
        <5> QED
          BY <2>2, <2>7, <2>9, <5>2 DEF RightCredit
      <4> QED
        BY <4>2, <4>3
    <3> QED
      BY <1>0, <2>8, <3>1, <3>2, <3>3
  <2>11. ASSUME NEW n \in Returned, n # m PROVE Raced(n)' \/ RightCredit(n)'
    <3>1. n \in Requests /\ note'[n] = note[n] /\ credited'[n] = credited[n]
      BY <2>2, <2>7, <2>11 DEF Returned
    <3> QED
      BY <1>0, <2>8, <3>1, CreditStays
  <2>12. \A n \in Requests \ Returned' : credited'[n] = 0
    BY <2>2, <2>7 DEF Credits
  <2> QED
    BY <1>1, <2>2, <2>10, <2>11, <2>12 DEF Credits
<1> QED
  BY <1>2, <1>4, <1>6, <1>7, <1>8, CommitOrNot

\* Store credit follows approval: what a return has issued is its refund once it
\* is approved and nothing before, unless two approvals had both read it.
THEOREM BillingCreditMatchesApproval == Spec => []CreditMatchesApproval
<1>1. Init => Credits
  <2> SUFFICES ASSUME Init PROVE Credits
    OBVIOUS
  <2>1. Returned = {}
    BY DEF Init, Returned
  <2> QED
    BY <2>1 DEF Init, Credits, CreditMatchesApproval
<1>2. BooksInv /\ Credits /\ [Next]_vars => Credits'
  BY NextCredits
<1>3. Credits => CreditMatchesApproval
  BY DEF Credits
<1> QED
  BY <1>1, <1>2, <1>3, BillingKnows, PTL DEF Spec

-----------------------------------------------------------------------------
(* What comes back and what went out. *)

\* A sale that is being posted has no return yet.
LEMMA NewSaleHasNoNotes ==
    ASSUME Rows, NEW r, PutSale(r), KeptNotes \/ (PutNote(r) /\ op[r].of \in Sold)
    PROVE  NotesOf(r)' = {} /\ ReturnedQty(r)' = 0 /\ Refunded(r)' = 0
<1>1. ASSUME NEW n \in Returned' PROVE note'[n].of # r
  <2>1. ASSUME n \in Returned PROVE note'[n].of # r
    <3>1. note'[n] = note[n] /\ note[n].of \in Sold
      BY <2>1 DEF PutNote, KeptNotes, Rows, NoteRow
    <3> QED
      BY <3>1 DEF PutSale
  <2>2. ASSUME n \notin Returned PROVE note'[n].of # r
    BY <1>1, <2>2 DEF PutNote, KeptNotes, PutSale
  <2> QED
    BY <2>1, <2>2
<1>2. NotesOf(r)' = {}
  BY <1>1 DEF NotesOf
<1>3. PICK none : none = {}
  OBVIOUS
<1>4. NotesOf(r)' = none
  BY <1>2, <1>3
<1>5. SumFunctionOnSet([x \in none |-> note'[x].qty], none) = 0 /\ SumFunctionOnSet([x \in none |-> note'[x].refund], none) = 0
  BY <1>3, SumOfNothing
<1> QED
  BY <1>2, <1>4, <1>5 DEF ReturnedQty, Refunded

\* A sale whose returns are covered.
Covered(s) ==
    NotesOf(s) \cap late = {} =>
      /\ ReturnedQty(s) <= sale[s].qty
      /\ Refunded(s) <= sale[s].qty * Price[sale[s].product]

\* A sale that keeps its notes stays covered.
LEMMA CoveredStays ==
    ASSUME Rows, NEW s \in Sold, Covered(s), NotesKeep(s), GrownSold, late \subseteq late'
    PROVE  Covered(s)'
<1>1. ReturnedQty(s)' = ReturnedQty(s) /\ Refunded(s)' = Refunded(s)
  BY SumsKeep
<1>2. NotesOf(s)' = NotesOf(s) /\ sale'[s] = sale[s]
  BY DEF NotesKeep, GrownSold
<1> QED
  BY <1>1, <1>2 DEF Covered

\* A return of a sale commits while the sale covers it, or it is late.
LEMMA CoveredAfterNote ==
    ASSUME MaxSecond = 0, BooksInv, NEW r \in Requests, PutNote(r), Proper(op[r]), TakesBack(op[r]), InFlight(r), Commit(r),
           GrownSold, NEW s \in Sold, s = op[r].of
    PROVE  Covered(s)'
<1>1. PICK o : o = op[r]
  OBVIOUS
<1>2. s = o.of
  BY <1>1
<1>3. NotesGrow(s, r, o.in, o.refund)
  BY <1>1, <1>2, NotesOfAfter DEF BooksInv
<1>4. ReturnedQty(s)' = ReturnedQty(s) + o.in /\ Refunded(s)' = Refunded(s) + o.refund
  BY <1>3, SumsGrow DEF BooksInv
<1>5. r \in NotesOf(s)' /\ sale'[s] = sale[s]
  BY <1>3 DEF NotesGrow, GrownSold
<1>6. r \in late' \/ Latest(o)
  BY <1>1, KnowsOrLate
<1>7. PICK a \in Nat : a = ReturnedQty(s)
  BY SumsOfNotes DEF BooksInv
<1>8. PICK last \in Nat : last = sale[s].last
  BY WorthFacts
<1>9. PICK qty \in Nat : qty = sale[s].qty
  BY WorthFacts
<1>10. last <= qty
  BY <1>8, <1>9 DEF BooksInv, Rows, SaleRow
<1>11. o.in \in Nat
  BY <1>1 DEF Proper, Quantity
<1>12. Latest(o) => a + o.in <= last /\ Refunded(s) + o.refund <= sale[s].qty * Price[sale[s].product]
  BY <1>1, <1>2, <1>7, <1>8 DEF Latest, SaleCovers
<1>13. Latest(o) => a + o.in <= qty
  BY <1>10, <1>11, <1>12
<1>14. Covered(s)'
  BY <1>4, <1>5, <1>6, <1>7, <1>9, <1>12, <1>13 DEF Covered
<1> QED
  BY <1>1, <1>2, <1>14

\* The property, by sale.
LEMMA CoveredBySale == ReturnsCovered <=> \A s \in Sold : Covered(s)
BY DEF ReturnsCovered, Covered

\* Every step keeps the returns covered, where a product has one line.
LEMMA NextReturns ==
    ASSUME MaxSecond = 0, BooksInv, BooksInv', ReturnsCovered, [Next]_vars
    PROVE  ReturnsCovered'
<1>1. Rows /\ \A s \in Sold : Covered(s)
  BY CoveredBySale DEF BooksInv
<1>2. ASSUME \A s \in Sold' : Covered(s)' PROVE ReturnsCovered'
  BY <1>2 DEF ReturnsCovered, Covered
<1>3. ASSUME NEW r, PutSale(r), KeptNotes \/ (PutNote(r) /\ op[r].of \in Sold) PROVE Covered(r)'
  <2>1. ReturnedQty(r)' = 0 /\ Refunded(r)' = 0
    BY <1>1, <1>3, NewSaleHasNoNotes
  <2>2. sale'[r].qty \in Nat /\ Price[sale'[r].product] \in Nat
    BY <1>3, BillingAssumption DEF PutSale, SaleRow, Quantity
  <2>3. sale'[r].qty * Price[sale'[r].product] \in Nat
    BY <2>2, Amounts
  <2> QED
    BY <2>1, <2>2, <2>3 DEF Covered
<1>4. CASE NoCommit
  <2>1. TablesStand /\ late' = late
    BY <1>4 DEF NoCommit
  <2>2. GrownSold /\ Sold' = Sold
    BY <1>1, <2>1, TablesStay
  <2>3. KeptNotes
    BY <2>1 DEF TablesStand, KeptNotes, Returned
  <2>4. ASSUME NEW s \in Sold' PROVE Covered(s)'
    <3>1. NotesKeep(s)
      BY <2>3, NotesOfStay
    <3> QED
      BY <1>1, <2>1, <2>2, <3>1, CoveredStays
  <2> QED
    BY <1>2, <2>4
<1>5. ASSUME NEW r \in Requests, PostSale(r) PROVE ReturnsCovered'
  <2>1. PutSale(r) /\ KeptNotes /\ InFlight(r) /\ Commit(r)
    BY <1>5, PostSaleDoes
  <2>2. GrownSold /\ Sold' = Sold \cup {r} /\ late \subseteq late'
    BY <2>1, KnowsOrLate DEF PutSale, GrownSold
  <2>3. ASSUME NEW s \in Sold PROVE Covered(s)'
    <3>1. NotesKeep(s)
      BY <2>1, NotesOfStay
    <3> QED
      BY <1>1, <2>2, <3>1, CoveredStays
  <2>4. Covered(r)'
    BY <1>3, <2>1
  <2> QED
    BY <1>2, <2>2, <2>3, <2>4
<1>6. ASSUME NEW r \in Requests, PutNote(r), Proper(op[r]), TakesBack(op[r]), InFlight(r), Commit(r), GrownSold, NEW s \in Sold
      PROVE  Covered(s)'
  <2>1. CASE s = op[r].of
    BY <1>6, <2>1, CoveredAfterNote
  <2>2. CASE s # op[r].of
    <3>1. NotesKeep(s)
      BY <1>1, <1>6, <2>2, NotesOfAfter
    <3>2. late \subseteq late'
      BY <1>6, KnowsOrLate
    <3> QED
      BY <1>1, <1>6, <3>1, <3>2, CoveredStays
  <2> QED
    BY <2>1, <2>2
<1>7. ASSUME NEW r \in Requests, PostReturn(r) PROVE ReturnsCovered'
  <2>1. PutNote(r) /\ Proper(op[r]) /\ TakesBack(op[r]) /\ KeptSales /\ InFlight(r) /\ Commit(r)
    BY <1>7, PostReturnDoes DEF TakesBack
  <2>2. GrownSold /\ Sold' = Sold
    BY <2>1 DEF KeptSales, GrownSold
  <2> QED
    BY <1>2, <1>6, <2>1, <2>2
<1>8. ASSUME NEW r \in Requests, PostExchange(r) PROVE ReturnsCovered'
  <2>1. PutSale(r) /\ PutNote(r) /\ Proper(op[r]) /\ TakesBack(op[r]) /\ op[r].of \in Sold /\ InFlight(r) /\ Commit(r)
    BY <1>8, PostExchangeDoes DEF TakesBack
  <2>2. GrownSold /\ Sold' = Sold \cup {r}
    BY <2>1 DEF PutSale, GrownSold
  <2>3. Covered(r)'
    BY <1>3, <2>1
  <2>4. \A s \in Sold : Covered(s)'
    BY <1>6, <2>1, <2>2
  <2> QED
    BY <1>2, <2>2, <2>3, <2>4
<1>9. ASSUME NEW r \in Requests, PostApproval(r) PROVE ReturnsCovered'
  <2>1. (\A s : NotesKeep(s)) /\ sale' = sale /\ InFlight(r) /\ Commit(r)
    BY <1>9, PostApprovalDoes
  <2>2. GrownSold /\ Sold' = Sold /\ late \subseteq late'
    BY <2>1, KnowsOrLate DEF Sold, GrownSold
  <2>3. ASSUME NEW s \in Sold' PROVE Covered(s)'
    BY <1>1, <2>1, <2>2, CoveredStays
  <2> QED
    BY <1>2, <2>3
<1> QED
  BY <1>4, <1>5, <1>7, <1>8, <1>9, CommitOrNot

\* What has been refunded and paid over all documents, and what of each sale has
\* not come back, by its price.
GivenBack   == SumFunctionOnSet([n \in Returned |-> note[n].refund], Returned)
TakenIn     == SumFunctionOnSet([s \in Sold |-> sale[s].cash], Sold)
Left(s)     == Worth(s, sale[s].qty) - Worth(s, ReturnedQty(s))
Outstanding == SumFunctionOnSet([s \in Sold |-> Left(s)], Sold)

\* Whatever an exchange credits is still out: what has not come back and what has
\* been refunded together were paid for.
PaidFor == Outstanding + GivenBack <= TakenIn

\* A sale's part of it is a number.
LEMMA LeftIsNumber ==
    ASSUME Rows, NEW s \in Sold
    PROVE  Left(s) \in Int /\ \A q \in Nat : Worth(s, q) \in Nat
<1>1. sale[s].product \in Products /\ sale[s].qty \in Nat
  BY DEF Rows, SaleRow, Quantity
<1>2. Price[sale[s].product] \in Nat
  BY <1>1, BillingAssumption
<1>3. \A q \in Nat : Worth(s, q) \in Nat
  BY <1>2, Amounts DEF Worth
<1>4. ReturnedQty(s) \in Nat
  BY SumsOfNotes
<1> QED
  BY <1>1, <1>3, <1>4 DEF Left

\* One note more is as much more given back, and none more no more.
LEMMA GivenBackAfter ==
    ASSUME Rows, NEW r, PutNote(r), op[r].refund \in Int
    PROVE  GivenBack \in Int /\ GivenBack' = GivenBack + op[r].refund
<1>1. PICK m \in Int : m = op[r].refund
  OBVIOUS
<1>2. PICK S : S = Returned
  OBVIOUS
<1>3. PICK T : T = Returned'
  OBVIOUS
<1>4. /\ IsFiniteSet(S) /\ r \notin S /\ T = S \cup {r} /\ note'[r].refund = m
      /\ (\A n \in S : note'[n] = note[n]) /\ \A n \in S : note[n].refund \in Int
  BY <1>1, <1>2, <1>3, TablesFinite DEF PutNote, Rows, NoteRow
<1>5. PICK f : f = [n \in S |-> note[n].refund]
  OBVIOUS
<1>6. PICK h : h = [n \in T |-> note'[n].refund]
  OBVIOUS
<1>7. TermMore(f, h, S, r, T) /\ h[r] = m
  BY <1>4, <1>5, <1>6 DEF TermMore, Same, Whole
<1>8. SumFunctionOnSet(f, S) \in Int /\ SumFunctionOnSet(h, T) = SumFunctionOnSet(f, S) + m
  BY <1>7, SumOneMore
<1> QED
  BY <1>1, <1>2, <1>3, <1>5, <1>6, <1>8 DEF GivenBack

\* The same notes are as much given back.
LEMMA GivenBackStays ==
    ASSUME Returned' = Returned, \A n \in Returned : note'[n].refund = note[n].refund
    PROVE  GivenBack' = GivenBack
<1>1. PICK S : S = Returned
  OBVIOUS
<1>2. S = Returned' /\ [n \in S |-> note'[n].refund] = [n \in S |-> note[n].refund]
  BY <1>1
<1> QED
  BY <1>1, <1>2 DEF GivenBack

\* One sale more is as much more taken in.
LEMMA TakenInAfter ==
    ASSUME Rows, NEW r, PutSale(r)
    PROVE  TakenIn \in Int /\ TakenIn' = TakenIn + sale'[r].cash
<1>1. PICK m \in Int : m = sale'[r].cash
  BY DEF PutSale, SaleRow
<1>2. PICK S : S = Sold
  OBVIOUS
<1>3. PICK T : T = Sold'
  OBVIOUS
<1>4. /\ IsFiniteSet(S) /\ r \notin S /\ T = S \cup {r}
      /\ (\A s \in S : sale'[s] = sale[s]) /\ \A s \in S : sale[s].cash \in Int
  BY <1>2, <1>3, TablesFinite DEF PutSale, Rows, SaleRow
<1>5. PICK f : f = [s \in S |-> sale[s].cash]
  OBVIOUS
<1>6. PICK h : h = [s \in T |-> sale'[s].cash]
  OBVIOUS
<1>7. TermMore(f, h, S, r, T) /\ h[r] = m
  BY <1>1, <1>4, <1>5, <1>6 DEF TermMore, Same, Whole
<1>8. SumFunctionOnSet(f, S) \in Int /\ SumFunctionOnSet(h, T) = SumFunctionOnSet(f, S) + m
  BY <1>7, SumOneMore
<1> QED
  BY <1>1, <1>2, <1>3, <1>5, <1>6, <1>8 DEF TakenIn

\* The same sales are as much taken in.
LEMMA TakenInStays ==
    ASSUME KeptSales
    PROVE  TakenIn' = TakenIn
<1>1. PICK S : S = Sold
  OBVIOUS
<1>2. S = Sold' /\ [s \in S |-> sale'[s].cash] = [s \in S |-> sale[s].cash]
  BY <1>1 DEF KeptSales
<1> QED
  BY <1>1, <1>2 DEF TakenIn

\* What is left of a sale, when nothing of it comes back and when something does.
LeftStays(S)   == \A s \in S : Left(s)' = Left(s)
LEMMA LeftAfter ==
    ASSUME Rows, GrownSold, NEW s \in Sold
    PROVE  /\ NotesKeep(s) => Left(s)' = Left(s)
           /\ \A r, q, m : NotesGrow(s, r, q, m) => Left(s)' = Left(s) - Worth(s, q)
<1>1. sale'[s] = sale[s]
  BY DEF GrownSold
<1>2. ASSUME NotesKeep(s) PROVE Left(s)' = Left(s)
  <2>1. ReturnedQty(s)' = ReturnedQty(s)
    BY <1>2, SumsKeep
  <2> QED
    BY <1>1, <2>1 DEF Left, Worth
<1>3. ASSUME NEW r, NEW q, NEW m, NotesGrow(s, r, q, m) PROVE Left(s)' = Left(s) - Worth(s, q)
  <2>1. PICK a \in Nat : a = ReturnedQty(s)
    BY SumsOfNotes
  <2>2. ReturnedQty(s)' = a + q /\ q \in Nat
    BY <1>3, <2>1, SumsGrow DEF NotesGrow
  <2>3. PICK n \in Nat : n = sale[s].qty
    BY DEF Rows, SaleRow, Quantity
  <2>4. PICK price \in Nat : price = Price[sale[s].product]
    BY BillingAssumption DEF Rows, SaleRow
  <2>5. (a + q) * price = a * price + q * price
    BY <2>2, Amounts
  <2>6. PICK u \in Nat : u = a * price
    BY Amounts
  <2>7. PICK v \in Nat : v = q * price
    BY <2>2, Amounts
  <2>8. PICK w \in Nat : w = n * price
    BY <2>3, Amounts
  <2>9. Left(s) = w - u /\ Worth(s, q) = v
    BY <2>1, <2>3, <2>4, <2>6, <2>7, <2>8 DEF Left, Worth
  <2>10. Left(s)' = w - (u + v)
    BY <1>1, <2>2, <2>3, <2>4, <2>5, <2>6, <2>7, <2>8 DEF Left, Worth
  <2> QED
    BY <2>9, <2>10
<1> QED
  BY <1>2, <1>3

\* Nothing comes back and nothing is sold.
LEMMA OutstandingStays ==
    ASSUME Sold' = Sold, LeftStays(Sold)
    PROVE  Outstanding' = Outstanding
<1>1. PICK S : S = Sold
  OBVIOUS
<1>2. S = Sold' /\ [s \in S |-> Left(s)]' = [s \in S |-> Left(s)]
  BY <1>1 DEF LeftStays
<1>3. Outstanding' = SumFunctionOnSet([s \in S |-> Left(s)]', S)
  BY <1>2 DEF Outstanding
<1> QED
  BY <1>1, <1>2, <1>3 DEF Outstanding

\* Something is sold.
LEMMA OutstandingMore ==
    ASSUME Rows, NEW r, r \notin Sold, Sold' = Sold \cup {r}, LeftStays(Sold), Left(r)' \in Int
    PROVE  Outstanding \in Int /\ Outstanding' = Outstanding + Left(r)'
<1>1. PICK m : m = Left(r)'
  OBVIOUS
<1>2. PICK S : S = Sold
  OBVIOUS
<1>3. PICK T : T = Sold'
  OBVIOUS
<1>4. IsFiniteSet(S) /\ r \notin S /\ T = S \cup {r}
  BY <1>2, <1>3, TablesFinite
<1>5. \A s \in S : Left(s) \in Int
  BY <1>2, LeftIsNumber
<1>6. Left(r)' \in Int
  OBVIOUS
<1>7. PICK f : f = [s \in S |-> Left(s)]
  OBVIOUS
<1>8. PICK h : h = [s \in T |-> Left(s)']
  OBVIOUS
<1>9. h[r] = m /\ m \in Int
  BY <1>1, <1>4, <1>6, <1>8
<1>10. \A s \in S : h[s] = f[s]
  BY <1>2, <1>4, <1>7, <1>8 DEF LeftStays
<1>11. TermMore(f, h, S, r, T)
  BY <1>4, <1>5, <1>7, <1>9, <1>10 DEF TermMore, Same, Whole
<1>12. SumFunctionOnSet(f, S) \in Int /\ SumFunctionOnSet(h, T) = SumFunctionOnSet(f, S) + m
  BY <1>9, <1>11, SumOneMore
<1>13. Outstanding = SumFunctionOnSet(f, S)
  BY <1>2, <1>7 DEF Outstanding
<1>14. Outstanding' = SumFunctionOnSet(h, T)
  BY <1>3, <1>8 DEF Outstanding
<1> QED
  BY <1>1, <1>12, <1>13, <1>14

\* Something comes back, and something may be sold.
LEMMA OutstandingLess ==
    ASSUME Rows, NEW m \in Sold, NEW d \in Int, Left(m)' = Left(m) - d, LeftStays(Sold \ {m})
    PROVE  /\ Outstanding \in Int
           /\ Sold' = Sold => Outstanding' = Outstanding - d
           /\ \A r : r \notin Sold /\ Sold' = Sold \cup {r} /\ Left(r)' \in Int =>
                       Outstanding' = Outstanding - d + Left(r)'
<1>1. PICK S : S = Sold
  OBVIOUS
<1>2. PICK f : f = [s \in S |-> Left(s)]
  OBVIOUS
<1>3. PICK h : h = [s \in S |-> Left(s)']
  OBVIOUS
<1>4. IsFiniteSet(S) /\ m \in S /\ \A s \in S : Left(s) \in Int
  BY <1>1, TablesFinite, LeftIsNumber
<1>5. PICK e \in Int : e = 0 - d
  OBVIOUS
<1>6. h[m] = f[m] + e
  <2>1. h[m] = Left(m)' /\ f[m] = Left(m) /\ Left(m) \in Int
    BY <1>1, <1>2, <1>3, <1>4
  <2> QED
    BY <1>5, <2>1
<1>7. \A s \in S \ {m} : h[s] = f[s]
  BY <1>1, <1>2, <1>3 DEF LeftStays
<1>8. TermMoved(f, h, S, m, e)
  BY <1>2, <1>4, <1>6, <1>7 DEF TermMoved, Same, Whole
<1>9. SumFunctionOnSet(f, S) \in Int /\ SumFunctionOnSet(h, S) = SumFunctionOnSet(f, S) + e
  BY <1>8, SumMoves
<1>10. Outstanding = SumFunctionOnSet(f, S)
  BY <1>1, <1>2 DEF Outstanding
<1>11. PICK total \in Int : total = Outstanding
  BY <1>9, <1>10
<1>12. SumFunctionOnSet(h, S) = total - d
  BY <1>5, <1>9, <1>10, <1>11
<1>13. ASSUME Sold' = Sold PROVE Outstanding' = Outstanding - d
  <2>1. Outstanding' = SumFunctionOnSet(h, S)
    BY <1>1, <1>3, <1>13 DEF Outstanding
  <2> QED
    BY <1>11, <1>12, <2>1
<1>14. ASSUME NEW r, r \notin Sold, Sold' = Sold \cup {r}, Left(r)' \in Int
       PROVE  Outstanding' = Outstanding - d + Left(r)'
  <2>1. PICK T : T = Sold'
    OBVIOUS
  <2>2. PICK k : k = [s \in T |-> Left(s)']
    OBVIOUS
  <2>3. T = S \cup {r} /\ r \notin S
    BY <1>1, <1>14, <2>1
  <2>4. \A s \in S : k[s] = h[s] /\ h[s] \in Int
    <3>1. \A s \in S : k[s] = h[s]
      BY <1>3, <2>2, <2>3
    <3>2. h[m] \in Int
      BY <1>1, <1>2, <1>4, <1>6
    <3>3. \A s \in S \ {m} : h[s] \in Int
      BY <1>1, <1>2, <1>4, <1>7
    <3> QED
      BY <3>1, <3>2, <3>3
  <2>5. PICK new \in Int : new = Left(r)'
    BY <1>14
  <2>6. k[r] = new
    BY <2>2, <2>3, <2>5
  <2>7. TermMore(h, k, S, r, T)
    BY <1>4, <2>3, <2>4, <2>6 DEF TermMore, Same, Whole
  <2>8. SumFunctionOnSet(k, T) = SumFunctionOnSet(h, S) + new
    BY <2>6, <2>7, SumOneMore
  <2>9. Outstanding' = SumFunctionOnSet(k, T)
    BY <2>1, <2>2 DEF Outstanding
  <2>10. Outstanding' = (total - d) + new
    BY <1>12, <2>8, <2>9
  <2> QED
    BY <1>11, <2>5, <2>10
<1> QED
  BY <1>9, <1>10, <1>13, <1>14

\* What was given back is a number.
LEMMA GivenIsNumber == ASSUME Rows PROVE GivenBack \in Int
<1>1. PICK S : S = Returned
  OBVIOUS
<1>2. PICK f : f = [n \in S |-> note[n].refund]
  OBVIOUS
<1>3. IsFiniteSet(S) /\ \A n \in S : f[n] \in Nat
  BY <1>1, <1>2, TablesFinite DEF Rows, NoteRow
<1>4. SumFunctionOnSet(f, S) \in Nat
  BY <1>3, SumOfNaturals
<1> QED
  BY <1>1, <1>2, <1>4 DEF GivenBack

\* So is what was taken in.
LEMMA TakenIsNumber == ASSUME Rows PROVE TakenIn \in Int
<1>1. PICK S : S = Sold
  OBVIOUS
<1>2. PICK f : f = [s \in S |-> sale[s].cash]
  OBVIOUS
<1>3. IsFiniteSet(S) /\ \A s \in S : f[s] \in Nat
  BY <1>1, <1>2, TablesFinite DEF Rows, SaleRow
<1>4. SumFunctionOnSet(f, S) \in Nat
  BY <1>3, SumOfNaturals
<1> QED
  BY <1>1, <1>2, <1>4 DEF TakenIn

\* Of a sale that is being posted all is left.
LEMMA NewSaleIsLeft ==
    ASSUME Rows, NEW r, PutSale(r), KeptNotes \/ (PutNote(r) /\ op[r].of \in Sold)
    PROVE  /\ Left(r)' = op[r].out * Price[op[r].product] /\ op[r].out * Price[op[r].product] \in Nat
<1>1. ReturnedQty(r)' = 0
  BY NewSaleHasNoNotes
<1>2. sale'[r].product = op[r].product /\ sale'[r].qty = op[r].out /\ sale'[r].qty \in Nat /\ sale'[r].product \in Products
  BY DEF PutSale, SaleRow, Quantity
<1>3. PICK price \in Nat : price = Price[op[r].product]
  BY <1>2, BillingAssumption
<1>4. PICK n \in Nat : n = op[r].out
  BY <1>2
<1>5. n * price \in Nat
  BY Amounts
<1>6. 0 * price = 0
  OBVIOUS
<1>7. PICK w \in Nat : w = n * price
  BY <1>5
<1>8. Left(r)' = w - 0
  BY <1>1, <1>2, <1>3, <1>4, <1>6, <1>7 DEF Left, Worth
<1> QED
  BY <1>3, <1>4, <1>7, <1>8

\* Every step keeps it paid for.
LEMMA NextPaidFor ==
    ASSUME BooksInv, PaidFor, [Next]_vars
    PROVE  PaidFor'
<1>1. Rows
  BY DEF BooksInv
<1>2. ASSUME Outstanding' = Outstanding, GivenBack' = GivenBack, TakenIn' = TakenIn PROVE PaidFor'
  BY <1>2 DEF PaidFor
<1>3. ASSUME KeptSales, GrownNotes, Returned' = Returned, \A s : NotesKeep(s) PROVE PaidFor'
  <2>1. GrownSold /\ Sold' = Sold
    BY <1>3 DEF KeptSales, GrownSold
  <2>2. LeftStays(Sold)
    BY <1>1, <1>3, <2>1, LeftAfter DEF LeftStays
  <2>3. Outstanding' = Outstanding
    BY <2>1, <2>2, OutstandingStays
  <2>4. GivenBack' = GivenBack
    BY <1>3, GivenBackStays DEF GrownNotes
  <2>5. TakenIn' = TakenIn
    BY <1>3, TakenInStays
  <2> QED
    BY <1>2, <2>3, <2>4, <2>5
<1>4. CASE NoCommit
  <2>1. TablesStand
    BY <1>4 DEF NoCommit
  <2>2. KeptSales /\ KeptNotes /\ GrownNotes /\ Returned' = Returned
    BY <2>1 DEF TablesStand, KeptSales, KeptNotes, GrownNotes, Sold, Returned
  <2>3. \A s : NotesKeep(s)
    BY <2>2, NotesOfStay
  <2> QED
    BY <1>3, <2>2, <2>3
<1>5. ASSUME NEW r \in Requests, PostApproval(r) PROVE PaidFor'
  <2>1. (\A s : NotesKeep(s)) /\ sale' = sale /\ GrownNotes /\ Returned' = Returned
    BY <1>5, PostApprovalDoes
  <2>2. KeptSales
    BY <2>1 DEF KeptSales, Sold
  <2> QED
    BY <1>3, <2>1, <2>2
<1>6. ASSUME NEW r \in Requests, PostSale(r) PROVE PaidFor'
  <2>1. PICK cash : cash = op[r].out * Price[op[r].product]
    OBVIOUS
  <2>2. PutSale(r) /\ KeptNotes /\ sale'[r].cash = cash
    BY <1>6, <2>1, PostSaleDoes
  <2>3. GrownSold /\ r \notin Sold /\ Sold' = Sold \cup {r}
    BY <2>2 DEF PutSale, GrownSold
  <2>4. \A s : NotesKeep(s)
    BY <2>2, NotesOfStay
  <2>5. LeftStays(Sold)
    BY <1>1, <2>3, <2>4, LeftAfter DEF LeftStays
  <2>6. Left(r)' = cash /\ cash \in Nat
    BY <1>1, <2>1, <2>2, NewSaleIsLeft
  <2>7. Left(r)' \in Int
    BY <2>6
  <2>8. Outstanding \in Int /\ Outstanding' = Outstanding + cash
    BY <1>1, <2>3, <2>5, <2>6, <2>7, OutstandingMore
  <2>9. GivenBack' = GivenBack
    BY <2>2, GivenBackStays DEF KeptNotes
  <2>10. TakenIn \in Int /\ TakenIn' = TakenIn + cash
    BY <1>1, <2>2, TakenInAfter
  <2>11. GivenBack \in Int
    BY <1>1, GivenIsNumber
  <2> QED
    BY <2>6, <2>8, <2>9, <2>10, <2>11 DEF PaidFor
<1>7. ASSUME NEW r \in Requests, PutNote(r), Proper(op[r]), TakesBack(op[r]), GrownSold
      PROVE  \E m \in Sold : \E d \in Nat :
               /\ m = op[r].of /\ d = Worth(op[r].of, op[r].in) /\ Left(m)' = Left(m) - d /\ LeftStays(Sold \ {m})
               /\ op[r].refund \in Nat /\ op[r].refund <= d /\ op[r].in \in Nat
  <2>1. PICK m \in Sold : m = op[r].of
    BY <1>7 DEF Proper
  <2>2. op[r].in \in Nat /\ op[r].refund \in Nat /\ op[r].refund <= Worth(m, op[r].in)
    BY <1>7, <2>1 DEF Proper, Quantity
  <2>3. PICK d \in Nat : d = Worth(m, op[r].in)
    BY <1>1, <2>2, LeftIsNumber
  <2>4. NotesGrow(m, r, op[r].in, op[r].refund) /\ \A s : s # m => NotesKeep(s)
    BY <1>1, <1>7, <2>1, NotesOfAfter
  <2>5. Left(m)' = Left(m) - d
    BY <1>1, <1>7, <2>3, <2>4, LeftAfter
  <2>6. LeftStays(Sold \ {m})
    BY <1>1, <1>7, <2>4, LeftAfter DEF LeftStays
  <2> QED
    BY <2>1, <2>2, <2>3, <2>5, <2>6
<1>8. ASSUME NEW r \in Requests, PostReturn(r) PROVE PaidFor'
  <2>1. PutNote(r) /\ Proper(op[r]) /\ TakesBack(op[r]) /\ KeptSales
    BY <1>8, PostReturnDoes DEF TakesBack
  <2>2. GrownSold /\ Sold' = Sold
    BY <2>1 DEF KeptSales, GrownSold
  <2>3. PICK m \in Sold : \E d \in Nat : Left(m)' = Left(m) - d /\ LeftStays(Sold \ {m})
                                         /\ op[r].refund \in Nat /\ op[r].refund <= d
    BY <1>7, <2>1, <2>2
  <2>4. PICK d \in Nat : Left(m)' = Left(m) - d /\ LeftStays(Sold \ {m}) /\ op[r].refund \in Nat /\ op[r].refund <= d
    BY <2>3
  <2>5. d \in Int
    OBVIOUS
  <2>6. Outstanding \in Int /\ Outstanding' = Outstanding - d
    BY <1>1, <2>2, <2>4, <2>5, OutstandingLess
  <2>7. PICK f \in Nat : f = op[r].refund
    BY <2>4
  <2>8. op[r].refund \in Int
    BY <2>4
  <2>9. GivenBack \in Int /\ GivenBack' = GivenBack + f
    BY <1>1, <2>1, <2>7, <2>8, GivenBackAfter
  <2>10. TakenIn' = TakenIn
    BY <2>1, TakenInStays
  <2>11. TakenIn \in Int
    BY <1>1, TakenIsNumber
  <2> QED
    BY <2>4, <2>6, <2>7, <2>9, <2>10, <2>11 DEF PaidFor
<1>9. ASSUME NEW r \in Requests, PostExchange(r) PROVE PaidFor'
  <2>1. /\ PutSale(r) /\ PutNote(r) /\ Proper(op[r]) /\ TakesBack(op[r]) /\ op[r].kind = "exchange" /\ op[r].of \in Sold
        /\ sale'[r].cash = (IF Total(r) > op[r].value THEN Total(r) - op[r].value ELSE 0)
    BY <1>9, PostExchangeDoes DEF TakesBack
  <2>2. GrownSold /\ r \notin Sold /\ Sold' = Sold \cup {r}
    BY <2>1 DEF PutSale, GrownSold
  <2>3. PICK m \in Sold : \E d \in Nat : d = Worth(op[r].of, op[r].in) /\ Left(m)' = Left(m) - d /\ LeftStays(Sold \ {m})
                                         /\ op[r].refund \in Nat
    BY <1>7, <2>1, <2>2
  <2>4. PICK d \in Nat : d = Worth(op[r].of, op[r].in) /\ Left(m)' = Left(m) - d /\ LeftStays(Sold \ {m})
                         /\ op[r].refund \in Nat
    BY <2>3
  <2>5. PICK total : total = op[r].out * Price[op[r].product]
    OBVIOUS
  <2>6. Left(r)' = total /\ total \in Nat
    BY <1>1, <2>1, <2>5, NewSaleIsLeft
  <2>7. op[r].value = d /\ Total(r) = total
    BY <2>1, <2>4, <2>5 DEF Proper, Total
  <2>8. op[r].refund = IF total < d THEN d - total ELSE 0
    BY <2>1, <2>5, <2>7 DEF Proper
  <2>9. d \in Int /\ Left(r)' \in Int
    BY <2>6
  <2>10. Outstanding \in Int /\ Outstanding' = Outstanding - d + total
    BY <1>1, <2>2, <2>4, <2>6, <2>9, OutstandingLess
  <2>11. PICK f \in Nat : f = op[r].refund
    BY <2>4
  <2>12. op[r].refund \in Int
    BY <2>4
  <2>13. GivenBack \in Int /\ GivenBack' = GivenBack + f
    BY <1>1, <2>1, <2>11, <2>12, GivenBackAfter
  <2>14. PICK cash : cash = IF total > d THEN total - d ELSE 0
    OBVIOUS
  <2>15. sale'[r].cash = cash
    BY <2>1, <2>7, <2>14
  <2>16. TakenIn \in Int /\ TakenIn' = TakenIn + cash
    BY <1>1, <2>1, <2>15, TakenInAfter
  <2>17. f - d + total = cash
    BY <2>6, <2>8, <2>11, <2>14
  <2> QED
    BY <2>6, <2>10, <2>11, <2>13, <2>14, <2>16, <2>17 DEF PaidFor
<1> QED
  BY <1>4, <1>5, <1>6, <1>8, <1>9, CommitOrNot

\* What is left of the sales is not negative where no return is late.
LEMMA OutstandingIsNatural ==
    ASSUME Rows, ReturnsCovered, Returned \cap late = {}
    PROVE  Outstanding \in Nat
<1>1. PICK S : S = Sold
  OBVIOUS
<1>2. PICK f : f = [s \in S |-> Left(s)]
  OBVIOUS
<1>3. ASSUME NEW s \in S PROVE f[s] \in Nat
  <2>1. s \in Sold /\ NotesOf(s) \cap late = {}
    BY <1>1 DEF NotesOf
  <2>2. PICK back \in Nat : back = ReturnedQty(s)
    BY SumsOfNotes
  <2>3. PICK n \in Nat : n = sale[s].qty
    BY <2>1 DEF Rows, SaleRow, Quantity
  <2>4. back <= n
    BY <2>1, <2>2, <2>3 DEF ReturnsCovered
  <2>5. PICK price \in Nat : price = Price[sale[s].product]
    BY <2>1, BillingAssumption DEF Rows, SaleRow
  <2>6. PICK u \in Nat : u = back * price
    BY Amounts
  <2>7. PICK w \in Nat : w = n * price
    BY Amounts
  <2>8. u <= w
    BY <2>4, <2>6, <2>7, Amounts
  <2>9. Left(s) = w - u
    BY <2>2, <2>3, <2>5, <2>6, <2>7 DEF Left, Worth
  <2> QED
    BY <1>2, <2>8, <2>9
<1>4. IsFiniteSet(S)
  BY <1>1, TablesFinite
<1>5. SumFunctionOnSet(f, S) \in Nat
  BY <1>3, <1>4, SumOfNaturals
<1> QED
  BY <1>1, <1>2, <1>5 DEF Outstanding

\* Where a request has one line of a product, no more comes back than was sold
\* and no more is refunded than was paid, of each sale and of all of them, unless
\* a return committed after another one had changed what it had read.
THEOREM BillingReturnsSettle == MaxSecond = 0 => (Spec => []ReturnsSettle)
<1> SUFFICES ASSUME MaxSecond = 0 PROVE Spec => []ReturnsSettle
  OBVIOUS
<1>1. Init => ReturnsCovered /\ PaidFor
  <2> SUFFICES ASSUME Init PROVE ReturnsCovered /\ PaidFor
    OBVIOUS
  <2>1. Sold = {} /\ Returned = {}
    BY DEF Init, Sold, Returned
  <2>2. PICK none : none = {}
    OBVIOUS
  <2>3. Sold = none /\ Returned = none
    BY <2>1, <2>2
  <2>4. /\ SumFunctionOnSet([s \in none |-> Left(s)], none) = 0
        /\ SumFunctionOnSet([n \in none |-> note[n].refund], none) = 0
        /\ SumFunctionOnSet([s \in none |-> sale[s].cash], none) = 0
    BY <2>2, SumOfNothing
  <2>5. Outstanding = 0 /\ GivenBack = 0 /\ TakenIn = 0
    BY <2>3, <2>4 DEF Outstanding, GivenBack, TakenIn
  <2> QED
    BY <2>1, <2>5 DEF ReturnsCovered, PaidFor
<1>2. BooksInv /\ BooksInv' /\ ReturnsCovered /\ PaidFor /\ [Next]_vars => ReturnsCovered' /\ PaidFor'
  BY NextReturns, NextPaidFor
<1>3. BooksInv /\ ReturnsCovered /\ PaidFor => ReturnsSettle
  <2> SUFFICES ASSUME BooksInv, ReturnsCovered, PaidFor, Returned \cap late = {} PROVE GivenBack <= TakenIn
    BY DEF ReturnsSettle, RefundsWithinTakings, GivenBack, TakenIn
  <2>1. Rows
    BY DEF BooksInv
  <2>2. Outstanding \in Nat
    BY <2>1, OutstandingIsNatural
  <2>3. GivenBack \in Int
    BY <2>1, GivenIsNumber
  <2>4. TakenIn \in Int
    BY <2>1, TakenIsNumber
  <2> QED
    BY <2>2, <2>3, <2>4 DEF PaidFor
<1> QED
  BY <1>1, <1>2, <1>3, BillingKnows, PTL DEF Spec

-----------------------------------------------------------------------------
(* The tables as books: documents in the order of their numbers. *)

\* Documents numbered from 1, each number once.
InOrder(S, f) ==
    /\ {f[s].number : s \in S} = 1 .. Cardinality(S)
    /\ \A a, b \in S : f[a].number = f[b].number => a = b

\* F shows the row of every document, in the order of their numbers.
IsFile(S, f, row, F) ==
    /\ F = [n \in 1 .. Cardinality(S) |-> F[n]]
    /\ \A s \in S : F[f[s].number] = row[s]

SaleFile(S, f) ==
    [n \in 1 .. Cardinality(S) |->
       LET r == CHOOSE r \in S : f[r].number = n
       IN [product |-> f[r].product, qty |-> f[r].qty]]
NoteFile(S, f, h) ==
    [n \in 1 .. Cardinality(S) |->
       LET r == CHOOSE r \in S : f[r].number = n
       IN [invoice |-> h[f[r].of].number, qty |-> f[r].qty]]
SaleLine(S, f)    == [r \in S |-> [product |-> f[r].product, qty |-> f[r].qty]]
NoteLine(S, f, h) == [r \in S |-> [invoice |-> h[f[r].of].number, qty |-> f[r].qty]]

\* The document that has a number.
LEMMA Numbered ==
    ASSUME NEW S, NEW f, InOrder(S, f), NEW s \in S
    PROVE  (CHOOSE r \in S : f[r].number = f[s].number) = s /\ f[s].number \in 1 .. Cardinality(S)
<1>1. PICK x : x = CHOOSE r \in S : f[r].number = f[s].number
  OBVIOUS
<1>2. x \in S /\ f[x].number = f[s].number
  BY <1>1
<1> QED
  BY <1>1, <1>2 DEF InOrder

\* The two files.
LEMMA SaleFileIs == ASSUME NEW S, NEW f, InOrder(S, f) PROVE IsFile(S, f, SaleLine(S, f), SaleFile(S, f))
<1>1. ASSUME NEW s \in S PROVE SaleFile(S, f)[f[s].number] = SaleLine(S, f)[s]
  <2>1. PICK n : n = f[s].number
    OBVIOUS
  <2>2. (CHOOSE r \in S : f[r].number = n) = s /\ n \in 1 .. Cardinality(S)
    BY <2>1, Numbered
  <2> QED
    BY <2>1, <2>2 DEF SaleFile, SaleLine
<1>2. SaleFile(S, f) = [n \in 1 .. Cardinality(S) |-> SaleFile(S, f)[n]]
  BY DEF SaleFile
<1> QED
  BY <1>1, <1>2 DEF IsFile

\* Of the credit notes too.
LEMMA NoteFileIs == ASSUME NEW S, NEW f, NEW h, InOrder(S, f) PROVE IsFile(S, f, NoteLine(S, f, h), NoteFile(S, f, h))
<1>1. ASSUME NEW s \in S PROVE NoteFile(S, f, h)[f[s].number] = NoteLine(S, f, h)[s]
  <2>1. PICK n : n = f[s].number
    OBVIOUS
  <2>2. (CHOOSE r \in S : f[r].number = n) = s /\ n \in 1 .. Cardinality(S)
    BY <2>1, Numbered
  <2> QED
    BY <2>1, <2>2 DEF NoteFile, NoteLine
<1>2. NoteFile(S, f, h) = [n \in 1 .. Cardinality(S) |-> NoteFile(S, f, h)[n]]
  BY DEF NoteFile
<1> QED
  BY <1>1, <1>2 DEF IsFile

\* The documents of T are those of S and r, with the next number.
OneFiled(S, f, T, g, r) ==
    /\ r \notin S /\ T = S \cup {r} /\ \A s \in S : g[s] = f[s]
    /\ g[r].number = Cardinality(S) + 1

\* They are then in order too.
LEMMA OrderGrows ==
    ASSUME NEW S, NEW f, NEW T, NEW g, NEW r, IsFiniteSet(S), InOrder(S, f), OneFiled(S, f, T, g, r)
    PROVE  InOrder(T, g) /\ Cardinality(T) = Cardinality(S) + 1 /\ Cardinality(S) \in Nat
<1>1. PICK N \in Nat : N = Cardinality(S)
  BY FS_CardinalityType
<1>2. Cardinality(T) = N + 1
  BY <1>1, FS_AddElement DEF OneFiled
<1>3. {f[s].number : s \in S} = 1 .. N /\ g[r].number = N + 1 /\ \A s \in S : g[s].number = f[s].number
  BY <1>1 DEF InOrder, OneFiled
<1>4. \A s \in S : g[s].number \in 1 .. N
  BY <1>3
<1>5. {g[s].number : s \in T} = 1 .. N + 1
  <2>1. \A n \in 1 .. N : \E s \in S : g[s].number = n
    BY <1>3
  <2>2. \A n \in 1 .. N + 1 : n \in 1 .. N \/ n = N + 1
    OBVIOUS
  <2>3. \A n \in 1 .. N + 1 : \E s \in T : g[s].number = n
    BY <1>3, <2>1, <2>2 DEF OneFiled
  <2>4. \A s \in T : g[s].number \in 1 .. N + 1
    BY <1>3, <1>4 DEF OneFiled
  <2> QED
    BY <2>3, <2>4
<1>6. \A a, b \in T : g[a].number = g[b].number => a = b
  BY <1>3, <1>4 DEF InOrder, OneFiled
<1> QED
  BY <1>1, <1>2, <1>5, <1>6 DEF InOrder

\* And the file has one row more.
LEMMA FileGrows ==
    ASSUME NEW S, NEW f, NEW T, NEW g, NEW r, IsFiniteSet(S), InOrder(S, f), OneFiled(S, f, T, g, r),
           NEW row, NEW more, NEW F, NEW G, IsFile(S, f, row, F), IsFile(T, g, more, G), Same(more, row, S)
    PROVE  G = Append(F, more[r])
<1>1. PICK N \in Nat : N = Cardinality(S)
  BY FS_CardinalityType
<1>2. Cardinality(T) = N + 1
  BY <1>1, OrderGrows
<1>3. PICK x : x = more[r]
  OBVIOUS
<1>4. F = [n \in 1 .. N |-> F[n]] /\ G = [n \in 1 .. N + 1 |-> G[n]]
  BY <1>1, <1>2 DEF IsFile
<1>5. ASSUME NEW n \in 1 .. N PROVE G[n] = F[n]
  <2>1. PICK s \in S : f[s].number = n
    BY <1>1 DEF InOrder
  <2>2. s \in T /\ g[s].number = n
    BY <2>1 DEF OneFiled
  <2>3. F[n] = row[s] /\ G[n] = more[s]
    BY <2>1, <2>2 DEF IsFile
  <2> QED
    BY <2>3 DEF Same
<1>6. G[N + 1] = x
  <2>1. r \in T /\ g[r].number = N + 1
    BY <1>1 DEF OneFiled
  <2> QED
    BY <1>3, <2>1 DEF IsFile
<1>7. PICK V : V = {F[n] : n \in 1 .. N} \cup {x}
  OBVIOUS
<1>8. F \in Seq(V) /\ Len(F) = N
  <2>1. \A n \in 1 .. N : F[n] \in V
    BY <1>7
  <2>2. F \in [1 .. N -> V]
    BY <1>4, <2>1
  <2> QED
    BY <2>2
<1>9. x \in V
  BY <1>7
<1>10. PICK A : A = Append(F, x)
  OBVIOUS
<1>11. A \in Seq(V) /\ Len(A) = N + 1 /\ (\A n \in 1 .. N : A[n] = F[n]) /\ A[N + 1] = x
  BY <1>8, <1>9, <1>10
<1>12. A = [n \in 1 .. N + 1 |-> A[n]]
  BY <1>11
<1>13. \A n \in 1 .. N + 1 : A[n] = G[n]
  <2>1. \A n \in 1 .. N + 1 : n \in 1 .. N \/ n = N + 1
    OBVIOUS
  <2> QED
    BY <1>5, <1>6, <1>11, <2>1
<1>14. A = G
  BY <1>4, <1>12, <1>13
<1> QED
  BY <1>3, <1>10, <1>14

SameNumbers(S, f, g) == \A s \in S : g[s].number = f[s].number

\* The same documents with the same rows are the same file.
LEMMA FileStays ==
    ASSUME NEW S, NEW f, NEW g, NEW row, NEW other, NEW F, NEW G, InOrder(S, f), SameNumbers(S, f, g),
           IsFile(S, f, row, F), IsFile(S, g, other, G), Same(other, row, S)
    PROVE  InOrder(S, g) /\ G = F
<1>0. \A s \in S : g[s].number = f[s].number
  BY DEF SameNumbers
<1>1. PICK N : N = Cardinality(S)
  OBVIOUS
<1>2. F = [n \in 1 .. N |-> F[n]] /\ G = [n \in 1 .. N |-> G[n]]
  BY <1>1 DEF IsFile
<1>3. ASSUME NEW n \in 1 .. N PROVE G[n] = F[n]
  <2>1. PICK s \in S : f[s].number = n
    BY <1>1 DEF InOrder
  <2>2. F[n] = row[s] /\ G[n] = other[s]
    BY <1>0, <2>1 DEF IsFile
  <2> QED
    BY <2>2 DEF Same
<1>4. InOrder(S, g)
  <2>1. {g[s].number : s \in S} = {f[s].number : s \in S}
    BY <1>0
  <2> QED
    BY <1>0, <2>1 DEF InOrder
<1> QED
  BY <1>2, <1>3, <1>4

\* Invoices and credit notes are each in order.
Orderly == InOrder(Sold, sale) /\ InOrder(Returned, note)

\* The books are the two files.
LEMMA BooksAreFiles == Invoices = SaleFile(Sold, sale) /\ CreditNotes = NoteFile(Returned, note, sale)
BY DEF Invoices, CreditNotes, SaleFile, NoteFile

\* A sale more is an invoice more.
LEMMA InvoiceAppended ==
    ASSUME Orderly, NEW r, PutSale(r)
    PROVE  /\ Invoices' = Append(Invoices, [product |-> op[r].product, qty |-> op[r].out])
           /\ InOrder(Sold', sale')
<1>1. PICK S : S = Sold
  OBVIOUS
<1>2. PICK T : T = Sold'
  OBVIOUS
<1>3. PICK f : f = sale
  OBVIOUS
<1>4. PICK g : g = sale'
  OBVIOUS
<1>5. IsFiniteSet(S) /\ InOrder(S, f) /\ OneFiled(S, f, T, g, r)
  BY <1>1, <1>2, <1>3, <1>4, TablesFinite DEF Orderly, PutSale, OneFiled
<1>6. InOrder(T, g)
  BY <1>5, OrderGrows
<1>7. PICK row : row = SaleLine(S, f)
  OBVIOUS
<1>8. PICK more : more = SaleLine(T, g)
  OBVIOUS
<1>9. PICK F : F = SaleFile(S, f)
  OBVIOUS
<1>10. PICK G : G = SaleFile(T, g)
  OBVIOUS
<1>11. IsFile(S, f, row, F)
  BY <1>5, <1>7, <1>9, SaleFileIs
<1>12. IsFile(T, g, more, G)
  BY <1>6, <1>8, <1>10, SaleFileIs
<1>13. Same(more, row, S)
  BY <1>5, <1>7, <1>8 DEF Same, SaleLine, OneFiled
<1>14. G = Append(F, more[r])
  BY <1>5, <1>11, <1>12, <1>13, FileGrows
<1>15. more[r] = [product |-> op[r].product, qty |-> op[r].out]
  <2>1. r \in T /\ g[r].product = op[r].product /\ g[r].qty = op[r].out
    BY <1>2, <1>4, <1>5 DEF OneFiled, PutSale
  <2> QED
    BY <1>8, <2>1 DEF SaleLine
<1>16. Invoices = F /\ Invoices' = G
  <2>1. Invoices = SaleFile(Sold, sale)
    BY BooksAreFiles
  <2>2. Invoices' = SaleFile(Sold', sale')
    BY DEF Invoices, SaleFile
  <2> QED
    BY <1>1, <1>2, <1>3, <1>4, <1>9, <1>10, <2>1, <2>2
<1> QED
  BY <1>2, <1>4, <1>6, <1>14, <1>15, <1>16

\* The same sales are the same invoices.
LEMMA InvoicesStay ==
    ASSUME Orderly, KeptSales
    PROVE  Invoices' = Invoices /\ InOrder(Sold', sale')
<1>1. PICK S : S = Sold /\ S = Sold'
  BY DEF KeptSales
<1>2. PICK f : f = sale
  OBVIOUS
<1>3. PICK g : g = sale'
  OBVIOUS
<1>4. InOrder(S, f) /\ \A s \in S : g[s] = f[s]
  BY <1>1, <1>2, <1>3 DEF Orderly, KeptSales
<1>5. InOrder(S, g)
  BY <1>4 DEF InOrder
<1>6. PICK row : row = SaleLine(S, f)
  OBVIOUS
<1>7. PICK other : other = SaleLine(S, g)
  OBVIOUS
<1>8. PICK F : F = SaleFile(S, f)
  OBVIOUS
<1>9. PICK G : G = SaleFile(S, g)
  OBVIOUS
<1>10. IsFile(S, f, row, F) /\ IsFile(S, g, other, G)
  BY <1>4, <1>5, <1>6, <1>7, <1>8, <1>9, SaleFileIs
<1>11. Same(other, row, S)
  <2>1. \A s \in S : g[s] = f[s]
    BY <1>4
  <2>2. ASSUME NEW s \in S PROVE other[s] = row[s]
    BY <1>6, <1>7, <2>1 DEF SaleLine
  <2> QED
    BY <2>2 DEF Same
<1>14. SameNumbers(S, f, g)
  <2>1. ASSUME NEW s \in S PROVE g[s].number = f[s].number
    <3>1. g[s] = f[s]
      BY <1>4
    <3> QED
      BY <3>1
  <2> QED
    BY <2>1 DEF SameNumbers
<1>12. G = F
  BY <1>4, <1>10, <1>11, <1>14, FileStays
<1>13. Invoices = F /\ Invoices' = G
  <2>1. Invoices = SaleFile(Sold, sale)
    BY BooksAreFiles
  <2>2. Invoices' = SaleFile(Sold', sale')
    BY DEF Invoices, SaleFile
  <2> QED
    BY <1>1, <1>2, <1>3, <1>8, <1>9, <2>1, <2>2
<1> QED
  BY <1>1, <1>3, <1>5, <1>12, <1>13

\* A return more is a credit note more.
LEMMA NoteAppended ==
    ASSUME Rows, Orderly, GrownSold, NEW r, PutNote(r), op[r].of \in Sold
    PROVE  /\ CreditNotes' = Append(CreditNotes, [invoice |-> sale[op[r].of].number, qty |-> op[r].in])
           /\ InOrder(Returned', note')
<1>1. PICK S : S = Returned
  OBVIOUS
<1>2. PICK T : T = Returned'
  OBVIOUS
<1>3. PICK f : f = note
  OBVIOUS
<1>4. PICK g : g = note'
  OBVIOUS
<1>5. IsFiniteSet(S) /\ InOrder(S, f) /\ OneFiled(S, f, T, g, r)
  BY <1>1, <1>2, <1>3, <1>4, TablesFinite DEF Orderly, PutNote, OneFiled
<1>6. InOrder(T, g)
  BY <1>5, OrderGrows
<1>7. PICK h : h = sale
  OBVIOUS
<1>8. PICK k : k = sale'
  OBVIOUS
<1>9. PICK row : row = NoteLine(S, f, h)
  OBVIOUS
<1>10. PICK more : more = NoteLine(T, g, k)
  OBVIOUS
<1>11. PICK F : F = NoteFile(S, f, h)
  OBVIOUS
<1>12. PICK G : G = NoteFile(T, g, k)
  OBVIOUS
<1>13. IsFile(S, f, row, F)
  BY <1>5, <1>9, <1>11, NoteFileIs
<1>14. IsFile(T, g, more, G)
  BY <1>6, <1>10, <1>12, NoteFileIs
<1>15. \A s \in Sold : k[s] = h[s]
  BY <1>7, <1>8 DEF GrownSold
<1>16. \A s \in S : f[s].of \in Sold
  BY <1>1, <1>3 DEF Rows, NoteRow
<1>17. Same(more, row, S)
  <2>1. ASSUME NEW s \in S PROVE more[s] = row[s]
    <3>1. s \in T /\ g[s] = f[s]
      BY <1>5 DEF OneFiled
    <3>2. k[f[s].of] = h[f[s].of]
      BY <1>15, <1>16
    <3> QED
      BY <1>9, <1>10, <3>1, <3>2 DEF NoteLine
  <2> QED
    BY <2>1 DEF Same
<1>18. G = Append(F, more[r])
  BY <1>5, <1>13, <1>14, <1>17, FileGrows
<1>19. more[r] = [invoice |-> sale[op[r].of].number, qty |-> op[r].in]
  <2>1. r \in T /\ g[r].of = op[r].of /\ g[r].qty = op[r].in
    BY <1>2, <1>4, <1>5 DEF OneFiled, PutNote
  <2>2. k[op[r].of] = sale[op[r].of]
    BY <1>7, <1>15
  <2> QED
    BY <1>10, <2>1, <2>2 DEF NoteLine
<1>20. CreditNotes = F /\ CreditNotes' = G
  <2>1. CreditNotes = NoteFile(Returned, note, sale)
    BY BooksAreFiles
  <2>2. CreditNotes' = NoteFile(Returned', note', sale')
    BY DEF CreditNotes, NoteFile
  <2> QED
    BY <1>1, <1>2, <1>3, <1>4, <1>7, <1>8, <1>11, <1>12, <2>1, <2>2
<1> QED
  BY <1>2, <1>4, <1>6, <1>18, <1>19, <1>20

\* The same returns are the same credit notes, whatever becomes of their status.
LEMMA NotesStay ==
    ASSUME Rows, Orderly, GrownSold, GrownNotes, Returned' = Returned,
           \A n \in Returned : note'[n].number = note[n].number
    PROVE  CreditNotes' = CreditNotes /\ InOrder(Returned', note')
<1>1. PICK S : S = Returned /\ S = Returned'
  OBVIOUS
<1>2. PICK f : f = note
  OBVIOUS
<1>3. PICK g : g = note'
  OBVIOUS
<1>4. InOrder(S, f) /\ \A s \in S : g[s].number = f[s].number /\ g[s].of = f[s].of /\ g[s].qty = f[s].qty
  BY <1>1, <1>2, <1>3 DEF Orderly, GrownNotes
<1>5. InOrder(S, g)
  <2>1. {g[s].number : s \in S} = {f[s].number : s \in S}
    BY <1>4
  <2> QED
    BY <1>4, <2>1 DEF InOrder
<1>6. PICK h : h = sale
  OBVIOUS
<1>7. PICK k : k = sale'
  OBVIOUS
<1>8. PICK row : row = NoteLine(S, f, h)
  OBVIOUS
<1>9. PICK other : other = NoteLine(S, g, k)
  OBVIOUS
<1>10. PICK F : F = NoteFile(S, f, h)
  OBVIOUS
<1>11. PICK G : G = NoteFile(S, g, k)
  OBVIOUS
<1>12. IsFile(S, f, row, F) /\ IsFile(S, g, other, G)
  BY <1>4, <1>5, <1>8, <1>9, <1>10, <1>11, NoteFileIs
<1>13. Same(other, row, S)
  <2>1. ASSUME NEW s \in S PROVE other[s] = row[s]
    <3>1. f[s].of \in Sold
      BY <1>1, <1>2 DEF Rows, NoteRow
    <3>2. k[f[s].of] = h[f[s].of]
      BY <1>6, <1>7, <3>1 DEF GrownSold
    <3> QED
      BY <1>4, <1>8, <1>9, <3>2 DEF NoteLine
  <2> QED
    BY <2>1 DEF Same
<1>14. SameNumbers(S, f, g)
  BY <1>4 DEF SameNumbers
<1>15. G = F
  BY <1>4, <1>12, <1>13, <1>14, FileStays
<1>16. CreditNotes = F /\ CreditNotes' = G
  <2>1. CreditNotes = NoteFile(Returned, note, sale)
    BY BooksAreFiles
  <2>2. CreditNotes' = NoteFile(Returned', note', sale')
    BY DEF CreditNotes, NoteFile
  <2> QED
    BY <1>1, <1>2, <1>3, <1>6, <1>7, <1>10, <1>11, <2>1, <2>2
<1> QED
  BY <1>1, <1>3, <1>5, <1>15, <1>16

\* The invoice of a sale.
LEMMA InvoiceOf ==
    ASSUME Orderly, NEW s \in Sold
    PROVE  sale[s].number \in DOMAIN Invoices /\ Invoices[sale[s].number].product = sale[s].product
<1>1. IsFile(Sold, sale, SaleLine(Sold, sale), Invoices)
  BY BooksAreFiles, SaleFileIs DEF Orderly
<1>2. sale[s].number \in 1 .. Cardinality(Sold)
  BY Numbered DEF Orderly
<1>3. Invoices[sale[s].number] = [product |-> sale[s].product, qty |-> sale[s].qty]
  BY <1>1 DEF IsFile, SaleLine
<1>4. DOMAIN Invoices = 1 .. Cardinality(Sold)
  BY DEF Invoices
<1> QED
  BY <1>2, <1>3, <1>4

-----------------------------------------------------------------------------
(* Every step is one of the books', or none. *)

\* A branch with no documents.
LEMMA InitLedger == Init => Books!Init /\ Orderly
<1> SUFFICES ASSUME Init PROVE Books!Init /\ Orderly
  OBVIOUS
<1>1. Sold = {} /\ Returned = {} /\ ledger = Opening
  BY DEF Init, Sold, Returned
<1>2. Cardinality(Sold) = 0 /\ Cardinality(Returned) = 0
  BY <1>1, FS_EmptySet
<1>3. 1 .. 0 = {}
  OBVIOUS
<1>4. Orderly
  BY <1>1, <1>2, <1>3 DEF Orderly, InOrder
<1>5. DOMAIN Invoices = {} /\ DOMAIN CreditNotes = {}
  BY <1>2, <1>3 DEF Invoices, CreditNotes
<1>6. Invoices = <<>> /\ CreditNotes = <<>>
  <2>1. \A F : F = [n \in 1 .. 0 |-> F[n]] => F = <<>>
    OBVIOUS
  <2>2. Invoices = [n \in 1 .. 0 |-> Invoices[n]] /\ CreditNotes = [n \in 1 .. 0 |-> CreditNotes[n]]
    BY <1>2 DEF Invoices, CreditNotes
  <2> QED
    BY <2>1, <2>2
<1> QED
  BY <1>1, <1>4, <1>6 DEF Books!Init

\* Every step.
LEMMA NextLedger ==
    ASSUME BooksInv, Orderly, [Next]_vars
    PROVE  Orderly' /\ [Books!Next]_<<Invoices, CreditNotes, ledger>>
<1>1. Rows
  BY DEF BooksInv
<1>2. ASSUME InOrder(Sold', sale'), InOrder(Returned', note') PROVE Orderly'
  BY <1>2 DEF Orderly
<1>3. CASE NoCommit
  <2>1. TablesStand
    BY <1>3 DEF NoCommit
  <2>2. KeptSales /\ GrownSold /\ GrownNotes /\ Returned' = Returned /\ note' = note /\ ledger' = ledger
    BY <2>1 DEF TablesStand, KeptSales, GrownSold, GrownNotes, Sold, Returned
  <2>3. \A n \in Returned : note'[n].number = note[n].number
    BY <2>2
  <2>4. Invoices' = Invoices /\ InOrder(Sold', sale')
    BY <2>2, InvoicesStay
  <2>5. CreditNotes' = CreditNotes /\ InOrder(Returned', note')
    BY <1>1, <2>2, <2>3, NotesStay
  <2> QED
    BY <1>2, <2>2, <2>4, <2>5
<1>4. ASSUME NEW r \in Requests, PostApproval(r) PROVE Orderly' /\ [Books!Next]_<<Invoices, CreditNotes, ledger>>
  <2>1. /\ sale' = sale /\ ledger' = ledger /\ GrownNotes /\ Returned' = Returned
        /\ \A n \in Returned : note'[n].number = note[n].number
    BY <1>4, PostApprovalDoes
  <2>2. KeptSales /\ GrownSold
    BY <2>1 DEF KeptSales, GrownSold, Sold
  <2>3. Invoices' = Invoices /\ InOrder(Sold', sale')
    BY <2>2, InvoicesStay
  <2>4. CreditNotes' = CreditNotes /\ InOrder(Returned', note')
    BY <1>1, <2>1, <2>2, NotesStay
  <2> QED
    BY <1>2, <2>1, <2>3, <2>4
<1>5. ASSUME NEW r \in Requests, PostSale(r) PROVE Orderly' /\ [Books!Next]_<<Invoices, CreditNotes, ledger>>
  <2>1. PICK p \in Products : p = op[r].product
    BY <1>5, PostSaleDoes
  <2>2. PICK q \in Quantity : q = op[r].out
    BY <1>5, PostSaleDoes
  <2>3. PutSale(r) /\ KeptNotes /\ ledger' = [ledger EXCEPT ![p] = @ - q]
    BY <1>5, <2>1, <2>2, PostSaleDoes
  <2>4. GrownSold /\ GrownNotes /\ Returned' = Returned
    BY <2>3 DEF PutSale, KeptNotes, GrownSold, GrownNotes
  <2>5. \A n \in Returned : note'[n].number = note[n].number
    BY <2>3 DEF KeptNotes
  <2>6. Invoices' = Append(Invoices, [product |-> p, qty |-> q]) /\ InOrder(Sold', sale')
    BY <2>1, <2>2, <2>3, InvoiceAppended
  <2>7. CreditNotes' = CreditNotes /\ InOrder(Returned', note')
    BY <1>1, <2>4, <2>5, NotesStay
  <2>8. Books!Sell(p, q)
    BY <2>3, <2>6, <2>7 DEF Books!Sell, Books!Invoice
  <2>9. Books!Next
    BY <2>8 DEF Books!Next, Quantity
  <2> QED
    BY <1>2, <2>6, <2>7, <2>9
<1>6. ASSUME NEW r \in Requests, PostReturn(r) PROVE Orderly' /\ [Books!Next]_<<Invoices, CreditNotes, ledger>>
  <2>1. PICK s \in Sold : s = op[r].of
    BY <1>6, PostReturnDoes
  <2>2. PICK q \in Quantity : q = op[r].in
    BY <1>6, PostReturnDoes
  <2>3. PutNote(r) /\ KeptSales /\ ledger' = [ledger EXCEPT ![sale[s].product] = @ + q]
    BY <1>6, <2>1, <2>2, PostReturnDoes
  <2>4. GrownSold
    BY <2>3 DEF KeptSales, GrownSold
  <2>5. PICK n : n = sale[s].number
    OBVIOUS
  <2>6. n \in DOMAIN Invoices /\ Invoices[n].product = sale[s].product
    BY <2>5, InvoiceOf
  <2>7. Invoices' = Invoices /\ InOrder(Sold', sale')
    BY <2>3, InvoicesStay
  <2>8. CreditNotes' = Append(CreditNotes, [invoice |-> n, qty |-> q]) /\ InOrder(Returned', note')
    BY <1>1, <2>1, <2>2, <2>3, <2>4, <2>5, NoteAppended
  <2>9. Books!TakeBack(n, q)
    BY <2>3, <2>6, <2>7, <2>8 DEF Books!TakeBack, Books!Note
  <2>10. Books!Next
    BY <2>6, <2>9 DEF Books!Next, Quantity
  <2> QED
    BY <1>2, <2>7, <2>8, <2>10
<1>7. ASSUME NEW r \in Requests, PostExchange(r) PROVE Orderly' /\ [Books!Next]_<<Invoices, CreditNotes, ledger>>
  <2>1. PICK s \in Sold : s = op[r].of
    BY <1>7, PostExchangeDoes
  <2>2. PICK q \in Quantity : q = op[r].in
    BY <1>7, PostExchangeDoes
  <2>3. PICK p \in Products : p = op[r].product
    BY <1>7, PostExchangeDoes
  <2>4. PICK out \in Quantity : out = op[r].out
    BY <1>7, PostExchangeDoes
  <2>5. /\ PutSale(r) /\ PutNote(r)
        /\ ledger' = [x \in Products |-> ledger[x] + (IF x = sale[s].product THEN q ELSE 0) - (IF x = p THEN out ELSE 0)]
    BY <1>7, <2>1, <2>2, <2>3, <2>4, PostExchangeDoes
  <2>6. GrownSold
    BY <2>5 DEF PutSale, GrownSold
  <2>7. PICK n : n = sale[s].number
    OBVIOUS
  <2>8. n \in DOMAIN Invoices /\ Invoices[n].product = sale[s].product
    BY <2>7, InvoiceOf
  <2>9. Invoices' = Append(Invoices, [product |-> p, qty |-> out]) /\ InOrder(Sold', sale')
    BY <2>3, <2>4, <2>5, InvoiceAppended
  <2>10. CreditNotes' = Append(CreditNotes, [invoice |-> n, qty |-> q]) /\ InOrder(Returned', note')
    BY <1>1, <2>1, <2>2, <2>5, <2>6, <2>7, NoteAppended
  <2>11. Books!Swap(n, q, p, out)
    BY <2>5, <2>8, <2>9, <2>10 DEF Books!Swap, Books!Invoice, Books!Note
  <2>12. Books!Next
    BY <2>8, <2>11 DEF Books!Next, Quantity
  <2> QED
    BY <1>2, <2>9, <2>10, <2>12
<1> QED
  BY <1>3, <1>4, <1>5, <1>6, <1>7, CommitOrNot

\* Every request takes effect at one instant, as one entry in the branch's books:
\* its tables, read in the order of their numbers, are an account to which invoices
\* and credit notes are only ever added, and its stock moves with them alone.
THEOREM BillingImplementsLedger == Spec => ImplementsBranchLedger
<1>1. Init => Books!Init /\ Orderly
  BY InitLedger
<1>2. BooksInv /\ Orderly /\ [Next]_vars => Orderly' /\ [Books!Next]_Books!ledgerVars
  BY NextLedger DEF Books!ledgerVars
<1> QED
  BY <1>1, <1>2, BillingKnows, PTL DEF Spec, ImplementsBranchLedger, Books!Spec

\* The tables and the requests in flight have their types.
LEMMA BooksTypes == BooksInv => TypeOK
<1> SUFFICES ASSUME BooksInv PROVE TypeOK
  OBVIOUS
<1>1. IInv /\ Rows /\ Asks /\ History
  BY DEF BooksInv
<1>2. ASSUME NEW r \in Sold
      PROVE  sale[r] \in [number : Nat \ {0}, product : Products, qty : Nat \ {0}, last : Nat, cash : Nat,
                          units : SUBSET Serials[sale[r].product]]
  <2>1. PICK s : s = sale[r]
    OBVIOUS
  <2>2. /\ s = [number |-> s.number, product |-> s.product, qty |-> s.qty, last |-> s.last, cash |-> s.cash, units |-> s.units]
        /\ s.product \in Products /\ s.qty \in Quantity /\ s.last \in 0 .. s.qty /\ s.cash \in Nat
        /\ s.units \subseteq Serials[s.product]
    BY <1>1, <2>1 DEF Rows, SaleRow, IsSale
  <2>3. s.number \in 1 .. Cardinality(Sold)
    <3>1. {sale[i].number : i \in Sold} = 1 .. Cardinality(Sold)
      BY <1>1 DEF IInv, HeldSaleNo
    <3> QED
      BY <2>1, <3>1
  <2>4. s.number \in Nat \ {0} /\ s.qty \in Nat \ {0} /\ s.last \in Nat
    BY <2>2, <2>3, TablesFinite DEF Quantity
  <2> QED
    BY <2>1, <2>2, <2>4
<1>3. ASSUME NEW r \in Returned
      PROVE  note[r] \in [number : Nat \ {0}, of : Sold, qty : Nat \ {0}, refund : Nat,
                          method : Methods \cup {"EXCHANGE_CREDIT"}, status : NoteStatus]
  <2>1. PICK n : n = note[r]
    OBVIOUS
  <2>2. /\ n = [number |-> n.number, of |-> n.of, qty |-> n.qty, refund |-> n.refund, method |-> n.method, status |-> n.status]
        /\ n.of \in Sold /\ n.qty \in Quantity /\ n.refund \in Nat /\ n.method \in Methods \cup {"EXCHANGE_CREDIT"}
        /\ n.status \in NoteStatus
    BY <1>1, <2>1 DEF Rows, NoteRow, IInv, Shape, IsNote
  <2>3. n.number \in 1 .. Cardinality(Returned)
    <3>1. {note[i].number : i \in Returned} = 1 .. Cardinality(Returned)
      BY <1>1 DEF IInv, HeldNoteNo
    <3> QED
      BY <2>1, <3>1
  <2>4. n.number \in Nat \ {0} /\ n.qty \in Nat \ {0}
    BY <2>2, <2>3, TablesFinite DEF Quantity
  <2> QED
    BY <2>1, <2>2, <2>4
<1>4. pc \in [Requests -> Stages] /\ noteNo \in [Requests -> Nat] /\ saleNo \in [Requests -> Nat]
  BY <1>1 DEF IInv, Shape
<1>5. op \in [Requests -> Ops] /\ ledger \in [Products -> Int] /\ credited \in [Requests -> Nat]
  BY <1>1 DEF Asks, Rows
<1>6. behind \subseteq Requests /\ late \subseteq Requests
  BY <1>1 DEF History
<1> QED
  BY <1>2, <1>3, <1>4, <1>5, <1>6 DEF TypeOK, Stages

\* Every request and every row of the branch's tables has its type, whatever was posted.
THEOREM BillingTypes == Spec => []TypeOK
<1> QED
  BY BooksTypes, BillingKnows, PTL
=============================================================================
