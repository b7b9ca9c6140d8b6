--------------------------- MODULE ChargesProofs ---------------------------
(***************************************************************************)
(* What holds of a charge for any prices, quantities, months, requests and *)
(* number of handlers at work.                                             *)
(***************************************************************************)
EXTENDS Charges, TLAPS

(* The columns a handler of each kind keeps. *)
LEMMA HandlerShape ==
    ASSUME NEW r \in Handler
    PROVE  /\ r.op = "prices" => r.price \in Nat /\ r.from \in Nat \cup {NONE} /\ r.asked \in Nat
           /\ r.op = "report" => /\ r.status \in RowStatus /\ r.qty \in Nat /\ r.unit \in Nat
                                 /\ r.flagged \in BOOLEAN
           /\ r.op = "upsert" => r.status \in RowStatus /\ r.qty \in Nat /\ r.unit \in Nat
           /\ r.op = "resolve" => r.qty \in Nat \cup {NONE}
           /\ r.op \in {"generate", "regenerate", "save", "paid", "reissue", "settle"}
                => r.total \in Nat
           /\ r.op = "settle" => r.outcome \in {"APPLIED", "AMOUNT_MISMATCH"}
  BY DEF Handler

LEMMA WorthType ==
    ASSUME NEW row \in Row
    PROVE  Worth(row) \in Nat
<1>1. \A a, b \in Nat : a * b \in Nat
  OBVIOUS
<1>2. QED
  BY <1>1 DEF Worth, Row

LEMMA MonthType ==
    ASSUME NEW d \in Nat
    PROVE  Month(d) \in Nat /\ NextMonth(d) \in Nat
<1>1. Month(d) \in Nat
  BY ChargesAssumption, NullAssumption DEF Month
<1>2. \A a, b \in Nat : a * b \in Nat
  OBVIOUS
<1>3. QED
  BY <1>1, <1>2, ChargesAssumption, NullAssumption DEF NextMonth

(* A day on or after the first of the month that follows month m is in a   *)
(* later month. *)
LEMMA LaterMonth ==
    ASSUME NEW d \in Nat, NEW m \in Nat, (m + 1) * MonthLength <= d
    PROVE  m < Month(d)
<1> DEFINE L == MonthLength
           q == d \div L
<1>1. L \in Nat /\ L > 0
  BY ChargesAssumption, NullAssumption
<1>2. q \in Nat /\ d < (q + 1) * L
  BY <1>1
<1>3. (m + 1) * L < (q + 1) * L
  BY <1>1, <1>2
<1>4. ASSUME m >= q
      PROVE  FALSE
  <2>1. (m + 1) * L >= (q + 1) * L
    BY <1>1, <1>2, <1>4
  <2>2. QED
    BY <1>1, <1>2, <1>3, <2>1
<1>5. QED
  BY <1>2, <1>4 DEF Month

-----------------------------------------------------------------------------
(* Type correctness.  A handler that updates a row has found it, and       *)
(* neither the row nor the invoice is ever deleted.                        *)
Grounded ==
    /\ At("issue") \cup At("resolve") # {} => log # NONE
    /\ open # {} \/ settled # NONE => invoice # NONE
    /\ At("regenerate") \cup At("reissue") \cup At("save") \cup At("paid") \cup At("settle") # {}
         => invoice # NONE

TypeInv == TypeOK /\ Grounded

LEMMA TypeStart ==
    ASSUME Init
    PROVE  TypeInv
<1>1. \A a, b \in Nat : a * b \in Nat
  OBVIOUS
<1>2. /\ queued = NONE /\ running = {} /\ requests = 0 /\ settled = NONE /\ raced = FALSE
      /\ price \in Nat /\ unpriced \in BOOLEAN
  BY ChargesAssumption DEF Init, TablesInit
<1>3. /\ day \in 0..LastDay /\ open \subseteq Nat
      /\ log \in Row \cup {NONE} /\ invoice \in Invoice \cup {NONE}
      /\ open # {} => invoice # NONE
  <2>1. CASE day = 0 /\ log = NONE /\ invoice = NONE /\ open = {}
    BY <2>1, ChargesAssumption
  <2>2. ASSUME MonthLength <= LastDay, day = MonthLength,
               NEW q \in Quantity, open = {q * price},
               log = [status |-> "DELIVERED", qty |-> q, unit |-> price, flagged |-> FALSE,
                      source |-> "driver"],
               invoice = [total |-> q * price, status |-> "PENDING", link |-> q * price]
        PROVE  /\ day \in 0..LastDay /\ open \subseteq Nat
               /\ log \in Row \cup {NONE} /\ invoice \in Invoice \cup {NONE}
               /\ open # {} => invoice # NONE
    <3>1. q \in Nat /\ q * price \in Nat
      BY <1>1, <1>2, ChargesAssumption
    <3> DEFINE a == q * price
    <3>2. log \in Row
      BY <1>2, <2>2, <3>1 DEF Row, RowStatus
    <3>3. a \in Nat /\ open = {a} /\ invoice = [total |-> a, status |-> "PENDING", link |-> a]
      BY <2>2, <3>1
    <3> HIDE DEF a
    <3>4. invoice \in Invoice
      BY <3>3 DEF Invoice, InvoiceStatus
    <3>5. QED
      BY <2>2, <3>2, <3>3, <3>4, ChargesAssumption, NullAssumption
  <2>3. QED
    BY <2>1, <2>2 DEF Init, TablesInit
<1>4. TypeOK
  <2>1. requests \in 0..LastRequest
    BY <1>2, ChargesAssumption
  <2>2. queued \in Queued \cup {NONE} /\ running \subseteq Handler /\ raced \in BOOLEAN
    BY <1>2
  <2>3. QED
    BY <1>2, <1>3, <2>1, <2>2 DEF TypeOK, TablesTypeOK
<1>5. Grounded
  BY <1>2, <1>3 DEF Grounded, At
<1>6. QED
  BY <1>4, <1>5 DEF TypeInv

(* A request that is taken changes only the handlers at work. *)
LEMMA StartType ==
    ASSUME TypeInv, NEW r, r \in Handler, Request, Starts(r),
           UNCHANGED <<day, priceVars, log, billVars>>,
           r.op \in {"issue", "resolve"} => log # NONE,
           r.op \in {"regenerate", "reissue", "paid", "save", "settle"} => invoice # NONE
    PROVE  TypeInv'
<1>1. running' = running \cup {r} /\ requests' \in 0..LastRequest
  BY ChargesAssumption, NullAssumption DEF Starts, Request, TypeInv, TypeOK, TablesTypeOK
<1>2. UNCHANGED <<day, price, queued, unpriced, log, invoice, open, settled, raced>>
  BY DEF priceVars, billVars
<1>3. TypeOK'
  BY <1>1, <1>2 DEF TypeInv, TypeOK, TablesTypeOK
<1>4. Grounded'
  BY <1>1, <1>2 DEF TypeInv, Grounded, At
<1>5. QED
  BY <1>3, <1>4 DEF TypeInv

LEMMA PriceType ==
    ASSUME TypeInv, PriceStep
    PROVE  TypeInv'
<1> USE DEF TypeInv
<1>1. day \in Nat /\ Month(day) \in Nat /\ NextMonth(day) \in Nat
  BY MonthType DEF TypeOK, TablesTypeOK
<1>2. ASSUME NEW v \in Price, SetPrices(v)
      PROVE  TypeInv'
  <2> DEFINE h == [op |-> "prices", price |-> v, asked |-> Month(day),
                   from |-> IF price = 0 THEN NONE ELSE NextMonth(day)]
  <2>1. h \in Handler
    BY <1>1, ChargesAssumption, NullAssumption DEF Handler
  <2>2. h.op = "prices" /\ Starts(h)
    BY <1>2 DEF SetPrices
  <2> HIDE DEF h
  <2>3. QED
    BY <1>2, <2>1, <2>2, StartType DEF SetPrices
<1>3. ASSUME NEW r \in running, SetPricesWrites(r)
      PROVE  TypeInv'
  <2>1. r \in Handler /\ r.op = "prices"
    BY <1>3 DEF SetPricesWrites, TypeOK, TablesTypeOK
  <2>2. r.price \in Nat /\ r.from \in Nat \cup {NONE} /\ r.asked \in Nat
    BY <2>1, HandlerShape
  <2>3. running' = running \ {r} /\ UNCHANGED <<day, log, invoice, open, settled, raced, requests>>
    BY <1>3 DEF SetPricesWrites, Ends, billVars
  <2>4. price' \in Nat /\ unpriced' \in BOOLEAN /\ queued' \in Queued \cup {NONE}
    <3>1. CASE r.from = NONE
      BY <1>3, <2>2, <3>1 DEF SetPricesWrites, Live, TypeOK, TablesTypeOK
    <3>2. CASE r.from # NONE
      <4>1. queued' = [price |-> r.price, from |-> r.from, asked |-> r.asked] /\ r.from \in Nat
            /\ UNCHANGED <<price, unpriced>>
        BY <1>3, <2>2, <3>2 DEF SetPricesWrites
      <4>2. QED
        BY <2>2, <4>1 DEF Queued, TypeOK, TablesTypeOK
    <3>3. QED
      BY <3>1, <3>2
  <2>5. TypeOK'
    BY <2>3, <2>4 DEF TypeOK, TablesTypeOK
  <2>6. Grounded'
    BY <2>3 DEF Grounded, At
  <2>7. QED
    BY <2>5, <2>6
<1>4. CASE CancelPendingPrices \/ promotePendingPrices
  <2>1. UNCHANGED <<day, log, invoice, open, settled, raced, running>>
    BY <1>4 DEF CancelPendingPrices, promotePendingPrices, billVars
  <2>2. queued \in Queued /\ queued.price \in Nat
    BY <1>4 DEF CancelPendingPrices, promotePendingPrices, Queued, TypeOK, TablesTypeOK
  <2>3. price' \in Nat /\ unpriced' \in BOOLEAN /\ queued' = NONE /\ requests' \in 0..LastRequest
    <3>1. CASE CancelPendingPrices
      BY <3>1, ChargesAssumption DEF CancelPendingPrices, Request, TypeOK, TablesTypeOK
    <3>2. CASE promotePendingPrices
      BY <2>2, <3>2 DEF promotePendingPrices, Live, TypeOK, TablesTypeOK
    <3>3. QED
      BY <1>4, <3>1, <3>2
  <2>4. TypeOK'
    BY <2>1, <2>3 DEF TypeOK, TablesTypeOK
  <2>5. Grounded'
    BY <2>1 DEF Grounded, At
  <2>6. QED
    BY <2>4, <2>5
<1>5. QED
  BY <1>2, <1>3, <1>4 DEF PriceStep

LEMMA RowType ==
    ASSUME TypeInv, RowStep
    PROVE  TypeInv'
<1> USE DEF TypeInv
<1>1. /\ day \in Nat /\ price \in Nat /\ running \subseteq Handler /\ log \in Row \cup {NONE}
      /\ requests \in 0..LastRequest
  BY DEF TypeOK, TablesTypeOK
(* A step that writes the row, and at most ends a handler. *)
<1>2. ASSUME log' \in Row, running' \subseteq running, UNCHANGED rowOthers,
             requests' = requests \/ Request
      PROVE  TypeInv'
  <2>1. log' # NONE
    BY <1>2, NullAssumption
  <2>2. UNCHANGED <<day, price, queued, unpriced, invoice, open, settled, raced>>
    BY <1>2 DEF rowOthers, priceVars, billVars
  <2>3. requests' \in 0..LastRequest
    BY <1>1, <1>2, ChargesAssumption, NullAssumption DEF Request
  <2>4. TypeOK'
    BY <1>2, <2>2, <2>3 DEF TypeOK, TablesTypeOK
  <2>5. Grounded'
    BY <1>2, <2>1, <2>2 DEF Grounded, At
  <2>6. QED
    BY <2>4, <2>5
<1>3. CASE LockManifest
  <2>1. log' \in Row /\ running' = running /\ requests' = requests /\ UNCHANGED rowOthers
    BY <1>3 DEF LockManifest, Row, RowStatus
  <2>2. QED
    BY <1>2, <2>1
<1>4. ASSUME NEW status \in RowStatus, NEW q \in Quantity, AdminUpsert(status, q)
      PROVE  TypeInv'
  <2> DEFINE h == [op |-> "upsert", status |-> status, qty |-> q, unit |-> price]
  <2>1. h \in Handler /\ h.op = "upsert" /\ Starts(h)
    BY <1>1, <1>4, ChargesAssumption, NullAssumption DEF Handler, AdminUpsert
  <2> HIDE DEF h
  <2>2. UNCHANGED <<day, priceVars, log, billVars>>
    BY <1>4 DEF AdminUpsert, rowOthers
  <2>3. QED
    BY <1>4, <2>1, <2>2, StartType DEF AdminUpsert
<1>5. ASSUME NEW status \in RowStatus, NEW q \in Quantity, NEW flagged \in BOOLEAN,
             LogDelivery(status, q, flagged)
      PROVE  TypeInv'
  <2> DEFINE h == [op |-> "report", status |-> status, qty |-> IF status = "DELIVERED" THEN q ELSE 0,
                   unit |-> price, flagged |-> flagged]
  <2>1. h \in Handler /\ h.op = "report" /\ Starts(h)
    BY <1>1, <1>5, ChargesAssumption, NullAssumption DEF Handler, LogDelivery
  <2> HIDE DEF h
  <2>2. UNCHANGED <<day, priceVars, log, billVars>>
    BY <1>5 DEF LogDelivery, rowOthers
  <2>3. QED
    BY <1>5, <2>1, <2>2, StartType DEF LogDelivery
<1>6. ASSUME NEW status \in RowStatus, NEW q \in Quantity, NEW flagged \in BOOLEAN,
             Update(status, q, flagged)
      PROVE  TypeInv'
  <2>1. log' \in Row
    BY <1>1, <1>6, ChargesAssumption, NullAssumption DEF Update, Row
  <2>2. QED
    BY <1>2, <1>6, <2>1 DEF Update
<1>7. CASE ListReportable
  <2> DEFINE h == [op |-> "issue"]
  <2>1. h \in Handler /\ h.op = "issue" /\ Starts(h)
    BY <1>7 DEF Handler, ListReportable
  <2> HIDE DEF h
  <2>2. UNCHANGED <<day, priceVars, log, billVars>> /\ log # NONE
    BY <1>7 DEF ListReportable, rowOthers
  <2>3. QED
    BY <1>7, <2>1, <2>2, StartType DEF ListReportable
<1>8. ASSUME NEW q \in Quantity \cup {0, NONE}, Resolve(q)
      PROVE  TypeInv'
  <2> DEFINE h == [op |-> "resolve", qty |-> q, row |-> log]
  <2>1. log \in Row
    BY <1>1, <1>8 DEF Resolve
  <2>2. h.op = "resolve" /\ Starts(h)
    BY <1>8 DEF Resolve
  <2>3. h \in Handler
    <3>1. q \in Nat \cup {NONE}
      BY ChargesAssumption
    <3>2. h \in [op : {"resolve"}, qty : Nat \cup {NONE}, row : Row]
      BY <2>1, <3>1
    <3>3. QED
      BY <3>2 DEF Handler
  <2> HIDE DEF h
  <2>4. UNCHANGED <<day, priceVars, log, billVars>> /\ log # NONE
    BY <1>8 DEF Resolve, rowOthers
  <2>5. QED
    BY <1>8, <2>2, <2>3, <2>4, StartType DEF Resolve
<1>9. ASSUME NEW r \in running,
             \/ LogDeliveryWrites(r) \/ AdminUpsertWrites(r)
             \/ SubmitIssue(r) \/ ResolveWrites(r)
      PROVE  TypeInv'
  <2>1. log' \in Row
    <3>1. CASE LogDeliveryWrites(r)
      BY <1>1, <3>1, HandlerShape DEF LogDeliveryWrites, Row
    <3>2. CASE AdminUpsertWrites(r)
      BY <1>1, <3>2, HandlerShape DEF AdminUpsertWrites, Row
    <3>3. CASE SubmitIssue(r)
      BY <1>1, <3>3 DEF SubmitIssue, Row, Grounded, At
    <3>4. CASE ResolveWrites(r)
      <4>1. log \in Row /\ r.qty \in Nat \cup {NONE}
        BY <1>1, <3>4, HandlerShape DEF ResolveWrites, Grounded, At
      <4>2. QED
        BY <3>4, <4>1 DEF ResolveWrites, Row
    <3>5. QED
      BY <1>9, <3>1, <3>2, <3>3, <3>4
  <2>2. running' \subseteq running /\ UNCHANGED <<rowOthers, requests>>
    BY <1>9 DEF LogDeliveryWrites, AdminUpsertWrites, SubmitIssue, ResolveWrites, Ends
  <2>3. QED
    BY <1>2, <2>1, <2>2
<1>10. QED
  BY <1>3, <1>4, <1>5, <1>6, <1>7, <1>8, <1>9 DEF RowStep

(* A step that writes the invoice or the links, and at most ends a handler *)
(* or takes its next statement. *)
LEMMA BillWriteType ==
    ASSUME TypeInv, running' \subseteq Handler,
           \A h \in running' \ running : h.op \in {"save", "settle"} /\ invoice # NONE,
           UNCHANGED billOthers, invoice' \in Invoice \/ invoice' = invoice,
           open' \subseteq Nat, raced' \in BOOLEAN,
           settled' = NONE \/ settled' \in [amount : Nat, outcome : {"APPLIED", "AMOUNT_MISMATCH"}],
           open' # {} \/ settled' # NONE => invoice # NONE \/ invoice' # NONE,
           requests' = requests \/ Request
    PROVE  TypeInv'
<1>1. UNCHANGED <<day, price, queued, unpriced, log>>
  BY DEF billOthers, priceVars
<1>2. invoice' \in Invoice \cup {NONE} /\ (invoice # NONE => invoice' # NONE)
  BY NullAssumption DEF TypeInv, TypeOK, TablesTypeOK
<1>3. requests' \in 0..LastRequest
  BY ChargesAssumption DEF Request, TypeInv, TypeOK, TablesTypeOK
<1>4. TypeOK'
  BY <1>1, <1>2, <1>3 DEF TypeInv, TypeOK, TablesTypeOK
<1>5. Grounded'
  BY <1>1, <1>2 DEF TypeInv, Grounded, At
<1>6. QED
  BY <1>4, <1>5 DEF TypeInv

LEMMA BillType ==
    ASSUME TypeInv, BillStep
    PROVE  TypeInv'
<1> USE DEF TypeInv
<1>1. /\ running \subseteq Handler /\ log \in Row \cup {NONE} /\ invoice \in Invoice \cup {NONE}
      /\ open \subseteq Nat /\ raced \in BOOLEAN
      /\ settled = NONE \/ settled \in [amount : Nat, outcome : {"APPLIED", "AMOUNT_MISMATCH"}]
      /\ invoice # NONE => invoice.total \in Nat /\ invoice.link \in Nat \cup {NONE}
      /\ open # {} \/ settled # NONE => invoice # NONE
  BY DEF TypeOK, TablesTypeOK, Invoice, Grounded
<1>2. ASSUME NEW op \in {"generate", "regenerate"}, log # NONE,
             op = "regenerate" => invoice # NONE,
             Request, Starts([op |-> op, total |-> Worth(log)]), UNCHANGED <<billOthers, billVars>>
      PROVE  TypeInv'
  <2> DEFINE h == [op |-> op, total |-> Worth(log)]
  <2>1. Worth(log) \in Nat
    BY <1>1, <1>2, WorthType
  <2>2. h \in Handler /\ h.op = op /\ Starts(h)
    BY <1>2, <2>1 DEF Handler
  <2> HIDE DEF h
  <2>3. UNCHANGED <<day, priceVars, log, billVars>>
    BY <1>2 DEF billOthers
  <2>4. QED
    BY <1>2, <2>2, <2>3, StartType
<1>3. CASE Generate \/ RegenerateInvoice
  BY <1>2, <1>3 DEF Generate, RegenerateInvoice
<1>4. ASSUME NEW status \in InvoiceStatus, MarkPaid(status)
      PROVE  TypeInv'
  <2>1. invoice # NONE /\ invoice' \in Invoice
    BY <1>1, <1>4 DEF MarkPaid, Invoice
  <2>2. open' \subseteq open /\ running' = running /\ settled' = NONE /\ UNCHANGED billOthers /\ Request
    BY <1>4 DEF MarkPaid
  <2>3. raced' \in BOOLEAN
    BY <1>1, <1>4 DEF MarkPaid
  <2>4. QED
    BY <1>1, <2>1, <2>2, <2>3, BillWriteType
<1>5. CASE CreateLinkForInvoice
  <2> DEFINE h == [op |-> "reissue", total |-> invoice.total, old |-> invoice.link]
  <2>1. h.op = "reissue" /\ Starts(h) /\ invoice # NONE /\ Request
    BY <1>5 DEF CreateLinkForInvoice
  <2>2. h \in Handler
    BY <1>1, <2>1 DEF Handler
  <2> HIDE DEF h
  <2>3. UNCHANGED <<day, priceVars, log, billVars>>
    BY <1>5 DEF CreateLinkForInvoice, billOthers
  <2>4. QED
    BY <2>1, <2>2, <2>3, StartType
<1>6. ASSUME NEW a \in open, Pay(a)
      PROVE  TypeInv'
  <2> DEFINE h == [op |-> "paid", total |-> a]
  <2>1. h \in Handler /\ h.op = "paid" /\ running' = running \cup {h} /\ invoice # NONE
    BY <1>1, <1>6 DEF Pay, Starts, Handler
  <2> HIDE DEF h
  <2>2. open' \subseteq Nat /\ UNCHANGED <<day, price, queued, unpriced, log, invoice, settled, raced>>
    BY <1>1, <1>6 DEF Pay, billOthers, priceVars
  <2>3. requests' \in 0..LastRequest
    BY <1>6, ChargesAssumption DEF Pay, Request, TypeOK, TablesTypeOK
  <2>4. TypeOK'
    BY <2>1, <2>2, <2>3 DEF TypeOK, TablesTypeOK
  <2>5. Grounded'
    BY <2>1, <2>2 DEF Grounded, At
  <2>6. QED
    BY <2>4, <2>5
<1>7. ASSUME NEW r \in running, GenerateWrites(r)
      PROVE  TypeInv'
  <2>1. r \in Handler /\ r.total \in Nat
    BY <1>1, <1>7, HandlerShape DEF GenerateWrites
  <2>2. invoice' \in Invoice \/ invoice' = invoice
    BY <1>7, <2>1 DEF GenerateWrites, Invoice, InvoiceStatus
  <2>3. running' \subseteq running /\ UNCHANGED <<billOthers, open, settled, raced, requests>>
    BY <1>7 DEF GenerateWrites, Ends
  <2>4. QED
    BY <1>1, <2>2, <2>3, BillWriteType
<1>8. ASSUME NEW r \in running, RegenerateInvoiceWrites(r)
      PROVE  TypeInv'
  <2>1. r \in Handler /\ r.total \in Nat /\ invoice # NONE
    BY <1>1, <1>8, HandlerShape DEF RegenerateInvoiceWrites, Grounded, At
  <2>2. invoice' \in Invoice
    BY <1>1, <1>8, <2>1 DEF RegenerateInvoiceWrites, Invoice
  <2>3. running' \subseteq running /\ UNCHANGED <<billOthers, open, settled, requests>>
    BY <1>8 DEF RegenerateInvoiceWrites, Ends
  <2>4. raced' \in BOOLEAN
    BY <1>1, <1>8 DEF RegenerateInvoiceWrites
  <2>5. QED
    BY <1>1, <2>1, <2>2, <2>3, <2>4, BillWriteType
<1>9. ASSUME NEW r \in running, CreateLink(r)
      PROVE  TypeInv'
  <2> DEFINE h == [op |-> "save", total |-> r.total]
  <2>1. r \in Handler /\ r.total \in Nat /\ invoice # NONE
    BY <1>1, <1>9, HandlerShape DEF CreateLink, Grounded, At
  <2>2. h \in Handler /\ h.op = "save"
    BY <2>1 DEF Handler
  <2>3. running' \subseteq running \cup {h} /\ UNCHANGED <<billOthers, invoice, settled, raced, requests>>
    BY <1>9 DEF CreateLink, Ends
  <2>4. open' \subseteq Nat
    BY <1>1, <1>9, <2>1 DEF CreateLink
  <2> HIDE DEF h
  <2>5. QED
    BY <1>1, <2>1, <2>2, <2>3, <2>4, BillWriteType
<1>10. ASSUME NEW r \in running, SaveLink(r)
       PROVE  TypeInv'
  <2>1. r \in Handler /\ r.total \in Nat /\ invoice # NONE
    BY <1>1, <1>10, HandlerShape DEF SaveLink, Grounded, At
  <2>2. invoice' \in Invoice \/ invoice' = invoice
    BY <1>1, <1>10, <2>1 DEF SaveLink, Invoice
  <2>3. running' \subseteq running /\ UNCHANGED <<billOthers, open, settled, raced, requests>>
    BY <1>10 DEF SaveLink, Ends
  <2>4. QED
    BY <1>1, <2>1, <2>2, <2>3, BillWriteType
<1>11. ASSUME NEW r \in running, process(r)
       PROVE  TypeInv'
  <2> DEFINE h == [op |-> "settle", total |-> r.total,
                   outcome |-> IF r.total = invoice.total THEN "APPLIED" ELSE "AMOUNT_MISMATCH"]
  <2>1. r \in Handler /\ r.total \in Nat /\ invoice # NONE
    BY <1>1, <1>11, HandlerShape DEF process, Grounded, At
  <2>2. h \in Handler /\ h.op = "settle"
    BY <2>1 DEF Handler
  <2>3. running' \subseteq running \cup {h} /\ UNCHANGED <<billOthers, billVars, requests>>
    BY <1>11 DEF process, Ends
  <2> HIDE DEF h
  <2>4. UNCHANGED <<invoice, open, settled, raced>>
    BY <2>3 DEF billVars
  <2>5. QED
    BY <1>1, <2>1, <2>2, <2>3, <2>4, BillWriteType
<1>12. ASSUME NEW r \in running, processWrites(r)
       PROVE  TypeInv'
  <2>1. /\ r \in Handler /\ r.total \in Nat /\ r.outcome \in {"APPLIED", "AMOUNT_MISMATCH"}
        /\ invoice \in Invoice /\ invoice # NONE
    BY <1>1, <1>12, HandlerShape DEF processWrites, Grounded, At
  <2>2. running' \subseteq running /\ UNCHANGED <<billOthers, requests>> /\ open' = open
    BY <1>12 DEF processWrites, Ends, billVars
  <2>3. CASE Paid(invoice)
    BY <1>1, <1>12, <2>1, <2>2, <2>3, BillWriteType DEF processWrites, billVars
  <2>4. CASE ~Paid(invoice)
    <3>1. invoice' \in Invoice
      BY <1>12, <2>1, <2>4 DEF processWrites, Invoice, InvoiceStatus
    <3>2. settled' \in [amount : Nat, outcome : {"APPLIED", "AMOUNT_MISMATCH"}]
      BY <1>12, <2>1, <2>4 DEF processWrites
    <3>3. raced' \in BOOLEAN
      BY <1>1, <1>12, <2>4 DEF processWrites
    <3>4. QED
      BY <1>1, <2>1, <2>2, <3>1, <3>2, <3>3, BillWriteType
  <2>5. QED
    BY <2>3, <2>4
<1>13. QED
  BY <1>3, <1>4, <1>5, <1>6, <1>7, <1>8, <1>9, <1>10, <1>11, <1>12 DEF BillStep

LEMMA TypeStep ==
    ASSUME TypeInv, [Next]_chargeVars
    PROVE  TypeInv'
<1> USE DEF TypeInv
<1>1. CASE UNCHANGED chargeVars
  <2>1. UNCHANGED <<day, price, queued, unpriced, log, invoice, open, settled, raced, running, requests>>
    BY <1>1 DEF chargeVars, priceVars, billVars
  <2>2. QED
    BY <2>1 DEF TypeOK, TablesTypeOK, Grounded, At
<1>2. CASE Tick \/ Crash
  <2>1. /\ UNCHANGED <<price, queued, unpriced, log, invoice, open, settled, raced, requests>>
        /\ running' \subseteq running
    BY <1>2 DEF Tick, Crash, priceVars, billVars
  <2>2. day' \in 0..LastDay
    BY <1>2, ChargesAssumption DEF Tick, Crash, TypeOK, TablesTypeOK
  <2>3. QED
    BY <2>1, <2>2 DEF TypeOK, TablesTypeOK, Grounded, At
<1>3. QED
  BY <1>1, <1>2, PriceType, RowType, BillType DEF Next

LEMMA TypeInvariant == Spec => []TypeInv
<1>1. TypeInv /\ [Next]_chargeVars => TypeInv'
  BY TypeStep
<1>2. QED
  BY <1>1, TypeStart, PTL DEF Spec

(* Prices, rows, invoices and handlers keep their shape. *)
THEOREM ChargeTypeCorrect == Spec => []TypeOK
<1>1. TypeInv => TypeOK
  BY DEF TypeInv
<1>2. QED
  BY <1>1, TypeInvariant, PTL

-----------------------------------------------------------------------------
(* What a step of each part leaves alone, and the handlers it may start. *)
LEMMA RowFrame ==
    ASSUME RowStep
    PROVE  /\ UNCHANGED <<priceVars, billVars>>
           /\ \A r \in running' \ running : r.op \in {"report", "upsert", "issue", "resolve"}
<1> DEFINE Goal == /\ UNCHANGED <<priceVars, billVars>>
                   /\ \A r \in running' \ running : r.op \in {"report", "upsert", "issue", "resolve"}
<1>1. ASSUME NEW status, NEW q, AdminUpsert(status, q)
      PROVE  Goal
  BY <1>1 DEF AdminUpsert, Starts, rowOthers
<1>2. ASSUME NEW status, NEW q, NEW flagged, LogDelivery(status, q, flagged)
      PROVE  Goal
  BY <1>2 DEF LogDelivery, Starts, rowOthers
<1>3. ASSUME NEW q, Resolve(q)
      PROVE  Goal
  BY <1>3 DEF Resolve, Starts, rowOthers
<1>4. ASSUME ListReportable
      PROVE  Goal
  BY <1>4 DEF ListReportable, Starts, rowOthers
<1>5. ASSUME NEW status, NEW q, NEW flagged, Update(status, q, flagged)
      PROVE  Goal
  BY <1>5 DEF Update, rowOthers
<1>6. ASSUME NEW r \in running,
             \/ LogDeliveryWrites(r) \/ AdminUpsertWrites(r)
             \/ SubmitIssue(r) \/ ResolveWrites(r)
      PROVE  Goal
  BY <1>6 DEF LogDeliveryWrites, AdminUpsertWrites, SubmitIssue, ResolveWrites, Ends, rowOthers
<1>7. ASSUME LockManifest
      PROVE  Goal
  BY <1>7 DEF LockManifest, rowOthers
<1> HIDE DEF Goal
<1>8. Goal
  BY <1>1, <1>2, <1>3, <1>4, <1>5, <1>6, <1>7 DEF RowStep
<1>9. QED
  BY <1>8 DEF Goal

LEMMA BillFrame ==
    ASSUME BillStep
    PROVE  /\ UNCHANGED <<day, priceVars, log>>
           /\ \A r \in running' \ running : r.op \notin {"prices", "report", "upsert", "issue", "resolve"}
<1>1. UNCHANGED billOthers
  BY DEF BillStep, Generate, RegenerateInvoice, MarkPaid, CreateLinkForInvoice, Pay, GenerateWrites,
     RegenerateInvoiceWrites, CreateLink, SaveLink, process, processWrites
<1> DEFINE Goal == \A r \in running' \ running :
                      r.op \notin {"prices", "report", "upsert", "issue", "resolve"}
<1>2. ASSUME Generate \/ RegenerateInvoice
      PROVE  Goal
  BY <1>2 DEF Generate, RegenerateInvoice, Starts
<1>3. ASSUME CreateLinkForInvoice
      PROVE  Goal
  BY <1>3 DEF CreateLinkForInvoice, Starts
<1>4. ASSUME NEW a \in open, Pay(a)
      PROVE  Goal
  BY <1>4 DEF Pay, Starts
<1>5. ASSUME \E status \in InvoiceStatus : MarkPaid(status)
      PROVE  Goal
  BY <1>5 DEF MarkPaid
<1>6. ASSUME NEW h \in running,
             GenerateWrites(h) \/ RegenerateInvoiceWrites(h) \/ SaveLink(h) \/ processWrites(h)
      PROVE  Goal
  BY <1>6 DEF GenerateWrites, RegenerateInvoiceWrites, SaveLink, processWrites, Ends
<1>7. ASSUME NEW h \in running, CreateLink(h) \/ process(h)
      PROVE  Goal
  <2>1. \A r \in running' \ running : r.op \in {"save", "settle"}
    BY <1>7 DEF CreateLink, process, Ends
  <2>2. QED
    BY <2>1
<1> HIDE DEF Goal
<1>8. Goal
  BY <1>2, <1>3, <1>4, <1>5, <1>6, <1>7 DEF BillStep, Goal
<1>9. QED
  BY <1>1, <1>8 DEF Goal, billOthers

-----------------------------------------------------------------------------
(* Prices.                                                                 *)

(* On a route that was never without a price, every price read is one. *)
Priced ==
    /\ unpriced \/ price > 0
    /\ \A r \in At("report") \cup At("upsert") : unpriced \/ r.unit > 0
    /\ log # NONE => unpriced \/ log.source = "lock" \/ log.unit > 0

LEMMA PricedStep ==
    ASSUME TypeInv, Priced, [Next]_chargeVars
    PROVE  Priced'
<1> USE DEF Priced
<1>1. price \in Nat /\ running \subseteq Handler /\ log \in Row \cup {NONE}
  BY DEF TypeInv, TypeOK, TablesTypeOK
(* A step that prices the route. *)
<1>2. ASSUME NEW v \in Nat, Live(v), running' \subseteq running, log' = log
      PROVE  Priced'
  <2>1. (unpriced => unpriced') /\ (unpriced' \/ price' > 0)
    <3>1. CASE v = 0
      BY <1>2, <3>1 DEF Live
    <3>2. CASE v > 0
      <4>1. price' > 0
        BY <1>2, <3>2 DEF Live
      <4>2. unpriced => unpriced'
        BY <1>2 DEF Live
      <4>3. QED
        BY <4>1, <4>2
    <3>3. QED
      BY <3>1, <3>2
  <2>2. QED
    BY <1>2, <2>1 DEF At
(* A step that leaves the row, and starts at most another handler. *)
<1>3. ASSUME UNCHANGED <<price, unpriced, log>>,
             \A r \in running' \ running : r.op \notin {"report", "upsert"}
      PROVE  Priced'
  BY <1>3 DEF At
(* A step that writes the row. *)
<1>4. ASSUME UNCHANGED <<price, unpriced>>, running' \subseteq running, log' # NONE,
             unpriced \/ log'.source = "lock" \/ log'.unit > 0
      PROVE  Priced'
  BY <1>4 DEF At
<1>5. CASE PriceStep
  <2>1. ASSUME NEW v \in Price, SetPrices(v)
        PROVE  Priced'
    BY <1>3, <2>1 DEF SetPrices, Starts, priceVars
  <2>2. ASSUME NEW r \in running, SetPricesWrites(r)
        PROVE  Priced'
    <3>1. r.price \in Nat
      BY <1>1, <2>2, HandlerShape DEF SetPricesWrites
    <3>2. CASE Live(r.price)
      BY <1>2, <2>2, <3>1, <3>2 DEF SetPricesWrites, Ends
    <3>3. CASE UNCHANGED <<price, unpriced>>
      BY <1>3, <2>2, <3>3 DEF SetPricesWrites, Ends
    <3>4. QED
      BY <2>2, <3>2, <3>3 DEF SetPricesWrites
  <2>3. CASE CancelPendingPrices
    BY <1>3, <2>3 DEF CancelPendingPrices
  <2>4. CASE promotePendingPrices
    <3>1. queued.price \in Nat
      BY <2>4 DEF promotePendingPrices, TypeInv, TypeOK, TablesTypeOK, Queued
    <3>2. QED
      BY <1>2, <2>4, <3>1 DEF promotePendingPrices
  <2>5. QED
    BY <1>5, <2>1, <2>2, <2>3, <2>4 DEF PriceStep
<1>6. CASE RowStep
  <2>1. CASE LockManifest
    <3>1. log' \in Row /\ log'.source = "lock"
      BY <2>1 DEF LockManifest, Row, RowStatus
    <3>2. QED
      BY <1>4, <2>1, <3>1, NullAssumption DEF LockManifest, rowOthers, priceVars
  <2>2. ASSUME NEW status, NEW q, AdminUpsert(status, q)
        PROVE  Priced'
    <3>1. UNCHANGED <<price, unpriced, log>>
      BY <2>2 DEF AdminUpsert, rowOthers, priceVars
    <3>2. \A r \in running' : r \in running \/ r.unit = price
      BY <2>2 DEF AdminUpsert, Starts
    <3>3. QED
      BY <3>1, <3>2 DEF At
  <2>3. ASSUME NEW status, NEW q, NEW flagged, LogDelivery(status, q, flagged)
        PROVE  Priced'
    <3>1. UNCHANGED <<price, unpriced, log>>
      BY <2>3 DEF LogDelivery, rowOthers, priceVars
    <3>2. \A r \in running' : r \in running \/ r.unit = price
      BY <2>3 DEF LogDelivery, Starts
    <3>3. QED
      BY <3>1, <3>2 DEF At
  <2>4. ASSUME NEW status \in RowStatus, NEW q \in Quantity, NEW flagged \in BOOLEAN,
               Update(status, q, flagged)
        PROVE  Priced'
    <3>1. log' \in Row /\ log'.source = log.source /\ log'.unit = log.unit /\ log # NONE
      BY <1>1, <2>4, ChargesAssumption DEF Update, Row
    <3>2. QED
      BY <1>4, <2>4, <3>1, NullAssumption DEF Update, rowOthers, priceVars
  <2>5. CASE ListReportable
    BY <1>3, <2>5 DEF ListReportable, Starts, rowOthers, priceVars
  <2>6. ASSUME NEW q, Resolve(q)
        PROVE  Priced'
    BY <1>3, <2>6 DEF Resolve, Starts, rowOthers, priceVars
  <2>7. ASSUME NEW r \in running, LogDeliveryWrites(r)
        PROVE  Priced'
    <3>1. log' \in Row /\ log'.unit = r.unit /\ r.op = "report"
      BY <1>1, <2>7, HandlerShape DEF LogDeliveryWrites, Row
    <3>2. QED
      BY <1>4, <2>7, <3>1, NullAssumption DEF LogDeliveryWrites, Ends, At, rowOthers, priceVars
  <2>8. ASSUME NEW r \in running, AdminUpsertWrites(r)
        PROVE  Priced'
    <3>1. r.op = "upsert" /\ log' \in Row
      BY <1>1, <2>8, HandlerShape DEF AdminUpsertWrites, Row
    <3>2. CASE log = NONE
      <4>1. log'.unit = r.unit
        BY <2>8, <3>2 DEF AdminUpsertWrites
      <4>2. QED
        BY <1>4, <2>8, <3>1, <4>1, NullAssumption DEF AdminUpsertWrites, Ends, At, rowOthers, priceVars
    <3>3. CASE log # NONE
      <4>1. log'.unit = log.unit /\ log'.source = log.source
        BY <1>1, <2>8, <3>3 DEF AdminUpsertWrites, Row
      <4>2. QED
        BY <1>4, <2>8, <3>1, <3>3, <4>1, NullAssumption DEF AdminUpsertWrites, Ends, rowOthers, priceVars
    <3>4. QED
      BY <3>2, <3>3
  <2>9. ASSUME NEW r \in running, SubmitIssue(r) \/ ResolveWrites(r)
        PROVE  Priced'
    <3>1. log \in Row /\ log # NONE
      BY <1>1, <2>9 DEF SubmitIssue, ResolveWrites, TypeInv, Grounded, At
    <3>2. r.op = "resolve" => r.qty \in Nat \cup {NONE}
      BY <1>1, <2>9, HandlerShape
    <3>3. log' \in Row /\ log'.unit = log.unit /\ log'.source = log.source
      <4>1. CASE SubmitIssue(r)
        BY <3>1, <4>1 DEF SubmitIssue, Row
      <4>2. CASE ResolveWrites(r)
        BY <3>1, <3>2, <4>2 DEF ResolveWrites, Row
      <4>3. QED
        BY <2>9, <4>1, <4>2
    <3>4. QED
      BY <1>4, <2>9, <3>1, <3>3, NullAssumption DEF SubmitIssue, ResolveWrites, Ends, rowOthers, priceVars
  <2>10. QED
    BY <1>6, <2>1, <2>2, <2>3, <2>4, <2>5, <2>6, <2>7, <2>8, <2>9 DEF RowStep
<1>7. CASE BillStep
  <2>1. /\ UNCHANGED <<price, unpriced, log>>
        /\ \A r \in running' \ running : r.op \notin {"report", "upsert"}
    BY <1>7, BillFrame DEF priceVars
  <2>2. QED
    BY <1>3, <2>1
<1>8. CASE Tick \/ Crash \/ UNCHANGED chargeVars
  BY <1>3, <1>8 DEF Tick, Crash, chargeVars, priceVars
<1>9. QED
  BY <1>5, <1>6, <1>7, <1>8 DEF Next

(* On a route that always had a price, a delivery is charged for, unless   *)
(* its row was inserted by locking the round and no report reached it      *)
(* (LogDelivery, AdminUpsert, SetPrices). *)
THEOREM DeliveriesCharged == Spec => []ChargedAtAPrice
<1>1. Init /\ TypeInv => Priced
  <2>1. ASSUME Init, TypeInv
        PROVE  Priced
    <3>1. price \in Nat /\ running = {} /\ (log # NONE => log.unit = price)
      BY <2>1 DEF Init, TablesInit, TypeInv, TypeOK, TablesTypeOK
    <3>2. unpriced \/ price > 0
      <4>1. price = 0 => unpriced
        BY <2>1 DEF Init, TablesInit
      <4>2. QED
        BY <3>1, <4>1
    <3>3. QED
      BY <3>1, <3>2 DEF Priced, At
  <2>2. QED
    BY <2>1
<1>2. TypeInv /\ Priced /\ [Next]_chargeVars => Priced'
  BY PricedStep
<1>3. TypeInv /\ Priced => ChargedAtAPrice
  BY DEF TypeInv, TypeOK, TablesTypeOK, Row, Priced, ChargedAtAPrice
<1>4. QED
  BY <1>1, <1>2, <1>3, TypeInvariant, TypeStart, PTL DEF Spec

(* What is queued, or about to be, is for the month after the request. *)
Dated ==
    /\ \A r \in At("prices") : r.from # NONE => r.from = (r.asked + 1) * MonthLength
    /\ queued # NONE => queued.from = (queued.asked + 1) * MonthLength

LEMMA DatedStep ==
    ASSUME TypeInv, Dated, [Next]_chargeVars
    PROVE  Dated'
<1> USE DEF Dated
<1>1. ASSUME queued' = queued, \A r \in running' \ running : r.op # "prices"
      PROVE  Dated'
  BY <1>1 DEF At
<1>2. ASSUME NEW v \in Price, SetPrices(v)
      PROVE  Dated'
  <2> DEFINE h == [op |-> "prices", price |-> v, asked |-> Month(day),
                   from |-> IF price = 0 THEN NONE ELSE NextMonth(day)]
  <2>1. running' = running \cup {h} /\ queued' = queued
    BY <1>2 DEF SetPrices, Starts, priceVars
  <2>2. h.from # NONE => h.from = (h.asked + 1) * MonthLength
    BY DEF NextMonth
  <2> HIDE DEF h
  <2>3. QED
    BY <2>1, <2>2 DEF At
<1>3. ASSUME NEW r \in running, SetPricesWrites(r)
      PROVE  Dated'
  <2>1. CASE queued' = NONE
    BY <1>3, <2>1 DEF SetPricesWrites, Ends, At
  <2>2. CASE r.from # NONE /\ queued' = [price |-> r.price, from |-> r.from, asked |-> r.asked]
    <3>1. queued'.from = r.from /\ queued'.asked = r.asked
      BY <2>2
    <3>2. QED
      BY <1>3, <2>2, <3>1 DEF SetPricesWrites, Ends, At
  <2>3. QED
    BY <1>3, <2>1, <2>2 DEF SetPricesWrites
<1>4. CASE CancelPendingPrices \/ promotePendingPrices
  BY <1>4 DEF CancelPendingPrices, promotePendingPrices, At
<1>5. CASE RowStep
  <2>1. UNCHANGED priceVars /\ \A r \in running' \ running : r.op # "prices"
    BY <1>5, RowFrame
  <2>2. QED
    BY <1>1, <2>1 DEF priceVars
<1>6. CASE BillStep
  BY <1>1, <1>6, BillFrame DEF priceVars
<1>7. CASE Tick \/ Crash \/ UNCHANGED chargeVars
  BY <1>1, <1>7 DEF Tick, Crash, chargeVars, priceVars
<1>8. QED
  BY <1>2, <1>3, <1>4, <1>5, <1>6, <1>7 DEF Next, PriceStep

LEMMA PriceMoves ==
    ASSUME TypeInv, Dated, [Next]_chargeVars, price' # price, price # 0
    PROVE  \/ queued # NONE /\ price' = queued.price /\ queued.asked < Month(day)
           \/ \E r \in At("prices") : r.from = NONE /\ price' = r.price
<1>1. ASSUME NEW r \in running, SetPricesWrites(r)
      PROVE  \E h \in At("prices") : h.from = NONE /\ price' = h.price
  BY <1>1 DEF SetPricesWrites, Live, At
<1>2. CASE promotePendingPrices
  <2>1. /\ queued # NONE /\ price' = queued.price /\ queued.from <= day
        /\ day \in Nat /\ queued.asked \in Nat
    BY <1>2 DEF promotePendingPrices, Live, TypeInv, TypeOK, TablesTypeOK, Queued
  <2>2. QED
    BY <2>1, LaterMonth DEF Dated
<1>3. CASE \/ \E v \in Price : SetPrices(v)
           \/ CancelPendingPrices \/ Tick \/ Crash \/ UNCHANGED chargeVars
  BY <1>3 DEF SetPrices, CancelPendingPrices, Tick, Crash, chargeVars, priceVars
<1>4. CASE RowStep \/ BillStep
  BY <1>4, RowFrame, BillFrame DEF priceVars
<1>5. QED
  BY <1>1, <1>2, <1>3, <1>4 DEF Next, PriceStep

(* The price of a priced route moves only by a promotion in a later month  *)
(* than the request's, or by a request that read the route unpriced        *)
(* (SetPrices, promotePendingPrices). *)
THEOREM PricesStand == Spec => PricesStandWithinMonth
<1>1. Init => Dated
  BY DEF Init, TablesInit, Dated, At
<1>2. TypeInv /\ Dated /\ [Next]_chargeVars => Dated'
  BY DatedStep
<1>3. TypeInv /\ Dated /\ [Next]_chargeVars =>
        [price' # price =>
           \/ price = 0
           \/ queued # NONE /\ price' = queued.price /\ queued.asked < Month(day)
           \/ \E r \in At("prices") : r.from = NONE /\ price' = r.price]_chargeVars
  BY PriceMoves
<1>4. QED
  BY <1>1, <1>2, <1>3, TypeInvariant, PTL DEF Spec, PricesStandWithinMonth

LEMMA UnitMoves ==
    ASSUME TypeInv, [Next]_chargeVars, log # NONE, log'.unit # log.unit
    PROVE  \E r \in At("report") : r \notin running' /\ log'.unit = r.unit
<1>1. log \in Row
  BY DEF TypeInv, TypeOK, TablesTypeOK
<1>2. CASE PriceStep \/ BillStep \/ Tick \/ Crash \/ UNCHANGED chargeVars
  BY <1>2, BillFrame
     DEF PriceStep, SetPrices, SetPricesWrites, CancelPendingPrices, promotePendingPrices, Tick, Crash, chargeVars
<1>3. CASE RowStep
  <2>1. ASSUME NEW r \in running, LogDeliveryWrites(r)
        PROVE  \E h \in At("report") : h \notin running' /\ log'.unit = h.unit
    BY <2>1 DEF LogDeliveryWrites, Ends, At
  <2>2. ASSUME \/ LockManifest \/ ListReportable
               \/ \E status, q : AdminUpsert(status, q)
               \/ \E status, q, flagged : LogDelivery(status, q, flagged)
               \/ \E q : Resolve(q)
        PROVE  FALSE
    BY <2>2 DEF LockManifest, ListReportable, AdminUpsert, LogDelivery, Resolve
  <2>3. ASSUME \/ \E status, q, flagged : Update(status, q, flagged)
               \/ \E r \in running : AdminUpsertWrites(r) \/ SubmitIssue(r) \/ ResolveWrites(r)
        PROVE  FALSE
    BY <1>1, <2>3 DEF Update, AdminUpsertWrites, SubmitIssue, ResolveWrites, Row
  <2>4. QED
    BY <1>3, <2>1, <2>2, <2>3 DEF RowStep
<1>4. QED
  BY <1>2, <1>3 DEF Next

(* Only a report of the driver gives a row another price                   *)
(* (Update, AdminUpsert, Resolve, RegenerateInvoice). *)
THEOREM CorrectionsKeep == Spec => CorrectionsKeepPrices
<1>1. TypeInv /\ [Next]_chargeVars =>
        [log # NONE /\ log'.unit # log.unit =>
           \E r \in At("report") : r \notin running' /\ log'.unit = r.unit]_chargeVars
  BY UnitMoves
<1>2. QED
  BY <1>1, TypeInvariant, PTL DEF Spec, CorrectionsKeepPrices

-----------------------------------------------------------------------------
(* The bill.                                                               *)

(* A settled bill is paid; a recalculation under way found it unpaid, so   *)
(* either it still is or the two overlapped; and a payment about to be     *)
(* recorded as exact still is. *)
Exact ==
    /\ settled # NONE => Paid(invoice)
    /\ At("regenerate") # {} /\ Paid(invoice) => raced
    /\ \A r \in At("settle") : r.outcome = "APPLIED" => raced \/ r.total = invoice.total
    /\ AppliedIsExact

LEMMA ExactStep ==
    ASSUME TypeInv, Exact, [Next]_chargeVars
    PROVE  Exact'
<1> USE DEF Exact
<1>1. /\ invoice \in Invoice \cup {NONE} /\ (settled # NONE => invoice # NONE)
      /\ \A r \in running : r.op \in {"regenerate", "reissue", "save", "paid", "settle"} => invoice # NONE
      /\ raced \in BOOLEAN
  BY DEF TypeInv, TypeOK, TablesTypeOK, Grounded, At
(* A step that leaves the amount and the status of the bill. *)
<1>2. ASSUME invoice' = invoice \/ (invoice'.total = invoice.total /\ invoice'.status = invoice.status),
             UNCHANGED <<settled, raced>>,
             \A r \in running' \ running : r.op \notin {"regenerate", "settle"}
      PROVE  Exact'
  BY <1>2 DEF At, Paid, AppliedIsExact
<1>3. CASE PriceStep
  <2>1. UNCHANGED billVars /\ \A r \in running' \ running : r.op \notin {"regenerate", "settle"}
    <3>1. CASE \E v \in Price : SetPrices(v)
      BY <3>1 DEF SetPrices, Starts
    <3>2. CASE \/ \E r \in running : SetPricesWrites(r)
               \/ CancelPendingPrices \/ promotePendingPrices
      BY <3>2 DEF SetPricesWrites, CancelPendingPrices, promotePendingPrices, Ends
    <3>3. QED
      BY <1>3, <3>1, <3>2 DEF PriceStep
  <2>2. QED
    BY <1>2, <2>1 DEF billVars
<1>4. CASE RowStep
  <2>1. UNCHANGED billVars /\ \A r \in running' \ running : r.op \notin {"regenerate", "settle"}
    BY <1>4, RowFrame
  <2>2. QED
    BY <1>2, <2>1 DEF billVars
<1>5. CASE Tick \/ Crash \/ UNCHANGED chargeVars
  BY <1>2, <1>5 DEF Tick, Crash, chargeVars, billVars
<1>6. CASE Generate \/ CreateLinkForInvoice
  BY <1>2, <1>6 DEF Generate, CreateLinkForInvoice, Starts, billVars
<1>7. ASSUME NEW a \in open, Pay(a)
      PROVE  Exact'
  BY <1>2, <1>7 DEF Pay, Starts
<1>8. CASE RegenerateInvoice
  <2>1. ~Paid(invoice) /\ UNCHANGED <<invoice, settled, raced>>
    BY <1>8 DEF RegenerateInvoice, billVars
  <2>2. \A r \in running' \ running : r.op = "regenerate"
    BY <1>8 DEF RegenerateInvoice, Starts
  <2>3. QED
    BY <2>1, <2>2 DEF At, AppliedIsExact, Paid
<1>9. ASSUME NEW status \in InvoiceStatus, MarkPaid(status)
      PROVE  Exact'
  <2>1. invoice \in Invoice
    BY <1>1, <1>9 DEF MarkPaid
  <2>2. /\ invoice'.total = invoice.total /\ settled' = NONE /\ running' = running
        /\ (raced => raced') /\ (At("regenerate") # {} => raced')
    BY <1>9, <2>1 DEF MarkPaid, Invoice
  <2>3. QED
    BY <2>2 DEF At, AppliedIsExact
<1>10. ASSUME NEW r \in running, GenerateWrites(r)
       PROVE  Exact'
  <2>1. CASE invoice # NONE
    BY <1>2, <1>10, <2>1 DEF GenerateWrites, Ends
  <2>2. CASE invoice = NONE
    <3>1. settled' = NONE /\ running' \subseteq running
      BY <1>1, <1>10, <2>2 DEF GenerateWrites, Ends
    <3>2. At("regenerate")' = {} /\ At("settle")' = {}
      BY <1>1, <2>2, <3>1 DEF At
    <3>3. QED
      BY <3>1, <3>2 DEF AppliedIsExact
  <2>3. QED
    BY <2>1, <2>2
<1>11. ASSUME NEW r \in running, RegenerateInvoiceWrites(r)
       PROVE  Exact'
  <2>1. invoice \in Invoice /\ r \in At("regenerate")
    BY <1>1, <1>11 DEF RegenerateInvoiceWrites, At
  <2>2. /\ invoice'.status = invoice.status /\ settled' = settled /\ running' \subseteq running
        /\ (raced => raced') /\ (At("settle") # {} => raced')
    BY <1>11, <2>1 DEF RegenerateInvoiceWrites, Ends, Invoice
  <2>3. settled # NONE => raced
    BY <2>1
  <2>4. Paid(invoice)' <=> Paid(invoice)
    BY <2>2 DEF Paid
  <2>5. QED
    BY <2>1, <2>2, <2>3, <2>4 DEF At, AppliedIsExact
<1>12. ASSUME NEW r \in running, CreateLink(r)
       PROVE  Exact'
  BY <1>2, <1>12 DEF CreateLink, Ends
<1>13. ASSUME NEW r \in running, SaveLink(r)
       PROVE  Exact'
  <2>1. invoice \in Invoice
    BY <1>1, <1>13 DEF SaveLink
  <2>2. invoice'.total = invoice.total /\ invoice'.status = invoice.status
    BY <1>13, <2>1 DEF SaveLink, Invoice
  <2>3. QED
    BY <1>2, <1>13, <2>2 DEF SaveLink, Ends
<1>14. ASSUME NEW r \in running, process(r)
       PROVE  Exact'
  <2>1. UNCHANGED <<invoice, settled, raced>>
    BY <1>14 DEF process, billVars
  <2>2. \A h \in running' \ running :
           h.op = "settle" /\ (h.outcome = "APPLIED" => h.total = invoice.total)
    BY <1>14 DEF process, Ends
  <2>3. QED
    BY <2>1, <2>2 DEF At, AppliedIsExact, Paid
<1>15. ASSUME NEW r \in running, processWrites(r)
       PROVE  Exact'
  <2>1. invoice \in Invoice /\ running' \subseteq running /\ r \in At("settle")
    BY <1>1, <1>15 DEF processWrites, Ends, At
  <2>2. CASE Paid(invoice)
    BY <1>2, <1>15, <2>1, <2>2 DEF processWrites, billVars
  <2>3. CASE ~Paid(invoice)
    <3>1. /\ invoice'.total = invoice.total /\ invoice'.status = "PAID_ONLINE"
          /\ settled' = [amount |-> r.total, outcome |-> r.outcome]
          /\ (raced => raced') /\ (At("regenerate") # {} => raced')
      BY <1>15, <2>1, <2>3 DEF processWrites, Invoice
    <3>2. settled'.amount = r.total /\ settled'.outcome = r.outcome /\ Paid(invoice)'
      BY <3>1 DEF Paid
    <3>3. QED
      BY <2>1, <3>1, <3>2 DEF At, AppliedIsExact
  <2>4. QED
    BY <2>2, <2>3
<1>16. QED
  BY <1>3, <1>4, <1>5, <1>6, <1>7, <1>8, <1>9, <1>10, <1>11, <1>12, <1>13, <1>14, <1>15
     DEF Next, BillStep

LEMMA ExactInvariant == Spec => []Exact
<1>1. Init => Exact
  BY DEF Init, TablesInit, Exact, AppliedIsExact, At
<1>2. TypeInv /\ Exact /\ [Next]_chargeVars => Exact'
  BY ExactStep
<1>3. QED
  BY <1>1, <1>2, TypeInvariant, PTL DEF Spec

(* A payment recorded as exact is what the bill came to, unless it         *)
(* overlapped a recalculation (process, RegenerateInvoice,                 *)
(* CreateLinkForInvoice). *)
THEOREM AppliedCorrect == Spec => []AppliedIsExact
<1>1. Exact => AppliedIsExact
  BY DEF Exact
<1>2. QED
  BY <1>1, ExactInvariant, PTL

LEMMA TotalMoves ==
    ASSUME TypeInv, Exact, [Next]_chargeVars, invoice # NONE, Paid(invoice), Paid(invoice'),
           invoice'.total # invoice.total
    PROVE  raced'
<1>1. CASE PriceStep \/ RowStep \/ Tick \/ Crash \/ UNCHANGED chargeVars
  <2>1. UNCHANGED billVars
    BY <1>1, RowFrame DEF PriceStep, SetPrices, SetPricesWrites, CancelPendingPrices, promotePendingPrices,
       Tick, Crash, chargeVars
  <2>2. QED
    BY <2>1 DEF billVars
<1>2. CASE BillStep
  <2>1. invoice \in Invoice
    BY DEF TypeInv, TypeOK, TablesTypeOK
  <2>2. ASSUME NEW r \in running, RegenerateInvoiceWrites(r)
        PROVE  raced'
    BY <2>2 DEF RegenerateInvoiceWrites, Exact, At
  <2>3. ASSUME \/ Generate \/ RegenerateInvoice \/ CreateLinkForInvoice
               \/ \E status \in InvoiceStatus : MarkPaid(status)
               \/ \E a \in open : Pay(a)
               \/ \E r \in running :
                     \/ GenerateWrites(r) \/ CreateLink(r) \/ SaveLink(r)
                     \/ process(r) \/ processWrites(r)
        PROVE  invoice'.total = invoice.total
    BY <2>1, <2>3 DEF Generate, RegenerateInvoice, CreateLinkForInvoice, MarkPaid, Pay, GenerateWrites,
       CreateLink, SaveLink, process, processWrites, billVars, Invoice
  <2>4. QED
    BY <1>2, <2>2, <2>3 DEF BillStep
<1>3. QED
  BY <1>1, <1>2 DEF Next

(* The total of a paid bill moves only if its payment overlapped the       *)
(* recalculation (RegenerateInvoice, MarkPaid, process). *)
THEOREM SettledTotals == Spec => SettledTotalStands
<1>1. TypeInv /\ Exact /\ [Next]_chargeVars =>
        [invoice # NONE /\ Paid(invoice) /\ Paid(invoice') /\ invoice'.total # invoice.total
           => raced']_chargeVars
  BY TotalMoves
<1>2. QED
  BY <1>1, TypeInvariant, ExactInvariant, PTL DEF Spec, SettledTotalStands
=============================================================================
