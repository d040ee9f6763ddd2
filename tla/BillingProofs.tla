---------------------------- MODULE BillingProofs ----------------------------
(***************************************************************************)
(* Proofs about Billing for any number of runs, deductions, gifts, orders, *)
(* callback requests and queries: a paid order has its credits and stays   *)
(* paid; whoever spends a credit leaves its source with no less than zero; *)
(* whoever has a balance has a source; and the types.                      *)
(***************************************************************************)
EXTENDS Billing, FiniteSetTheorems, WellFoundedInduction, TLAPS

Active_pc(t) == t.pc \notin {"idle", "done"}

\* A transaction is a record with the fields of Idle.
Shape(t) ==
  DOMAIN t = {"pc", "late", "balance", "todo", "writes", "grants", "seen", "source"}

\* The parts of the state that the orders depend on have their types.
Shapes ==
  /\ order \in [Orders -> Statuses]
  /\ gateway \in [Orders -> {"pending"} \cup Settled]
  /\ spend = [s \in Spenders |-> spend[s]]
  /\ \A s \in Spenders : Shape(spend[s]) /\ spend[s].todo \subseteq Orders
  /\ callback \in [Callbacks -> [pc : {"idle", "read"}, order : Orders \cup {NoSource},
                                 state : {"none"} \cup Settled, found : BOOLEAN]]
  /\ query \in [Queries -> [pc : {"idle", "read", "answered"},
                            order : Orders \cup {NoSource},
                            answer : {"none", "pending"} \cup Settled]]

\* One transaction at a time spends, and only it has rows written.
Exclusive ==
  /\ \A s, t \in Spenders : Active_pc(spend[s]) /\ Active_pc(spend[t]) => s = t
  /\ \A s \in Spenders : spend[s].writes # {} => Active_pc(spend[s])

\* Whoever knows of a payment knows it from the gateway.
Informed ==
  /\ \A o \in Orders : <<o, "paid">> \in sent => gateway[o] = "paid"
  /\ \A c \in Callbacks : callback[c].pc = "read" =>
       /\ callback[c].order \in Orders
       /\ callback[c].state = "paid" => gateway[callback[c].order] = "paid"
  /\ \A q \in Queries : query[q].pc \in {"read", "answered"} =>
       /\ query[q].order \in Orders
       /\ query[q].answer = "paid" => gateway[query[q].order] = "paid"

\* What a transaction has written but not committed.
Pending(t) ==
  /\ \A e \in t.grants : \E o \in Orders : e = Purchase(o) /\ gateway[o] = "paid"
  /\ \A w \in t.writes :
       /\ w[1] \in Orders /\ w[2] \in Statuses
       /\ w[2] = "paid" => Purchase(w[1]) \in t.grants
                           \/ HasEntry(ledger, <<"purchase", w[1]>>)
       /\ order[w[1]] = "paid" => w[2] \in {"paid", "refund_pending"}

Uncommitted == \A s \in Spenders : Pending(spend[s])

\* The ledger's purchases are those of paid trades.
Granted ==
  /\ \A o \in Orders : order[o] = "paid" => HasEntry(ledger, <<"purchase", o>>)
  /\ \A e \in ledger : \A o \in Orders :
       e.key = <<"purchase", o>> => e = Purchase(o) /\ gateway[o] = "paid"

IInv == Shapes /\ Exclusive /\ Informed /\ Uncommitted /\ Granted

-----------------------------------------------------------------------------
\* A ledger that gets an entry has that entry, and keeps those it had.
LEMMA WithEntryHas ==
  ASSUME NEW L, NEW e
  PROVE  /\ HasEntry(WithEntry(L, e), e.key)
         /\ L \subseteq WithEntry(L, e)
         /\ WithEntry(L, e) \subseteq L \cup {e}
         /\ \A key : HasEntry(L, key) => HasEntry(WithEntry(L, e), key)
  BY DEF HasEntry, WithEntry

\* The key of a purchase is its order's, and no other entry has it.
LEMMA PurchaseKeys ==
  /\ \A o : Purchase(o).key = <<"purchase", o>>
  /\ \A kind, ref, delta, expires, fund, o :
       Entry(kind, ref, delta, expires, fund).key = <<"purchase", o>> => kind = "purchase"
  BY DEF Purchase, Entry

\* A transaction sees the ledger and what it has granted itself.
LEMMA VisibleLedger ==
  ASSUME IInv, NEW s \in Spenders
  PROVE  /\ ledger \subseteq Visible(s)
         /\ Visible(s) \subseteq ledger \cup spend[s].grants
         /\ \A e \in spend[s].grants : HasEntry(Visible(s), e.key)
         /\ \A key : HasEntry(ledger, key) => HasEntry(Visible(s), key)
  BY WithEntryHas DEF Visible, HasEntry

-----------------------------------------------------------------------------
(* Each kind of step keeps IInv.                                            *)

LEMMA InitInv == Init => IInv
<1> SUFFICES ASSUME Init PROVE IInv
  OBVIOUS
<1> USE DEF Init
<1>1. Shapes
  BY DEF Shapes, Shape, Idle, NoCallback, NoQuery, Statuses
<1>2. \A s \in Spenders : spend[s].pc = "idle" /\ spend[s].writes = {}
                          /\ spend[s].grants = {}
  BY DEF Idle
<1>3. Exclusive /\ Uncommitted
  BY <1>2 DEF Exclusive, Uncommitted, Pending, Active_pc
<1>4. Informed
  BY DEF Informed, NoCallback, NoQuery
<1>5. Granted
  BY DEF Granted
<1> QED
  BY <1>1, <1>3, <1>4, <1>5 DEF IInv

\* A statement of a transaction: only that transaction changes.
LEMMA StatementInv ==
  ASSUME IInv, NEW s \in Spenders, NEW t, Statement(s, t),
         Shape(t), t.todo \subseteq Orders, Pending(t),
         Active_pc(t) => \/ Active_pc(spend[s])
                         \/ \A u \in Spenders : ~Active_pc(spend[u]),
         t.writes # {} => Active_pc(t)
  PROVE  IInv'
<1>1. /\ spend' = [u \in Spenders |-> spend'[u]]
      /\ \A u \in Spenders : spend'[u] = IF u = s THEN t ELSE spend[u]
  BY DEF IInv, Shapes, Statement
<1>2. UNCHANGED <<ledger, order, gateway, sent, callback, query>>
  BY DEF Statement, payments, shop
<1>3. Shapes'
  BY <1>1, <1>2 DEF IInv, Shapes, Shape
<1>4. Exclusive'
  BY <1>1 DEF IInv, Exclusive
<1>5. Informed'
  BY <1>2 DEF IInv, Informed
<1>6. Uncommitted'
  <2> SUFFICES ASSUME NEW u \in Spenders PROVE Pending(spend[u])'
    BY DEF Uncommitted
  <2>1. CASE u = s
    <3>1. spend'[u] = t
      BY <1>1, <2>1
    <3> QED
      BY <3>1, <1>2 DEF Pending, HasEntry
  <2>2. CASE u # s
    <3>1. spend'[u] = spend[u] /\ Pending(spend[u])
      BY <1>1, <2>2 DEF IInv, Uncommitted
    <3> QED
      BY <3>1, <1>2 DEF Pending, HasEntry
  <2> QED
    BY <2>1, <2>2
<1>7. Granted'
  BY <1>2 DEF IInv, Granted, HasEntry
<1> QED
  BY <1>3, <1>4, <1>5, <1>6, <1>7 DEF IInv

\* Statements of a spending transaction.
LEMMA SpendStatements ==
  ASSUME IInv, NEW s \in Spenders,
         \/ ReadsLedger(s) \/ CountsReservations(s) \/ ReadsSources(s)
         \/ ChoosesSource(s) \/ \E o \in Orders : SyncsOrder(s, o)
  PROVE  IInv'
<1> USE DEF Active_pc
<1>0. /\ Shape(spend[s]) /\ spend[s].todo \subseteq Orders /\ Pending(spend[s])
      /\ spend[s].writes # {} => Active_pc(spend[s])
  BY DEF IInv, Shapes, Exclusive, Uncommitted
<1>1. CASE ReadsLedger(s)
  <2> DEFINE t == [Idle EXCEPT !.pc = "ledger", !.late = expired,
                               !.balance = Total(Active(ledger, expired))]
  <2>1. /\ Shape(t) /\ t.todo = {} /\ t.writes = {} /\ t.grants = {}
        /\ Statement(s, t) /\ \A u \in Spenders : ~Active_pc(spend[u])
    BY <1>1 DEF ReadsLedger, Idle, Shape, lockUserEntitlements
  <2> QED
    BY <2>1, StatementInv DEF Pending
<1>2. CASE CountsReservations(s)
  <2> DEFINE t == [spend[s] EXCEPT
                     !.pc = "orders", !.balance = @ - Cardinality(Reserved),
                     !.todo = {o \in Orders : order[o] = "pending"}]
  <2>1. /\ Shape(t) /\ t.todo \subseteq Orders /\ t.writes = spend[s].writes
        /\ t.grants = spend[s].grants /\ Statement(s, t) /\ Active_pc(spend[s])
        /\ Active_pc(t)
    BY <1>0, <1>2 DEF CountsReservations, Shape
  <2> QED
    BY <1>0, <2>1, StatementInv DEF Pending
<1>3. CASE ReadsSources(s)
  <2> DEFINE t == [spend[s] EXCEPT
                     !.pc = "sources", !.seen = Visible(s),
                     !.late = IF s \in Runs THEN expired ELSE @]
  <2>1. /\ Shape(t) /\ t.todo \subseteq Orders /\ t.writes = spend[s].writes
        /\ t.grants = spend[s].grants /\ Statement(s, t) /\ Active_pc(spend[s])
        /\ Active_pc(t)
    BY <1>0, <1>3 DEF ReadsSources, Shape
  <2> QED
    BY <1>0, <2>1, StatementInv DEF Pending
<1>4. CASE ChoosesSource(s)
  <2> PICK e : Statement(s, [spend[s] EXCEPT !.pc = "chosen", !.source = e.key])
    BY <1>4 DEF ChoosesSource
  <2> DEFINE t == [spend[s] EXCEPT !.pc = "chosen", !.source = e.key]
  <2>1. /\ Shape(t) /\ t.todo \subseteq Orders /\ t.writes = spend[s].writes
        /\ t.grants = spend[s].grants /\ Statement(s, t) /\ Active_pc(spend[s])
        /\ Active_pc(t)
    BY <1>0, <1>4 DEF ChoosesSource, Shape
  <2> QED
    BY <1>0, <2>1, StatementInv DEF Pending
<1>5. ASSUME NEW o \in Orders, SyncsOrder(s, o) PROVE IInv'
  <2> PICK answer \in {gateway[o], "pending"} :
        Statement(s, [spend[s] EXCEPT
          !.todo = @ \ {o},
          !.writes = IF Writes(o, answer) THEN @ \cup {<<o, Synced(o, answer)>>} ELSE @,
          !.grants = IF answer = "paid" THEN @ \cup {Purchase(o)} ELSE @])
    BY <1>5 DEF SyncsOrder
  <2> DEFINE t == [spend[s] EXCEPT
          !.todo = @ \ {o},
          !.writes = IF Writes(o, answer) THEN @ \cup {<<o, Synced(o, answer)>>} ELSE @,
          !.grants = IF answer = "paid" THEN @ \cup {Purchase(o)} ELSE @]
  <2>1. /\ Shape(t) /\ t.todo \subseteq Orders /\ Statement(s, t)
        /\ Active_pc(spend[s]) /\ Active_pc(t)
        /\ t.grants = IF answer = "paid" THEN spend[s].grants \cup {Purchase(o)}
                      ELSE spend[s].grants
        /\ t.writes = IF Writes(o, answer)
                      THEN spend[s].writes \cup {<<o, Synced(o, answer)>>}
                      ELSE spend[s].writes
    BY <1>0, <1>5 DEF SyncsOrder, Shape
  <2>2. /\ Synced(o, answer) \in Statuses
        /\ Synced(o, answer) = "paid" => answer = "paid" \/ order[o] = "paid"
        /\ order[o] = "paid" => Synced(o, answer) = "paid"
    BY DEF Synced, markOrderStatus, IInv, Shapes, Statuses
  <2>3. /\ answer = "paid" => gateway[o] = "paid"
        /\ order[o] = "paid" => HasEntry(ledger, <<"purchase", o>>)
    BY DEF IInv, Granted
  <2>4. Pending(t)
    BY <1>0, <2>1, <2>2, <2>3 DEF Pending
  <2> QED
    BY <2>1, <2>4, StatementInv
<1> QED
  BY <1>1, <1>2, <1>3, <1>4, <1>5

\* The transaction commits: its order writes and its grants become visible, and
\* what else is new in the ledger is no purchase.
LEMMA CommitInv ==
  ASSUME IInv, NEW s \in Spenders, Active_pc(spend[s]), Committed(s),
         Visible(s) \subseteq ledger',
         \A e \in ledger' \ Visible(s) : \A o \in Orders : e.key # <<"purchase", o>>
  PROVE  IInv'
<1> DEFINE W == {w[1] : w \in spend[s].writes}
<1>1. /\ \A o \in Orders : o \notin W => order'[o] = order[o]
      /\ \A o \in Orders : o \in W => \E w \in spend[s].writes :
                                        w[1] = o /\ order'[o] = w[2]
      /\ order' \in [Orders -> Statuses]
  <2>1. /\ \A w \in spend[s].writes : w[2] \in Statuses
        /\ order \in [Orders -> Statuses]
    BY DEF IInv, Shapes, Uncommitted, Pending
  <2>2. order' = [o \in Orders |->
          IF o \in W THEN (CHOOSE w \in spend[s].writes : w[1] = o)[2] ELSE order[o]]
    BY DEF Committed
  <2>3. ASSUME NEW o \in Orders, o \in W
        PROVE  \E w \in spend[s].writes : w[1] = o /\ order'[o] = w[2]
    <3> DEFINE w == CHOOSE x \in spend[s].writes : x[1] = o
    <3>1. w \in spend[s].writes /\ w[1] = o
      BY <2>3
    <3>2. order'[o] = w[2]
      BY <2>2, <2>3
    <3> QED
      BY <3>1, <3>2
  <2>4. \A o \in Orders : o \notin W => order'[o] = order[o]
    BY <2>2
  <2>5. \A o \in Orders : order'[o] \in Statuses
    BY <2>1, <2>3, <2>4
  <2> QED
    BY <2>2, <2>3, <2>4, <2>5
<1>2. UNCHANGED <<gateway, sent, callback, query>>
  BY DEF Committed, shop
<1>3. /\ spend' = [u \in Spenders |-> spend'[u]]
      /\ \A u \in Spenders : spend'[u] = IF u = s THEN [Idle EXCEPT !.pc = "done"]
                                         ELSE spend[u]
  BY DEF IInv, Shapes, Committed
<1>4. /\ Shape([Idle EXCEPT !.pc = "done"])
      /\ [Idle EXCEPT !.pc = "done"].todo = {}
      /\ [Idle EXCEPT !.pc = "done"].writes = {}
      /\ [Idle EXCEPT !.pc = "done"].grants = {}
      /\ ~Active_pc([Idle EXCEPT !.pc = "done"])
  BY DEF Shape, Idle, Active_pc
<1>5. \A u \in Spenders : u # s => spend[u].writes = {} /\ ~Active_pc(spend[u])
  BY DEF IInv, Exclusive
<1>6. Shapes'
  BY <1>1, <1>2, <1>3, <1>4 DEF IInv, Shapes, Shape
<1>7. Exclusive'
  BY <1>3, <1>4, <1>5 DEF Exclusive
<1>8. Informed'
  BY <1>2 DEF IInv, Informed
<1>9. Uncommitted'
  <2> SUFFICES ASSUME NEW u \in Spenders PROVE Pending(spend[u])'
    BY DEF Uncommitted
  <2>1. CASE u = s
    BY <2>1, <1>3, <1>4 DEF Pending
  <2>2. CASE u # s
    BY <2>2, <1>2, <1>3, <1>5 DEF IInv, Uncommitted, Pending
  <2> QED
    BY <2>1, <2>2
<1>10. \A o \in Orders : order'[o] = "paid" => HasEntry(ledger', <<"purchase", o>>)
  <2> SUFFICES ASSUME NEW o \in Orders, order'[o] = "paid"
               PROVE  HasEntry(Visible(s), <<"purchase", o>>)
    BY DEF HasEntry
  <2>1. HasEntry(ledger, <<"purchase", o>>) \/ Purchase(o) \in spend[s].grants
    BY <1>1 DEF IInv, Granted, Uncommitted, Pending
  <2> QED
    BY <2>1, VisibleLedger, PurchaseKeys
<1>11. Granted'
  <2> SUFFICES ASSUME NEW e \in ledger', NEW o \in Orders, e.key = <<"purchase", o>>
               PROVE  e = Purchase(o) /\ gateway[o] = "paid"
    BY <1>2, <1>10 DEF Granted, Purchase, Entry
  <2>1. e \in ledger \/ e \in spend[s].grants
    BY VisibleLedger
  <2>2. CASE e \in ledger
    BY <2>2 DEF IInv, Granted
  <2>3. CASE e \in spend[s].grants
    <3>1. PICK p \in Orders : e = Purchase(p) /\ gateway[p] = "paid"
      BY <2>3 DEF IInv, Uncommitted, Pending
    <3> QED
      BY <3>1, PurchaseKeys
  <2> QED
    BY <2>1, <2>2, <2>3
<1> QED
  BY <1>6, <1>7, <1>8, <1>9, <1>11 DEF IInv

\* The ends of a spending transaction.
LEMMA SpendCommits ==
  ASSUME IInv, NEW s \in Spenders,
         (s \in Runs /\ Reserves(s)) \/ (s \in Deductions /\ Deducts(s)) \/ Refused(s)
  PROVE  IInv'
<1>1. CASE s \in Runs /\ Reserves(s)
  <2>1. /\ ledger' = Visible(s) /\ Committed(s) /\ Active_pc(spend[s])
    BY <1>1 DEF Reserves, Active_pc
  <2> QED
    BY <2>1, CommitInv
<1>2. CASE s \in Deductions /\ Deducts(s)
  <2> DEFINE source == EntryOf(Visible(s), spend[s].source)
             e == Entry("deduction", s, -1, source.expires, source.key)
             E == IF HasEntry(Visible(s), e.key) THEN {} ELSE {e}
  <2>1. ledger' = Visible(s) \cup E /\ Committed(s) /\ Active_pc(spend[s])
    BY <1>2 DEF Deducts, Active_pc, WithEntry
  <2>2. \A o \in Orders : e.key # <<"purchase", o>>
    BY PurchaseKeys
  <2> QED
    BY <2>1, <2>2, CommitInv
<1>3. CASE Refused(s) /\ s \in Runs
  <2>1. /\ ledger' = Visible(s) /\ Committed(s) /\ Active_pc(spend[s])
    BY <1>3 DEF Refused, Active_pc
  <2> QED
    BY <2>1, CommitInv
<1>4. CASE Refused(s) /\ s \notin Runs
  <2> DEFINE t == [Idle EXCEPT !.pc = "done"]
  <2>1. Statement(s, t)
    BY <1>4 DEF Refused
  <2>2. /\ Shape(t) /\ t.todo = {} /\ t.writes = {} /\ t.grants = {} /\ ~Active_pc(t)
    BY DEF Shape, Idle, Active_pc
  <2> QED
    BY <2>1, <2>2, StatementInv DEF Pending
<1> QED
  BY <1>1, <1>2, <1>3, <1>4

\* Credits move, orders do not: the ledger gets no purchase.
LEMMA CreditsInv ==
  ASSUME IInv, UNCHANGED <<order, gateway, sent, spend, callback, query>>,
         ledger \subseteq ledger',
         \A e \in ledger' \ ledger : \A o \in Orders : e.key # <<"purchase", o>>
  PROVE  IInv'
<1>1. Shapes' /\ Exclusive' /\ Informed'
  BY DEF IInv, Shapes, Exclusive, Informed
<1>2. \A key : HasEntry(ledger, key) => HasEntry(ledger', key)
  BY DEF HasEntry
<1>3. Uncommitted'
  BY <1>2 DEF IInv, Uncommitted, Pending
<1>4. Granted'
  BY <1>2 DEF IInv, Granted
<1> QED
  BY <1>1, <1>3, <1>4 DEF IInv

LEMMA CreditSteps ==
  ASSUME IInv,
         \/ \E r \in Runs : Settle(r)
         \/ \E g \in Gifts : Gives(g)
         \/ grantSignupBonus \/ BonusExpires
         \/ \E o \in Orders : OrderExpires(o)
  PROVE  IInv'
<1> USE DEF payments, shop, credits
<1>1. ASSUME NEW e, \A o \in Orders : e.key # <<"purchase", o>>,
             UNCHANGED <<order, gateway, sent, spend, callback, query>>,
             ledger' = WithEntry(ledger, e)
      PROVE  IInv'
  BY <1>1, CreditsInv DEF WithEntry
<1>2. ASSUME UNCHANGED <<ledger, order, gateway, sent, spend, callback, query>>
      PROVE  IInv'
  BY <1>2, CreditsInv
<1>3. ASSUME NEW r \in Runs, Settle(r) PROVE IInv'
  <2>1. CASE ConfirmReads(r) \/ releaseRunUsage(r)
    BY <2>1, <1>2 DEF ConfirmReads, releaseRunUsage
  <2>2. CASE ConfirmWrites(r)
    BY <2>2, <1>1, PurchaseKeys DEF ConfirmWrites
  <2>3. CASE compensateRunUsage(r)
    BY <2>3, <1>1, <1>2, PurchaseKeys DEF compensateRunUsage
  <2> QED
    BY <1>3, <2>1, <2>2, <2>3 DEF Settle
<1>4. ASSUME NEW g \in Gifts, Gives(g) PROVE IInv'
  <2>1. \A o \in Orders :
          Entry("gift", g, GiftSize, FALSE, NoSource).key # <<"purchase", o>>
    BY PurchaseKeys
  <2> QED
    BY <1>4, <2>1, CreditsInv DEF Gives
<1>5. CASE grantSignupBonus
  <2>1. /\ ledger' = WithEntry(ledger, Bonus)
        /\ UNCHANGED <<order, gateway, sent, spend, callback, query>>
    BY <1>5 DEF grantSignupBonus
  <2>2. \A o \in Orders : Bonus.key # <<"purchase", o>>
    BY PurchaseKeys DEF Bonus
  <2> QED
    BY <2>1, <2>2, <1>1
<1>6. CASE BonusExpires \/ \E o \in Orders : OrderExpires(o)
  BY <1>6, <1>2 DEF BonusExpires, OrderExpires
<1> QED
  BY <1>3, <1>4, <1>5, <1>6

\* One order gets a new status; it may be paid only with the purchase in the
\* ledger, and only if no transaction has written it.
LEMMA OrderInv ==
  ASSUME IInv, NEW o \in Orders, NEW status \in Statuses,
         order' = [order EXCEPT ![o] = status],
         \/ ledger' = ledger
         \/ gateway[o] = "paid" /\ ledger' = WithEntry(ledger, Purchase(o)),
         status = "paid" => o \notin Locked /\ HasEntry(ledger', <<"purchase", o>>),
         UNCHANGED <<gateway, spend>>
  PROVE  Exclusive' /\ Uncommitted' /\ Granted' /\ order' \in [Orders -> Statuses]
<1>1. /\ order' \in [Orders -> Statuses] /\ order'[o] = status
      /\ \A p \in Orders : p # o => order'[p] = order[p]
  BY DEF IInv, Shapes
<1>2. \A key : HasEntry(ledger, key) => HasEntry(ledger', key)
  BY WithEntryHas
<1>3. Exclusive'
  BY DEF IInv, Exclusive
<1>4. Uncommitted'
  <2> SUFFICES ASSUME NEW u \in Spenders PROVE Pending(spend[u])'
    BY DEF Uncommitted
  <2>1. \A w \in spend[u].writes : w[1] = o => status # "paid"
    BY DEF Locked
  <2> QED
    BY <2>1, <1>1, <1>2 DEF IInv, Uncommitted, Pending
<1>5. \A p \in Orders : order'[p] = "paid" => HasEntry(ledger', <<"purchase", p>>)
  BY <1>1, <1>2 DEF IInv, Granted
<1>6. ASSUME NEW e \in ledger', NEW p \in Orders, e.key = <<"purchase", p>>
      PROVE  e = Purchase(p) /\ gateway'[p] = "paid"
  BY <1>6, WithEntryHas, PurchaseKeys DEF IInv, Granted
<1>7. Granted'
  BY <1>5, <1>6 DEF Granted, Purchase, Entry
<1> QED
  BY <1>1, <1>3, <1>4, <1>7

LEMMA OrderSteps ==
  ASSUME IInv, NEW o \in Orders, createOrder(o) \/ markRefundPending(o)
  PROVE  IInv'
<1> USE DEF payments, shop, credits
<1> DEFINE status == IF createOrder(o) THEN "pending"
                     ELSE markOrderStatus(order[o], "refund_pending")
<1>1. /\ status \in Statuses /\ status # "paid"
      /\ order' = [order EXCEPT ![o] = status]
      /\ UNCHANGED <<ledger, gateway, sent, spend, callback, query>>
  BY DEF createOrder, markRefundPending, markOrderStatus, Statuses
<1>2. Exclusive' /\ Uncommitted' /\ Granted' /\ order' \in [Orders -> Statuses]
  BY <1>1, OrderInv
<1> QED
  BY <1>1, <1>2 DEF IInv, Shapes, Informed

\* The gateway's trades: a paid one stays paid.
LEMMA GatewayInv ==
  ASSUME IInv, NEW o \in Orders, NEW state \in Settled, GatewaySettles(o, state)
  PROVE  IInv'
<1> USE DEF payments, shop, credits
<1>1. /\ UNCHANGED <<ledger, order, spend, callback, query>>
      /\ gateway' = [gateway EXCEPT ![o] = state]
      /\ gateway[o] # "paid" /\ sent' = sent \cup {<<o, state>>}
  BY DEF GatewaySettles
<1>2. /\ \A p \in Orders : gateway[p] = "paid" => gateway'[p] = "paid"
      /\ gateway' \in [Orders -> {"pending"} \cup Settled]
      /\ gateway'[o] = state
  BY <1>1 DEF IInv, Shapes
<1>3. Shapes' /\ Exclusive'
  BY <1>1, <1>2 DEF IInv, Shapes, Exclusive
<1>4. Informed'
  BY <1>1, <1>2 DEF IInv, Informed
<1>5. Uncommitted'
  <2> SUFFICES ASSUME NEW u \in Spenders PROVE Pending(spend[u])'
    BY DEF Uncommitted
  <2> QED
    BY <1>1, <1>2, Zenon DEF IInv, Uncommitted, Pending, HasEntry, Purchase, Entry
<1>6. Granted'
  BY <1>1, <1>2 DEF IInv, Granted, HasEntry, Purchase, Entry
<1> QED
  BY <1>3, <1>4, <1>5, <1>6 DEF IInv

\* A request takes note of something: neither orders nor credits change.
LEMMA NotedInv ==
  ASSUME IInv, UNCHANGED <<ledger, order, gateway, spend>>, Shapes', Informed'
  PROVE  IInv'
<1>1. \A key : HasEntry(ledger, key) <=> HasEntry(ledger', key)
  BY DEF HasEntry
<1>2. Exclusive'
  BY DEF IInv, Exclusive
<1>3. Uncommitted'
  BY <1>1 DEF IInv, Uncommitted, Pending
<1>4. Granted'
  BY <1>1 DEF IInv, Granted
<1> QED
  BY <1>2, <1>3, <1>4 DEF IInv

LEMMA CallbackSteps ==
  ASSUME IInv, NEW c \in Callbacks,
         \/ Callback(c)
         \/ \E o \in Orders, state \in Settled : CallbackReads(c, o, state)
  PROVE  IInv'
<1> USE DEF payments, shop, credits
<1>0. /\ callback[c].pc = "read" => callback[c].order \in Orders
      /\ callback[c].pc = "read" /\ callback[c].state = "paid"
           => gateway[callback[c].order] = "paid"
  BY DEF IInv, Informed
<1>1. CASE CallbackCommits(c)
  <2> DEFINE o == callback[c].order
             state == callback[c].state
  <2>1. CallbackEnds(c, Applied(o, state), GrantedBy(o, state))
    BY <1>1 DEF CallbackCommits
  <2>2. /\ callback[c].pc = "read" /\ o \in Orders /\ o \notin Locked
        /\ order' = [order EXCEPT ![o] = Applied(o, state)]
        /\ ledger' = GrantedBy(o, state)
        /\ callback' = [callback EXCEPT ![c] = NoCallback]
        /\ UNCHANGED <<gateway, sent, spend, query>>
    BY <1>0, <2>1 DEF CallbackEnds
  <2>3. /\ Applied(o, state) \in Statuses
        /\ Applied(o, state) = "paid" => state = "paid" \/ order[o] = "paid"
    BY <2>2 DEF Applied, markOrderStatus, Statuses, Settled, IInv, Shapes
  <2>4. \/ ledger' = ledger /\ state # "paid"
        \/ /\ state = "paid" /\ gateway[o] = "paid"
           /\ ledger' = WithEntry(ledger, Purchase(o))
           /\ HasEntry(ledger', <<"purchase", o>>)
    BY <1>0, <2>2, WithEntryHas, PurchaseKeys DEF GrantedBy
  <2>5. Applied(o, state) = "paid" => HasEntry(ledger', <<"purchase", o>>)
    BY <2>2, <2>3, <2>4 DEF IInv, Granted
  <2>6. Exclusive' /\ Uncommitted' /\ Granted' /\ order' \in [Orders -> Statuses]
    BY <2>2, <2>3, <2>4, <2>5, OrderInv
  <2>7. /\ callback' \in [Callbacks -> [pc : {"idle", "read"},
             order : Orders \cup {NoSource}, state : {"none"} \cup Settled,
             found : BOOLEAN]]
        /\ \A d \in Callbacks : callback'[d] = IF d = c THEN NoCallback ELSE callback[d]
    BY <2>2 DEF IInv, Shapes, NoCallback
  <2>8. Shapes' /\ Informed'
    BY <2>2, <2>6, <2>7 DEF IInv, Shapes, Informed, NoCallback
  <2> QED
    BY <2>6, <2>8 DEF IInv
<1>2. CASE CallbackAborts(c)
  <2>1. /\ callback' = [callback EXCEPT ![c] = NoCallback]
        /\ UNCHANGED <<ledger, order, gateway, sent, spend, query>>
    BY <1>2 DEF CallbackAborts
  <2>2. Shapes' /\ Informed'
    BY <2>1 DEF IInv, Shapes, Informed, NoCallback
  <2> QED
    BY <2>1, <2>2, NotedInv
<1>3. ASSUME NEW o \in Orders, NEW state \in Settled, CallbackReads(c, o, state)
      PROVE  IInv'
  <2> DEFINE new == [pc |-> "read", order |-> o, state |-> state,
                     found |-> o \in notified]
  <2>1. /\ callback' = [callback EXCEPT ![c] = new] /\ <<o, state>> \in sent
        /\ UNCHANGED <<ledger, order, gateway, sent, spend, query>>
    BY <1>3 DEF CallbackReads
  <2>2. state = "paid" => gateway[o] = "paid"
    BY <2>1 DEF IInv, Informed
  <2>3. /\ callback' \in [Callbacks -> [pc : {"idle", "read"},
             order : Orders \cup {NoSource}, state : {"none"} \cup Settled,
             found : BOOLEAN]]
        /\ \A d \in Callbacks : callback'[d] = IF d = c THEN new ELSE callback[d]
    BY <2>1 DEF IInv, Shapes
  <2>4. Shapes' /\ Informed'
    BY <2>1, <2>2, <2>3 DEF IInv, Shapes, Informed
  <2> QED
    BY <2>1, <2>4, NotedInv
<1> QED
  BY <1>1, <1>2, <1>3 DEF Callback

LEMMA QuerySteps ==
  ASSUME IInv, NEW q \in Queries, Query(q)
  PROVE  IInv'
<1> USE DEF payments, shop, credits
<1> DEFINE Types == [Queries -> [pc : {"idle", "read", "answered"},
                                 order : Orders \cup {NoSource},
                                 answer : {"none", "pending"} \cup Settled]]
<1>0. query[q].pc \in {"read", "answered"} =>
        /\ query[q].order \in Orders
        /\ query[q].answer = "paid" => gateway[query[q].order] = "paid"
  BY DEF IInv, Informed
<1>1. ASSUME NEW o \in Orders, QueryReads(q, o) PROVE IInv'
  <2> DEFINE new == [pc |-> "read", order |-> o, answer |-> "none"]
  <2>1. /\ query' = [query EXCEPT ![q] = new]
        /\ UNCHANGED <<ledger, order, gateway, sent, spend, callback>>
    BY <1>1 DEF QueryReads
  <2>2. query' \in Types /\ \A r \in Queries : query'[r] = IF r = q THEN new ELSE query[r]
    BY <2>1 DEF IInv, Shapes
  <2>3. Shapes' /\ Informed'
    BY <2>1, <2>2 DEF IInv, Shapes, Informed
  <2> QED
    BY <2>1, <2>3, NotedInv
<1>2. CASE QueryAnswered(q)
  <2>1. PICK answer \in {gateway[query[q].order], "pending"} :
          query' = [query EXCEPT ![q].pc = "answered", ![q].answer = answer]
    BY <1>2 DEF QueryAnswered
  <2>2. UNCHANGED <<ledger, order, gateway, sent, spend, callback>> /\ query[q].pc = "read"
    BY <1>2 DEF QueryAnswered
  <2>3. /\ answer \in {"none", "pending"} \cup Settled
        /\ answer = "paid" => gateway[query[q].order] = "paid"
    BY <1>0, <2>2 DEF IInv, Shapes
  <2>4. /\ query' \in Types
        /\ query'[q].order = query[q].order /\ query'[q].answer = answer
        /\ \A r \in Queries : r # q => query'[r] = query[r]
    <3>1. query[q] \in [pc : {"idle", "read", "answered"}, order : Orders \cup {NoSource},
                        answer : {"none", "pending"} \cup Settled]
      BY DEF IInv, Shapes
    <3>2. query' = [query EXCEPT ![q] = [query[q] EXCEPT !.pc = "answered",
                                                         !.answer = answer]]
      BY <2>1
    <3> QED
      BY <3>1, <3>2, <2>3 DEF IInv, Shapes
  <2>5. Shapes' /\ Informed'
    BY <1>0, <2>2, <2>3, <2>4 DEF IInv, Shapes, Informed
  <2> QED
    BY <2>2, <2>5, NotedInv
<1>3. CASE QueryWrites(q)
  <2> DEFINE o == query[q].order
             answer == query[q].answer
  <2>1. /\ query[q].pc = "answered" /\ o \in Orders /\ o \notin Locked
        /\ order' = [order EXCEPT ![o] = Synced(o, answer)]
        /\ ledger' = IF answer = "paid" THEN WithEntry(ledger, Purchase(o)) ELSE ledger
        /\ query' = [query EXCEPT ![q] = NoQuery]
        /\ UNCHANGED <<gateway, sent, spend, callback>>
    BY <1>0, <1>3 DEF QueryWrites
  <2>2. /\ Synced(o, answer) \in Statuses
        /\ Synced(o, answer) = "paid" => answer = "paid" \/ order[o] = "paid"
    BY <2>1 DEF Synced, markOrderStatus, Statuses, IInv, Shapes
  <2>3. \/ ledger' = ledger /\ answer # "paid"
        \/ /\ answer = "paid" /\ gateway[o] = "paid"
           /\ ledger' = WithEntry(ledger, Purchase(o))
           /\ HasEntry(ledger', <<"purchase", o>>)
    BY <1>0, <2>1, WithEntryHas, PurchaseKeys
  <2>4. Synced(o, answer) = "paid" => HasEntry(ledger', <<"purchase", o>>)
    BY <2>1, <2>2, <2>3 DEF IInv, Granted
  <2>5. Exclusive' /\ Uncommitted' /\ Granted' /\ order' \in [Orders -> Statuses]
    BY <2>1, <2>2, <2>3, <2>4, OrderInv
  <2>6. query' \in Types /\ \A r \in Queries : query'[r] = IF r = q THEN NoQuery ELSE query[r]
    BY <2>1 DEF IInv, Shapes, NoQuery
  <2>7. Shapes' /\ Informed'
    BY <2>1, <2>5, <2>6 DEF IInv, Shapes, Informed, NoQuery
  <2> QED
    BY <2>5, <2>7 DEF IInv
<1> QED
  BY <1>1, <1>2, <1>3 DEF Query

LEMMA Inductive == IInv /\ [Next]_vars => IInv'
<1> SUFFICES ASSUME IInv, [Next]_vars PROVE IInv'
  OBVIOUS
<1>1. ASSUME NEW s \in Spenders, Spend(s) PROVE IInv'
  BY <1>1, SpendStatements, SpendCommits DEF Spend
<1>2. CASE \/ \E r \in Runs : Settle(r)
           \/ \E g \in Gifts : Gives(g)
           \/ grantSignupBonus \/ BonusExpires
           \/ \E o \in Orders : OrderExpires(o)
  BY <1>2, CreditSteps
<1>3. ASSUME NEW o \in Orders, createOrder(o) \/ markRefundPending(o) PROVE IInv'
  BY <1>3, OrderSteps
<1>4. ASSUME NEW o \in Orders, NEW state \in Settled, GatewaySettles(o, state) PROVE IInv'
  BY <1>4, GatewayInv
<1>5. ASSUME NEW c \in Callbacks,
             \/ Callback(c)
             \/ \E o \in Orders, state \in Settled : CallbackReads(c, o, state)
      PROVE  IInv'
  BY <1>5, CallbackSteps
<1>6. ASSUME NEW q \in Queries, Query(q) PROVE IInv'
  BY <1>6, QuerySteps
<1>7. CASE UNCHANGED vars
  <2>1. UNCHANGED <<ledger, order, gateway, sent, spend, callback, query>>
    BY <1>7 DEF vars, payments, shop
  <2> QED
    BY <2>1, CreditsInv
<1> QED
  BY <1>1, <1>2, <1>3, <1>4, <1>5, <1>6, <1>7 DEF Next

LEMMA Invariant == Spec => []IInv
  BY InitInv, Inductive, PTL DEF Spec

-----------------------------------------------------------------------------
\* For any number of orders, callbacks, queries and runs: an order is shown as
\* paid only with its credits in the ledger, and credits are granted only for a
\* trade that is paid at the gateway, once.
THEOREM PaidMeansGrantedAlways == Spec => []PaidMeansGranted
<1>1. ASSUME IInv PROVE PaidMeansGranted
  <2> SUFFICES ASSUME NEW o \in Orders
               PROVE  Cardinality({e \in ledger : e.key = <<"purchase", o>>}) <= 1
    BY <1>1 DEF PaidMeansGranted, IInv, Granted, HasEntry
  <2> DEFINE S == {e \in ledger : e.key = <<"purchase", o>>}
  <2>1. S = {} \/ S = {Purchase(o)}
    BY <1>1 DEF IInv, Granted
  <2>2. Cardinality(S) <= 1
    <3> HIDE DEF S
    <3>1. CASE S = {}
      BY <3>1, FS_EmptySet
    <3>2. CASE S = {Purchase(o)}
      BY <3>2, FS_Singleton
    <3> QED
      BY <2>1, <3>1, <3>2
  <2> QED
    BY <2>2
<1> QED
  BY <1>1, Invariant, PTL

\* No step of anyone's shows a paid order as expired, closed or failed.
THEOREM PaidStaysPaidAlways == Spec => PaidStaysPaid
<1> DEFINE Stays == \A o \in Orders :
                      order[o] = "paid" => order'[o] \in {"paid", "refund_pending"}
<1>1. ASSUME IInv, [Next]_vars PROVE [Stays]_vars
  <2> SUFFICES ASSUME NEW p \in Orders, order[p] = "paid", order' # order
               PROVE  order'[p] \in {"paid", "refund_pending"}
    BY DEF vars, payments
  <2>0. /\ order \in [Orders -> Statuses]
        /\ \A s \in Spenders : Pending(spend[s])
    BY <1>1 DEF IInv, Shapes, Uncommitted
  <2>1. ASSUME NEW s \in Spenders, Committed(s)
        PROVE  order'[p] \in {"paid", "refund_pending"}
    <3> DEFINE w == CHOOSE x \in spend[s].writes : x[1] = p
    <3>1. order'[p] = IF p \in {x[1] : x \in spend[s].writes} THEN w[2] ELSE order[p]
      BY <2>1 DEF Committed
    <3>2. p \in {x[1] : x \in spend[s].writes} => w \in spend[s].writes /\ w[1] = p
      OBVIOUS
    <3> QED
      BY <2>0, <3>1, <3>2 DEF Pending
  <2>2. ASSUME NEW o \in Orders, NEW x, order' = [order EXCEPT ![o] = x],
               order[o] = "paid" => x \in {"paid", "refund_pending"}
        PROVE  order'[p] \in {"paid", "refund_pending"}
    BY <2>0, <2>2
  <2>3. ASSUME NEW s \in Spenders, Spend(s)
        PROVE  \E u \in Spenders : Committed(u)
    BY <2>3 DEF Spend, ReadsLedger, CountsReservations, ReadsSources, ChoosesSource,
         SyncsOrder, Reserves, Deducts, Refused, Statement, payments
  <2>4. ASSUME NEW o \in Orders, createOrder(o) \/ markRefundPending(o)
        PROVE  order'[p] \in {"paid", "refund_pending"}
    BY <2>4, <2>2 DEF createOrder, markRefundPending, markOrderStatus
  <2>5. ASSUME NEW c \in Callbacks, Callback(c)
        PROVE  order'[p] \in {"paid", "refund_pending"}
    <3>1. CallbackCommits(c) /\ callback[c].order \in Orders
      BY <1>1, <2>5 DEF Callback, CallbackAborts, CallbackCommits, CallbackEnds,
           IInv, Informed
    <3> QED
      BY <3>1, <2>2 DEF CallbackCommits, CallbackEnds, Applied, markOrderStatus
  <2>6. ASSUME NEW q \in Queries, Query(q)
        PROVE  order'[p] \in {"paid", "refund_pending"}
    <3>1. QueryWrites(q) /\ query[q].order \in Orders
      BY <1>1, <2>6 DEF Query, QueryReads, QueryAnswered, QueryWrites, IInv, Informed
    <3> QED
      BY <3>1, <2>2 DEF QueryWrites, Synced, markOrderStatus
  <2>7. \/ \E s \in Spenders : Spend(s)
        \/ \E o \in Orders : createOrder(o) \/ markRefundPending(o)
        \/ \E c \in Callbacks : Callback(c)
        \/ \E q \in Queries : Query(q)
    BY <1>1 DEF Next, vars, payments, Settle, ConfirmReads, ConfirmWrites,
         releaseRunUsage, compensateRunUsage, Gives, grantSignupBonus, BonusExpires,
         OrderExpires, GatewaySettles, CallbackReads
  <2> QED
    BY <2>1, <2>3, <2>4, <2>5, <2>6, <2>7
<1>2. Spec => [][Stays]_vars
  BY <1>1, Invariant, PTL DEF Spec
<1> QED
  BY <1>2 DEF PaidStaysPaid

-----------------------------------------------------------------------------
(***************************************************************************)
(* The credits.  A transaction that has looked at the ledger after the last *)
(* write to it spends a credit that is there.                              *)
(***************************************************************************)
\* A ledger has one entry of a source, whole credits, and every credit spent
\* is spent from an entry it has, and expires with it.
Sound(L) ==
  /\ IsFiniteSet(L)
  /\ \A x, y \in L : x.key = y.key => x = y
  /\ \A x \in L : /\ x.delta \in Int
                  /\ x.delta < 0 => \E f \in L : f.key = x.fund /\ f.expires = x.expires

\* Entries spent from the source with key k, and runs that hold a credit of it.
Uses(L, k) == {x \in L : x.delta < 0 /\ x.fund = k}

Holds(k) == {r \in Reserved : reservation[r].fund = k}

\* Every reservation and every confirmation under way names an entry.
Funded ==
  /\ reservation = [r \in Runs |-> reservation[r]]
  /\ \A r \in Runs : DOMAIN reservation[r] = {"status", "fund"}
  /\ confirm = [r \in Runs |-> confirm[r]]
  /\ \A r \in Runs :
       /\ reservation[r].status # "none" => HasEntry(ledger, reservation[r].fund)
       /\ confirm[r] = "read" => reservation[r].status # "none"
  /\ IsFiniteSet(Reserved)

\* What a transaction knows of the sources, and of the one it has chosen: the
\* lock lets nobody hold more of it.
Knows(s) ==
  /\ IsFiniteSet(spend[s].grants)
  /\ spend[s].pc \in {"sources", "chosen"} =>
       /\ Sound(spend[s].seen)
       /\ \A x \in spend[s].seen : HasEntry(Visible(s), x.key)
  /\ spend[s].pc = "chosen" =>
       \E e \in spend[s].seen :
         /\ e.key = spend[s].source
         /\ e.delta - Cardinality(Uses(spend[s].seen, e.key))
              - Cardinality(Holds(e.key)) > 0

CreditInv == Sound(ledger) /\ Funded /\ \A s \in Spenders : Knows(s)

-----------------------------------------------------------------------------
LEMMA RemainingOf ==
  ASSUME NEW L, NEW e
  PROVE  Remaining(L, e, Reserved) =
           e.delta - Cardinality(Uses(L, e.key)) - Cardinality(Holds(e.key))
BY DEF Remaining, Uses, Holds

\* An entry that fits leaves the ledger sound.
LEMMA SoundGrows ==
  ASSUME NEW L, Sound(L), NEW e, e.delta \in Int,
         e.delta < 0 => \E f \in L : f.key = e.fund /\ f.expires = e.expires
  PROVE  Sound(WithEntry(L, e))
<1>1. CASE HasEntry(L, e.key)
  BY <1>1 DEF WithEntry
<1>2. CASE ~HasEntry(L, e.key)
  <2>1. WithEntry(L, e) = L \cup {e} /\ \A x \in L : x.key # e.key
    BY <1>2 DEF WithEntry, HasEntry
  <2>2. IsFiniteSet(L \cup {e})
    BY FS_AddElement DEF Sound
  <2> QED
    BY <2>1, <2>2 DEF Sound
<1> QED
  BY <1>1, <1>2

LEMMA Founds ==
  ASSUME NEW L, NEW k, HasEntry(L, k)
  PROVE  EntryOf(L, k) \in L /\ EntryOf(L, k).key = k
BY DEF HasEntry, EntryOf

\* So does what a transaction has granted.
LEMMA VisibleSound ==
  ASSUME IInv, CreditInv, NEW s \in Spenders
  PROVE  Sound(Visible(s))
<1> DEFINE new == {e \in spend[s].grants : ~HasEntry(ledger, e.key)}
<1>1. /\ \A e \in new : \E o \in Orders : e = Purchase(o)
      /\ \A e \in new : \A x \in ledger : x.key # e.key
  BY DEF IInv, Uncommitted, Pending, HasEntry
<1>2. IsFiniteSet(new)
  BY FS_Subset DEF CreditInv, Knows
<1>3. /\ \A o : /\ Purchase(o).key = <<"purchase", o>>
                /\ Purchase(o).delta = PackSize
      /\ PackSize \in Int /\ ~(PackSize < 0)
  BY SizeAssumption DEF Purchase, Entry
<1>4. \A e, f \in new : e.key = f.key => e = f
  BY <1>1, <1>3
<1>5. \A e \in new : e.delta \in Int /\ ~(e.delta < 0)
  BY <1>1, <1>3
<1>6. Visible(s) = ledger \cup new /\ Sound(ledger)
  BY DEF Visible, CreditInv
<1> HIDE DEF new
<1>7. IsFiniteSet(ledger \cup new)
  BY <1>2, <1>6, FS_Union DEF Sound
<1>8. \A x, y \in ledger \cup new : x.key = y.key => x = y
  BY <1>1, <1>4, <1>6 DEF Sound
<1>9. \A x \in ledger \cup new :
        /\ x.delta \in Int
        /\ x.delta < 0 => \E f \in ledger \cup new : f.key = x.fund /\ f.expires = x.expires
  BY <1>5, <1>6 DEF Sound
<1> QED
  BY <1>6, <1>7, <1>8, <1>9 DEF Sound

\* A source loses no user when what has expired is left out.
LEMMA ActiveUses ==
  ASSUME NEW L, Sound(L), NEW late, NEW e \in Active(L, late)
  PROVE  Uses(Active(L, late), e.key) = Uses(L, e.key)
<1>1. ASSUME NEW x \in L, x.delta < 0, x.fund = e.key PROVE x \in Active(L, late)
  <2>1. PICK f \in L : f.key = x.fund /\ f.expires = x.expires
    BY <1>1 DEF Sound
  <2>2. f = e /\ e \in L /\ ~(late /\ e.expires)
    BY <1>1, <2>1 DEF Sound, Active
  <2> QED
    BY <2>1, <2>2 DEF Active
<1>2. Active(L, late) \subseteq L
  BY DEF Active
<1> QED
  BY <1>1, <1>2 DEF Uses

-----------------------------------------------------------------------------
(* Each kind of step keeps CreditInv.                                       *)

LEMMA InitCredits == Init => CreditInv
<1> SUFFICES ASSUME Init PROVE CreditInv
  OBVIOUS
<1> USE DEF Init
<1>1. Sound(ledger)
  BY FS_EmptySet DEF Sound
<1>2. Reserved = {}
  BY DEF Reserved
<1>3. Funded
  BY <1>2, FS_EmptySet DEF Funded
<1>4. \A s \in Spenders : spend[s].pc = "idle" /\ spend[s].grants = {}
  BY DEF Idle
<1>5. \A s \in Spenders : Knows(s)
  BY <1>4, FS_EmptySet DEF Knows
<1> QED
  BY <1>1, <1>3, <1>5 DEF CreditInv

\* Nobody holds a credit who did not hold it, and of the same source.
HoldsNoMore ==
  \A r \in Runs : reservation'[r].status = "reserved" =>
    reservation[r].status = "reserved" /\ reservation'[r].fund = reservation[r].fund

LEMMA HoldsShrink ==
  ASSUME HoldsNoMore, IsFiniteSet(Reserved)
  PROVE  /\ IsFiniteSet(Reserved')
         /\ \A k : /\ Cardinality(Holds(k)') <= Cardinality(Holds(k))
                   /\ Cardinality(Holds(k)) \in Nat /\ Cardinality(Holds(k)') \in Nat
<1>1. Reserved' \subseteq Reserved
  BY DEF HoldsNoMore, Reserved
<1>2. ASSUME NEW k PROVE Holds(k)' \subseteq Holds(k) /\ Holds(k) \subseteq Reserved
  BY DEF HoldsNoMore, Holds, Reserved
<1>3. ASSUME NEW k
      PROVE  /\ Cardinality(Holds(k)') <= Cardinality(Holds(k))
             /\ Cardinality(Holds(k)) \in Nat /\ Cardinality(Holds(k)') \in Nat
  <2>1. IsFiniteSet(Holds(k))
    BY <1>2, FS_Subset
  <2> QED
    BY <1>2, <2>1, FS_Subset, FS_CardinalityType
<1> QED
  BY <1>1, <1>3, FS_Subset

\* A transaction that does not move keeps what it knows.
LEMMA KnowsStays ==
  ASSUME CreditInv, NEW s \in Spenders, spend'[s] = spend[s],
         \A key : HasEntry(ledger, key) => HasEntry(ledger', key),
         spend[s].pc = "chosen" => HoldsNoMore
  PROVE  Knows(s)'
<1>1. Knows(s) /\ IsFiniteSet(Reserved)
  BY DEF CreditInv, Funded
<1>2. ASSUME NEW key, HasEntry(Visible(s), key) PROVE HasEntry(Visible(s), key)'
  <2>1. PICK e \in Visible(s) : e.key = key
    BY <1>2 DEF HasEntry
  <2>2. CASE e \in ledger
    <3>1. HasEntry(ledger', key)
      BY <2>1, <2>2 DEF HasEntry
    <3> QED
      BY <3>1 DEF HasEntry, Visible
  <2>3. CASE e \in spend[s].grants
    BY <2>1, <2>3 DEF HasEntry, Visible
  <2> QED
    BY <2>1, <2>2, <2>3 DEF Visible
<1>3. ASSUME spend[s].pc = "chosen"
      PROVE  \E e \in spend[s].seen :
               /\ e.key = spend[s].source
               /\ e.delta - Cardinality(Uses(spend[s].seen, e.key))
                    - Cardinality(Holds(e.key)') > 0
  <2>1. PICK e \in spend[s].seen :
          /\ e.key = spend[s].source
          /\ e.delta - Cardinality(Uses(spend[s].seen, e.key))
               - Cardinality(Holds(e.key)) > 0
    BY <1>1, <1>3 DEF Knows
  <2>2. e.delta \in Int /\ IsFiniteSet(Uses(spend[s].seen, e.key))
    <3>1. Sound(spend[s].seen) /\ Uses(spend[s].seen, e.key) \subseteq spend[s].seen
      BY <1>1, <1>3 DEF Knows, Uses
    <3> QED
      BY <3>1, FS_Subset DEF Sound
  <2> DEFINE used == Cardinality(Uses(spend[s].seen, e.key))
             held == Cardinality(Holds(e.key))
             holds == Cardinality(Holds(e.key)')
  <2>3. used \in Nat /\ held \in Nat /\ holds \in Nat /\ holds <= held
    BY <1>1, <1>3, <2>2, HoldsShrink, FS_CardinalityType
  <2> HIDE DEF used, held, holds
  <2>4. e.delta - used - held > 0
    BY <2>1 DEF used, held
  <2>5. e.delta - used - holds > 0
    BY <2>2, <2>3, <2>4
  <2> QED
    BY <2>1, <2>5 DEF used, holds
<1> QED
  BY <1>1, <1>2, <1>3 DEF Knows

\* A transaction outside its last two statements knows nothing yet.
LEMMA KnowsLittle ==
  ASSUME NEW s \in Spenders, IsFiniteSet(spend'[s].grants),
         spend'[s].pc \notin {"sources", "chosen"}
  PROVE  Knows(s)'
BY DEF Knows

LEMMA StatementCredits ==
  ASSUME IInv, CreditInv, NEW s \in Spenders, NEW t, Statement(s, t), Knows(s)'
  PROVE  CreditInv'
<1>1. /\ \A u \in Spenders : u # s => spend'[u] = spend[u]
      /\ UNCHANGED <<ledger, reservation, confirm>>
  BY DEF IInv, Shapes, Statement, credits
<1>2. HoldsNoMore /\ (Reserved' = Reserved)
  BY <1>1 DEF HoldsNoMore, Reserved
<1>3. \A u \in Spenders : Knows(u)'
  BY <1>1, <1>2, KnowsStays
<1>4. Funded'
  BY <1>1, <1>2 DEF CreditInv, Funded
<1> QED
  BY <1>1, <1>3, <1>4 DEF CreditInv

LEMMA StatementsKeepCredits ==
  ASSUME IInv, CreditInv, NEW s \in Spenders,
         \/ ReadsLedger(s) \/ CountsReservations(s) \/ ReadsSources(s)
         \/ ChoosesSource(s) \/ \E o \in Orders : SyncsOrder(s, o)
         \/ (Refused(s) /\ s \notin Runs)
  PROVE  CreditInv'
<1>1. /\ Shape(spend[s]) /\ Knows(s) /\ IsFiniteSet(spend[s].grants)
      /\ spend = [u \in Spenders |-> spend[u]]
  BY DEF IInv, Shapes, CreditInv, Knows
<1>2. ASSUME NEW t, Statement(s, t)
      PROVE  spend'[s] = t /\ UNCHANGED <<ledger, reservation>>
  BY <1>1, <1>2 DEF Statement, credits
<1>3. CASE ReadsLedger(s)
  <2> DEFINE t == [Idle EXCEPT !.pc = "ledger", !.late = expired,
                               !.balance = Total(Active(ledger, expired))]
  <2>1. Statement(s, t) /\ t.pc = "ledger" /\ t.grants = {}
    BY <1>3 DEF ReadsLedger, Idle
  <2> HIDE DEF t
  <2>2. Knows(s)'
    BY <1>2, <2>1, FS_EmptySet, KnowsLittle
  <2> QED
    BY <2>1, <2>2, StatementCredits
<1>4. CASE CountsReservations(s)
  <2> DEFINE t == [spend[s] EXCEPT
                     !.pc = "orders", !.balance = @ - Cardinality(Reserved),
                     !.todo = {o \in Orders : order[o] = "pending"}]
  <2>1. Statement(s, t) /\ t.pc = "orders" /\ t.grants = spend[s].grants
    BY <1>1, <1>4 DEF CountsReservations, Shape
  <2> HIDE DEF t
  <2>2. Knows(s)'
    BY <1>1, <1>2, <2>1, KnowsLittle
  <2> QED
    BY <2>1, <2>2, StatementCredits
<1>5. ASSUME NEW o \in Orders, SyncsOrder(s, o) PROVE CreditInv'
  <2>1. PICK answer \in {gateway[o], "pending"} :
          Statement(s, [spend[s] EXCEPT
            !.todo = @ \ {o},
            !.writes = IF Writes(o, answer) THEN @ \cup {<<o, Synced(o, answer)>>} ELSE @,
            !.grants = IF answer = "paid" THEN @ \cup {Purchase(o)} ELSE @])
    BY <1>5 DEF SyncsOrder
  <2> DEFINE t == [spend[s] EXCEPT
            !.todo = @ \ {o},
            !.writes = IF Writes(o, answer) THEN @ \cup {<<o, Synced(o, answer)>>} ELSE @,
            !.grants = IF answer = "paid" THEN @ \cup {Purchase(o)} ELSE @]
  <2>2. /\ Statement(s, t) /\ t.pc = "orders"
        /\ t.grants \in {spend[s].grants, spend[s].grants \cup {Purchase(o)}}
    BY <1>1, <1>5, <2>1 DEF SyncsOrder, Shape
  <2> HIDE DEF t
  <2>3. IsFiniteSet(t.grants)
    BY <1>1, <2>2, FS_AddElement
  <2>4. Knows(s)'
    BY <1>2, <2>2, <2>3, KnowsLittle
  <2> QED
    BY <2>2, <2>4, StatementCredits
<1>6. CASE ReadsSources(s)
  <2> DEFINE t == [spend[s] EXCEPT
                     !.pc = "sources", !.seen = Visible(s),
                     !.late = IF s \in Runs THEN expired ELSE @]
  <2>1. /\ Statement(s, t) /\ t.pc = "sources" /\ t.grants = spend[s].grants
        /\ t.seen = Visible(s)
    BY <1>1, <1>6 DEF ReadsSources, Shape
  <2> HIDE DEF t
  <2>2. Visible(s)' = Visible(s) /\ Sound(Visible(s))
    BY <1>2, <2>1, VisibleSound DEF Visible
  <2>3. Knows(s)'
    BY <1>1, <1>2, <2>1, <2>2 DEF Knows, HasEntry
  <2> QED
    BY <2>1, <2>3, StatementCredits
<1>7. CASE ChoosesSource(s)
  <2>1. PICK e \in nextCreditSource(spend[s].seen, spend[s].late, Reserved) :
          Statement(s, [spend[s] EXCEPT !.pc = "chosen", !.source = e.key])
    BY <1>7 DEF ChoosesSource
  <2> DEFINE t == [spend[s] EXCEPT !.pc = "chosen", !.source = e.key]
             seen == spend[s].seen
  <2>2. /\ Statement(s, t) /\ t.pc = "chosen" /\ t.grants = spend[s].grants
        /\ t.seen = seen /\ t.source = e.key
    BY <1>1, <2>1 DEF Shape
  <2> HIDE DEF t
  <2>3. Sound(seen) /\ \A x \in seen : HasEntry(Visible(s), x.key)
    BY <1>1, <1>7 DEF Knows, ChoosesSource
  <2>4. /\ e \in Active(seen, spend[s].late) /\ e \in seen
        /\ Remaining(Active(seen, spend[s].late), e, Reserved) > 0
    BY <2>1 DEF nextCreditSource, Active
  <2>5. e.delta - Cardinality(Uses(seen, e.key)) - Cardinality(Holds(e.key)) > 0
    BY <2>3, <2>4, ActiveUses, RemainingOf
  <2>6. Visible(s)' = Visible(s) /\ Holds(e.key)' = Holds(e.key)
    BY <1>2, <2>2 DEF Visible, Holds, Reserved
  <2>7. Knows(s)'
    BY <1>1, <1>2, <2>2, <2>3, <2>4, <2>5, <2>6 DEF Knows, HasEntry
  <2> QED
    BY <2>2, <2>7, StatementCredits
<1>8. CASE Refused(s) /\ s \notin Runs
  <2> DEFINE t == [Idle EXCEPT !.pc = "done"]
  <2>1. Statement(s, t) /\ t.pc = "done" /\ t.grants = {}
    BY <1>8 DEF Refused, Idle
  <2> HIDE DEF t
  <2>2. Knows(s)'
    BY <1>2, <2>1, FS_EmptySet, KnowsLittle
  <2> QED
    BY <2>1, <2>2, StatementCredits
<1> QED
  BY <1>3, <1>4, <1>5, <1>6, <1>7, <1>8

\* A transaction that commits: nobody else is between two of its statements.
LEMMA CommitCredits ==
  ASSUME IInv, CreditInv, NEW s \in Spenders, Active_pc(spend[s]), Committed(s),
         Sound(ledger'), Funded'
  PROVE  CreditInv'
<1>1. \A u \in Spenders :
         spend'[u] = IF u = s THEN [Idle EXCEPT !.pc = "done"] ELSE spend[u]
  BY DEF IInv, Shapes, Committed
<1>2. /\ [Idle EXCEPT !.pc = "done"].pc = "done"
      /\ [Idle EXCEPT !.pc = "done"].grants = {}
  BY DEF Idle
<1>3. ASSUME NEW u \in Spenders PROVE Knows(u)'
  <2>1. CASE u = s
    BY <1>1, <1>2, <2>1, FS_EmptySet, KnowsLittle
  <2>2. CASE u # s
    <3>1. ~Active_pc(spend[u]) /\ IsFiniteSet(spend[u].grants)
      BY <2>2 DEF IInv, Exclusive, CreditInv, Knows
    <3> QED
      BY <1>1, <2>2, <3>1, KnowsLittle DEF Active_pc
  <2> QED
    BY <2>1, <2>2
<1> QED
  BY <1>3 DEF CreditInv

\* Its ends.
LEMMA CommitsKeepCredits ==
  ASSUME IInv, CreditInv, NEW s \in Spenders,
         \/ s \in Runs /\ Reserves(s)
         \/ s \in Deductions /\ Deducts(s)
         \/ Refused(s) /\ s \in Runs
  PROVE  CreditInv'
<1>1. /\ Active_pc(spend[s]) /\ Committed(s) /\ confirm' = confirm
  BY DEF Reserves, Deducts, Refused, Committed, Active_pc
<1>2. /\ Sound(Visible(s)) /\ Funded /\ Knows(s)
      /\ \A key : HasEntry(ledger, key) => HasEntry(Visible(s), key)
  BY VisibleSound, VisibleLedger DEF CreditInv
<1>3. CASE s \in Runs /\ Reserves(s)
  <2>1. /\ spend[s].pc = "chosen" /\ ledger' = Visible(s)
        /\ reservation' = [reservation EXCEPT ![s] =
             [status |-> "reserved", fund |-> spend[s].source]]
    BY <1>3 DEF Reserves
  <2>2. /\ reservation' = [r \in Runs |-> reservation'[r]]
        /\ reservation'[s] = [status |-> "reserved", fund |-> spend[s].source]
        /\ \A r \in Runs : r # s => reservation'[r] = reservation[r]
    BY <1>2, <1>3, <2>1 DEF Funded
  <2>3. HasEntry(ledger', spend[s].source)
    BY <1>2, <2>1 DEF Knows
  <2>4. IsFiniteSet(Reserved')
    <3>1. Reserved' \subseteq Reserved \cup {s}
      BY <2>2 DEF Reserved
    <3> QED
      BY <1>2, <3>1, FS_AddElement, FS_Subset DEF Funded
  <2>5. Funded'
    <3>1. \A r \in Runs : DOMAIN reservation'[r] = {"status", "fund"}
      BY <1>2, <2>2 DEF Funded
    <3>2. \A r \in Runs :
            /\ reservation'[r].status # "none" => HasEntry(ledger', reservation'[r].fund)
            /\ confirm'[r] = "read" => reservation'[r].status # "none"
      BY <1>1, <1>2, <2>1, <2>2, <2>3 DEF Funded
    <3> QED
      BY <1>1, <1>2, <2>2, <2>4, <3>1, <3>2 DEF Funded
  <2> QED
    BY <1>1, <1>2, <2>1, <2>5, CommitCredits
<1>4. CASE s \in Deductions /\ Deducts(s)
  <2> DEFINE source == EntryOf(Visible(s), spend[s].source)
             e == Entry("deduction", s, -1, source.expires, source.key)
  <2>1. /\ spend[s].pc = "chosen" /\ reservation' = reservation
        /\ ledger' = WithEntry(Visible(s), e)
    BY <1>4 DEF Deducts
  <2>2. source \in Visible(s)
    BY <1>2, <2>1, Founds DEF Knows
  <2>3. e.delta = -1 /\ e.fund = source.key /\ e.expires = source.expires
    BY DEF Entry
  <2> HIDE DEF source, e
  <2>4. Sound(ledger')
    BY <1>2, <2>1, <2>2, <2>3, SoundGrows
  <2>5. \A key : HasEntry(ledger, key) => HasEntry(ledger', key)
    BY <1>2, <2>1, WithEntryHas
  <2>6. Funded'
    BY <1>1, <1>2, <2>1, <2>5 DEF Funded, Reserved
  <2> QED
    BY <1>1, <2>4, <2>6, CommitCredits
<1>5. CASE Refused(s) /\ s \in Runs
  <2>1. ledger' = Visible(s) /\ reservation' = reservation
    BY <1>5 DEF Refused
  <2>2. Funded'
    BY <1>1, <1>2, <2>1 DEF Funded, Reserved
  <2> QED
    BY <1>1, <1>2, <2>1, <2>2, CommitCredits
<1> QED
  BY <1>3, <1>4, <1>5

\* Whatever moves outside the spending transactions: the ledger stays sound and
\* loses nothing, and no reservation is made.
LEMMA OthersKeepCredits ==
  ASSUME CreditInv, spend' = spend,
         Sound(ledger'), \A key : HasEntry(ledger, key) => HasEntry(ledger', key),
         reservation' = [r \in Runs |-> reservation'[r]],
         \A r \in Runs :
           /\ DOMAIN reservation'[r] = {"status", "fund"}
           /\ reservation'[r].fund = reservation[r].fund
           /\ reservation'[r].status = "none" <=> reservation[r].status = "none"
           /\ reservation'[r].status = "reserved" => reservation[r].status = "reserved",
         confirm' = [r \in Runs |-> confirm'[r]],
         \A r \in Runs : confirm'[r] = "read" => reservation[r].status # "none"
  PROVE  CreditInv'
<1>1. HoldsNoMore
  BY DEF HoldsNoMore
<1>2. \A s \in Spenders : Knows(s)'
  BY <1>1, KnowsStays
<1>3. IsFiniteSet(Reserved')
  BY <1>1, HoldsShrink DEF CreditInv, Funded
<1>4. Funded'
  BY <1>3 DEF CreditInv, Funded
<1> QED
  BY <1>2, <1>4 DEF CreditInv

\* An entry may be added, and the reservations are as they were.
LEMMA EntryKeepsCredits ==
  ASSUME CreditInv, UNCHANGED <<spend, reservation, confirm>>, NEW e,
         ledger' = ledger \/ ledger' = WithEntry(ledger, e),
         e.delta \in Int, ~(e.delta < 0)
  PROVE  CreditInv'
<1>1. Sound(ledger) /\ Funded
  BY DEF CreditInv
<1>2. Sound(ledger') /\ \A key : HasEntry(ledger, key) => HasEntry(ledger', key)
  BY <1>1, SoundGrows, WithEntryHas
<1> QED
  BY <1>1, <1>2, OthersKeepCredits DEF Funded

LEMMA SettlesKeepCredits ==
  ASSUME CreditInv, NEW r \in Runs, Settle(r)
  PROVE  CreditInv'
<1>1. Sound(ledger) /\ Funded /\ spend' = spend
  BY DEF CreditInv, Settle, ConfirmReads, ConfirmWrites, releaseRunUsage,
     compensateRunUsage
<1>2. ASSUME NEW st, reservation' = [reservation EXCEPT ![r].status = st],
             st # "none", reservation[r].status # "none",
             st = "reserved" => reservation[r].status = "reserved",
             Sound(ledger'), \A key : HasEntry(ledger, key) => HasEntry(ledger', key),
             confirm' = confirm \/ confirm' = [confirm EXCEPT ![r] = "done"]
      PROVE  CreditInv'
  <2>1. /\ reservation' = [u \in Runs |-> reservation'[u]]
        /\ reservation'[r] = [reservation[r] EXCEPT !.status = st]
        /\ \A u \in Runs : u # r => reservation'[u] = reservation[u]
    BY <1>1, <1>2 DEF Funded
  <2>2. /\ DOMAIN reservation'[r] = {"status", "fund"}
        /\ reservation'[r].fund = reservation[r].fund
        /\ reservation'[r].status = st
    BY <1>1, <2>1 DEF Funded
  <2>3. /\ confirm' = [u \in Runs |-> confirm'[u]]
        /\ \A u \in Runs : confirm'[u] = "read" => reservation[u].status # "none"
    BY <1>1, <1>2 DEF Funded
  <2>4. \A u \in Runs :
          /\ DOMAIN reservation'[u] = {"status", "fund"}
          /\ reservation'[u].fund = reservation[u].fund
          /\ reservation'[u].status = "none" <=> reservation[u].status = "none"
          /\ reservation'[u].status = "reserved" => reservation[u].status = "reserved"
    BY <1>1, <1>2, <2>1, <2>2 DEF Funded
  <2> QED
    BY <1>1, <1>2, <2>1, <2>3, <2>4, OthersKeepCredits
<1>3. CASE ConfirmReads(r)
  <2>1. /\ reservation[r].status # "none" /\ UNCHANGED <<ledger, reservation>>
        /\ confirm' = [confirm EXCEPT ![r] =
             IF reservation[r].status = "reserved" THEN "read" ELSE "done"]
    BY <1>3 DEF ConfirmReads
  <2>2. /\ confirm' = [u \in Runs |-> confirm'[u]]
        /\ \A u \in Runs : confirm'[u] = "read" => reservation[u].status # "none"
    BY <1>1, <2>1 DEF Funded
  <2> QED
    BY <1>1, <2>1, <2>2, OthersKeepCredits DEF Funded
<1>4. CASE ConfirmWrites(r)
  <2> DEFINE fund == reservation[r].fund
             e == Entry("usage", r, -1, EntryOf(ledger, fund).expires, fund)
             st == IF reservation[r].status = "reserved" THEN "confirmed"
                   ELSE reservation[r].status
  <2>1. /\ confirm[r] = "read" /\ ledger' = WithEntry(ledger, e)
        /\ reservation' = [reservation EXCEPT ![r].status = st]
        /\ confirm' = [confirm EXCEPT ![r] = "done"]
    BY <1>4 DEF ConfirmWrites
  <2>2. reservation[r].status # "none" /\ HasEntry(ledger, fund)
    BY <1>1, <2>1 DEF Funded
  <2>3. /\ EntryOf(ledger, fund) \in ledger /\ EntryOf(ledger, fund).key = fund
        /\ e.delta = -1 /\ e.fund = fund /\ e.expires = EntryOf(ledger, fund).expires
    BY <2>2, Founds DEF Entry
  <2>4. st # "none" /\ st # "reserved"
    BY <2>2
  <2> HIDE DEF e, st, fund
  <2>5. Sound(ledger') /\ \A key : HasEntry(ledger, key) => HasEntry(ledger', key)
    BY <1>1, <2>1, <2>3, SoundGrows, WithEntryHas
  <2> QED
    BY <1>2, <2>1, <2>2, <2>4, <2>5
<1>5. CASE releaseRunUsage(r)
  <2>1. /\ reservation[r].status = "reserved" /\ UNCHANGED <<ledger, confirm>>
        /\ reservation' = [reservation EXCEPT ![r].status = "released"]
    BY <1>5 DEF releaseRunUsage
  <2> QED
    BY <1>1, <1>2, <2>1
<1>6. CASE compensateRunUsage(r)
  <2> DEFINE fund == reservation[r].fund
             e == Entry("compensation", r, 1, EntryOf(ledger, fund).expires, fund)
  <2>1. /\ reservation[r].status \in {"reserved", "confirmed"} /\ confirm' = confirm
        /\ reservation' = [reservation EXCEPT ![r].status = "released"]
        /\ ledger' = ledger \/ ledger' = WithEntry(ledger, e)
    BY <1>6 DEF compensateRunUsage
  <2>2. e.delta = 1
    BY DEF Entry
  <2> HIDE DEF e, fund
  <2>3. Sound(ledger') /\ \A key : HasEntry(ledger, key) => HasEntry(ledger', key)
    BY <1>1, <2>1, <2>2, SoundGrows, WithEntryHas
  <2> QED
    BY <1>2, <2>1, <2>3
<1> QED
  BY <1>3, <1>4, <1>5, <1>6 DEF Settle

\* Gifts, bonuses, purchases.
LEMMA GrantsKeepCredits ==
  ASSUME CreditInv,
         \/ \E g \in Gifts : Gives(g)
         \/ grantSignupBonus
         \/ \E c \in Callbacks : Callback(c)
         \/ \E q \in Queries : Query(q)
  PROVE  CreditInv'
<1> USE DEF credits
<1>0. {BonusSize, GiftSize, PackSize} \subseteq Nat
  BY SizeAssumption
<1>1. ASSUME NEW g \in Gifts, Gives(g) PROVE CreditInv'
  <2> DEFINE e == Entry("gift", g, GiftSize, FALSE, NoSource)
  <2>1. e.key = <<"gift", g>> /\ e.delta = GiftSize
    BY DEF Entry
  <2>2. UNCHANGED <<spend, reservation, confirm>> /\ ledger' = WithEntry(ledger, e)
    BY <1>1, <2>1 DEF Gives, WithEntry
  <2> HIDE DEF e
  <2> QED
    BY <1>0, <2>1, <2>2, EntryKeepsCredits
<1>2. CASE grantSignupBonus
  <2>1. UNCHANGED <<spend, reservation, confirm>> /\ ledger' = WithEntry(ledger, Bonus)
    BY <1>2 DEF grantSignupBonus
  <2>2. Bonus.delta = BonusSize
    BY DEF Bonus, Entry
  <2> QED
    BY <1>0, <2>1, <2>2, EntryKeepsCredits
<1>3. ASSUME NEW o, UNCHANGED <<spend, reservation, confirm>>,
             ledger' = ledger \/ ledger' = WithEntry(ledger, Purchase(o))
      PROVE  CreditInv'
  <2>1. Purchase(o).delta = PackSize
    BY DEF Purchase, Entry
  <2> QED
    BY <1>0, <1>3, <2>1, EntryKeepsCredits
<1>4. ASSUME NEW c \in Callbacks, Callback(c) PROVE CreditInv'
  BY <1>3, <1>4 DEF Callback, CallbackCommits, CallbackEnds, GrantedBy, CallbackAborts
<1>5. ASSUME NEW q \in Queries, Query(q) PROVE CreditInv'
  BY <1>3, <1>5 DEF Query, QueryReads, QueryAnswered, QueryWrites
<1> QED
  BY <1>1, <1>2, <1>4, <1>5

LEMMA CreditsInductive == IInv /\ CreditInv /\ [Next]_vars => CreditInv'
<1> SUFFICES ASSUME IInv, CreditInv, [Next]_vars PROVE CreditInv'
  OBVIOUS
<1> USE DEF credits
<1>1. ASSUME NEW s \in Spenders, Spend(s) PROVE CreditInv'
  BY <1>1, StatementsKeepCredits, CommitsKeepCredits DEF Spend
<1>2. ASSUME UNCHANGED <<ledger, spend, reservation, confirm>> PROVE CreditInv'
  BY <1>2, OthersKeepCredits DEF CreditInv, Funded
<1>3. CASE \/ BonusExpires \/ UNCHANGED vars
           \/ \E o \in Orders : createOrder(o) \/ OrderExpires(o) \/ markRefundPending(o)
           \/ \E o \in Orders, state \in Settled : GatewaySettles(o, state)
           \/ \E c \in Callbacks, o \in Orders, state \in Settled : CallbackReads(c, o, state)
  BY <1>2, <1>3 DEF BonusExpires, vars, createOrder, OrderExpires, markRefundPending,
     GatewaySettles, CallbackReads
<1>4. CASE \/ \E g \in Gifts : Gives(g)
           \/ grantSignupBonus
           \/ \E c \in Callbacks : Callback(c)
           \/ \E q \in Queries : Query(q)
  BY <1>4, GrantsKeepCredits
<1>5. ASSUME NEW r \in Runs, Settle(r) PROVE CreditInv'
  BY <1>5, SettlesKeepCredits
<1> QED
  BY <1>1, <1>3, <1>4, <1>5 DEF Next

LEMMA CreditsInvariant == Spec => [](IInv /\ CreditInv)
BY InitInv, InitCredits, Inductive, CreditsInductive, PTL DEF Spec

\* One more element at most makes a finite set larger by one at most.
LEMMA OneMore ==
  ASSUME NEW S, IsFiniteSet(S), NEW x, NEW T, T \subseteq S \cup {x}
  PROVE  Cardinality(T) \in Nat /\ Cardinality(T) <= Cardinality(S) + 1
<1>1. /\ IsFiniteSet(S \cup {x})
      /\ \/ Cardinality(S \cup {x}) = Cardinality(S)
         \/ Cardinality(S \cup {x}) = Cardinality(S) + 1
  BY FS_AddElement
<1>2. IsFiniteSet(T) /\ Cardinality(T) <= Cardinality(S \cup {x})
  BY <1>1, FS_Subset
<1>3. Cardinality(S) \in Nat /\ Cardinality(S \cup {x}) \in Nat /\ Cardinality(T) \in Nat
  BY <1>1, <1>2, FS_CardinalityType
<1> QED
  BY <1>1, <1>2, <1>3

\* What is left of the source a transaction spends from, when it commits on the
\* ledger it has looked at.
LEMMA SpendsWithinSource ==
  ASSUME IInv, CreditInv, NEW s \in Spenders,
         spend[s].pc = "chosen", spend[s].seen = Visible(s),
         \/ s \in Runs /\ Reserves(s)
         \/ s \in Deductions /\ Deducts(s)
  PROVE  \E e \in ledger' : /\ e.key = spend[s].source
                            /\ Remaining(ledger, e, Reserved)' >= 0
<1>0. PICK k, seen : k = spend[s].source /\ seen = spend[s].seen
  OBVIOUS
<1> SUFFICES \E f \in ledger' : f.key = k /\ Remaining(ledger, f, Reserved)' >= 0
  BY <1>0
<1>1. Sound(seen) /\ Funded
  BY <1>0 DEF CreditInv, Knows
<1>2. PICK e \in seen :
        /\ e.key = k
        /\ e.delta - Cardinality(Uses(seen, k)) - Cardinality(Holds(k)) > 0
  BY <1>0 DEF CreditInv, Knows
<1>3. /\ IsFiniteSet(Uses(seen, k)) /\ IsFiniteSet(Holds(k)) /\ e.delta \in Int
      /\ Cardinality(Uses(seen, k)) \in Nat /\ Cardinality(Holds(k)) \in Nat
  <2>1. Uses(seen, k) \subseteq seen /\ Holds(k) \subseteq Reserved
    BY DEF Uses, Holds
  <2> QED
    BY <1>1, <2>1, FS_Subset, FS_CardinalityType DEF Sound, Funded
<1>4. ASSUME e \in ledger',
             \/ /\ Cardinality(Uses(ledger', k)) <= Cardinality(Uses(seen, k))
                /\ Cardinality(Holds(k)') <= Cardinality(Holds(k)) + 1
             \/ /\ Cardinality(Uses(ledger', k)) <= Cardinality(Uses(seen, k)) + 1
                /\ Cardinality(Holds(k)') <= Cardinality(Holds(k)),
             Cardinality(Uses(ledger', k)) \in Nat, Cardinality(Holds(k)') \in Nat
      PROVE  \E f \in ledger' : f.key = k /\ Remaining(ledger, f, Reserved)' >= 0
  <2>1. Remaining(ledger, e, Reserved)' =
          e.delta - Cardinality(Uses(ledger', k)) - Cardinality(Holds(k)')
    BY <1>2 DEF Remaining, Uses, Holds
  <2>2. e.delta - Cardinality(Uses(ledger', k)) - Cardinality(Holds(k)') >= 0
    BY <1>2, <1>3, <1>4
  <2> QED
    BY <1>2, <1>4, <2>1, <2>2
<1>5. CASE s \in Runs /\ Reserves(s)
  <2>1. /\ ledger' = seen
        /\ reservation' = [reservation EXCEPT ![s] =
             [status |-> "reserved", fund |-> k]]
    BY <1>0, <1>5 DEF Reserves
  <2>2. \A r \in Runs : r # s => reservation'[r] = reservation[r]
    BY <1>1, <2>1 DEF Funded
  <2>3. Holds(k)' \subseteq Holds(k) \cup {s}
    BY <2>2 DEF Holds, Reserved
  <2>4. Cardinality(Holds(k)') \in Nat /\ Cardinality(Holds(k)') <= Cardinality(Holds(k)) + 1
    BY <1>3, <2>3, OneMore
  <2> QED
    BY <1>2, <1>3, <1>4, <2>1, <2>4
<1>6. CASE s \in Deductions /\ Deducts(s)
  <2>1. PICK x : ledger' = WithEntry(seen, x) /\ reservation' = reservation
    BY <1>0, <1>6 DEF Deducts
  <2>2. seen \subseteq ledger' /\ ledger' \subseteq seen \cup {x}
    BY <2>1, WithEntryHas
  <2>3. Uses(ledger', k) \subseteq Uses(seen, k) \cup {x}
    BY <2>2 DEF Uses
  <2>4. /\ Cardinality(Uses(ledger', k)) \in Nat
        /\ Cardinality(Uses(ledger', k)) <= Cardinality(Uses(seen, k)) + 1
    BY <1>3, <2>3, OneMore
  <2>5. Holds(k)' = Holds(k)
    BY <2>1 DEF Holds, Reserved
  <2> QED
    BY <1>2, <1>3, <1>4, <2>2, <2>4, <2>5
<1> QED
  BY <1>5, <1>6

\* Of a transaction past its last read, only its own reservation or deduction
\* is an end.
LEMMA EndsOfChosen ==
  ASSUME IInv, [Next]_vars, NEW s \in Spenders,
         spend[s].pc = "chosen", spend'[s].pc = "done"
  PROVE  \/ s \in Runs /\ Reserves(s)
         \/ s \in Deductions /\ Deducts(s)
<1> USE DEF payments, shop, credits
<1>1. spend' # spend
  OBVIOUS
<1>2. PICK u \in Spenders : Spend(u)
  BY <1>1 DEF Next, vars, Settle, ConfirmReads, ConfirmWrites, releaseRunUsage,
     compensateRunUsage, Gives, grantSignupBonus, BonusExpires, createOrder,
     OrderExpires, markRefundPending, GatewaySettles, CallbackReads, Callback,
     CallbackCommits, CallbackEnds, CallbackAborts, Query, QueryReads, QueryAnswered,
     QueryWrites
<1>3. \E t : spend' = [spend EXCEPT ![u] = t]
  BY <1>2 DEF Spend, ReadsLedger, CountsReservations, ReadsSources, ChoosesSource,
     SyncsOrder, Reserves, Deducts, Refused, Statement, Committed
<1>4. u = s
  BY <1>3 DEF IInv, Shapes
<1> QED
  BY <1>2, <1>4 DEF Spend, ReadsLedger, CountsReservations, ReadsSources,
     ChoosesSource, SyncsOrder, Refused, lockUserEntitlements

\* FreshReadsSpendWithinSource for any number of runs, deductions, gifts and
\* orders, whatever their interleaving: a reservation or a deduction that is
\* committed on the ledger its transaction has looked at spends a credit nobody
\* else has spent or holds, because the lock serialises who takes credits.
THEOREM FreshReadsAlwaysSpendWithinSource == Spec => FreshReadsSpendWithinSource
<1> DEFINE Within ==
      \A s \in Spenders :
        spend[s].pc = "chosen" /\ spend'[s].pc = "done" /\ spend[s].seen = Visible(s)
        => \E e \in ledger' : /\ e.key = spend[s].source
                              /\ Remaining(ledger, e, Reserved)' >= 0
<1>1. IInv /\ CreditInv /\ [Next]_vars => [Within]_vars
  BY EndsOfChosen, SpendsWithinSource
<1>2. Spec => [][Within]_vars
  BY <1>1, CreditsInvariant, PTL DEF Spec
<1> QED
  BY <1>2 DEF FreshReadsSpendWithinSource

-----------------------------------------------------------------------------
(***************************************************************************)
(* The balance is the sum of what the sources have left, as far as they are *)
(* not overdrawn.  The total of a ledger is a fold over a set, and what it  *)
(* returns is shown on the smallest part it could be wrong of.              *)
(***************************************************************************)
\* f gives the sum of the deltas of every part of S.
Sums(f, S) ==
  /\ f \in [SUBSET S -> Int]
  /\ f[{}] = 0
  /\ \A T \in SUBSET S : \A x \in T : f[T] = f[T \ {x}] + x.delta

WholeCredits(S) == IsFiniteSet(S) /\ \A x \in S : x.delta \in Int

\* Of the parts of a finite set in B one is the smallest.
LEMMA SmallestPart ==
  ASSUME NEW S, IsFiniteSet(S), NEW B \in SUBSET (SUBSET S), B # {}
  PROVE  \E T \in B : \A U \in B : ~(Cardinality(U) < Cardinality(T))
<1> DEFINE Sizes == {Cardinality(T) : T \in B}
<1>1. \A T \in B : Cardinality(T) \in Nat
  BY FS_Subset, FS_CardinalityType
<1>2. Sizes \in SUBSET Nat /\ Sizes # {}
  BY <1>1
<1>3. PICK n \in Sizes : \A m \in Sizes : ~(<<m, n>> \in OpToRel(<, Nat))
  <2> HIDE DEF Sizes
  <2> QED
    BY <1>2, NatLessThanWellFounded, WFMin
<1>4. PICK T \in B : n = Cardinality(T)
  BY <1>3
<1>5. \A U \in B : ~(Cardinality(U) < Cardinality(T))
  BY <1>1, <1>3, <1>4 DEF OpToRel
<1> QED
  BY <1>5

LEMMA SmallerPart ==
  ASSUME NEW S, IsFiniteSet(S), NEW T \in SUBSET S, NEW x \in T
  PROVE  T \ {x} \in SUBSET S /\ Cardinality(T \ {x}) < Cardinality(T)
<1>1. IsFiniteSet(T) /\ Cardinality(T) \in Nat
  BY FS_Subset, FS_CardinalityType
<1>2. Cardinality(T \ {x}) = Cardinality(T) - 1
  BY <1>1, FS_RemoveElement
<1> QED
  BY <1>1, <1>2

LEMMA SumsExist ==
  ASSUME NEW S, WholeCredits(S)
  PROVE  \E f : Sums(f, S)
<1> DEFINE B == {T \in SUBSET S : ~ \E f : Sums(f, T)}
<1>1. SUFFICES ASSUME B # {} PROVE FALSE
  OBVIOUS
<1>2. PICK T \in B : \A U \in B : ~(Cardinality(U) < Cardinality(T))
  <2> HIDE DEF B
  <2>1. B \in SUBSET (SUBSET S)
    BY DEF B
  <2> QED
    BY <1>1, <2>1, SmallestPart DEF WholeCredits
<1>3. CASE T = {}
  <2>1. Sums([s \in SUBSET {} |-> 0], {})
    BY DEF Sums
  <2> QED
    BY <1>2, <1>3, <2>1
<1>4. CASE T # {}
  <2>1. PICK x \in T : TRUE
    BY <1>4
  <2> DEFINE R == T \ {x}
  <2>2. R \in SUBSET S /\ R \notin B
    BY <1>2, SmallerPart DEF WholeCredits
  <2>3. PICK f : Sums(f, R)
    BY <2>2
  <2> DEFINE g == [s \in SUBSET T |-> IF x \in s THEN f[s \ {x}] + x.delta ELSE f[s]]
  <2>4. x.delta \in Int /\ \A y \in T : y.delta \in Int
    BY DEF WholeCredits
  <2>5. \A s \in SUBSET T : s \ {x} \in SUBSET R /\ (x \notin s => s \in SUBSET R)
    OBVIOUS
  <2>6. \A s \in SUBSET R : f[s] \in Int
    BY <2>3 DEF Sums
  <2>7. g \in [SUBSET T -> Int]
    BY <2>4, <2>5, <2>6
  <2>8. g[{}] = 0
    BY <2>3 DEF Sums
  <2>9. ASSUME NEW s \in SUBSET T, NEW y \in s
        PROVE  g[s] = g[s \ {y}] + y.delta
    <3>0. s \ {y} \in SUBSET T /\ y \in T
      OBVIOUS
    <3>1. CASE y = x
      <4>1. g[s] = f[s \ {x}] + x.delta /\ g[s \ {y}] = f[s \ {x}]
        BY <3>0, <3>1
      <4> QED
        BY <3>1, <4>1
    <3>2. CASE y # x /\ x \in s
      <4>1. g[s] = f[s \ {x}] + x.delta
        BY <3>2
      <4>2. g[s \ {y}] = f[(s \ {y}) \ {x}] + x.delta
        BY <3>0, <3>2
      <4>3. s \ {x} \in SUBSET R /\ y \in s \ {x} /\ (s \ {x}) \ {y} = (s \ {y}) \ {x}
        BY <3>2
      <4>4. f[s \ {x}] = f[(s \ {y}) \ {x}] + y.delta
        BY <2>3, <4>3 DEF Sums
      <4>5. f[(s \ {y}) \ {x}] \in Int /\ y.delta \in Int
        BY <2>4, <2>6, <3>0, <4>3
      <4> QED
        BY <2>4, <4>1, <4>2, <4>4, <4>5
    <3>3. CASE x \notin s
      <4>1. g[s] = f[s] /\ g[s \ {y}] = f[s \ {y}] /\ s \in SUBSET R
        BY <3>0, <3>3
      <4> QED
        BY <2>3, <4>1 DEF Sums
    <3> QED
      BY <3>1, <3>2, <3>3
  <2>10. Sums(g, T)
    <3> HIDE DEF g
    <3> QED
      BY <2>7, <2>8, <2>9 DEF Sums
  <2> QED
    BY <1>2, <2>10
<1> QED
  BY <1>3, <1>4

\* Total, as the fold defines it.
Folds(h, S) ==
  h = [s \in SUBSET S |-> IF s = {} THEN 0
         ELSE (CHOOSE x \in s : TRUE).delta + h[s \ {CHOOSE x \in s : TRUE}]]

LEMMA TotalFolds ==
  ASSUME NEW S
  PROVE  Total(S) = (CHOOSE h : Folds(h, S))[S]
BY DEF Total, MapThenSumSet, MapThenFoldSet, Folds

LEMMA SumsFold ==
  ASSUME NEW S, WholeCredits(S), NEW f, Sums(f, S)
  PROVE  Folds(f, S)
<1> DEFINE V(s) == IF s = {} THEN 0
         ELSE (CHOOSE x \in s : TRUE).delta + f[s \ {CHOOSE x \in s : TRUE}]
<1>1. ASSUME NEW s \in SUBSET S PROVE f[s] = V(s)
  <2>1. CASE s = {}
    BY <2>1 DEF Sums
  <2>2. CASE s # {}
    <3> DEFINE c == CHOOSE x \in s : TRUE
    <3>1. c \in s
      BY <2>2
    <3> HIDE DEF c
    <3>2. f[s] = f[s \ {c}] + c.delta
      BY <3>1 DEF Sums
    <3>3. f[s \ {c}] \in Int /\ c.delta \in Int
      BY <3>1 DEF Sums, WholeCredits
    <3>4. f[s] = c.delta + f[s \ {c}]
      BY <3>2, <3>3
    <3> QED
      BY <2>2, <3>4 DEF c
  <2> QED
    BY <2>1, <2>2
<1>2. f = [s \in SUBSET S |-> f[s]]
  BY DEF Sums
<1>3. f = [s \in SUBSET S |-> V(s)]
  <2> HIDE DEF V
  <2> QED
    BY <1>1, <1>2
<1> QED
  BY <1>3 DEF Folds

LEMMA FoldsAgree ==
  ASSUME NEW S, WholeCredits(S), NEW f, Folds(f, S), NEW h, Folds(h, S)
  PROVE  f[S] = h[S]
<1> DEFINE B == {T \in SUBSET S : f[T] # h[T]}
<1>1. SUFFICES ASSUME B # {} PROVE FALSE
  OBVIOUS
<1>2. PICK T \in B : \A U \in B : ~(Cardinality(U) < Cardinality(T))
  <2> HIDE DEF B
  <2>1. B \in SUBSET (SUBSET S)
    BY DEF B
  <2> QED
    BY <1>1, <2>1, SmallestPart DEF WholeCredits
<1>3. T # {}
  BY <1>2 DEF Folds
<1> DEFINE c == CHOOSE x \in T : TRUE
<1>4. c \in T
  BY <1>3
<1>5. f[T] = c.delta + f[T \ {c}] /\ h[T] = c.delta + h[T \ {c}]
  BY <1>2, <1>3 DEF Folds
<1> HIDE DEF c
<1>6. T \ {c} \in SUBSET S /\ T \ {c} \notin B
  BY <1>2, <1>4, SmallerPart DEF WholeCredits
<1> QED
  BY <1>2, <1>5, <1>6

\* The sums give the total of every part.
LEMMA TotalIs ==
  ASSUME NEW S, WholeCredits(S), NEW f, Sums(f, S), NEW T \in SUBSET S
  PROVE  Total(T) = f[T]
<1> DEFINE g == [s \in SUBSET T |-> f[s]]
<1>1. WholeCredits(T)
  BY FS_Subset DEF WholeCredits
<1>2. Sums(g, T)
  BY DEF Sums
<1> HIDE DEF g
<1>3. Folds(g, T)
  BY <1>1, <1>2, SumsFold
<1>4. Folds(CHOOSE h : Folds(h, T), T)
  BY <1>3
<1>5. (CHOOSE h : Folds(h, T))[T] = g[T]
  BY <1>1, <1>3, <1>4, FoldsAgree
<1> QED
  BY <1>5, TotalFolds DEF g

\* What is summed up may be taken out one by one, in any order.
LEMMA TotalAdds ==
  ASSUME NEW S, WholeCredits(S)
  PROVE  /\ Total(S) \in Int
         /\ Total({}) = 0
         /\ \A x \in S : Total(S) = Total(S \ {x}) + x.delta
<1>1. PICK f : Sums(f, S)
  BY SumsExist
<1>2. \A T \in SUBSET S : Total(T) = f[T]
  BY <1>1, TotalIs
<1>3. /\ S \in SUBSET S /\ {} \in SUBSET S
      /\ \A x \in S : S \ {x} \in SUBSET S
  OBVIOUS
<1> QED
  BY <1>1, <1>2, <1>3 DEF Sums

\* Each credit that is spent takes one from the total.
LEMMA TotalSpent ==
  ASSUME NEW S, NEW U, WholeCredits(S \cup U), S \cap U = {},
         \A x \in U : x.delta = -1
  PROVE  /\ Total(S) \in Int /\ Cardinality(U) \in Nat
         /\ Total(S \cup U) = Total(S) - Cardinality(U)
<1>0. /\ IsFiniteSet(U) /\ WholeCredits(S)
      /\ \A T \in SUBSET U : IsFiniteSet(T) /\ WholeCredits(S \cup T) /\ Cardinality(T) \in Nat
  <2>1. \A T \in SUBSET (S \cup U) : IsFiniteSet(T) /\ Cardinality(T) \in Nat
    BY FS_Subset, FS_CardinalityType DEF WholeCredits
  <2>2. \A T \in SUBSET U : T \in SUBSET (S \cup U) /\ S \cup T \in SUBSET (S \cup U)
    OBVIOUS
  <2> QED
    BY <2>1, <2>2 DEF WholeCredits
<1>1. Total(S) \in Int
  BY <1>0, TotalAdds
<1> DEFINE B == {T \in SUBSET U : Total(S \cup T) # Total(S) - Cardinality(T)}
<1>2. B = {}
  <2>1. SUFFICES ASSUME B # {} PROVE FALSE
    OBVIOUS
  <2>2. PICK T \in B : \A R \in B : ~(Cardinality(R) < Cardinality(T))
    <3> HIDE DEF B
    <3>1. B \in SUBSET (SUBSET U)
      BY DEF B
    <3> QED
      BY <1>0, <2>1, <3>1, SmallestPart
  <2>3. T # {}
    <3>1. SUFFICES ASSUME T = {} PROVE FALSE
      OBVIOUS
    <3>2. S \cup T = S /\ Cardinality(T) = 0
      BY <3>1, FS_EmptySet
    <3>3. Total(S \cup T) = Total(S)
      BY <3>2
    <3> QED
      BY <1>1, <2>2, <3>2, <3>3
  <2>4. PICK x \in T : TRUE
    BY <2>3
  <2> DEFINE R == T \ {x}
  <2>5. R \in SUBSET U /\ R \notin B
    BY <1>0, <2>2, SmallerPart
  <2>6. Total(S \cup R) = Total(S) - Cardinality(R)
    BY <2>5
  <2>7. Cardinality(R) = Cardinality(T) - 1 /\ Cardinality(T) \in Nat
    BY <1>0, <2>2, FS_RemoveElement
  <2>8. (S \cup T) \ {x} = S \cup R /\ x \in S \cup T /\ x.delta = -1
    BY <2>2
  <2>9. Total(S \cup T) = Total(S \cup R) + (-1)
    BY <1>0, <2>2, <2>8, TotalAdds
  <2> QED
    BY <1>1, <2>2, <2>6, <2>7, <2>9
<1> QED
  BY <1>0, <1>1, <1>2

\* A credit is a source with what it holds, or one credit spent from a source.
IsSource(key) == key[1] \in {"signup_bonus", "purchase", "gift", "compensation"}

Keyed(x) ==
  \/ IsSource(x.key) /\ x.delta \in Nat \ {0}
  \/ ~IsSource(x.key) /\ x.delta = -1 /\ IsSource(x.fund)

\* If no source of a ledger has anything left, its total is no more than what
\* is held of the sources.
LEMMA NothingLeft ==
  ASSUME NEW A, IsFiniteSet(A), \A x \in A : Keyed(x),
         \A x, y \in A : x.key = y.key => x = y,
         \A x \in A : x.delta < 0 => \E f \in A : f.key = x.fund,
         IsFiniteSet(Reserved),
         \A e \in A : e.delta > 0 =>
           e.delta <= Cardinality(Uses(A, e.key)) + Cardinality(Holds(e.key))
  PROVE  Total(A) \in Int /\ Total(A) <= Cardinality(Reserved)
<1> DEFINE P == {e \in A : e.delta > 0}
           Spent(T) == {x \in A : x.delta < 0 /\ \E e \in T : x.fund = e.key}
           On(T) == {r \in Reserved : \E e \in T : reservation[r].fund = e.key}
           B == {T \in SUBSET P : ~(Total(T \cup Spent(T)) <= Cardinality(On(T)))}
<1>1. /\ \A x \in A : x.delta \in Int /\ (x.delta > 0 \/ x.delta = -1)
      /\ WholeCredits(A)
  BY DEF Keyed, WholeCredits
<1>2. /\ \A T \in SUBSET A : IsFiniteSet(T) /\ WholeCredits(T) /\ Cardinality(T) \in Nat
      /\ \A H \in SUBSET Reserved : IsFiniteSet(H) /\ Cardinality(H) \in Nat
  BY <1>1, FS_Subset, FS_CardinalityType DEF WholeCredits
<1>3. P \in SUBSET A /\ IsFiniteSet(P)
  BY <1>2
<1>4. B = {}
  <2>1. SUFFICES ASSUME B # {} PROVE FALSE
    OBVIOUS
  <2>2. PICK T \in B : \A R \in B : ~(Cardinality(R) < Cardinality(T))
    <3> HIDE DEF B
    <3>1. B \in SUBSET (SUBSET P)
      BY DEF B
    <3> HIDE DEF P
    <3> QED
      BY <1>3, <2>1, <3>1, SmallestPart
  <2>3. T # {}
    <3>1. {} \cup Spent({}) = {} /\ On({}) = {}
      OBVIOUS
    <3>2. Total({}) = 0 /\ Cardinality({}) = 0
      BY <1>1, TotalAdds, FS_EmptySet
    <3> HIDE DEF Spent, On
    <3> QED
      BY <2>2, <3>1, <3>2
  <2>4. PICK e \in T : TRUE
    BY <2>3
  <2> DEFINE R == T \ {e}
             U == Uses(A, e.key)
             W == R \cup Spent(R)
  <2>5. T \in SUBSET P /\ R \in SUBSET P /\ e \in P /\ e \in A /\ e.delta > 0
    BY <2>2
  <2>6. R \notin B
    <3>1. Cardinality(R) < Cardinality(T)
      BY <1>3, <2>5, SmallerPart
    <3> HIDE DEF B
    <3> QED
      BY <2>2, <3>1
  <2>7. Total(W) <= Cardinality(On(R))
    BY <2>5, <2>6
  <2>8. /\ Spent(T) = Spent(R) \cup U /\ Spent(R) \cap U = {}
        /\ On(T) = On(R) \cup Holds(e.key) /\ On(R) \cap Holds(e.key) = {}
    <3>1. \A d \in R : d \in A /\ d.key # e.key
      BY <2>5
    <3>2. \A d : d \in T <=> d \in R \/ d = e
      OBVIOUS
    <3> HIDE DEF R, P, B
    <3> QED
      BY <3>1, <3>2 DEF Uses, Holds
  <2>9. /\ T \cup Spent(T) = (W \cup {e}) \cup U /\ (W \cup {e}) \cap U = {}
        /\ (W \cup {e}) \ {e} = W /\ (W \cup {e}) \cup U \in SUBSET A
        /\ W \cup {e} \in SUBSET A
    <3>1. \A x \in U : x.delta < 0 /\ x \in A
      BY DEF Uses
    <3>2. \A x \in R : x.delta > 0 /\ x \in A
      BY <2>5
    <3>3. \A x \in Spent(R) : x.delta < 0 /\ x \in A
      OBVIOUS
    <3>4. e \notin R /\ T = R \cup {e}
      OBVIOUS
    <3>5. \A x \in A : ~(x.delta > 0 /\ x.delta < 0)
      BY <1>1
    <3> HIDE DEF Spent, R, U, P, B
    <3> QED
      BY <2>5, <2>8, <3>1, <3>2, <3>3, <3>4, <3>5
  <2>10. \A x \in U : x.delta = -1
    BY <1>1 DEF Uses
  <2> HIDE DEF Spent, U, On, R, P, B
  <2>11. /\ Total(W \cup {e}) \in Int /\ Cardinality(U) \in Nat
         /\ Total((W \cup {e}) \cup U) = Total(W \cup {e}) - Cardinality(U)
    BY <1>2, <2>9, <2>10, TotalSpent
  <2>12. Total(W) \in Int /\ Total(W \cup {e}) = Total(W) + e.delta
    <3>1. WholeCredits(W \cup {e}) /\ WholeCredits(W)
      BY <1>2, <2>9
    <3> HIDE DEF W
    <3> QED
      BY <2>9, <3>1, TotalAdds
  <2>13. /\ Cardinality(On(T)) = Cardinality(On(R)) + Cardinality(Holds(e.key))
         /\ Cardinality(On(R)) \in Nat /\ Cardinality(Holds(e.key)) \in Nat
    <3>1. On(R) \in SUBSET Reserved /\ Holds(e.key) \in SUBSET Reserved
      BY DEF On, Holds
    <3>2. On(R) \cap Holds(e.key) = {} /\ Cardinality({}) = 0
      BY <2>8, FS_EmptySet
    <3>3. /\ IsFiniteSet(On(R)) /\ IsFiniteSet(Holds(e.key))
          /\ Cardinality(On(R)) \in Nat /\ Cardinality(Holds(e.key)) \in Nat
      BY <1>2, <3>1
    <3>4. Cardinality(On(R) \cup Holds(e.key)) =
            Cardinality(On(R)) + Cardinality(Holds(e.key))
              - Cardinality(On(R) \cap Holds(e.key))
      BY <3>3, FS_Union
    <3>5. /\ Cardinality(On(R) \cap Holds(e.key)) = 0
          /\ Cardinality(On(T)) = Cardinality(On(R) \cup Holds(e.key))
      BY <2>8, <3>2
    <3> QED
      BY <3>3, <3>4, <3>5
  <2>14. e.delta <= Cardinality(U) + Cardinality(Holds(e.key)) /\ e.delta \in Int
    BY <1>1, <2>5 DEF U
  <2>15. Total(T \cup Spent(T)) <= Cardinality(On(T))
    <3>1. Total(T \cup Spent(T)) = Total((W \cup {e}) \cup U)
      BY <2>9
    <3> HIDE DEF W
    <3> QED
      BY <2>7, <2>11, <2>12, <2>13, <2>14, <3>1
  <2> QED
    BY <2>2, <2>15 DEF B
<1>5. P \cup Spent(P) = A
  <2>1. ASSUME NEW x \in A, x.delta < 0 PROVE x \in Spent(P)
    <3>1. PICK f \in A : f.key = x.fund
      BY <2>1
    <3>2. IsSource(x.fund)
      BY <2>1 DEF Keyed
    <3>3. f \in P
      BY <3>1, <3>2 DEF Keyed
    <3> QED
      BY <2>1, <3>1, <3>3
  <2>2. ASSUME NEW x \in A, ~(x.delta < 0) PROVE x \in P
    BY <1>1, <2>2
  <2> QED
    BY <2>1, <2>2
<1>6. Total(A) <= Cardinality(On(P))
  <2>1. P \in SUBSET P /\ P \notin B
    BY <1>4
  <2>2. Total(P \cup Spent(P)) <= Cardinality(On(P))
    <3> HIDE DEF P, Spent, On
    <3> QED
      BY <2>1
  <2> QED
    BY <1>5, <2>2
<1>7. Cardinality(On(P)) <= Cardinality(Reserved) /\ Cardinality(On(P)) \in Nat
  <2>1. On(P) \in SUBSET Reserved
    OBVIOUS
  <2> QED
    BY <1>2, <2>1, FS_Subset
<1>8. Total(A) \in Int /\ Cardinality(Reserved) \in Nat
  BY <1>1, TotalAdds, FS_CardinalityType
<1> QED
  BY <1>6, <1>7, <1>8

\* Whatever names a source, names one by its kind.
SourceInv ==
  /\ \A x \in ledger : Keyed(x)
  /\ \A r \in Runs : reservation[r].status # "none" => IsSource(reservation[r].fund)
  /\ \A s \in Spenders :
       /\ spend[s].pc \in {"sources", "chosen"} => \A x \in spend[s].seen : Keyed(x)
       /\ spend[s].pc = "chosen" => IsSource(spend[s].source)

LEMMA SpendableNow == CreditInv /\ SourceInv => BalanceIsSpendable
<1> SUFFICES ASSUME CreditInv, SourceInv,
                    nextCreditSource(ledger, expired, Reserved) = {}
             PROVE  ~(Balance > 0)
  BY DEF BalanceIsSpendable
<1> DEFINE A == Active(ledger, expired)
           left == {e \in A : e.delta > 0 /\ Remaining(A, e, Reserved) > 0}
<1>1. left = {}
  <2>1. nextCreditSource(ledger, expired, Reserved) =
          {e \in left : e.expires \/ \A f \in left : ~f.expires}
    BY DEF nextCreditSource
  <2> HIDE DEF left
  <2> QED
    BY <2>1
<1>2. /\ IsFiniteSet(A) /\ A \subseteq ledger
      /\ \A x \in A : \A f \in ledger : f.expires = x.expires => f \in A
      /\ IsFiniteSet(Reserved) /\ Sound(ledger)
  <2>1. A \in SUBSET ledger
    BY DEF Active
  <2> QED
    BY <2>1, FS_Subset DEF CreditInv, Sound, Funded, Active
<1> HIDE DEF A
<1>3. /\ \A x \in A : Keyed(x)
      /\ \A x, y \in A : x.key = y.key => x = y
      /\ \A x \in A : x.delta < 0 => \E f \in A : f.key = x.fund
  BY <1>2 DEF SourceInv, Sound
<1>4. ASSUME NEW e \in A, e.delta > 0
      PROVE  e.delta <= Cardinality(Uses(A, e.key)) + Cardinality(Holds(e.key))
  <2>1. ~(Remaining(A, e, Reserved) > 0)
    BY <1>1, <1>4
  <2>2. ~(e.delta - Cardinality(Uses(A, e.key)) - Cardinality(Holds(e.key)) > 0)
    BY <2>1, RemainingOf
  <2>3. Uses(A, e.key) \in SUBSET A /\ Holds(e.key) \in SUBSET Reserved
    BY DEF Uses, Holds
  <2>4. /\ Cardinality(Uses(A, e.key)) \in Nat /\ Cardinality(Holds(e.key)) \in Nat
        /\ e.delta \in Int
    BY <1>2, <2>3, FS_Subset, FS_CardinalityType DEF Sound
  <2> QED
    BY <2>2, <2>4
<1>5. Total(A) \in Int /\ Total(A) <= Cardinality(Reserved)
  BY <1>2, <1>3, <1>4, NothingLeft
<1>6. Cardinality(Reserved) \in Nat /\ Balance = Total(A) - Cardinality(Reserved)
  BY <1>2, FS_CardinalityType DEF Balance, A
<1> QED
  BY <1>5, <1>6

-----------------------------------------------------------------------------
(* Each kind of step keeps SourceInv.                                       *)

LEMMA KeyedWith ==
  ASSUME NEW L, \A x \in L : Keyed(x), NEW e, Keyed(e)
  PROVE  \A x \in WithEntry(L, e) : Keyed(x)
BY DEF WithEntry

LEMMA KeyedEntries ==
  /\ Keyed(Bonus) /\ \A o : Keyed(Purchase(o))
  /\ \A g : Keyed(Entry("gift", g, GiftSize, FALSE, NoSource))
  /\ \A r, x, f : Keyed(Entry("compensation", r, 1, x, f))
  /\ \A r, x, f : IsSource(f) => Keyed(Entry("usage", r, -1, x, f))
  /\ \A d, x, f : IsSource(f) => Keyed(Entry("deduction", d, -1, x, f))
BY SizeAssumption DEF Keyed, IsSource, Bonus, Purchase, Entry

LEMMA KeyedVisible ==
  ASSUME IInv, SourceInv, NEW s \in Spenders
  PROVE  \A x \in Visible(s) : Keyed(x)
<1>1. \A e \in spend[s].grants : ~HasEntry(ledger, e.key) =>
         \E o \in Orders : e = Purchase(o)
  BY DEF IInv, Uncommitted, Pending
<1> QED
  BY <1>1, KeyedEntries DEF SourceInv, Visible

\* Of a transaction, the last two statements matter.
LEMMA MoveSources ==
  ASSUME IInv, SourceInv, NEW s \in Spenders, NEW t,
         spend' = [spend EXCEPT ![s] = t],
         t.pc \in {"sources", "chosen"} => \A x \in t.seen : Keyed(x),
         t.pc = "chosen" => IsSource(t.source),
         \A x \in ledger' : Keyed(x),
         \A r \in Runs : reservation'[r].status # "none" => IsSource(reservation'[r].fund)
  PROVE  SourceInv'
<1>1. \A u \in Spenders : spend'[u] = IF u = s THEN t ELSE spend[u]
  BY DEF IInv, Shapes
<1>2. ASSUME NEW u \in Spenders
      PROVE  /\ spend'[u].pc \in {"sources", "chosen"} => \A x \in spend'[u].seen : Keyed(x)
             /\ spend'[u].pc = "chosen" => IsSource(spend'[u].source)
  BY <1>1 DEF SourceInv
<1> QED
  BY <1>2 DEF SourceInv

LEMMA SpendsKeepSources ==
  ASSUME IInv, CreditInv, SourceInv, NEW s \in Spenders, Spend(s)
  PROVE  SourceInv'
<1>1. Shape(spend[s])
  BY DEF IInv, Shapes
<1>2. ASSUME NEW t, Statement(s, t),
             t.pc \in {"sources", "chosen"} => \A x \in t.seen : Keyed(x),
             t.pc = "chosen" => IsSource(t.source)
      PROVE  SourceInv'
  <2>1. spend' = [spend EXCEPT ![s] = t] /\ UNCHANGED <<ledger, reservation>>
    BY <1>2 DEF Statement, credits
  <2> QED
    BY <1>2, <2>1, MoveSources DEF SourceInv
<1>3. CASE ReadsLedger(s)
  <2> DEFINE t == [Idle EXCEPT !.pc = "ledger", !.late = expired,
                               !.balance = Total(Active(ledger, expired))]
  <2>1. Statement(s, t) /\ t.pc = "ledger"
    BY <1>3 DEF ReadsLedger, Idle
  <2> HIDE DEF t
  <2> QED
    BY <1>2, <2>1
<1>4. CASE CountsReservations(s)
  <2> DEFINE t == [spend[s] EXCEPT
                     !.pc = "orders", !.balance = @ - Cardinality(Reserved),
                     !.todo = {o \in Orders : order[o] = "pending"}]
  <2>1. Statement(s, t) /\ t.pc = "orders"
    BY <1>1, <1>4 DEF CountsReservations, Shape
  <2> HIDE DEF t
  <2> QED
    BY <1>2, <2>1
<1>5. ASSUME NEW o \in Orders, SyncsOrder(s, o) PROVE SourceInv'
  <2>1. PICK answer \in {gateway[o], "pending"} :
          Statement(s, [spend[s] EXCEPT
            !.todo = @ \ {o},
            !.writes = IF Writes(o, answer) THEN @ \cup {<<o, Synced(o, answer)>>} ELSE @,
            !.grants = IF answer = "paid" THEN @ \cup {Purchase(o)} ELSE @])
    BY <1>5 DEF SyncsOrder
  <2> DEFINE t == [spend[s] EXCEPT
            !.todo = @ \ {o},
            !.writes = IF Writes(o, answer) THEN @ \cup {<<o, Synced(o, answer)>>} ELSE @,
            !.grants = IF answer = "paid" THEN @ \cup {Purchase(o)} ELSE @]
  <2>2. Statement(s, t) /\ t.pc = "orders"
    BY <1>1, <1>5, <2>1 DEF SyncsOrder, Shape
  <2> HIDE DEF t
  <2> QED
    BY <1>2, <2>2
<1>6. CASE ReadsSources(s)
  <2> DEFINE t == [spend[s] EXCEPT
                     !.pc = "sources", !.seen = Visible(s),
                     !.late = IF s \in Runs THEN expired ELSE @]
  <2>1. Statement(s, t) /\ t.pc = "sources" /\ t.seen = Visible(s)
    BY <1>1, <1>6 DEF ReadsSources, Shape
  <2> HIDE DEF t
  <2> QED
    BY <1>2, <2>1, KeyedVisible
<1>7. CASE ChoosesSource(s)
  <2>1. PICK e \in nextCreditSource(spend[s].seen, spend[s].late, Reserved) :
          Statement(s, [spend[s] EXCEPT !.pc = "chosen", !.source = e.key])
    BY <1>7 DEF ChoosesSource
  <2> DEFINE t == [spend[s] EXCEPT !.pc = "chosen", !.source = e.key]
  <2>2. Statement(s, t) /\ t.pc = "chosen" /\ t.seen = spend[s].seen /\ t.source = e.key
    BY <1>1, <2>1 DEF Shape
  <2> HIDE DEF t
  <2>3. \A x \in spend[s].seen : Keyed(x)
    BY <1>7 DEF SourceInv, ChoosesSource
  <2>4. e \in spend[s].seen /\ e.delta > 0
    BY <2>1 DEF nextCreditSource, Active
  <2>5. IsSource(e.key)
    BY <2>3, <2>4 DEF Keyed
  <2> QED
    BY <1>2, <2>2, <2>3, <2>5
<1>8. ASSUME Committed(s), \A x \in ledger' : Keyed(x),
             \A r \in Runs : reservation'[r].status # "none" => IsSource(reservation'[r].fund)
      PROVE  SourceInv'
  <2> DEFINE t == [Idle EXCEPT !.pc = "done"]
  <2>1. spend' = [spend EXCEPT ![s] = t] /\ t.pc = "done"
    BY <1>8 DEF Committed, Idle
  <2> HIDE DEF t
  <2> QED
    BY <1>8, <2>1, MoveSources
<1>9. CASE Refused(s)
  <2>1. CASE s \in Runs
    <3>1. Committed(s) /\ ledger' = Visible(s) /\ reservation' = reservation
      BY <1>9, <2>1 DEF Refused
    <3> QED
      BY <1>8, <3>1, KeyedVisible DEF SourceInv
  <2>2. CASE s \notin Runs
    <3> DEFINE t == [Idle EXCEPT !.pc = "done"]
    <3>1. Statement(s, t) /\ t.pc = "done"
      BY <1>9, <2>2 DEF Refused, Idle
    <3> HIDE DEF t
    <3> QED
      BY <1>2, <3>1
  <2> QED
    BY <2>1, <2>2
<1>10. CASE s \in Runs /\ Reserves(s)
  <2>1. /\ spend[s].pc = "chosen" /\ ledger' = Visible(s) /\ Committed(s)
        /\ reservation' = [reservation EXCEPT ![s] =
             [status |-> "reserved", fund |-> spend[s].source]]
    BY <1>10 DEF Reserves
  <2>2. \A r \in Runs : reservation'[r] = IF r = s
          THEN [status |-> "reserved", fund |-> spend[s].source] ELSE reservation[r]
    BY <1>10, <2>1 DEF CreditInv, Funded
  <2>3. \A r \in Runs : reservation'[r].status # "none" => IsSource(reservation'[r].fund)
    BY <2>1, <2>2 DEF SourceInv
  <2> QED
    BY <1>8, <2>1, <2>3, KeyedVisible
<1>11. CASE s \in Deductions /\ Deducts(s)
  <2> DEFINE source == EntryOf(Visible(s), spend[s].source)
             e == Entry("deduction", s, -1, source.expires, source.key)
  <2>1. /\ spend[s].pc = "chosen" /\ reservation' = reservation /\ Committed(s)
        /\ ledger' = WithEntry(Visible(s), e)
    BY <1>11 DEF Deducts
  <2>2. HasEntry(Visible(s), spend[s].source) /\ IsSource(spend[s].source)
    BY <2>1 DEF CreditInv, Knows, SourceInv
  <2>3. source.key = spend[s].source
    BY <2>2, Founds
  <2>4. Keyed(e)
    <3> HIDE DEF source
    <3> QED
      BY <2>2, <2>3, KeyedEntries
  <2> HIDE DEF e
  <2>5. \A x \in ledger' : Keyed(x)
    BY <2>1, <2>4, KeyedVisible, KeyedWith
  <2> QED
    BY <1>8, <2>1, <2>5 DEF SourceInv
<1> QED
  BY <1>3, <1>4, <1>5, <1>6, <1>7, <1>9, <1>10, <1>11 DEF Spend

\* Outside the spending transactions: one entry at most is added.
LEMMA OthersKeepSources ==
  ASSUME CreditInv, SourceInv, spend' = spend, NEW e,
         ledger' = ledger \/ (Keyed(e) /\ ledger' = WithEntry(ledger, e)),
         \/ reservation' = reservation
         \/ \E r \in Runs : \E st :
              /\ reservation[r].status # "none"
              /\ reservation' = [reservation EXCEPT ![r].status = st]
  PROVE  SourceInv'
<1>1. \A x \in ledger' : Keyed(x)
  BY KeyedWith DEF SourceInv
<1>2. \A r \in Runs : reservation'[r].status # "none" =>
         reservation[r].status # "none" /\ reservation'[r].fund = reservation[r].fund
  BY DEF CreditInv, Funded
<1> QED
  BY <1>1, <1>2 DEF SourceInv

LEMMA SettlesKeepSources ==
  ASSUME CreditInv, SourceInv, NEW r \in Runs, Settle(r)
  PROVE  SourceInv'
<1>1. CASE ConfirmReads(r) \/ releaseRunUsage(r)
  BY <1>1, OthersKeepSources DEF ConfirmReads, releaseRunUsage
<1>2. CASE ConfirmWrites(r)
  <2> DEFINE fund == reservation[r].fund
             e == Entry("usage", r, -1, EntryOf(ledger, fund).expires, fund)
             st == IF reservation[r].status = "reserved" THEN "confirmed"
                   ELSE reservation[r].status
  <2>1. /\ confirm[r] = "read" /\ ledger' = WithEntry(ledger, e) /\ spend' = spend
        /\ reservation' = [reservation EXCEPT ![r].status = st]
    BY <1>2 DEF ConfirmWrites
  <2>2. reservation[r].status # "none"
    BY <2>1 DEF CreditInv, Funded
  <2>3. Keyed(e)
    BY <2>2, KeyedEntries DEF SourceInv
  <2> HIDE DEF e, st
  <2> QED
    BY <2>1, <2>2, <2>3, OthersKeepSources
<1>3. CASE compensateRunUsage(r)
  <2> DEFINE e == Entry("compensation", r, 1,
                    EntryOf(ledger, reservation[r].fund).expires, reservation[r].fund)
  <2>1. /\ reservation[r].status # "none" /\ spend' = spend
        /\ reservation' = [reservation EXCEPT ![r].status = "released"]
        /\ ledger' = ledger \/ ledger' = WithEntry(ledger, e)
    BY <1>3 DEF compensateRunUsage
  <2>2. Keyed(e)
    BY KeyedEntries
  <2> HIDE DEF e
  <2> QED
    BY <2>1, <2>2, OthersKeepSources
<1> QED
  BY <1>1, <1>2, <1>3 DEF Settle

LEMMA GrantsKeepSources ==
  ASSUME CreditInv, SourceInv,
         \/ \E g \in Gifts : Gives(g)
         \/ grantSignupBonus
         \/ \E c \in Callbacks : Callback(c)
         \/ \E q \in Queries : Query(q)
  PROVE  SourceInv'
<1> USE DEF credits
<1>1. ASSUME NEW e, Keyed(e), UNCHANGED <<spend, reservation>>,
             ledger' = ledger \/ ledger' = WithEntry(ledger, e)
      PROVE  SourceInv'
  BY <1>1, OthersKeepSources
<1>2. ASSUME NEW g \in Gifts, Gives(g) PROVE SourceInv'
  <2> DEFINE e == Entry("gift", g, GiftSize, FALSE, NoSource)
  <2>1. e.key = <<"gift", g>>
    BY DEF Entry
  <2>2. UNCHANGED <<spend, reservation>> /\ ledger' = WithEntry(ledger, e)
    BY <1>2, <2>1 DEF Gives, WithEntry
  <2>3. Keyed(e)
    BY KeyedEntries
  <2> HIDE DEF e
  <2> QED
    BY <1>1, <2>2, <2>3
<1>3. CASE grantSignupBonus
  BY <1>1, <1>3, KeyedEntries DEF grantSignupBonus
<1>4. ASSUME NEW c \in Callbacks, Callback(c) PROVE SourceInv'
  BY <1>1, <1>4, KeyedEntries
     DEF Callback, CallbackCommits, CallbackEnds, GrantedBy, CallbackAborts
<1>5. ASSUME NEW q \in Queries, Query(q) PROVE SourceInv'
  BY <1>1, <1>5, KeyedEntries DEF Query, QueryReads, QueryAnswered, QueryWrites
<1> QED
  BY <1>2, <1>3, <1>4, <1>5

LEMMA SourcesInductive == IInv /\ CreditInv /\ SourceInv /\ [Next]_vars => SourceInv'
<1> SUFFICES ASSUME IInv, CreditInv, SourceInv, [Next]_vars PROVE SourceInv'
  OBVIOUS
<1> USE DEF credits
<1>1. ASSUME UNCHANGED <<ledger, spend, reservation>> PROVE SourceInv'
  BY <1>1 DEF SourceInv
<1>2. CASE \/ BonusExpires \/ UNCHANGED vars
           \/ \E o \in Orders : createOrder(o) \/ OrderExpires(o) \/ markRefundPending(o)
           \/ \E o \in Orders, state \in Settled : GatewaySettles(o, state)
           \/ \E c \in Callbacks, o \in Orders, state \in Settled : CallbackReads(c, o, state)
  BY <1>1, <1>2 DEF BonusExpires, vars, createOrder, OrderExpires, markRefundPending,
     GatewaySettles, CallbackReads
<1>3. CASE \/ \E g \in Gifts : Gives(g)
           \/ grantSignupBonus
           \/ \E c \in Callbacks : Callback(c)
           \/ \E q \in Queries : Query(q)
  BY <1>3, GrantsKeepSources
<1>4. ASSUME NEW s \in Spenders, Spend(s) PROVE SourceInv'
  BY <1>4, SpendsKeepSources
<1>5. ASSUME NEW r \in Runs, Settle(r) PROVE SourceInv'
  BY <1>5, SettlesKeepSources
<1> QED
  BY <1>2, <1>3, <1>4, <1>5 DEF Next

\* BalanceIsSpendable in every reachable state, for any number of runs,
\* deductions, gifts and orders: reserveRunUsage's second look at the credits,
\* by source, finds one whenever its first, by balance, says there is one, if
\* nothing has come in between.
THEOREM BalanceAlwaysSpendable == Spec => []BalanceIsSpendable
<1>1. Init => SourceInv
  BY DEF Init, SourceInv, Idle
<1>2. IInv /\ CreditInv /\ SourceInv /\ [Next]_vars => SourceInv'
  BY SourcesInductive
<1>3. Spec => [](CreditInv /\ SourceInv)
  BY <1>1, <1>2, CreditsInvariant, PTL DEF Spec
<1> QED
  BY <1>3, SpendableNow, PTL

-----------------------------------------------------------------------------
(***************************************************************************)
(* The types.  Orders, trades and requests have theirs by IInv, and the     *)
(* reservations their entries by CreditInv.                                *)
(***************************************************************************)
Purchases == {Purchase(o) : o \in Orders}

SpendRecord ==
  [pc : {"idle", "ledger", "orders", "sources", "chosen", "done"}, late : BOOLEAN,
   balance : Int, todo : SUBSET Orders, writes : SUBSET (Orders \X Statuses),
   grants : SUBSET Purchases, seen : SUBSET Entries,
   source : Keys \cup {NoSource}]

ReservationRecord ==
  [status : {"none", "reserved", "confirmed", "released"}, fund : Keys \cup {NoSource}]

LedgerOK == ledger \subseteq Entries /\ expired \in BOOLEAN

ReservationsOK ==
  /\ reservation \in [Runs -> ReservationRecord]
  /\ confirm \in [Runs -> {"idle", "read", "done"}]
  /\ \A r \in Runs : confirm[r] # "idle" => reservation[r].status # "none"

SpendOK == spend \in [Spenders -> SpendRecord]

MarksOK ==
  /\ notified \subseteq Orders /\ overdue \subseteq Orders
  /\ sent \subseteq Orders \X Settled /\ acked \subseteq sent
  /\ \A c \in Callbacks : callback[c].pc = "read" =>
       <<callback[c].order, callback[c].state>> \in sent

TypeInv == LedgerOK /\ ReservationsOK /\ SpendOK /\ MarksOK

LEMMA Types == IInv /\ CreditInv /\ TypeInv => TypeOK
BY DEF TypeOK, TypeInv, IInv, Shapes, CreditInv, Funded, LedgerOK, ReservationsOK,
   SpendOK, MarksOK, SpendRecord, ReservationRecord, Purchases

LEMMA EntriesTyped ==
  /\ Bonus \in Entries /\ \A o \in Orders : Purchase(o) \in Entries
  /\ \A g \in Gifts : Entry("gift", g, GiftSize, FALSE, NoSource) \in Entries
  /\ \A r \in Runs, x \in BOOLEAN, f \in Keys :
       /\ Entry("compensation", r, 1, x, f) \in Entries
       /\ Entry("usage", r, -1, x, f) \in Entries
  /\ \A d \in Deductions, x \in BOOLEAN, f \in Keys :
       Entry("deduction", d, -1, x, f) \in Entries
<1>1. /\ <<"signup_bonus", "user">> \in Keys
      /\ \A o \in Orders : <<"purchase", o>> \in Keys
      /\ \A g \in Gifts : <<"gift", g>> \in Keys
      /\ \A r \in Runs : <<"compensation", r>> \in Keys /\ <<"usage", r>> \in Keys
      /\ \A d \in Deductions : <<"deduction", d>> \in Keys
  BY DEF Keys
<1>2. ASSUME NEW kind, NEW ref, <<kind, ref>> \in Keys,
             NEW n \in {-1, 1, BonusSize, GiftSize, PackSize},
             NEW x \in BOOLEAN, NEW f \in Keys \cup {NoSource}
      PROVE  Entry(kind, ref, n, x, f) \in Entries
  BY <1>2 DEF Entries, Entry
<1>3. Bonus \in Entries /\ \A o \in Orders : Purchase(o) \in Entries
  BY <1>1, <1>2 DEF Bonus, Purchase
<1>4. \A g \in Gifts : Entry("gift", g, GiftSize, FALSE, NoSource) \in Entries
  BY <1>1, <1>2
<1>5. ASSUME NEW r \in Runs, NEW x \in BOOLEAN, NEW f \in Keys
      PROVE  /\ Entry("compensation", r, 1, x, f) \in Entries
             /\ Entry("usage", r, -1, x, f) \in Entries
  BY <1>1, <1>2
<1>6. ASSUME NEW d \in Deductions, NEW x \in BOOLEAN, NEW f \in Keys
      PROVE  Entry("deduction", d, -1, x, f) \in Entries
  BY <1>1, <1>2
<1> QED
  BY <1>3, <1>4, <1>5, <1>6

\* What an entry found by its source gives.
LEMMA FoundTyped ==
  ASSUME NEW L, L \subseteq Entries, NEW k, HasEntry(L, k)
  PROVE  k \in Keys /\ EntryOf(L, k).expires \in BOOLEAN /\ EntryOf(L, k).key = k
<1>1. EntryOf(L, k) \in Entries /\ EntryOf(L, k).key = k
  BY Founds
<1> QED
  BY <1>1 DEF Entries

LEMMA VisibleTyped ==
  ASSUME TypeInv, NEW s \in Spenders
  PROVE  Visible(s) \subseteq Entries
<1>1. spend[s].grants \subseteq Purchases
  BY DEF TypeInv, SpendOK, SpendRecord
<1> QED
  BY <1>1, EntriesTyped DEF Visible, TypeInv, LedgerOK, Purchases

LEMMA WithTyped ==
  ASSUME NEW L, L \subseteq Entries, NEW e \in Entries
  PROVE  WithEntry(L, e) \subseteq Entries
BY DEF WithEntry

LEMMA IdleTyped ==
  /\ Idle \in SpendRecord
  /\ [Idle EXCEPT !.pc = "done"] \in SpendRecord
  /\ \A b \in Int : expired \in BOOLEAN =>
       [Idle EXCEPT !.pc = "ledger", !.late = expired, !.balance = b] \in SpendRecord
<1>1. Idle \in SpendRecord
  BY DEF Idle, SpendRecord
<1>2. [Idle EXCEPT !.pc = "done"] \in SpendRecord
  BY <1>1 DEF SpendRecord
<1>3. ASSUME NEW b \in Int, expired \in BOOLEAN
      PROVE  [Idle EXCEPT !.pc = "ledger", !.late = expired, !.balance = b] \in SpendRecord
  BY <1>1, <1>3 DEF SpendRecord
<1> QED
  BY <1>1, <1>2, <1>3

\* A statement of a transaction.
LEMMA StatementTypes ==
  ASSUME TypeInv, NEW s \in Spenders, NEW t \in SpendRecord, Statement(s, t)
  PROVE  TypeInv'
<1>1. UNCHANGED <<ledger, expired, reservation, confirm, notified, overdue, sent, acked,
                  callback>>
  BY DEF Statement, credits, payments, shop
<1>2. SpendOK'
  BY DEF Statement, TypeInv, SpendOK
<1> QED
  BY <1>1, <1>2 DEF TypeInv, LedgerOK, ReservationsOK, MarksOK

\* A commit of one.
LEMMA CommitTypes ==
  ASSUME TypeInv, NEW s \in Spenders, Committed(s), ledger' \subseteq Entries,
         \/ reservation' = reservation
         \/ \E f \in Keys : reservation' = [reservation EXCEPT ![s] =
                                              [status |-> "reserved", fund |-> f]]
  PROVE  TypeInv'
<1>1. UNCHANGED <<expired, confirm, notified, overdue, sent, acked, callback>>
  BY DEF Committed, shop
<1>2. SpendOK'
  BY IdleTyped DEF Committed, TypeInv, SpendOK
<1>3. ReservationsOK'
  BY <1>1 DEF TypeInv, ReservationsOK, ReservationRecord
<1> QED
  BY <1>1, <1>2, <1>3 DEF TypeInv, LedgerOK, MarksOK

LEMMA SpendsKeepTypes ==
  ASSUME IInv, CreditInv, TypeInv, NEW s \in Spenders, Spend(s)
  PROVE  TypeInv'
<1>1. spend[s] \in SpendRecord /\ expired \in BOOLEAN /\ Visible(s) \subseteq Entries
  BY VisibleTyped DEF TypeInv, SpendOK, LedgerOK
<1>2. CASE ReadsLedger(s)
  <2>1. Total(Active(ledger, expired)) \in Int
    <3>1. Active(ledger, expired) \in SUBSET ledger
      BY DEF Active
    <3>2. WholeCredits(Active(ledger, expired))
      BY <3>1, FS_Subset DEF WholeCredits, CreditInv, Sound
    <3> QED
      BY <3>2, TotalAdds
  <2> QED
    BY <1>1, <1>2, <2>1, IdleTyped, StatementTypes DEF ReadsLedger
<1>3. CASE CountsReservations(s)
  <2> DEFINE balance == spend[s].balance - Cardinality(Reserved)
             todo == {o \in Orders : order[o] = "pending"}
             t == [spend[s] EXCEPT !.pc = "orders", !.balance = balance, !.todo = todo]
  <2>1. balance \in Int /\ todo \in SUBSET Orders
    <3>1. Cardinality(Reserved) \in Nat
      BY FS_CardinalityType DEF CreditInv, Funded
    <3>2. spend[s].balance \in Int
      BY <1>1 DEF SpendRecord
    <3> QED
      BY <3>1, <3>2
  <2>2. Statement(s, t)
    BY <1>3 DEF CountsReservations
  <2> HIDE DEF balance, todo
  <2>3. t \in SpendRecord
    BY <1>1, <2>1 DEF SpendRecord
  <2> HIDE DEF t
  <2> QED
    BY <2>2, <2>3, StatementTypes
<1>4. ASSUME NEW o \in Orders, SyncsOrder(s, o) PROVE TypeInv'
  <2>1. PICK answer \in {gateway[o], "pending"} :
          Statement(s, [spend[s] EXCEPT
            !.todo = @ \ {o},
            !.writes = IF Writes(o, answer) THEN @ \cup {<<o, Synced(o, answer)>>} ELSE @,
            !.grants = IF answer = "paid" THEN @ \cup {Purchase(o)} ELSE @])
    BY <1>4 DEF SyncsOrder
  <2> DEFINE todo == spend[s].todo \ {o}
             writes == IF Writes(o, answer)
                       THEN spend[s].writes \cup {<<o, Synced(o, answer)>>}
                       ELSE spend[s].writes
             grants == IF answer = "paid" THEN spend[s].grants \cup {Purchase(o)}
                       ELSE spend[s].grants
             t == [spend[s] EXCEPT !.todo = todo, !.writes = writes, !.grants = grants]
  <2>2. Synced(o, answer) \in Statuses
    <3>1. order[o] \in Statuses
      BY DEF IInv, Shapes
    <3> QED
      BY <3>1 DEF Synced, markOrderStatus, Statuses
  <2>3. /\ todo \in SUBSET Orders /\ writes \in SUBSET (Orders \X Statuses)
        /\ grants \in SUBSET Purchases
    <3>1. Purchase(o) \in Purchases
      BY DEF Purchases
    <3> QED
      BY <1>1, <2>2, <3>1 DEF SpendRecord
  <2>4. Statement(s, t)
    BY <2>1
  <2> HIDE DEF todo, writes, grants
  <2>5. t \in SpendRecord
    BY <1>1, <2>3 DEF SpendRecord
  <2> HIDE DEF t
  <2> QED
    BY <2>4, <2>5, StatementTypes
<1>5. CASE ReadsSources(s)
  <2> DEFINE late == IF s \in Runs THEN expired ELSE spend[s].late
             t == [spend[s] EXCEPT !.pc = "sources", !.seen = Visible(s), !.late = late]
  <2>1. late \in BOOLEAN
    BY <1>1 DEF SpendRecord
  <2>2. Statement(s, t)
    BY <1>5 DEF ReadsSources
  <2> HIDE DEF late
  <2>3. t \in SpendRecord
    BY <1>1, <2>1 DEF SpendRecord
  <2> HIDE DEF t
  <2> QED
    BY <2>2, <2>3, StatementTypes
<1>6. CASE ChoosesSource(s)
  <2>1. PICK e \in nextCreditSource(spend[s].seen, spend[s].late, Reserved) :
          Statement(s, [spend[s] EXCEPT !.pc = "chosen", !.source = e.key])
    BY <1>6 DEF ChoosesSource
  <2>2. e \in spend[s].seen
    BY <2>1 DEF nextCreditSource, Active
  <2>3. e.key \in Keys
    BY <1>1, <2>2 DEF SpendRecord, Entries
  <2>4. [spend[s] EXCEPT !.pc = "chosen", !.source = e.key] \in SpendRecord
    BY <1>1, <2>3 DEF SpendRecord
  <2> QED
    BY <2>1, <2>4, StatementTypes
<1>7. CASE Refused(s)
  BY <1>1, <1>7, IdleTyped, StatementTypes, CommitTypes DEF Refused
<1>8. CASE s \in Runs /\ Reserves(s)
  <2>1. spend[s].source \in Keys
    <3>1. HasEntry(Visible(s), spend[s].source)
      BY <1>8 DEF CreditInv, Knows, Reserves
    <3> QED
      BY <1>1, <3>1, FoundTyped
  <2> QED
    BY <1>1, <1>8, <2>1, CommitTypes DEF Reserves
<1>9. CASE s \in Deductions /\ Deducts(s)
  <2> DEFINE source == EntryOf(Visible(s), spend[s].source)
             e == Entry("deduction", s, -1, source.expires, source.key)
  <2>1. /\ reservation' = reservation /\ Committed(s)
        /\ ledger' = WithEntry(Visible(s), e)
    BY <1>9 DEF Deducts
  <2>2. source.expires \in BOOLEAN /\ source.key \in Keys
    <3>1. HasEntry(Visible(s), spend[s].source)
      BY <1>9 DEF CreditInv, Knows, Deducts
    <3> QED
      BY <1>1, <3>1, FoundTyped
  <2> HIDE DEF source
  <2>3. e \in Entries
    BY <1>9, <2>2, EntriesTyped
  <2> HIDE DEF e
  <2>4. ledger' \subseteq Entries
    BY <1>1, <2>1, <2>3, WithTyped
  <2> QED
    BY <2>1, <2>4, CommitTypes
<1> QED
  BY <1>2, <1>3, <1>4, <1>5, <1>6, <1>7, <1>8, <1>9 DEF Spend

LEMMA SettlesKeepTypes ==
  ASSUME CreditInv, TypeInv, NEW r \in Runs, Settle(r)
  PROVE  TypeInv'
<1>1. /\ UNCHANGED <<expired, spend, notified, overdue, sent, acked, callback>>
      /\ reservation[r] \in ReservationRecord
      /\ reservation \in [Runs -> ReservationRecord]
      /\ confirm \in [Runs -> {"idle", "read", "done"}]
      /\ \A u \in Runs : confirm[u] # "idle" => reservation[u].status # "none"
  BY DEF Settle, ConfirmReads, ConfirmWrites, releaseRunUsage, compensateRunUsage,
     payments, shop, TypeInv, ReservationsOK
<1>2. ASSUME ledger' \subseteq Entries, ReservationsOK' PROVE TypeInv'
  BY <1>1, <1>2 DEF TypeInv, LedgerOK, SpendOK, MarksOK
<1>3. ASSUME NEW st \in {"confirmed", "released"},
             reservation' = [reservation EXCEPT ![r].status = st],
             confirm' = confirm \/ confirm' = [confirm EXCEPT ![r] = "done"]
      PROVE  ReservationsOK'
  <2>1. [reservation[r] EXCEPT !.status = st] \in ReservationRecord
    BY <1>1 DEF ReservationRecord
  <2>2. reservation' = [reservation EXCEPT ![r] = [reservation[r] EXCEPT !.status = st]]
    BY <1>3
  <2>3. [reservation[r] EXCEPT !.status = st].status = st
    BY <1>1 DEF ReservationRecord
  <2>4. reservation' \in [Runs -> ReservationRecord]
    BY <1>1, <2>1, <2>2
  <2>5. \A u \in Runs : reservation'[u].status =
                          IF u = r THEN st ELSE reservation[u].status
    BY <1>1, <2>2, <2>3
  <2> QED
    BY <1>1, <1>3, <2>4, <2>5 DEF ReservationsOK
<1>4. CASE ConfirmReads(r)
  <2>1. ReservationsOK'
    BY <1>1, <1>4 DEF ConfirmReads, ReservationsOK
  <2> QED
    BY <1>2, <1>4, <2>1 DEF ConfirmReads, TypeInv, LedgerOK
<1>5. ASSUME reservation[r].status # "none"
      PROVE  /\ reservation[r].fund \in Keys
             /\ EntryOf(ledger, reservation[r].fund).expires \in BOOLEAN
  BY <1>5, FoundTyped DEF CreditInv, Funded, TypeInv, LedgerOK
<1>6. CASE ConfirmWrites(r)
  <2> DEFINE e == Entry("usage", r, -1,
                    EntryOf(ledger, reservation[r].fund).expires, reservation[r].fund)
             st == IF reservation[r].status = "reserved" THEN "confirmed"
                   ELSE reservation[r].status
  <2>1. /\ confirm[r] = "read" /\ ledger' = WithEntry(ledger, e)
        /\ reservation' = [reservation EXCEPT ![r].status = st]
        /\ confirm' = [confirm EXCEPT ![r] = "done"]
    BY <1>6 DEF ConfirmWrites
  <2>2. reservation[r].status # "none" /\ st \in {"confirmed", "released"}
    BY <1>1, <2>1 DEF ReservationRecord
  <2>3. e \in Entries
    BY <1>5, <2>2, EntriesTyped
  <2> HIDE DEF e, st
  <2>4. ledger' \subseteq Entries
    BY <2>1, <2>3, WithTyped DEF TypeInv, LedgerOK
  <2> QED
    BY <1>2, <1>3, <2>1, <2>2, <2>4
<1>7. CASE releaseRunUsage(r)
  BY <1>2, <1>3, <1>7 DEF releaseRunUsage, TypeInv, LedgerOK
<1>8. CASE compensateRunUsage(r)
  <2> DEFINE e == Entry("compensation", r, 1,
                    EntryOf(ledger, reservation[r].fund).expires, reservation[r].fund)
  <2>1. /\ reservation[r].status # "none" /\ confirm' = confirm
        /\ reservation' = [reservation EXCEPT ![r].status = "released"]
        /\ ledger' = ledger \/ ledger' = WithEntry(ledger, e)
    BY <1>8 DEF compensateRunUsage
  <2>2. e \in Entries
    BY <1>5, <2>1, EntriesTyped
  <2> HIDE DEF e
  <2>3. ledger' \subseteq Entries
    BY <2>1, <2>2, WithTyped DEF TypeInv, LedgerOK
  <2> QED
    BY <1>2, <1>3, <2>1, <2>3
<1> QED
  BY <1>4, <1>6, <1>7, <1>8 DEF Settle

LEMMA OthersKeepTypes ==
  ASSUME TypeInv, UNCHANGED <<reservation, confirm, spend>>,
         ledger' \subseteq Entries, expired' \in BOOLEAN, MarksOK'
  PROVE  TypeInv'
BY DEF TypeInv, LedgerOK, ReservationsOK, SpendOK

LEMMA TypesInductive == IInv /\ CreditInv /\ TypeInv /\ [Next]_vars => TypeInv'
<1> SUFFICES ASSUME IInv, CreditInv, TypeInv, [Next]_vars PROVE TypeInv'
  OBVIOUS
<1> USE DEF credits, payments, shop
<1>0. ledger \subseteq Entries /\ expired \in BOOLEAN /\ MarksOK
  BY DEF TypeInv, LedgerOK
<1>1. ASSUME UNCHANGED <<reservation, confirm, spend, ledger, expired>>, MarksOK'
      PROVE  TypeInv'
  BY <1>0, <1>1, OthersKeepTypes
<1>2. ASSUME UNCHANGED <<reservation, confirm, spend>>,
             UNCHANGED <<notified, overdue, sent, acked, callback>>,
             ledger' \subseteq Entries, expired' \in BOOLEAN
      PROVE  TypeInv'
  BY <1>0, <1>2, OthersKeepTypes DEF MarksOK
<1>3. ASSUME NEW s \in Spenders, Spend(s) PROVE TypeInv'
  BY <1>3, SpendsKeepTypes
<1>4. ASSUME NEW r \in Runs, Settle(r) PROVE TypeInv'
  BY <1>4, SettlesKeepTypes
<1>5. ASSUME NEW g \in Gifts, Gives(g) PROVE TypeInv'
  BY <1>0, <1>2, <1>5, EntriesTyped DEF Gives
<1>6. CASE grantSignupBonus
  BY <1>0, <1>2, <1>6, EntriesTyped, WithTyped DEF grantSignupBonus
<1>7. CASE BonusExpires
  BY <1>0, <1>2, <1>7 DEF BonusExpires
<1>8. ASSUME NEW o \in Orders, createOrder(o) \/ OrderExpires(o) \/ markRefundPending(o)
      PROVE  TypeInv'
  BY <1>0, <1>1, <1>8 DEF createOrder, OrderExpires, markRefundPending, MarksOK
<1>9. ASSUME NEW o \in Orders, NEW state \in Settled, GatewaySettles(o, state)
      PROVE  TypeInv'
  BY <1>0, <1>1, <1>9 DEF GatewaySettles, MarksOK
<1>10. ASSUME NEW c \in Callbacks, NEW o \in Orders, NEW state \in Settled,
              CallbackReads(c, o, state)
       PROVE  TypeInv'
  <2>1. \A d \in Callbacks : callback'[d] =
          IF d = c THEN [pc |-> "read", order |-> o, state |-> state, found |-> o \in notified]
          ELSE callback[d]
    BY <1>10 DEF IInv, Shapes, CallbackReads
  <2>2. /\ UNCHANGED <<reservation, confirm, spend, ledger, expired>>
        /\ UNCHANGED <<notified, overdue, sent, acked>> /\ <<o, state>> \in sent
    BY <1>10 DEF CallbackReads
  <2>3. MarksOK'
    BY <1>0, <2>1, <2>2 DEF MarksOK
  <2> QED
    BY <1>1, <2>2, <2>3
<1>11. ASSUME NEW c \in Callbacks, Callback(c) PROVE TypeInv'
  <2>0. ASSUME callback' = [callback EXCEPT ![c] = NoCallback]
        PROVE  \A d \in Callbacks : callback'[d].pc = "read" => callback'[d] = callback[d]
    BY <2>0 DEF IInv, Shapes, NoCallback
  <2>1. CASE CallbackAborts(c)
    BY <1>0, <1>1, <2>0, <2>1 DEF CallbackAborts, MarksOK
  <2>2. CASE CallbackCommits(c)
    <3> DEFINE o == callback[c].order
               state == callback[c].state
    <3>1. /\ UNCHANGED <<reservation, confirm, spend, expired, overdue, sent>>
          /\ callback[c].pc = "read" /\ ledger' = GrantedBy(o, state)
          /\ notified' = notified \cup {o} /\ acked' = acked \cup {<<o, state>>}
      BY <2>2 DEF CallbackCommits, CallbackEnds
    <3>2. o \in Orders
      BY <3>1 DEF IInv, Informed
    <3>3. <<o, state>> \in sent
      BY <1>0, <3>1 DEF MarksOK
    <3>4. \A d \in Callbacks : callback'[d].pc = "read" => callback'[d] = callback[d]
      BY <2>0, <2>2 DEF CallbackCommits, CallbackEnds
    <3> HIDE DEF o, state
    <3>5. ledger' \subseteq Entries
      BY <1>0, <3>1, <3>2, EntriesTyped, WithTyped DEF GrantedBy
    <3>6. MarksOK'
      BY <1>0, <3>1, <3>2, <3>3, <3>4 DEF MarksOK
    <3> QED
      BY <1>0, <3>1, <3>5, <3>6, OthersKeepTypes
  <2> QED
    BY <1>11, <2>1, <2>2 DEF Callback
<1>12. ASSUME NEW q \in Queries, Query(q) PROVE TypeInv'
  <2>1. CASE QueryWrites(q)
    <3>1. query[q].order \in Orders
      BY <2>1 DEF QueryWrites, IInv, Informed
    <3> QED
      BY <1>0, <1>2, <2>1, <3>1, EntriesTyped, WithTyped DEF QueryWrites
  <2>2. CASE QueryAnswered(q) \/ \E o \in Orders : QueryReads(q, o)
    BY <1>0, <1>1, <2>2 DEF QueryAnswered, QueryReads, MarksOK
  <2> QED
    BY <1>12, <2>1, <2>2 DEF Query
<1>13. CASE UNCHANGED vars
  BY <1>0, <1>1, <1>13 DEF vars, MarksOK
<1> QED
  BY <1>3, <1>4, <1>5, <1>6, <1>7, <1>8, <1>9, <1>10, <1>11, <1>12, <1>13 DEF Next

\* TypeOK in every reachable state: the ledger, the reservations, the spending
\* transactions (a balance is a whole number of credits), the orders, the trades
\* and the requests keep their types, and whatever is reserved or charged has an
\* entry it is taken from.
THEOREM TypeCorrect == Spec => []TypeOK
<1>1. Init => TypeInv
  <2> SUFFICES ASSUME Init PROVE TypeInv
    OBVIOUS
  <2>1. LedgerOK /\ SpendOK
    BY IdleTyped DEF Init, LedgerOK, SpendOK
  <2>2. ReservationsOK
    BY DEF Init, ReservationsOK, ReservationRecord
  <2>3. MarksOK
    BY DEF Init, MarksOK, NoCallback
  <2> QED
    BY <2>1, <2>2, <2>3 DEF TypeInv
<1>2. IInv /\ CreditInv /\ TypeInv /\ [Next]_vars => TypeInv'
  BY TypesInductive
<1>3. Spec => [](IInv /\ CreditInv /\ TypeInv)
  BY <1>1, <1>2, CreditsInvariant, PTL DEF Spec
<1> QED
  BY <1>3, Types, PTL
=============================================================================
