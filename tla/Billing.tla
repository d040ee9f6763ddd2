------------------------------ MODULE Billing -------------------------------
(***************************************************************************)
(* Credits and payment orders of one user (billing/billing-service.ts) over  *)
(* Postgres at READ COMMITTED (billing/postgres-billing-repository.ts): a    *)
(* ledger of entries, the reservations of runs, the orders, and the payment  *)
(* gateway's callbacks and status queries.                                   *)
(*                                                                           *)
(* A step is what the database does at one moment: a statement that reads,   *)
(* or the writes of a transaction up to its COMMIT.  Between two steps of a   *)
(* transaction others commit.  A transaction that spends credits also writes *)
(* order rows it keeps locked until it commits: spend[s].writes.             *)
(*                                                                           *)
(* Entries are found by (source_type, source_id), so the ledger is a set.    *)
(* Credits are spent one at a time.  Left out: a gateway answer whose amount *)
(* or currency is not the order's, SKUs, and the guest allowance of local    *)
(* development.                                                              *)
(***************************************************************************)
EXTENDS Integers, FiniteSetsExt

CONSTANTS
  Runs,         \* runs that are started, each with one reservation
  Deductions,   \* administrator's adjustments of -1
  Gifts,        \* administrator's adjustments of +GiftSize
  Orders,       \* payment orders
  Callbacks,    \* callback requests handled at once
  Queries,      \* status queries of the user handled at once
  BonusSize, GiftSize, PackSize,  \* credits of a bonus, a gift, a purchase
  NoSource      \* no ledger entry

ASSUME SizeAssumption == {BonusSize, GiftSize, PackSize} \subseteq Nat \ {0}
ASSUME KindsApart == Runs \cap Deductions = {}

VARIABLES
  ledger,       \* billing_entitlement_ledger: the set of entries
  reservation,  \* [Runs]: billing_usage_reservations
  confirm,      \* [Runs]: confirmRunUsage: "idle", "read" or "done"
  expired,      \* the signup bonus's validUntil has passed
  spend,        \* [Spenders]: the transaction that spends a credit
  order,        \* [Orders]: payment_orders.status, "none" before createOrder
  notified,     \* the orders with a payment_notifications row
  overdue,      \* the orders whose expiresAt has passed
  gateway,      \* [Orders]: the trade's state at the gateway
  sent,         \* <<order, state>>: callbacks the gateway has sent
  acked,        \* those answered with "success"
  callback,     \* [Callbacks]: processPaymentCallback
  query         \* [Queries]: syncPendingOrder outside a spending transaction

credits == <<reservation, confirm, expired>>
shop == <<gateway, sent, overdue>>
payments == <<order, notified, shop, acked, callback, query>>
vars == <<ledger, credits, spend, payments>>

Spenders == Runs \cup Deductions
Statuses == {"none", "pending", "paid", "expired", "closed", "failed", "refund_pending"}
Settled == {"paid", "closed", "failed"}

-----------------------------------------------------------------------------
(* The ledger.                                                              *)

\* addLedgerEntry's row; an entry that expires does so with the bonus.
Entry(kind, ref, delta, expires, fund) ==
  [key |-> <<kind, ref>>, delta |-> delta, expires |-> expires, fund |-> fund]

HasEntry(entries, key) == \E e \in entries : e.key = key

EntryOf(entries, key) == CHOOSE e \in entries : e.key = key

\* addLedgerEntry: at most one entry of a source.
WithEntry(entries, e) == IF HasEntry(entries, e.key) THEN entries ELSE entries \cup {e}

Bonus == Entry("signup_bonus", "user", BonusSize, TRUE, NoSource)
Purchase(o) == Entry("purchase", o, PackSize, FALSE, NoSource)

\* isValidLedgerEntry at a moment when the bonus has expired, or not.
Active(entries, late) == {e \in entries : ~(late /\ e.expires)}

Total(entries) == MapThenSumSet(LAMBDA e : e.delta, entries)

Reserved == {r \in Runs : reservation[r].status = "reserved"}

\* readSummary's balance, were all of it read at once.
Balance == Total(Active(ledger, expired)) - Cardinality(Reserved)

\* Mutant: reservations that are confirmed or released count as well.
Remaining_settled_too(entries, source, held) ==
  source.delta
    - Cardinality({e \in entries : e.delta < 0 /\ e.fund = source.key})
    - Cardinality({r \in Runs : reservation[r].fund = source.key})

\* What is left of one credit source, with the runs held that are reserved.
Remaining(entries, source, held) ==
  source.delta
    - Cardinality({e \in entries : e.delta < 0 /\ e.fund = source.key})
    - Cardinality({r \in held : reservation[r].fund = source.key})

\* nextCreditSource: a source with something left, the expiring ones first.
nextCreditSource(entries, late, held) ==
  LET left == {e \in Active(entries, late) :
                 e.delta > 0 /\ Remaining(Active(entries, late), e, held) > 0}
  IN  {e \in left : e.expires \/ \A f \in left : ~f.expires}

-----------------------------------------------------------------------------
(***************************************************************************)
(* Spending a credit: reserveRunUsage and compensateCredits of -1, under    *)
(* the user's advisory lock.  The balance is read in readSummary: the        *)
(* ledger, then the orders and the number of reservations, then each order   *)
(* that was pending is settled with the gateway within the transaction.      *)
(* nextCreditSource reads the ledger again, then the reservations.           *)
(***************************************************************************)
Idle == [pc |-> "idle", late |-> FALSE, balance |-> 0, todo |-> {}, writes |-> {},
         grants |-> {}, seen |-> {}, source |-> NoSource]

\* Mutant: no lockUserEntitlements.
lockUserEntitlements_missing == TRUE

\* pg_advisory_xact_lock: released when the transaction ends.
lockUserEntitlements == \A s \in Spenders : spend[s].pc \in {"idle", "done"}

\* The order rows an open transaction has written; their writers wait for it.
Locked == {w[1] : w \in UNION {spend[s].writes : s \in Spenders}}

\* A statement of s: its own writes are not yet in the tables.
Statement(s, t) ==
  /\ spend' = [spend EXCEPT ![s] = t]
  /\ UNCHANGED <<ledger, credits, payments>>

ReadsLedger(s) ==
  /\ spend[s].pc = "idle" /\ lockUserEntitlements
  /\ Statement(s, [Idle EXCEPT !.pc = "ledger", !.late = expired,
                               !.balance = Total(Active(ledger, expired))])

CountsReservations(s) ==
  /\ spend[s].pc = "ledger"
  /\ Statement(s, [spend[s] EXCEPT
       !.pc = "orders",
       !.balance = @ - Cardinality(Reserved),
       !.todo = {o \in Orders : order[o] = "pending"}])

\* Mutant: a late closed or expired status overwrites a paid order.
markOrderStatus_forgets_paid(status, s) == s

\* A paid order only becomes refund_pending (or refunded).
markOrderStatus(status, s) ==
  IF status = "paid" /\ s # "refund_pending" THEN status ELSE s

\* syncPendingOrder's write, after the gateway's answer ("pending" if it could
\* not be asked) for an order that was read as pending.
Synced(o, answer) ==
  CASE answer = "paid" -> "paid"
    [] answer \in {"closed", "failed"} -> markOrderStatus(order[o], answer)
    [] answer = "pending" /\ o \in overdue -> markOrderStatus(order[o], "expired")
    [] OTHER -> order[o]

Writes(o, answer) ==
  \/ answer \in {"closed", "failed"}
  \/ answer = "paid" /\ order[o] # "paid"
  \/ answer = "pending" /\ o \in overdue

SyncsOrder(s, o) ==
  /\ spend[s].pc = "orders" /\ o \in spend[s].todo
  /\ \E answer \in {gateway[o], "pending"} :
       Statement(s, [spend[s] EXCEPT
         !.todo = @ \ {o},
         !.writes = IF Writes(o, answer) THEN @ \cup {<<o, Synced(o, answer)>>} ELSE @,
         !.grants = IF answer = "paid" THEN @ \cup {Purchase(o)} ELSE @])

\* The ledger with what the transaction has granted.
Visible(s) == ledger \cup {e \in spend[s].grants : ~HasEntry(ledger, e.key)}

ReadsSources(s) ==
  /\ spend[s].pc = "orders" /\ spend[s].todo = {} /\ spend[s].balance > 0
  /\ Statement(s, [spend[s] EXCEPT
       !.pc = "sources", !.seen = Visible(s),
       !.late = IF s \in Runs THEN expired ELSE @])

\* The order writes and grants of a transaction that commits.
Committed(s) ==
  /\ order' = [o \in Orders |->
       IF o \in {w[1] : w \in spend[s].writes}
       THEN (CHOOSE w \in spend[s].writes : w[1] = o)[2] ELSE order[o]]
  /\ spend' = [spend EXCEPT ![s] = [Idle EXCEPT !.pc = "done"]]
  /\ UNCHANGED <<confirm, expired, notified, shop, acked, callback, query>>

ChoosesSource(s) ==
  /\ spend[s].pc = "sources"
  /\ \E e \in nextCreditSource(spend[s].seen, spend[s].late, Reserved) :
       Statement(s, [spend[s] EXCEPT !.pc = "chosen", !.source = e.key])

\* createUsageReservation: the credit is held for the run.
Reserves(r) ==
  /\ spend[r].pc = "chosen"
  /\ reservation' = [reservation EXCEPT ![r] =
       [status |-> "reserved", fund |-> spend[r].source]]
  /\ ledger' = Visible(r)
  /\ Committed(r)

Deducts(d) ==
  /\ spend[d].pc = "chosen"
  /\ LET source == EntryOf(Visible(d), spend[d].source)
     IN  ledger' = WithEntry(Visible(d),
                     Entry("deduction", d, -1, source.expires, source.key))
  /\ Committed(d) /\ UNCHANGED reservation

\* No positive balance or no source.  A refused reservation commits what its
\* transaction did to the orders; a refused deduction throws and rolls back.
Refused(s) ==
  /\ \/ spend[s].pc = "orders" /\ spend[s].todo = {} /\ spend[s].balance <= 0
     \/ spend[s].pc = "sources"
        /\ nextCreditSource(spend[s].seen, spend[s].late, Reserved) = {}
  /\ IF s \in Runs
     THEN ledger' = Visible(s) /\ Committed(s) /\ UNCHANGED reservation
     ELSE Statement(s, [Idle EXCEPT !.pc = "done"])

-----------------------------------------------------------------------------
(* What else moves credits; none of it but the gift takes the lock.         *)

\* confirmRunUsage reads the reservation, ...
ConfirmReads(r) ==
  /\ confirm[r] = "idle" /\ reservation[r].status # "none"
  /\ confirm' = [confirm EXCEPT ![r] =
                   IF reservation[r].status = "reserved" THEN "read" ELSE "done"]
  /\ UNCHANGED <<ledger, reservation, expired, spend, payments>>

\* ... adds the usage of the credit, and confirms what is still reserved.
ConfirmWrites(r) ==
  /\ confirm[r] = "read"
  /\ LET fund == reservation[r].fund
     IN  ledger' = WithEntry(ledger,
           Entry("usage", r, -1, EntryOf(ledger, fund).expires, fund))
  /\ reservation' = [reservation EXCEPT ![r].status =
                       IF @ = "reserved" THEN "confirmed" ELSE @]
  /\ confirm' = [confirm EXCEPT ![r] = "done"]
  /\ UNCHANGED <<expired, spend, payments>>

\* The cancel route and the pipeline's end.
releaseRunUsage(r) ==
  /\ reservation[r].status = "reserved"
  /\ reservation' = [reservation EXCEPT ![r].status = "released"]
  /\ UNCHANGED <<ledger, confirm, expired, spend, payments>>

\* A failure of the platform's.  The pipeline has awaited the confirmation.
compensateRunUsage(r) ==
  /\ reservation[r].status \in {"reserved", "confirmed"} /\ confirm[r] # "read"
  /\ LET fund == reservation[r].fund
     IN  ledger' = IF reservation[r].status = "reserved" THEN ledger
                   ELSE WithEntry(ledger, Entry("compensation", r, 1,
                          EntryOf(ledger, fund).expires, fund))
  /\ reservation' = [reservation EXCEPT ![r].status = "released"]
  /\ UNCHANGED <<confirm, expired, spend, payments>>

\* compensateCredits of a positive amount.
Gives(g) ==
  /\ lockUserEntitlements /\ ~HasEntry(ledger, <<"gift", g>>)
  /\ ledger' = ledger \cup {Entry("gift", g, GiftSize, FALSE, NoSource)}
  /\ UNCHANGED <<credits, spend, payments>>

\* On the verified signup and on every summary after it.
grantSignupBonus ==
  /\ ~HasEntry(ledger, Bonus.key)
  /\ ledger' = WithEntry(ledger, Bonus)
  /\ UNCHANGED <<credits, spend, payments>>

BonusExpires ==
  /\ HasEntry(ledger, Bonus.key) /\ ~expired
  /\ expired' = TRUE
  /\ UNCHANGED <<ledger, reservation, confirm, spend, payments>>

-----------------------------------------------------------------------------
(* Orders, the payment gateway, callbacks and status queries.               *)

createOrder(o) ==
  /\ order[o] = "none"
  /\ order' = [order EXCEPT ![o] = "pending"]
  /\ UNCHANGED <<ledger, credits, spend, notified, shop, acked, callback, query>>

OrderExpires(o) ==
  /\ order[o] # "none" /\ o \notin overdue
  /\ overdue' = overdue \cup {o}
  /\ UNCHANGED <<ledger, credits, spend, order, notified, gateway, sent, acked,
                 callback, query>>

\* The administrator's mark.
markRefundPending(o) ==
  /\ order[o] \notin {"none", "refund_pending"} /\ o \notin Locked
  /\ order' = [order EXCEPT ![o] = markOrderStatus(@, "refund_pending")]
  /\ UNCHANGED <<ledger, credits, spend, notified, shop, acked, callback, query>>

\* The gateway settles a trade and sends a callback; after a failed attempt the
\* buyer may pay, and the two callbacks arrive in either order.
GatewaySettles(o, state) ==
  /\ order[o] # "none"
  /\ \/ gateway[o] = "pending" /\ state \in Settled
     \/ gateway[o] = "failed" /\ state = "paid"
  /\ gateway' = [gateway EXCEPT ![o] = state]
  /\ sent' = sent \cup {<<o, state>>}
  /\ UNCHANGED <<ledger, credits, spend, order, notified, overdue, acked, callback,
                 query>>

NoCallback == [pc |-> "idle", order |-> NoSource, state |-> "none", found |-> FALSE]

\* The transaction looks for the trade's notification.  The gateway repeats a
\* callback until it is answered with "success", and may repeat it later.
CallbackReads(c, o, state) ==
  /\ callback[c].pc = "idle" /\ <<o, state>> \in sent
  /\ callback' = [callback EXCEPT ![c] =
       [pc |-> "read", order |-> o, state |-> state, found |-> o \in notified]]
  /\ UNCHANGED <<ledger, credits, spend, order, notified, shop, acked, query>>

\* COMMIT of a callback; the update waits for a row another transaction holds.
CallbackEnds(c, newStatus, entries) ==
  LET o == callback[c].order
  IN  /\ callback[c].pc = "read" /\ o \notin Locked
      /\ callback[c].found \/ o \notin notified
      /\ order' = [order EXCEPT ![o] = newStatus]
      /\ ledger' = entries
      /\ notified' = notified \cup {o}
      /\ acked' = acked \cup {<<o, callback[c].state>>}
      /\ callback' = [callback EXCEPT ![c] = NoCallback]
      /\ UNCHANGED <<credits, spend, shop, query>>

\* The order's status and the ledger when the callback has been applied.
Applied(o, state) == IF state = "paid" THEN "paid" ELSE markOrderStatus(order[o], state)

GrantedBy(o, state) == IF state = "paid" THEN WithEntry(ledger, Purchase(o)) ELSE ledger

\* Mutants: a callback of a known trade does nothing; it grants nothing.
CallbackCommits_once(c) ==
  LET o == callback[c].order
  IN  IF callback[c].found THEN CallbackEnds(c, order[o], ledger)
      ELSE CallbackEnds(c, Applied(o, callback[c].state), GrantedBy(o, callback[c].state))

CallbackCommits_grants_once(c) ==
  LET o == callback[c].order
  IN  CallbackEnds(c, Applied(o, callback[c].state),
        IF callback[c].found THEN ledger ELSE GrantedBy(o, callback[c].state))

\* It marks the order and grants the purchase, whether or not it is the first
\* of its trade, and is answered with "success".
CallbackCommits(c) ==
  LET o == callback[c].order
  IN  CallbackEnds(c, Applied(o, callback[c].state), GrantedBy(o, callback[c].state))

\* Another callback has inserted the notification: the unique index refuses
\* this one's, which aborts the transaction, and it is answered with an error.
CallbackAborts(c) ==
  /\ callback[c].pc = "read" /\ ~callback[c].found /\ callback[c].order \in notified
  /\ callback' = [callback EXCEPT ![c] = NoCallback]
  /\ UNCHANGED <<ledger, credits, spend, order, notified, shop, acked, query>>

NoQuery == [pc |-> "idle", order |-> NoSource, answer |-> "none"]

\* syncPendingOrder of a summary, a status page or a resumed payment.
QueryReads(q, o) ==
  /\ query[q].pc = "idle" /\ order[o] = "pending"
  /\ query' = [query EXCEPT ![q] = [pc |-> "read", order |-> o, answer |-> "none"]]
  /\ UNCHANGED <<ledger, credits, spend, order, notified, shop, acked, callback>>

\* The gateway answers, or the request fails.
QueryAnswered(q) ==
  /\ query[q].pc = "read"
  /\ \E answer \in {gateway[query[q].order], "pending"} :
       query' = [query EXCEPT ![q].pc = "answered", ![q].answer = answer]
  /\ UNCHANGED <<ledger, credits, spend, order, notified, shop, acked, callback>>

QueryWrites(q) ==
  LET o == query[q].order
      answer == query[q].answer
  IN  /\ query[q].pc = "answered" /\ o \notin Locked
      /\ order' = [order EXCEPT ![o] = Synced(o, answer)]
      /\ ledger' = IF answer = "paid" THEN WithEntry(ledger, Purchase(o)) ELSE ledger
      /\ query' = [query EXCEPT ![q] = NoQuery]
      /\ UNCHANGED <<credits, spend, notified, shop, acked, callback>>

-----------------------------------------------------------------------------
Init ==
  /\ ledger = {} /\ expired = FALSE
  /\ reservation = [r \in Runs |-> [status |-> "none", fund |-> NoSource]]
  /\ confirm = [r \in Runs |-> "idle"]
  /\ spend = [s \in Spenders |-> Idle]
  /\ order = [o \in Orders |-> "none"]
  /\ gateway = [o \in Orders |-> "pending"]
  /\ notified = {} /\ overdue = {} /\ sent = {} /\ acked = {}
  /\ callback = [c \in Callbacks |-> NoCallback]
  /\ query = [q \in Queries |-> NoQuery]

Spend(s) ==
  \/ ReadsLedger(s) \/ CountsReservations(s) \/ ReadsSources(s) \/ ChoosesSource(s)
  \/ Refused(s) \/ \E o \in Orders : SyncsOrder(s, o)
  \/ s \in Runs /\ Reserves(s)
  \/ s \in Deductions /\ Deducts(s)

Settle(r) ==
  ConfirmReads(r) \/ ConfirmWrites(r) \/ releaseRunUsage(r) \/ compensateRunUsage(r)

Callback(c) == CallbackCommits(c) \/ CallbackAborts(c)

Query(q) == QueryAnswered(q) \/ QueryWrites(q) \/ \E o \in Orders : QueryReads(q, o)

Next ==
  \/ \E s \in Spenders : Spend(s)
  \/ \E r \in Runs : Settle(r)
  \/ \E g \in Gifts : Gives(g)
  \/ grantSignupBonus \/ BonusExpires
  \/ \E o \in Orders :
       \/ createOrder(o) \/ OrderExpires(o) \/ markRefundPending(o)
       \/ \E state \in Settled :
            GatewaySettles(o, state) \/ \E c \in Callbacks : CallbackReads(c, o, state)
  \/ \E c \in Callbacks : Callback(c)
  \/ \E q \in Queries : Query(q)

Spec == Init /\ [][Next]_vars

\* Transactions end; the gateway repeats a callback that is not acknowledged,
\* and one of its attempts is let in though others come in between.
FairSpec ==
  /\ Spec
  /\ \A s \in Spenders : WF_vars(spend[s].pc # "idle" /\ Spend(s))
  /\ \A c \in Callbacks : WF_vars(Callback(c))
  /\ \A o \in Orders : SF_vars(<<o, "paid">> \notin acked
                               /\ \E c \in Callbacks : CallbackReads(c, o, "paid"))

-----------------------------------------------------------------------------
(***************************************************************************)
(* Properties.                                                             *)
(***************************************************************************)
Keys == ({"signup_bonus"} \X {"user"}) \cup ({"purchase"} \X Orders)
        \cup ({"usage", "compensation"} \X Runs) \cup ({"deduction"} \X Deductions)
        \cup ({"gift"} \X Gifts)

Entries == [key : Keys, delta : {-1, 1, BonusSize, GiftSize, PackSize},
            expires : BOOLEAN, fund : Keys \cup {NoSource}]

\* Types, and every reservation and every usage is funded by an entry.
TypeOK ==
  /\ ledger \subseteq Entries /\ expired \in BOOLEAN
  /\ reservation \in [Runs -> [status : {"none", "reserved", "confirmed", "released"},
                               fund : Keys \cup {NoSource}]]
  /\ \A r \in Runs :
       reservation[r].status # "none" => HasEntry(ledger, reservation[r].fund)
  /\ confirm \in [Runs -> {"idle", "read", "done"}]
  /\ \A r \in Runs : confirm[r] # "idle" => reservation[r].status # "none"
  /\ spend \in [Spenders ->
       [pc : {"idle", "ledger", "orders", "sources", "chosen", "done"}, late : BOOLEAN,
        balance : Int, todo : SUBSET Orders, writes : SUBSET (Orders \X Statuses),
        grants : SUBSET {Purchase(o) : o \in Orders}, seen : SUBSET Entries,
        source : Keys \cup {NoSource}]]
  /\ order \in [Orders -> Statuses]
  /\ notified \subseteq Orders /\ overdue \subseteq Orders
  /\ gateway \in [Orders -> {"pending"} \cup Settled]
  /\ sent \subseteq Orders \X Settled /\ acked \subseteq sent
  /\ callback \in [Callbacks -> [pc : {"idle", "read"}, order : Orders \cup {NoSource},
                                 state : {"none"} \cup Settled, found : BOOLEAN]]
  /\ query \in [Queries -> [pc : {"idle", "read", "answered"},
                            order : Orders \cup {NoSource},
                            answer : {"none", "pending"} \cup Settled]]

\* An order is shown as paid only with its credits in the ledger, credits are
\* granted only for a trade the gateway has been paid for, and once, whoever
\* learns of it first: a callback, its repetition, a status query, or a run
\* that is being started.
PaidMeansGranted ==
  \A o \in Orders :
    /\ order[o] = "paid" => HasEntry(ledger, <<"purchase", o>>)
    /\ HasEntry(ledger, <<"purchase", o>>) => gateway[o] = "paid"
    /\ Cardinality({e \in ledger : e.key = <<"purchase", o>>}) <= 1

\* A paid order is never shown as expired, closed or failed afterwards, by a
\* query or callback that learned of the trade before it was paid.
PaidStaysPaid ==
  [][ \A o \in Orders : order[o] = "paid" => order'[o] \in {"paid", "refund_pending"} ]_vars

\* Nobody spends what another has spent: if no confirmation and no grant came
\* after a transaction's last look at the ledger, the credit it spends was left
\* of the source it names, all other reservations and deductions counted.
FreshReadsSpendWithinSource ==
  [][ \A s \in Spenders :
        spend[s].pc = "chosen" /\ spend'[s].pc = "done" /\ spend[s].seen = Visible(s)
        => \E e \in ledger' : /\ e.key = spend[s].source
                              /\ Remaining(ledger, e, Reserved)' >= 0 ]_vars

\* Nobody who has a balance is refused for want of a source: when the balance,
\* which counts the active entries and all reservations, says that a credit is
\* left, an active source has one, though a source may be overdrawn by a late
\* confirmation or have expired under a reservation.
BalanceIsSpendable ==
  Balance > 0 => nextCreditSource(ledger, expired, Reserved) # {}

\* A trade that is paid has its credits in the end, though callbacks fail or
\* come twice and the failed attempt's one came before.
EveryPaymentLands ==
  \A o \in Orders : gateway[o] = "paid" ~> HasEntry(ledger, <<"purchase", o>>)
=============================================================================
