-------------------------- MODULE CreditLedgerProofs --------------------------
(***************************************************************************)
(* Proofs about CreditLedger, for every set of calls, keys, amounts, caps  *)
(* and every sound opening account.                                        *)
(***************************************************************************)
EXTENDS CreditLedger, TLAPS

-------------------------------------------------------------------------------
(***************************************************************************)
(* Facts about the credit arithmetic, for every balance and every amount.  *)
(***************************************************************************)

\* The ledger entries of an operation on a typed account are integers.
LEMMA MovesType ==
    ASSUME NEW kind, NEW read \in Accounts, NEW n \in Int
    PROVE  Moves(kind, read, n) \in Movements
BY DEF Moves, GrantMoves, DebitMoves, ResetMoves, CarriedCredits, Smaller,
       Accounts, Movements, GrantKinds, ResetKinds

LEMMA AddMovesType ==
    ASSUME NEW sums \in Movements, NEW moves \in Movements
    PROVE  AddMoves(sums, moves) \in Movements
BY DEF AddMoves, Movements

\* The balances a grant or a debit writes are those it has read plus its entries.
LEMMA PostedRowValue ==
    ASSUME NEW row \in Accounts, NEW read \in Accounts, NEW moves \in Movements,
           NEW w, w = PostedRow(row, read, moves)
    PROVE  /\ w \in Accounts
           /\ w.allowance = read.allowance + moves.allowance
           /\ w.wallet = read.wallet + moves.wallet
           /\ w.overdraft = read.overdraft + moves.overdraft
           /\ w.total = w.allowance + w.wallet - w.overdraft
<1>1. /\ read.allowance \in Int /\ read.wallet \in Int /\ read.overdraft \in Int
      /\ moves.allowance \in Int /\ moves.wallet \in Int /\ moves.overdraft \in Int
  BY DEF Accounts, Movements
<1>2. PICK a \in Int, v \in Int, o \in Int :
        /\ a = read.allowance + moves.allowance
        /\ v = read.wallet + moves.wallet
        /\ o = read.overdraft + moves.overdraft
  BY <1>1
<1>3. PICK t \in Int : t = a + v - o
  OBVIOUS
<1>4. w = [row EXCEPT !.allowance = a, !.wallet = v, !.overdraft = o, !.total = t]
  BY <1>2, <1>3 DEF PostedRow, AddMoves, CalculateTotalBalance
<1>5. QED
  BY <1>2, <1>3, <1>4 DEF Accounts

\* A reset of the row as it stands keeps the wallet and the overdraft.
LEMMA ResetRowValue ==
    ASSUME NEW row \in Accounts, NEW read \in Accounts, NEW moves \in Movements,
           NEW period \in Int, NEW w, w = ResetRow(row, read, moves, period)
    PROVE  /\ w \in Accounts
           /\ w.allowance = read.allowance + moves.allowance
           /\ w.wallet = row.wallet
           /\ w.overdraft = row.overdraft
           /\ w.total = w.allowance + (read.wallet + moves.wallet)
                          - (read.overdraft + moves.overdraft)
<1>1. /\ read.allowance \in Int /\ read.wallet \in Int /\ read.overdraft \in Int
      /\ moves.allowance \in Int /\ moves.wallet \in Int /\ moves.overdraft \in Int
  BY DEF Accounts, Movements
<1>2. PICK a \in Int : a = read.allowance + moves.allowance
  BY <1>1
<1>3. PICK t \in Int : t = a + (read.wallet + moves.wallet)
                             - (read.overdraft + moves.overdraft)
  BY <1>1
<1>4. w = [row EXCEPT !.allowance = a, !.total = t, !.period = period]
  BY <1>2, <1>3 DEF ResetRow, AddMoves, CalculateTotalBalance
<1>5. QED
  BY <1>2, <1>3, <1>4 DEF Accounts

\* Whatever an operation writes is a typed row.
LEMMA WrittenType ==
    ASSUME NEW kind, NEW row \in Accounts, NEW read \in Accounts, NEW n \in Int,
           NEW period, kind \in ResetKinds => period \in Int
    PROVE  Written(kind, row, read, n, period) \in Accounts
BY MovesType, PostedRowValue, ResetRowValue DEF Written

\* An operation computed from the current row moves every balance by exactly
\* the entries it adds to the ledger.
LEMMA WrittenFollowsMoves ==
    ASSUME NEW kind, NEW row \in Accounts, NEW n \in Int,
           NEW period, kind \in ResetKinds => period \in Int,
           NEW w, w = Written(kind, row, row, n, period),
           NEW m, m = Moves(kind, row, n)
    PROVE  /\ w.allowance = row.allowance + m.allowance
           /\ w.wallet = row.wallet + m.wallet
           /\ w.overdraft = row.overdraft + m.overdraft
<1>1. m \in Movements
  BY MovesType
<1>2. CASE kind \in ResetKinds
  <2>1. w = ResetRow(row, row, m, period)
    BY <1>2 DEF Written
  <2>2. m.wallet = 0 /\ m.overdraft = 0
    BY <1>2 DEF Moves, ResetMoves, ResetKinds, GrantKinds
  <2>3. row.wallet \in Int /\ row.overdraft \in Int
    BY DEF Accounts
  <2>4. /\ w.allowance = row.allowance + m.allowance
        /\ w.wallet = row.wallet
        /\ w.overdraft = row.overdraft
    BY <1>1, <1>2, <2>1, ResetRowValue
  <2>5. QED
    BY <2>2, <2>3, <2>4
<1>3. CASE kind \notin ResetKinds
  BY <1>1, <1>3, PostedRowValue DEF Written
<1>4. QED
  BY <1>2, <1>3

\* Every operation takes a sound row to a sound row: the buckets stay
\* non-negative, the cached total adds up, and an overdraft excludes credits.
LEMMA WrittenIsSound ==
    ASSUME NEW kind, NEW row \in Accounts, SoundRow(row),
           NEW n \in Int, kind \in ResetKinds \/ n \in Nat,
           NEW period, kind \in ResetKinds => period \in Int
    PROVE  SoundRow(Written(kind, row, row, n, period))
<1>0. SUFFICES ASSUME NEW w, w = Written(kind, row, row, n, period),
                      NEW m, m = Moves(kind, row, n)
               PROVE  SoundRow(w)
  OBVIOUS
<1>1. /\ row.allowance \in Int /\ row.wallet \in Int /\ row.overdraft \in Int
      /\ row.allowance >= 0 /\ row.wallet >= 0 /\ row.overdraft >= 0
      /\ row.overdraft > 0 => row.allowance = 0 /\ row.wallet = 0
  BY DEF Accounts, SoundRow, NoNegativeBucket, OverdraftOnlyWhenSpent
<1>2. /\ w.allowance = row.allowance + m.allowance
      /\ w.wallet = row.wallet + m.wallet
      /\ w.overdraft = row.overdraft + m.overdraft
  BY <1>0, WrittenFollowsMoves
<1>3. m \in Movements
  BY <1>0, MovesType
<1>4. w.total = w.allowance + w.wallet - w.overdraft
  <2>1. CASE kind \in ResetKinds
    <3>1. w = ResetRow(row, row, m, period)
      BY <1>0, <2>1 DEF Written
    <3>2. w.total = w.allowance + (row.wallet + m.wallet)
                      - (row.overdraft + m.overdraft)
      BY <1>3, <2>1, <3>1, ResetRowValue
    <3>3. QED
      BY <1>2, <3>2
  <2>2. CASE kind \notin ResetKinds
    <3>1. w = PostedRow(row, row, m)
      BY <1>0, <2>2 DEF Written
    <3>2. QED
      BY <1>3, <3>1, PostedRowValue
  <2>3. QED
    BY <2>1, <2>2
<1>5. /\ row.allowance + m.allowance >= 0
      /\ row.wallet + m.wallet >= 0
      /\ row.overdraft + m.overdraft >= 0
      /\ row.overdraft + m.overdraft > 0 =>
            row.allowance + m.allowance = 0 /\ row.wallet + m.wallet = 0
  <2>1. CASE kind \in GrantKinds
    <3>1. m = GrantMoves(row, kind, n)
      BY <1>0, <2>1 DEF Moves, GrantKinds, ResetKinds
    <3>2. n \in Nat
      BY <2>1 DEF GrantKinds, ResetKinds
    <3>3. QED
      BY <1>1, <2>1, <3>1, <3>2 DEF GrantMoves, Smaller, GrantKinds
  <2>2. CASE kind \in ResetKinds
    <3>1. m = ResetMoves(row, kind, n)
      BY <1>0, <2>2 DEF Moves, ResetKinds, GrantKinds
    <3>2. QED
      BY <1>1, <3>1 DEF ResetMoves, CarriedCredits, Smaller
  <2>3. CASE kind \notin GrantKinds \cup ResetKinds
    <3>1. m = DebitMoves(row, n)
      BY <1>0, <2>3 DEF Moves
    <3>2. n \in Nat
      BY <2>3
    <3>3. PICK a : a = Smaller(row.allowance, n)
      OBVIOUS
    <3>4. PICK b : b = Smaller(row.wallet, n - a)
      OBVIOUS
    <3>5. m.allowance = -a /\ m.wallet = -b /\ m.overdraft = n - a - b
      BY <3>1, <3>3, <3>4 DEF DebitMoves
    <3>6. a \in Nat /\ a <= row.allowance /\ a <= n
          /\ (a = row.allowance \/ a = n)
      BY <1>1, <3>2, <3>3 DEF Smaller
    <3>7. b \in Nat /\ b <= row.wallet /\ b <= n - a
          /\ (b = row.wallet \/ b = n - a)
      BY <1>1, <3>2, <3>4, <3>6 DEF Smaller
    <3>8. /\ row.allowance + m.allowance = row.allowance - a
          /\ row.wallet + m.wallet = row.wallet - b
          /\ row.overdraft + m.overdraft = row.overdraft + (n - a - b)
      BY <1>1, <3>2, <3>5, <3>6, <3>7
    <3>9. n - a - b > 0 => a = row.allowance /\ b = row.wallet
      BY <1>1, <3>2, <3>6, <3>7
    <3>10. row.overdraft > 0 => a = 0 /\ b = 0
      BY <1>1, <3>2, <3>6, <3>7
    <3>11. /\ row.allowance - a >= 0 /\ row.wallet - b >= 0
           /\ row.overdraft + (n - a - b) >= 0
           /\ row.overdraft + (n - a - b) > 0 =>
                 row.allowance - a = 0 /\ row.wallet - b = 0
      BY <1>1, <3>2, <3>6, <3>7, <3>9, <3>10
    <3>12. QED
      BY <3>8, <3>11
  <2>4. QED
    BY <2>1, <2>2, <2>3
<1>6. QED
  BY <1>2, <1>4, <1>5
     DEF SoundRow, NoNegativeBucket, CachedTotalAdds, OverdraftOnlyWhenSpent,
         CalculateTotalBalance

-------------------------------------------------------------------------------

(***************************************************************************)
(* What the steps have in common: call c moves to another step, keeps its  *)
(* key and its kind, and no other call is touched.                         *)
(***************************************************************************)
Moved(c, o, step) ==
    /\ o \in Operations
    /\ step \in Steps
    /\ op' = [op EXCEPT ![c] = o]
    /\ pc' = [pc EXCEPT ![c] = step]

SameCall(o, p) == o.kind = p.kind /\ o.key = p.key

\* The amount of an operation that settles is one its entry point accepts.
Offered(o) ==
    /\ o.kind = "expire" => o.amount = 0
    /\ o.kind = "rollover" => o.amount \in RolloverCaps
    /\ o.kind \notin ResetKinds => o.amount \in Amounts

LEMMA ConstantSets ==
    /\ Active \subseteq Steps /\ Ended \subseteq Steps
    /\ TransactionSteps \subseteq Active /\ RecordSteps \subseteq Active
    /\ "idle" \notin Active /\ Active \cap Ended = {}
BY DEF Active, Ended, Steps, TransactionSteps, RecordSteps

\* A call that is under way holds an operation.
LEMMA ActiveOperation ==
    ASSUME TypeOK, NEW c \in Calls, pc[c] \in Active
    PROVE  op[c] \in Operations
BY ConstantSets DEF TypeOK

LEMMA OperationFields ==
    ASSUME NEW o \in Operations
    PROVE  /\ o \in [kind : Kinds, key : Keys, amount : Int, status : Statuses]
           /\ o.kind \in Kinds /\ o.key \in Keys /\ o.amount \in Int
           /\ o.status \in Statuses /\ o.key \in KeysOf(o.kind)
BY DEF Operations

\* Changing the amount or the status of an operation keeps it one.
LEMMA AmountField ==
    ASSUME NEW o \in Operations, NEW n \in Int, NEW p, p = [o EXCEPT !.amount = n]
    PROVE  /\ p \in Operations /\ SameCall(p, o)
           /\ p.status = o.status /\ p.amount = n
<1>1. o \in [kind : Kinds, key : Keys, amount : Int, status : Statuses]
      /\ o.key \in KeysOf(o.kind)
  BY OperationFields
<1>2. /\ p \in [kind : Kinds, key : Keys, amount : Int, status : Statuses]
      /\ p.kind = o.kind /\ p.key = o.key /\ p.amount = n /\ p.status = o.status
  BY <1>1
<1>3. QED
  BY <1>1, <1>2 DEF Operations, SameCall

LEMMA StatusField ==
    ASSUME NEW o \in Operations, NEW s \in Statuses, NEW p, p = [o EXCEPT !.status = s]
    PROVE  /\ p \in Operations /\ SameCall(p, o)
           /\ p.status = s /\ p.amount = o.amount
<1>1. o \in [kind : Kinds, key : Keys, amount : Int, status : Statuses]
      /\ o.key \in KeysOf(o.kind)
  BY OperationFields
<1>2. /\ p \in [kind : Kinds, key : Keys, amount : Int, status : Statuses]
      /\ p.kind = o.kind /\ p.key = o.key /\ p.amount = o.amount /\ p.status = s
  BY <1>1
<1>3. QED
  BY <1>1, <1>2 DEF Operations, SameCall

\* An entry point gives an idle call a well-keyed operation.
LEMMA StartEffect ==
    ASSUME TypeOK, NEW c \in Calls, NEW kind \in Kinds, NEW n \in Int,
           NEW step \in Steps, Start(c, kind, n, step)
    PROVE  \E o \in Operations :
              /\ Moved(c, o, step) /\ pc[c] = "idle"
              /\ o.kind = kind /\ o.amount = n /\ o.status = "settled"
              /\ crowded' = IF InFlight(o.key) THEN crowded \cup {o.key} ELSE crowded
              /\ UNCHANGED <<db, snap, overtaken>>
<1>1. PICK k \in KeysOf(kind) :
        /\ crowded' = IF InFlight(k) THEN crowded \cup {k} ELSE crowded
        /\ op' = [op EXCEPT ![c] = [kind |-> kind, key |-> k,
                                    amount |-> n, status |-> "settled"]]
  BY DEF Start
<1>2. PICK o : o = [kind |-> kind, key |-> k, amount |-> n, status |-> "settled"]
  OBVIOUS
<1>3. k \in Keys
  BY DEF KeysOf, Keys
<1>4. o \in Operations
  BY <1>2, <1>3 DEF Operations, Statuses
<1>5. QED
  BY <1>1, <1>2, <1>4 DEF Start, Moved, Goto

\* An error leaves the call with the record of its failure to write, or ends it.
LEMMA RaiseEffect ==
    ASSUME TypeOK, NEW c \in Calls, pc[c] \in Active, Raise(c)
    PROVE  \E o \in Operations, step \in {"recordFind", "threw"} :
              /\ Moved(c, o, step)
              /\ SameCall(o, op[c]) /\ o.amount = op[c].amount
              /\ step = "recordFind" => o.kind \in UsageKinds
<1>1. op[c] \in Operations
  BY ActiveOperation
<1>2. op \in [Calls -> Operations \cup {NoOperation}]
  BY DEF TypeOK
<1>3. CASE op[c].kind \in UsageKinds /\ WillRecord(c, "failed")
  <2>1. PICK o : o = [op[c] EXCEPT !.status = "failed"]
    OBVIOUS
  <2>2. o \in Operations /\ SameCall(o, op[c]) /\ o.amount = op[c].amount
    BY <1>1, <2>1, StatusField DEF Statuses
  <2>3. op' = [op EXCEPT ![c] = o]
    BY <1>2, <1>3, <2>1 DEF WillRecord
  <2>4. Moved(c, o, "recordFind")
    BY <1>3, <2>2, <2>3 DEF Moved, WillRecord, Goto, Steps, Active, RecordSteps
  <2>5. QED
    BY <1>3, <2>2, <2>4 DEF SameCall
<1>4. CASE Goto(c, "threw") /\ UNCHANGED op
  <2>1. op' = [op EXCEPT ![c] = op[c]]
    BY <1>2, <1>4
  <2>2. Moved(c, op[c], "threw")
    BY <1>1, <1>4, <2>1 DEF Moved, Goto, Steps, Ended
  <2>3. QED
    BY <1>1, <2>2 DEF SameCall
<1>5. QED
  BY <1>3, <1>4 DEF Raise

\* A move keeps the parts of TypeOK that are about calls.
LEMMA MovedType ==
    ASSUME TypeOK, NEW c \in Calls, NEW o, NEW step, Moved(c, o, step)
    PROVE  /\ pc' \in [Calls -> Steps]
           /\ op' \in [Calls -> Operations \cup {NoOperation}]
           /\ \A d \in Calls : pc'[d] # "idle" => op'[d] \in Operations
           /\ pc'[c] = step /\ op'[c] = o
           /\ \A d \in Calls \ {c} : pc'[d] = pc[d] /\ op'[d] = op[d]
BY DEF TypeOK, Moved

\* The work of a call ends: it will settle an amount or record an event.
LEMMA RunEffect ==
    ASSUME TypeOK, NEW c \in Calls, RunEnds(c)
    PROVE  \E o \in Operations, step \in {"find", "recordFind"} :
              /\ Moved(c, o, step) /\ pc[c] = "running"
              /\ SameCall(o, op[c]) /\ UNCHANGED <<db, snap, history>>
              /\ step = "find" => Offered(o) /\ o.status = op[c].status
<1>1. pc[c] = "running" /\ UNCHANGED <<db, snap, history>>
  BY DEF RunEnds, RunIsCharged, RunIsNotCharged, RunFails
<1>2. op[c] \in Operations /\ op \in [Calls -> Operations \cup {NoOperation}]
  BY <1>1, ActiveOperation DEF Active, TypeOK
<1>3. CASE RunIsCharged(c)
  <2>1. PICK n \in Amounts : op' = [op EXCEPT ![c].amount = n]
    BY <1>3 DEF RunIsCharged
  <2>2. PICK o : o = [op[c] EXCEPT !.amount = n]
    OBVIOUS
  <2>3. n \in Nat
    BY AmountAssumption
  <2>4. /\ o \in Operations /\ SameCall(o, op[c])
        /\ o.status = op[c].status /\ o.amount = n
    BY <1>2, <2>2, <2>3, AmountField
  <2>5. op' = [op EXCEPT ![c] = o]
    BY <1>2, <2>1, <2>2
  <2>6. Moved(c, o, "find")
    BY <1>3, <2>4, <2>5
       DEF Moved, RunIsCharged, Goto, Steps, Active, TransactionSteps
  <2>7. QED
    BY <1>1, <1>3, <2>4, <2>6
       DEF RunIsCharged, SameCall, Offered, ChargeKinds, ResetKinds
<1>4. CASE RunIsNotCharged(c) \/ RunFails(c)
  <2>1. PICK s \in Statuses : WillRecord(c, s)
    BY <1>4 DEF RunIsNotCharged, RunFails, Statuses
  <2>2. PICK o : o = [op[c] EXCEPT !.status = s]
    OBVIOUS
  <2>3. o \in Operations /\ SameCall(o, op[c])
    BY <1>2, <2>2, StatusField
  <2>4. op' = [op EXCEPT ![c] = o]
    BY <1>2, <2>1, <2>2 DEF WillRecord
  <2>5. Moved(c, o, "recordFind")
    BY <2>1, <2>3, <2>4 DEF Moved, WillRecord, Goto, Steps, Active, RecordSteps
  <2>6. QED
    BY <1>1, <2>3, <2>5
<1>5. QED
  BY <1>3, <1>4 DEF RunEnds

\* A call begins: work to charge or to meter, or a transaction at once.
LEMMA BeginEffect ==
    ASSUME TypeOK, NEW c \in Calls, Begin(c)
    PROVE  \E o \in Operations, step \in {"running", "blocked", "find"} :
              /\ Moved(c, o, step) /\ pc[c] = "idle"
              /\ o.status = "settled"
              /\ crowded' = IF InFlight(o.key) THEN crowded \cup {o.key} ELSE crowded
              /\ UNCHANGED <<db, snap, overtaken>>
              /\ step = "find" => o.kind \notin UsageKinds /\ Offered(o)
              /\ step # "find" => o.kind \in UsageKinds
<1> USE DEF UsageKinds, ChargeKinds, GrantKinds, ResetKinds, Offered
<1>1. CASE BeginCharge(c) \/ BeginMetered(c)
  <2>1. PICK kind \in UsageKinds, step \in {"running", "blocked"} :
          Start(c, kind, 0, step)
    BY <1>1 DEF BeginCharge, BeginMetered
  <2>2. kind \in Kinds /\ step \in Steps
    BY DEF Kinds, Steps, Active, Ended
  <2>3. QED
    BY <2>1, <2>2, StartEffect
<1>2. CASE BeginDirect(c)
  <2>1. PICK kind \in GrantKinds \cup {"debit"}, n \in Amounts :
          Start(c, kind, n, "find")
    BY <1>2 DEF BeginDirect
  <2>2. kind \in Kinds /\ "find" \in Steps /\ n \in Nat
    BY AmountAssumption DEF Kinds, Steps, Active, TransactionSteps
  <2>3. QED
    BY <2>1, <2>2, StartEffect
<1>3. CASE BeginReset(c)
  <2>1. PICK kind \in ResetKinds, n \in Int :
          /\ Start(c, kind, n, "find")
          /\ kind = "expire" => n = 0
          /\ kind = "rollover" => n \in RolloverCaps
    BY <1>3, AmountAssumption DEF BeginReset
  <2>2. kind \in Kinds /\ "find" \in Steps
    BY DEF Kinds, Steps, Active, TransactionSteps
  <2>3. QED
    BY <2>1, <2>2, StartEffect
<1>4. QED
  BY <1>1, <1>2, <1>3 DEF Begin

\* What a rollback does to the database.
LEMMA RollbackEffect ==
    ASSUME TypeOK, NEW c \in Calls, Rollback(c)
    PROVE  /\ pending' \in [Keys -> Calls \cup {NoCall}]
           /\ lock' \in Calls \cup {NoCall}
           /\ \A k \in Keys : pending'[k] = IF pending[k] = c THEN NoCall ELSE pending[k]
           /\ lock' = IF lock = c THEN NoCall ELSE lock
           /\ UNCHANGED <<events, account, ledger, applied, snap, history>>
BY DEF TypeOK, Rollback

\* What a commit does to the database.
LEMMA PostEffect ==
    ASSUME TypeOK, NEW c \in Calls, pc[c] = "commit", Post(c)
    PROVE  /\ events' = [events EXCEPT ![op[c].key] =
                           IF pending[op[c].key] = c THEN op[c].status ELSE @]
           /\ pending' = [pending EXCEPT ![op[c].key] = IF @ = c THEN NoCall ELSE @]
           /\ events' \in [Keys -> Statuses \cup {"none"}]
           /\ pending' \in [Keys -> Calls \cup {NoCall}]
           /\ account' \in Accounts
           /\ ledger' \in Movements
           /\ applied' = [applied EXCEPT ![op[c].key] = @ + 1]
           /\ applied' \in [Keys -> Nat]
           /\ lock' = IF lock = c THEN NoCall ELSE lock
           /\ overtaken' = IF ReadIsStale(c) THEN overtaken \cup {c} ELSE overtaken
           /\ crowded' = crowded
<1>1. op[c] \in Operations
  BY ActiveOperation DEF Active, TransactionSteps
<1>2. /\ op[c].key \in Keys /\ op[c].amount \in Int /\ op[c].status \in Statuses
      /\ op[c].key \in KeysOf(op[c].kind)
  BY <1>1, OperationFields
<1>3. op[c].kind \in ResetKinds => PeriodOf[op[c].key] \in Int
  BY <1>2, PeriodAssumption DEF KeysOf, UsageKinds, ChargeKinds, ResetKinds
<1>4. account \in Accounts /\ snap[c] \in Accounts /\ ledger \in Movements
  BY DEF TypeOK
<1>5. account' \in Accounts
  BY <1>2, <1>3, <1>4, WrittenType DEF Post
<1>6. Moves(op[c].kind, snap[c], op[c].amount) \in Movements
  BY <1>2, <1>4, MovesType
<1>7. ledger' \in Movements
  BY <1>4, <1>6, AddMovesType DEF Post
<1>8. QED
  BY <1>2, <1>5, <1>7 DEF Post, Release, TypeOK

-------------------------------------------------------------------------------
(***************************************************************************)
(* Type correctness.                                                       *)
(***************************************************************************)

LEMMA TypeInit == Init => TypeOK
<1> SUFFICES ASSUME Init PROVE TypeOK
  OBVIOUS
<1>1. /\ Opening \in Accounts
      /\ ledger \in Movements
  BY OpeningAssumption DEF Init, Accounts, Movements, BucketsOf
<1>2. QED
  BY <1>1 DEF Init, TypeOK, Steps, Active

LEMMA TypeNext == TypeOK /\ [Next]_vars => TypeOK'
<1> SUFFICES ASSUME TypeOK, [Next]_vars PROVE TypeOK'
  OBVIOUS
<1> USE DEF db, history
<1>1. ASSUME UNCHANGED vars PROVE TypeOK'
  BY <1>1 DEF TypeOK, vars
<1>2. ASSUME NEW c \in Calls, NEW o, NEW step, Moved(c, o, step),
             UNCHANGED <<db, snap, overtaken>>, crowded' \subseteq Keys
      PROVE  TypeOK'
  BY <1>2, MovedType DEF TypeOK
<1>3. ASSUME NEW c \in Calls, Begin(c) PROVE TypeOK'
  <2>1. PICK o \in Operations, step \in {"running", "blocked", "find"} :
          /\ Moved(c, o, step) /\ UNCHANGED <<db, snap, overtaken>>
          /\ crowded' = IF InFlight(o.key) THEN crowded \cup {o.key} ELSE crowded
    BY <1>3, BeginEffect
  <2>2. crowded' \subseteq Keys
    BY <2>1, OperationFields DEF TypeOK
  <2>3. QED
    BY <1>2, <2>1, <2>2
<1>4. ASSUME NEW c \in Calls, RunEnds(c) PROVE TypeOK'
  <2>1. crowded' \subseteq Keys
    BY <1>4, RunEffect DEF TypeOK
  <2>2. QED
    BY <1>4, <1>2, <2>1, RunEffect
<1>5. ASSUME NEW c \in Calls, pc[c] \in Active, UNCHANGED op,
             NEW step \in Steps, Goto(c, step)
      PROVE  Moved(c, op[c], step)
  BY <1>5, ActiveOperation DEF Moved, Goto, TypeOK
<1>6. ASSUME NEW c \in Calls, FindEvent(c) \/ FindEventAgain(c) \/ RecordFind(c)
      PROVE  TypeOK'
  <2>1. PICK step \in Steps : Goto(c, step)
    BY <1>6 DEF FindEvent, FindEventAgain, RecordFind, AfterFind, AfterEvent,
                Steps, Active, Ended, TransactionSteps, RecordSteps
  <2>2. /\ pc[c] \in Active /\ UNCHANGED op /\ UNCHANGED <<db, snap, overtaken>>
        /\ crowded' \subseteq Keys
    BY <1>6 DEF FindEvent, FindEventAgain, RecordFind, Active,
                TransactionSteps, RecordSteps, TypeOK
  <2>3. QED
    BY <1>2, <1>5, <2>1, <2>2
<1>7. ASSUME NEW c \in Calls, pc[c] \in Active, Rollback(c), Raise(c)
      PROVE  TypeOK'
  BY <1>7, RollbackEffect, RaiseEffect, MovedType DEF TypeOK
<1>8. ASSUME NEW c \in Calls, InsertEvent(c) PROVE TypeOK'
  <2>1. pc[c] \in Active
    BY <1>8 DEF InsertEvent, Active, TransactionSteps
  <2>2. CASE events[op[c].key] = "none"
    <3>1. PICK step \in Steps : Goto(c, step)
      BY <1>8, <2>2 DEF InsertEvent, AfterEvent, Steps, Active, TransactionSteps
    <3>2. UNCHANGED <<events, account, ledger, applied, lock, op, snap, history>>
          /\ pending' = [pending EXCEPT ![op[c].key] = c]
      BY <1>8, <2>2 DEF InsertEvent
    <3>3. Moved(c, op[c], step)
      BY <1>5, <2>1, <3>1, <3>2
    <3>4. QED
      BY <3>2, <3>3, MovedType DEF TypeOK
  <2>3. CASE events[op[c].key] # "none"
    BY <1>7, <1>8, <2>1, <2>3 DEF InsertEvent
  <2>4. QED
    BY <2>2, <2>3
<1>9. ASSUME NEW c \in Calls, ReadAccount(c) PROVE TypeOK'
  <2>1. PICK step \in Steps : Goto(c, step)
    BY <1>9 DEF ReadAccount, AfterRead, Steps, Active, TransactionSteps
  <2>2. pc[c] \in Active /\ UNCHANGED op
    BY <1>9 DEF ReadAccount, Active, TransactionSteps
  <2>3. Moved(c, op[c], step)
    BY <1>5, <2>1, <2>2
  <2>4. UNCHANGED <<db, history>> /\ snap' = [snap EXCEPT ![c] = account]
    BY <1>9 DEF ReadAccount
  <2>5. QED
    BY <2>3, <2>4, MovedType DEF TypeOK
<1>17. ASSUME NEW c \in Calls, UpdateAccount(c) PROVE TypeOK'
  <2>1. /\ Goto(c, "commit") /\ "commit" \in Steps /\ pc[c] \in Active
        /\ UNCHANGED <<events, pending, account, ledger, applied, op, snap, history>>
        /\ lock' = c
    BY <1>17 DEF UpdateAccount, Steps, Active, TransactionSteps
  <2>2. Moved(c, op[c], "commit")
    BY <1>5, <2>1
  <2>3. QED
    BY <2>1, <2>2, MovedType DEF TypeOK
<1>10. ASSUME NEW c \in Calls, Commit(c) \/ CommitUnanswered(c) PROVE TypeOK'
  <2>1. pc[c] = "commit" /\ pc[c] \in Active /\ Post(c) /\ UNCHANGED snap
    BY <1>10 DEF Commit, CommitUnanswered, Active, TransactionSteps
  <2>2. \E o \in Operations, step \in Steps : Moved(c, o, step)
    <3>1. CASE Commit(c)
      BY <3>1, <1>5, <2>1, ActiveOperation DEF Commit, Steps, Ended
    <3>2. CASE CommitUnanswered(c)
      BY <3>2, <2>1, RaiseEffect DEF CommitUnanswered, Moved
    <3>3. QED
      BY <1>10, <3>1, <3>2
  <2>3. lock' \in Calls \cup {NoCall} /\ overtaken' \subseteq Calls /\ crowded' \subseteq Keys
    BY <2>1, PostEffect DEF TypeOK
  <2>4. QED
    BY <2>1, <2>2, <2>3, PostEffect, MovedType DEF TypeOK
<1>11. ASSUME NEW c \in Calls, RecordInsert(c) PROVE TypeOK'
  <2>1. pc[c] \in Active /\ op[c] \in Operations
    BY <1>11, ActiveOperation DEF RecordInsert, Active, RecordSteps
  <2>2. UNCHANGED <<pending, account, ledger, applied, lock, snap, history>>
    BY <1>11 DEF RecordInsert
  <2>3. CASE events[op[c].key] = "none"
    <3>1. Moved(c, op[c], "recorded")
      BY <1>5, <1>11, <2>1, <2>3 DEF RecordInsert, Steps, Ended
    <3>2. events' = [events EXCEPT ![op[c].key] = op[c].status]
      BY <1>11, <2>3 DEF RecordInsert
    <3>3. QED
      BY <2>1, <2>2, <3>1, <3>2, MovedType, OperationFields DEF TypeOK
  <2>4. CASE events[op[c].key] # "none"
    BY <1>11, <2>1, <2>2, <2>4, RaiseEffect, MovedType DEF RecordInsert, TypeOK
  <2>5. QED
    BY <2>3, <2>4
<1>12. ASSUME NEW c \in Calls, Abort(c) PROVE TypeOK'
  BY <1>7, <1>12, ConstantSets DEF Abort
<1>13. ASSUME NEW c \in Calls, Crash(c) PROVE TypeOK'
  <2>1. Moved(c, op[c], "crashed")
    BY <1>5, <1>13 DEF Crash, Steps, Ended
  <2>2. QED
    BY <1>13, <2>1, RollbackEffect, MovedType DEF Crash, TypeOK
<1>14. QED
  BY <1>1, <1>3, <1>4, <1>6, <1>8, <1>9, <1>10, <1>11, <1>12, <1>13, <1>17
     DEF Next, Statement, Terminating

\* Every reachable state is well typed, and every call that has begun holds an
\* operation whose key is one of the keys of its kind.
THEOREM TypeCorrect == Spec => []TypeOK
BY TypeInit, TypeNext, PTL DEF Spec

-------------------------------------------------------------------------------
(***************************************************************************)
(* The account.  A commit writes balances computed from an earlier read.   *)
(* Every row that a call can have read has no negative bucket, so what it  *)
(* writes has none either, however old the read.  While no call has posted *)
(* over balances that had moved, every commit is computed from the row of  *)
(* the moment, which keeps the row sound and equal to its ledger.          *)
(***************************************************************************)

AmountsAreOffered ==
    \A c \in Calls : pc[c] \in TransactionSteps => Offered(op[c])

ReadsAreNonNegative == \A c \in Calls : NoNegativeBucket(snap[c])

DriftInv ==
    /\ TypeOK
    /\ AmountsAreOffered
    /\ ReadsAreNonNegative
    /\ BucketsNeverNegative
    /\ DriftIsOvertaken

\* Balances computed from any row without a negative bucket have none.
LEMMA WrittenIsNonNegative ==
    ASSUME NEW kind, NEW row \in Accounts, NEW read \in Accounts,
           NoNegativeBucket(row), NoNegativeBucket(read),
           NEW n \in Int, kind \in ResetKinds \/ n \in Nat,
           NEW period, kind \in ResetKinds => period \in Int
    PROVE  NoNegativeBucket(Written(kind, row, read, n, period))
<1>0. SUFFICES ASSUME NEW w, w = Written(kind, row, read, n, period),
                      NEW m, m = Moves(kind, read, n)
               PROVE  NoNegativeBucket(w)
  OBVIOUS
<1>1. /\ read.allowance \in Nat /\ read.wallet \in Nat /\ read.overdraft \in Nat
      /\ row.wallet \in Nat /\ row.overdraft \in Nat
  BY DEF Accounts, NoNegativeBucket
<1>2. m \in Movements
  BY <1>0, MovesType
<1>3. CASE kind \in ResetKinds
  <2>1. w = ResetRow(row, read, m, period)
    BY <1>0, <1>3 DEF Written
  <2>2. /\ w.allowance = read.allowance + m.allowance
        /\ w.wallet = row.wallet
        /\ w.overdraft = row.overdraft
    BY <1>2, <1>3, <2>1, ResetRowValue
  <2>5. m = ResetMoves(read, kind, n)
    BY <1>0, <1>3 DEF Moves, ResetKinds, GrantKinds
  <2>3. read.allowance + m.allowance >= 0
    BY <1>1, <2>5 DEF ResetMoves, CarriedCredits, Smaller
  <2>4. QED
    BY <1>1, <2>2, <2>3 DEF NoNegativeBucket
<1>4. CASE kind \notin ResetKinds
  <2>1. w = PostedRow(row, read, m)
    BY <1>0, <1>4 DEF Written
  <2>6. n \in Nat
    BY <1>4
  <2>2. /\ w.allowance = read.allowance + m.allowance
        /\ w.wallet = read.wallet + m.wallet
        /\ w.overdraft = read.overdraft + m.overdraft
    <3>1. PICK b : b = AddMoves(read, m)
      OBVIOUS
    <3>2. /\ w.allowance = b.allowance /\ w.wallet = b.wallet
          /\ w.overdraft = b.overdraft
      BY <2>1, <3>1 DEF PostedRow, Accounts
    <3>3. QED
      BY <3>1, <3>2 DEF AddMoves
  <2>3. CASE kind \in GrantKinds
    <3>1. m = GrantMoves(read, kind, n)
      BY <1>0, <1>4, <2>3 DEF Moves, GrantKinds, ResetKinds
    <3>2. QED
      BY <1>1, <2>6, <2>2, <2>3, <3>1
         DEF GrantMoves, Smaller, GrantKinds, NoNegativeBucket
  <2>4. CASE kind \notin GrantKinds
    <3>1. m = DebitMoves(read, n)
      BY <1>0, <1>4, <2>4 DEF Moves
    <3>2. PICK a : a = Smaller(read.allowance, n)
      OBVIOUS
    <3>3. PICK b : b = Smaller(read.wallet, n - a)
      OBVIOUS
    <3>4. m.allowance = -a /\ m.wallet = -b /\ m.overdraft = n - a - b
      BY <3>1, <3>2, <3>3 DEF DebitMoves
    <3>5. a \in Nat /\ a <= read.allowance /\ a <= n
      BY <1>1, <2>6, <3>2 DEF Smaller
    <3>6. b \in Nat /\ b <= read.wallet /\ b <= n - a
      BY <1>1, <2>6, <3>3, <3>5 DEF Smaller
    <3>7. /\ w.allowance = read.allowance - a /\ w.wallet = read.wallet - b
          /\ w.overdraft = read.overdraft + (n - a - b)
      BY <1>1, <2>6, <2>2, <3>4, <3>5, <3>6
    <3>8. QED
      BY <1>1, <2>6, <3>5, <3>6, <3>7 DEF NoNegativeBucket
  <2>5. QED
    BY <2>3, <2>4
<1>5. QED
  BY <1>3, <1>4

\* An operation looks at the buckets of what it has read, and at nothing else: over
\* balances that have not moved it writes what it would compute from the row itself.
LEMMA WrittenFromSameBuckets ==
    ASSUME NEW kind, NEW row \in Accounts, NEW read \in Accounts,
           BucketsOf(read) = BucketsOf(row), NEW n \in Int, NEW period
    PROVE  /\ Moves(kind, read, n) = Moves(kind, row, n)
           /\ Written(kind, row, read, n, period) = Written(kind, row, row, n, period)
<1>1. /\ read.allowance = row.allowance /\ read.wallet = row.wallet
      /\ read.overdraft = row.overdraft
  BY DEF BucketsOf
<1>2. Moves(kind, read, n) = Moves(kind, row, n)
  BY <1>1 DEF Moves, GrantMoves, DebitMoves, ResetMoves, CarriedCredits
<1>3. \A m : AddMoves(read, m) = AddMoves(row, m)
  BY <1>1 DEF AddMoves
<1>4. QED
  BY <1>2, <1>3 DEF Written, PostedRow, ResetRow

LEMMA DriftInit == Init => DriftInv
<1> SUFFICES ASSUME Init PROVE DriftInv
  OBVIOUS
<1>1. TypeOK
  BY TypeInit
<1>2. DriftIsOvertaken /\ BucketsNeverNegative /\ ReadsAreNonNegative
  BY OpeningAssumption DEF Init, DriftIsOvertaken, AccountMatchesLedger, SoundRow,
                           BucketsNeverNegative, ReadsAreNonNegative
<1>3. AmountsAreOffered
  BY DEF Init, AmountsAreOffered, TransactionSteps
<1>4. QED
  BY <1>1, <1>2, <1>3 DEF DriftInv

\* A step that writes neither the account nor the ledger keeps the invariant if
\* what the call reads, if anything, is the account.
LEMMA DriftFrame ==
    ASSUME DriftInv, NEW c \in Calls, NEW o, NEW step, Moved(c, o, step), TypeOK',
           UNCHANGED <<account, ledger, overtaken>>,
           snap' = snap \/ snap' = [snap EXCEPT ![c] = account],
           step \in TransactionSteps => Offered(o)
    PROVE  DriftInv'
<1>1. /\ \A d \in Calls \ {c} : pc'[d] = pc[d] /\ op'[d] = op[d]
      /\ pc'[c] = step /\ op'[c] = o
  BY MovedType DEF DriftInv
<1>2. ReadsAreNonNegative'
  BY DEF DriftInv, ReadsAreNonNegative, BucketsNeverNegative, TypeOK
<1>3. AmountsAreOffered'
  BY <1>1 DEF DriftInv, AmountsAreOffered
<1>4. QED
  BY <1>2, <1>3 DEF DriftInv, BucketsNeverNegative, DriftIsOvertaken,
                    AccountMatchesLedger

LEMMA DriftNext ==
    ASSUME DriftInv, [Next]_vars
    PROVE  DriftInv'
<1>1. TypeOK /\ TypeOK'
  BY TypeNext DEF DriftInv
<1>2. CASE UNCHANGED vars
  BY <1>2 DEF vars, DriftInv, TypeOK, ReadsAreNonNegative, AmountsAreOffered,
              BucketsNeverNegative, DriftIsOvertaken, AccountMatchesLedger
<1>3. ASSUME NEW c \in Calls, pc[c] \in Active, UNCHANGED op,
             NEW step \in Steps, Goto(c, step)
      PROVE  Moved(c, op[c], step)
  BY <1>1, <1>3, ActiveOperation DEF Moved, Goto, TypeOK
<1>4. ASSUME NEW c \in Calls, Begin(c) PROVE DriftInv'
  BY <1>1, <1>4, BeginEffect, DriftFrame DEF db, TransactionSteps
<1>5. ASSUME NEW c \in Calls, RunEnds(c) PROVE DriftInv'
  BY <1>1, <1>5, RunEffect, DriftFrame DEF db, history, TransactionSteps
\* A step inside the transaction, or out of it.
<1>6. ASSUME NEW c \in Calls, pc[c] \in TransactionSteps \cup RecordSteps,
             NEW step \in Steps, Goto(c, step),
             step \in TransactionSteps => pc[c] \in TransactionSteps,
             UNCHANGED <<account, ledger, overtaken, op>>,
             snap' = snap \/ snap' = [snap EXCEPT ![c] = account]
      PROVE  DriftInv'
  <2>1. pc[c] \in Active
    BY <1>6, ConstantSets
  <2>2. Moved(c, op[c], step)
    BY <1>3, <1>6, <2>1
  <2>3. step \in TransactionSteps => Offered(op[c])
    BY <1>6 DEF DriftInv, AmountsAreOffered
  <2>4. QED
    BY <1>1, <1>6, <2>2, <2>3, DriftFrame
<1>7. ASSUME NEW c \in Calls,
             \/ FindEvent(c) \/ FindEventAgain(c) \/ RecordFind(c)
             \/ ReadAccount(c) \/ UpdateAccount(c)
      PROVE  DriftInv'
  <2>1. PICK step \in Steps :
          Goto(c, step) /\ (step \in TransactionSteps => pc[c] \in TransactionSteps)
    BY <1>7 DEF FindEvent, FindEventAgain, RecordFind, ReadAccount, UpdateAccount,
                AfterFind, AfterEvent, AfterRead, Steps, Active, Ended,
                TransactionSteps, RecordSteps
  <2>2. /\ pc[c] \in TransactionSteps \cup RecordSteps
        /\ UNCHANGED <<account, ledger, overtaken, op>>
        /\ snap' = snap \/ snap' = [snap EXCEPT ![c] = account]
    BY <1>7 DEF FindEvent, FindEventAgain, RecordFind, ReadAccount, UpdateAccount,
                TransactionSteps, RecordSteps, db, history
  <2>3. QED
    BY <1>6, <2>1, <2>2
\* A call that gives up its transaction, or its record.
<1>8. ASSUME NEW c \in Calls, NEW o, NEW step, Moved(c, o, step),
             step \notin TransactionSteps, UNCHANGED <<account, ledger, overtaken, snap>>
      PROVE  DriftInv'
  BY <1>1, <1>8, DriftFrame
<1>9. ASSUME NEW c \in Calls, pc[c] \in Active, Raise(c),
             UNCHANGED <<account, ledger, overtaken, snap>>
      PROVE  DriftInv'
  BY <1>1, <1>8, <1>9, RaiseEffect DEF TransactionSteps
<1>10. ASSUME NEW c \in Calls, InsertEvent(c) PROVE DriftInv'
  <2>1. pc[c] \in TransactionSteps /\ pc[c] \in Active
    BY <1>10 DEF InsertEvent, TransactionSteps, Active
  <2>2. CASE events[op[c].key] = "none"
    <3>1. Goto(c, AfterEvent(op[c])) /\ UNCHANGED <<account, ledger, overtaken, op, snap>>
      BY <1>10, <2>2 DEF InsertEvent, history
    <3>2. AfterEvent(op[c]) \in Steps
      BY DEF AfterEvent, Steps, Active, TransactionSteps
    <3>3. QED
      BY <1>6, <2>1, <3>1, <3>2
  <2>3. CASE events[op[c].key] # "none"
    BY <1>9, <1>10, <2>1, <2>3 DEF InsertEvent, Rollback, history
  <2>4. QED
    BY <2>2, <2>3
<1>11. ASSUME NEW c \in Calls, RecordInsert(c) PROVE DriftInv'
  <2>1. /\ pc[c] \in RecordSteps /\ pc[c] \in Active
        /\ UNCHANGED <<account, ledger, overtaken, snap>>
    BY <1>11 DEF RecordInsert, RecordSteps, Active, history
  <2>2. CASE events[op[c].key] = "none"
    BY <1>6, <1>11, <2>1, <2>2 DEF RecordInsert, Steps, Ended, TransactionSteps
  <2>3. CASE events[op[c].key] # "none"
    BY <1>9, <1>11, <2>1, <2>3 DEF RecordInsert
  <2>4. QED
    BY <2>2, <2>3
<1>12. ASSUME NEW c \in Calls, pc[c] = "commit", Post(c), UNCHANGED snap,
              NEW o, NEW step, Moved(c, o, step), step \notin TransactionSteps
       PROVE  DriftInv'
  <2>1. op[c] \in Operations /\ (op[c].kind \in ResetKinds \/ op[c].amount \in Nat)
    BY <1>1, <1>12, ActiveOperation, AmountAssumption
       DEF Active, TransactionSteps, DriftInv, AmountsAreOffered, Offered
  <2>2. op[c].amount \in Int /\ op[c].key \in KeysOf(op[c].kind)
    BY <2>1, OperationFields
  <2>3. op[c].kind \in ResetKinds => PeriodOf[op[c].key] \in Int
    BY <2>2, PeriodAssumption DEF KeysOf, UsageKinds, ChargeKinds, ResetKinds
  <2>4. account \in Accounts /\ ledger \in Movements /\ snap[c] \in Accounts
    BY <1>1 DEF TypeOK
  <2>5. NoNegativeBucket(account) /\ NoNegativeBucket(snap[c])
    BY DEF DriftInv, BucketsNeverNegative, ReadsAreNonNegative
  <2>6. /\ account' = Written(op[c].kind, account, snap[c], op[c].amount,
                              PeriodOf[op[c].key])
        /\ ledger' = AddMoves(ledger, Moves(op[c].kind, snap[c], op[c].amount))
        /\ overtaken' = IF ReadIsStale(c) THEN overtaken \cup {c} ELSE overtaken
    BY <1>12 DEF Post
  <2>7. BucketsNeverNegative'
    BY <2>1, <2>2, <2>3, <2>4, <2>5, <2>6, WrittenIsNonNegative
       DEF BucketsNeverNegative
  <2>8. DriftIsOvertaken'
    <3> SUFFICES ASSUME overtaken' = {}
                 PROVE  SoundRow(account') /\ ledger' = BucketsOf(account')
      BY DEF DriftIsOvertaken, AccountMatchesLedger
    <3>1. BucketsOf(snap[c]) = BucketsOf(account) /\ overtaken = {}
      BY <2>6 DEF ReadIsStale
    <3>2. SoundRow(account) /\ ledger = BucketsOf(account)
      BY <3>1 DEF DriftInv, DriftIsOvertaken, AccountMatchesLedger
    <3>3. PICK m : m = Moves(op[c].kind, account, op[c].amount)
      OBVIOUS
    <3>4. PICK w : w = Written(op[c].kind, account, account, op[c].amount,
                               PeriodOf[op[c].key])
      OBVIOUS
    <3>5. account' = w /\ ledger' = AddMoves(ledger, m)
      BY <2>2, <2>4, <2>6, <3>1, <3>3, <3>4, WrittenFromSameBuckets
    <3>6. SoundRow(w)
      BY <2>1, <2>2, <2>3, <2>4, <3>2, <3>4, WrittenIsSound
    <3>7. /\ w.allowance = account.allowance + m.allowance
          /\ w.wallet = account.wallet + m.wallet
          /\ w.overdraft = account.overdraft + m.overdraft
      <4>1. op[c].amount \in Int /\ account \in Accounts
        BY <2>2, <2>4
      <4>2. QED
        BY <2>3, <3>3, <3>4, <4>1, WrittenFollowsMoves
    <3>8. QED
      BY <3>2, <3>5, <3>6, <3>7 DEF AddMoves, BucketsOf
  <2>9. /\ \A d \in Calls \ {c} : pc'[d] = pc[d] /\ op'[d] = op[d]
        /\ pc'[c] = step /\ op'[c] = o
    BY <1>1, <1>12, MovedType
  <2>10. AmountsAreOffered'
    BY <1>12, <2>9 DEF DriftInv, AmountsAreOffered
  <2>11. ReadsAreNonNegative'
    BY <1>12 DEF DriftInv, ReadsAreNonNegative
  <2>12. QED
    BY <1>1, <2>7, <2>8, <2>10, <2>11 DEF DriftInv
<1>13. ASSUME NEW c \in Calls, Commit(c) \/ CommitUnanswered(c) PROVE DriftInv'
  <2>1. pc[c] = "commit" /\ pc[c] \in Active /\ Post(c) /\ UNCHANGED snap
    BY <1>13 DEF Commit, CommitUnanswered, Active, TransactionSteps
  <2>2. CASE Commit(c)
    <3>1. Moved(c, op[c], "done")
      BY <1>3, <2>1, <2>2 DEF Commit, Steps, Ended
    <3>2. QED
      BY <1>12, <2>1, <3>1 DEF TransactionSteps
  <2>3. CASE CommitUnanswered(c)
    BY <1>1, <1>12, <2>1, <2>3, RaiseEffect DEF CommitUnanswered, TransactionSteps
  <2>4. QED
    BY <1>13, <2>2, <2>3
<1>14. ASSUME NEW c \in Calls, Abort(c) PROVE DriftInv'
  BY <1>9, <1>14, ConstantSets DEF Abort, Rollback, history
<1>15. ASSUME NEW c \in Calls, Crash(c) PROVE DriftInv'
  <2>1. Moved(c, op[c], "crashed")
    BY <1>3, <1>15 DEF Crash, Steps, Ended
  <2>2. QED
    BY <1>8, <1>15, <2>1 DEF Crash, Rollback, history, TransactionSteps
<1>16. QED
  BY <1>2, <1>4, <1>5, <1>7, <1>10, <1>11, <1>13, <1>14, <1>15
     DEF Next, Statement, Terminating

\* The account leaves its ledger, its total leaves its buckets or credits stand
\* beside an overdraft only after a posting over balances that its call had not read.
THEOREM DriftNeedsOvertaking == Spec => []DriftIsOvertaken
<1>1. DriftInv => DriftIsOvertaken
  BY DEF DriftInv
<1>2. DriftInv /\ [Next]_vars => DriftInv'
  BY DriftNext
<1>3. QED
  BY <1>1, <1>2, DriftInit, PTL DEF Spec

\* No bucket of the committed account is ever negative, however many updates are lost.
THEOREM BalancesStayNonNegative == Spec => []BucketsNeverNegative
<1>1. DriftInv => BucketsNeverNegative
  BY DEF DriftInv
<1>2. DriftInv /\ [Next]_vars => DriftInv'
  BY DriftNext
<1>3. QED
  BY <1>1, <1>2, DriftInit, PTL DEF Spec

-------------------------------------------------------------------------------
(***************************************************************************)
(* Keys whose calls never overlapped.  That such a key is posted once needs*)
(* to know why a key whose transaction is past its first look is still     *)
(* undecided: its only active call is that one.  A key that is crowded once*)
(* stays so, and nothing is claimed of it any more.                        *)
(***************************************************************************)

KeysAreExclusive ==
    \A c, d \in Calls :
        pc[c] \in Active /\ pc[d] \in Active /\ op[c].key = op[d].key
        /\ op[c].key \notin crowded => c = d

\* A call past the first look of its transaction, and one that has its event.
HasLooked(c) == pc[c] \in TransactionSteps \ {"find"}
HasEvent(c)  ==
    \/ pc[c] \in {"update", "commit"}
    \/ pc[c] = "read" /\ op[c].kind \notin ResetKinds

CallIsSerial(c) ==
    /\ HasLooked(c) /\ op[c].key \notin crowded => events[op[c].key] = "none"
    /\ HasEvent(c) /\ op[c].key \notin crowded => pending[op[c].key] = c
    /\ pc[c] \in TransactionSteps \cup {"running"} => op[c].status = "settled"

AppliedWhenSettled ==
    \A k \in Keys \ crowded :
        applied[k] = 0 \/ (applied[k] = 1 /\ events[k] = "settled")

SerialInv ==
    /\ TypeOK
    /\ KeysAreExclusive
    /\ \A c \in Calls : CallIsSerial(c)
    /\ AppliedWhenSettled

LEMMA SerialInit == Init => SerialInv
<1> SUFFICES ASSUME Init PROVE SerialInv
  OBVIOUS
<1>1. TypeOK
  BY TypeInit
<1>2. \A c \in Calls : pc[c] = "idle"
  BY DEF Init
<1>3. KeysAreExclusive
  BY <1>2, ConstantSets DEF KeysAreExclusive
<1>4. ASSUME NEW c \in Calls PROVE CallIsSerial(c)
  BY <1>2 DEF CallIsSerial, HasLooked, HasEvent, TransactionSteps
<1>5. AppliedWhenSettled
  BY DEF Init, AppliedWhenSettled
<1>6. QED
  BY <1>1, <1>3, <1>4, <1>5 DEF SerialInv

\* A step of c that decides at most its own key keeps what the other calls rely
\* on, when the key is crowded or no other active call has it.
LEMMA SerialFrame ==
    ASSUME SerialInv, NEW c \in Calls, NEW o \in Operations, NEW step,
           Moved(c, o, step), TypeOK', crowded \subseteq crowded',
           o.key \notin crowded' =>
              \A d \in Calls \ {c} : pc[d] \in Active => op[d].key # o.key,
           \A k \in Keys \ {o.key} :
              /\ events'[k] = events[k] /\ applied'[k] = applied[k]
              /\ pending'[k] = pending[k] \/ pending[k] = c,
           CallIsSerial(c)',
           \/ o.key \in crowded' \/ applied'[o.key] = 0
           \/ applied'[o.key] = 1 /\ events'[o.key] = "settled"
    PROVE  SerialInv'
<1>1. /\ \A d \in Calls \ {c} : pc'[d] = pc[d] /\ op'[d] = op[d]
      /\ pc'[c] = step /\ op'[c] = o
  BY MovedType DEF SerialInv
<1>2. KeysAreExclusive'
  <2> SUFFICES ASSUME NEW d \in Calls, NEW e \in Calls, d # e,
                      pc'[d] \in Active, pc'[e] \in Active,
                      op'[d].key = op'[e].key, op'[d].key \notin crowded'
               PROVE  FALSE
    BY DEF KeysAreExclusive
  <2>1. CASE d # c /\ e # c
    BY <1>1, <2>1 DEF SerialInv, KeysAreExclusive
  <2>2. CASE d = c \/ e = c
    BY <1>1, <2>2
  <2>3. QED
    BY <2>1, <2>2
<1>3. ASSUME NEW d \in Calls, d # c PROVE CallIsSerial(d)'
  <2>0. pc'[d] = pc[d] /\ op'[d] = op[d] /\ CallIsSerial(d)
    BY <1>1, <1>3 DEF SerialInv
  <2>1. CASE pc[d] \in TransactionSteps \cup {"running"}
    <3>1. pc[d] \in Active /\ op[d] \in Operations
      BY <2>1, ActiveOperation DEF SerialInv, Active
    <3>2. op[d].key \notin crowded' => op[d].key \in Keys \ {o.key}
      BY <1>3, <3>1, OperationFields
    <3>3. op[d].key \notin crowded' =>
             /\ events'[op[d].key] = events[op[d].key]
             /\ pending[op[d].key] = d => pending'[op[d].key] = d
             /\ op[d].key \notin crowded
      BY <1>3, <3>2
    <3>4. QED
      BY <2>0, <3>3 DEF CallIsSerial, HasLooked, HasEvent
  <2>2. CASE pc[d] \notin TransactionSteps \cup {"running"}
    BY <2>0, <2>2 DEF CallIsSerial, HasLooked, HasEvent, TransactionSteps
  <2>3. QED
    BY <2>1, <2>2
<1>4. AppliedWhenSettled'
  <2> SUFFICES ASSUME NEW k \in Keys, k \notin crowded'
               PROVE  applied'[k] = 0 \/ (applied'[k] = 1 /\ events'[k] = "settled")
    BY DEF AppliedWhenSettled
  <2>1. CASE k = o.key
    BY <2>1
  <2>2. CASE k # o.key
    BY <2>2 DEF SerialInv, AppliedWhenSettled
  <2>3. QED
    BY <2>1, <2>2
<1>5. QED
  BY <1>2, <1>3, <1>4 DEF SerialInv

LEMMA SerialNext ==
    ASSUME SerialInv, [Next]_vars
    PROVE  SerialInv'
<1>1. TypeOK /\ TypeOK'
  BY TypeNext DEF SerialInv
<1>2. CASE UNCHANGED vars
  BY <1>2 DEF vars, SerialInv, TypeOK, KeysAreExclusive, CallIsSerial, HasLooked,
              HasEvent, AppliedWhenSettled
<1>3. ASSUME NEW c \in Calls, pc[c] \in Active
      PROVE  /\ op[c] \in Operations /\ op[c].key \in Keys
             /\ op[c].key \notin crowded =>
                  \A d \in Calls \ {c} : pc[d] \in Active => op[d].key # op[c].key
             /\ CallIsSerial(c)
  BY <1>1, <1>3, ActiveOperation, OperationFields DEF SerialInv, KeysAreExclusive
<1>4. ASSUME NEW c \in Calls, pc[c] \in Active, UNCHANGED op,
             NEW step \in Steps, Goto(c, step)
      PROVE  Moved(c, op[c], step) /\ pc'[c] = step /\ op'[c] = op[c]
  BY <1>1, <1>4, ActiveOperation DEF Moved, Goto, TypeOK
\* A step that enters no transaction beyond its first look, and may give up
\* what the call has pending.
<1>5. ASSUME NEW c \in Calls, NEW o \in Operations, NEW step, Moved(c, o, step),
             crowded \subseteq crowded',
             o.key \notin crowded' =>
                \A d \in Calls \ {c} : pc[d] \in Active => op[d].key # o.key,
             UNCHANGED <<events, applied>>,
             \A k \in Keys : pending'[k] = pending[k] \/ pending[k] = c,
             step \in TransactionSteps => step = "find",
             step \in {"find", "running"} => o.status = "settled"
      PROVE  SerialInv'
  <2>1. pc'[c] = step /\ op'[c] = o
    BY <1>1, <1>5, MovedType
  <2>2. CallIsSerial(c)'
    BY <1>5, <2>1 DEF CallIsSerial, HasLooked, HasEvent, TransactionSteps
  <2>3. o.key \in Keys
    BY OperationFields
  <2>4. \/ o.key \in crowded' \/ applied'[o.key] = 0
        \/ applied'[o.key] = 1 /\ events'[o.key] = "settled"
    BY <1>5, <2>3 DEF SerialInv, AppliedWhenSettled
  <2>5. QED
    BY <1>1, <1>5, <2>2, <2>4, SerialFrame
<1>6. ASSUME NEW c \in Calls, Begin(c) PROVE SerialInv'
  <2>1. PICK o \in Operations, step \in {"running", "blocked", "find"} :
          /\ Moved(c, o, step) /\ UNCHANGED <<db, snap, overtaken>>
          /\ o.status = "settled"
          /\ crowded' = IF InFlight(o.key) THEN crowded \cup {o.key} ELSE crowded
    BY <1>1, <1>6, BeginEffect
  <2>2. /\ crowded \subseteq crowded'
        /\ o.key \notin crowded' => \A d \in Calls : pc[d] \in Active => op[d].key # o.key
    BY <2>1 DEF InFlight
  <2>3. QED
    BY <1>5, <2>1, <2>2 DEF db, TransactionSteps
<1>7. ASSUME NEW c \in Calls, RunEnds(c) PROVE SerialInv'
  <2>1. PICK o \in Operations, step \in {"find", "recordFind"} :
          /\ Moved(c, o, step) /\ pc[c] = "running"
          /\ SameCall(o, op[c]) /\ UNCHANGED <<db, snap, history>>
          /\ step = "find" => o.status = op[c].status
    BY <1>1, <1>7, RunEffect
  <2>2. /\ op[c].status = "settled"
        /\ o.key \notin crowded =>
              \A d \in Calls \ {c} : pc[d] \in Active => op[d].key # o.key
    BY <1>3, <2>1 DEF Active, CallIsSerial, SameCall
  <2>3. QED
    BY <1>5, <2>1, <2>2 DEF db, history, TransactionSteps
\* A step within a transaction that leaves events and postings alone.
<1>8. ASSUME NEW c \in Calls, pc[c] \in TransactionSteps, UNCHANGED op,
             NEW step \in TransactionSteps, Goto(c, step),
             UNCHANGED <<events, applied, crowded>>,
             op[c].key \notin crowded => events[op[c].key] = "none",
             \A k \in Keys \ {op[c].key} : pending'[k] = pending[k],
             op[c].key \notin crowded
                /\ (\/ step \in {"update", "commit"}
                    \/ step = "read" /\ op[c].kind \notin ResetKinds) =>
                pending'[op[c].key] = c
      PROVE  SerialInv'
  <2>1. pc[c] \in Active /\ step \in Steps
    BY <1>8, ConstantSets
  <2>2. Moved(c, op[c], step) /\ pc'[c] = step /\ op'[c] = op[c]
    BY <1>4, <1>8, <2>1
  <2>3. /\ op[c].status = "settled" /\ op[c].key \in Keys /\ op[c] \in Operations
        /\ op[c].key \notin crowded =>
             \A d \in Calls \ {c} : pc[d] \in Active => op[d].key # op[c].key
    BY <1>3, <1>8, <2>1 DEF CallIsSerial
  <2>4. CallIsSerial(c)'
    BY <1>8, <2>2, <2>3 DEF CallIsSerial, HasLooked, HasEvent
  <2>5. \/ op[c].key \in crowded' \/ applied'[op[c].key] = 0
        \/ applied'[op[c].key] = 1 /\ events'[op[c].key] = "settled"
    BY <1>8, <2>3 DEF SerialInv, AppliedWhenSettled
  <2>6. QED
    BY <1>1, <1>8, <2>2, <2>3, <2>4, <2>5, SerialFrame
<1>9. ASSUME NEW c \in Calls, FindEvent(c) PROVE SerialInv'
  <2>1. /\ pc[c] \in TransactionSteps /\ pc[c] \in Active
        /\ UNCHANGED <<db, op, snap, history>>
    BY <1>9 DEF FindEvent, TransactionSteps, Active
  <2>2. CASE events[op[c].key] = "none"
    <3>1. PICK step \in {"read", "findAgain"} :
            Goto(c, step) /\ (step = "read" => op[c].kind \in ResetKinds)
      BY <1>9, <2>2 DEF FindEvent, AfterFind
    <3>2. QED
      BY <1>8, <2>1, <2>2, <3>1 DEF TransactionSteps, db, history
  <2>3. CASE events[op[c].key] # "none"
    <3>1. Goto(c, "done") /\ "done" \in Steps
      BY <1>9, <2>3 DEF FindEvent, Steps, Ended
    <3>2. Moved(c, op[c], "done")
      BY <1>4, <2>1, <3>1 DEF db
    <3>3. QED
      BY <1>3, <1>5, <2>1, <3>2 DEF db, history, TransactionSteps
  <2>4. QED
    BY <2>2, <2>3
<1>10. ASSUME NEW c \in Calls, FindEventAgain(c) PROVE SerialInv'
  <2>1. /\ pc[c] \in TransactionSteps /\ pc[c] \in Active
        /\ UNCHANGED <<db, op, snap, history>>
    BY <1>10 DEF FindEventAgain, TransactionSteps, Active
  <2>2. op[c].key \notin crowded => events[op[c].key] = "none"
    BY <1>3, <1>10, <2>1 DEF FindEventAgain, CallIsSerial, HasLooked, TransactionSteps
  <2>3. CASE events[op[c].key] = "none"
    <3>1. Goto(c, "insert")
      BY <1>10, <2>3 DEF FindEventAgain
    <3>2. QED
      BY <1>8, <2>1, <2>2, <3>1 DEF TransactionSteps, db, history
  <2>4. CASE events[op[c].key] # "none"
    <3>1. Goto(c, AfterEvent(op[c])) /\ AfterEvent(op[c]) \in TransactionSteps
      BY <1>10, <2>4 DEF FindEventAgain, AfterEvent, TransactionSteps
    <3>2. QED
      BY <1>8, <2>1, <2>2, <2>4, <3>1 DEF db, history
  <2>5. QED
    BY <2>3, <2>4
\* A call that gives up its transaction.
<1>11. ASSUME NEW c \in Calls, pc[c] \in Active, Rollback(c),
              NEW o \in Operations, NEW step, Moved(c, o, step),
              SameCall(o, op[c]), step \notin TransactionSteps \cup {"running"}
       PROVE  SerialInv'
  <2>1. \A k \in Keys : pending'[k] = pending[k] \/ pending[k] = c
    BY <1>1, <1>11, RollbackEffect
  <2>2. UNCHANGED <<events, applied, crowded>>
    BY <1>11 DEF Rollback, history
  <2>3. o.key \notin crowded =>
           \A d \in Calls \ {c} : pc[d] \in Active => op[d].key # o.key
    BY <1>3, <1>11 DEF SameCall
  <2>4. QED
    BY <1>5, <1>11, <2>1, <2>2, <2>3 DEF TransactionSteps
<1>12. ASSUME NEW c \in Calls, InsertEvent(c) PROVE SerialInv'
  <2>1. pc[c] \in TransactionSteps /\ pc[c] \in Active
    BY <1>12 DEF InsertEvent, TransactionSteps, Active
  <2>2. op[c].key \in Keys
    BY <1>3, <2>1
  <2>3. CASE events[op[c].key] = "none"
    <3>1. /\ pending' = [pending EXCEPT ![op[c].key] = c]
          /\ UNCHANGED <<events, applied, op, crowded>>
          /\ Goto(c, AfterEvent(op[c]))
      BY <1>12, <2>3 DEF InsertEvent, history
    <3>2. /\ pending'[op[c].key] = c
          /\ \A k \in Keys \ {op[c].key} : pending'[k] = pending[k]
      BY <1>1, <2>2, <3>1 DEF TypeOK
    <3>3. AfterEvent(op[c]) \in TransactionSteps
      BY DEF AfterEvent, TransactionSteps
    <3>4. QED
      BY <1>8, <2>1, <2>3, <3>1, <3>2, <3>3
  <2>4. CASE events[op[c].key] # "none"
    <3>1. Rollback(c) /\ Raise(c)
      BY <1>12, <2>4 DEF InsertEvent
    <3>2. PICK o \in Operations, step \in {"recordFind", "threw"} :
            Moved(c, o, step) /\ SameCall(o, op[c])
      BY <1>1, <2>1, <3>1, RaiseEffect
    <3>3. QED
      BY <1>11, <2>1, <3>1, <3>2 DEF TransactionSteps
  <2>5. QED
    BY <2>3, <2>4
<1>13. ASSUME NEW c \in Calls, ReadAccount(c) \/ UpdateAccount(c) PROVE SerialInv'
  <2>1. /\ pc[c] \in TransactionSteps /\ pc[c] \in Active
        /\ UNCHANGED <<events, pending, applied, op, crowded>>
    BY <1>13 DEF ReadAccount, UpdateAccount, TransactionSteps, Active, db, history
  <2>2. /\ op[c].key \notin crowded => events[op[c].key] = "none"
        /\ op[c].key \notin crowded /\ (pc[c] = "update" \/ op[c].kind \notin ResetKinds)
             => pending[op[c].key] = c
    BY <1>3, <1>13, <2>1
       DEF ReadAccount, UpdateAccount, CallIsSerial, HasLooked, HasEvent, TransactionSteps
  <2>3. PICK step \in {"findAgain", "update", "commit"} :
          /\ Goto(c, step)
          /\ step # "findAgain" => pc[c] = "update" \/ op[c].kind \notin ResetKinds
    BY <1>13 DEF ReadAccount, UpdateAccount, AfterRead
  <2>4. QED
    BY <1>8, <2>1, <2>2, <2>3 DEF TransactionSteps
<1>14. ASSUME NEW c \in Calls, pc[c] = "commit", Post(c),
              NEW o \in Operations, NEW step, Moved(c, o, step),
              SameCall(o, op[c]), step \notin TransactionSteps \cup {"running"}
       PROVE  SerialInv'
  <2>1. pc[c] \in Active /\ pc[c] \in TransactionSteps
    BY <1>14 DEF Active, TransactionSteps
  <2>2. /\ op[c].key \in Keys /\ op[c].status = "settled" /\ o.key = op[c].key
        /\ o.key \notin crowded =>
             /\ events[o.key] = "none" /\ pending[o.key] = c
             /\ \A d \in Calls \ {c} : pc[d] \in Active => op[d].key # o.key
    BY <1>3, <1>14, <2>1
       DEF CallIsSerial, HasLooked, HasEvent, TransactionSteps, SameCall
  <2>3. o.key \notin crowded => applied[o.key] = 0
    BY <2>2 DEF SerialInv, AppliedWhenSettled
  <2>4. /\ applied' = [applied EXCEPT ![o.key] = @ + 1]
        /\ events' = [events EXCEPT ![o.key] =
                        IF pending[o.key] = c THEN op[c].status ELSE @]
        /\ pending' = [pending EXCEPT ![o.key] = IF @ = c THEN NoCall ELSE @]
        /\ crowded' = crowded
    BY <1>1, <1>14, <2>2, PostEffect
  <2>5. o.key \notin crowded => applied'[o.key] = 1 /\ events'[o.key] = "settled"
    BY <1>1, <2>2, <2>3, <2>4 DEF TypeOK
  <2>6. \A k \in Keys \ {o.key} :
          /\ events'[k] = events[k] /\ applied'[k] = applied[k]
          /\ pending'[k] = pending[k]
    BY <1>1, <2>2, <2>4 DEF TypeOK
  <2>7. pc'[c] = step /\ op'[c] = o
    BY <1>1, <1>14, MovedType
  <2>8. CallIsSerial(c)'
    BY <1>14, <2>7 DEF CallIsSerial, HasLooked, HasEvent, TransactionSteps
  <2>9. QED
    BY <1>1, <1>14, <2>2, <2>4, <2>5, <2>6, <2>8, SerialFrame
<1>15. ASSUME NEW c \in Calls, Commit(c) \/ CommitUnanswered(c) PROVE SerialInv'
  <2>1. pc[c] = "commit" /\ pc[c] \in Active /\ Post(c)
    BY <1>15 DEF Commit, CommitUnanswered, Active, TransactionSteps
  <2>2. CASE Commit(c)
    <3>1. Moved(c, op[c], "done")
      BY <1>4, <2>1, <2>2 DEF Commit, Steps, Ended
    <3>2. QED
      BY <1>3, <1>14, <2>1, <3>1 DEF TransactionSteps, SameCall
  <2>3. CASE CommitUnanswered(c)
    <3>1. PICK o \in Operations, step \in {"recordFind", "threw"} :
            Moved(c, o, step) /\ SameCall(o, op[c])
      BY <1>1, <2>1, <2>3, RaiseEffect DEF CommitUnanswered
    <3>2. QED
      BY <1>14, <2>1, <3>1 DEF TransactionSteps
  <2>4. QED
    BY <1>15, <2>2, <2>3
<1>16. ASSUME NEW c \in Calls, RecordFind(c) PROVE SerialInv'
  <2>1. PICK step \in {"recorded", "recordInsert"} :
          Goto(c, step) /\ UNCHANGED <<db, op, snap, history>>
    BY <1>16 DEF RecordFind
  <2>2. pc[c] \in Active /\ step \in Steps
    BY <1>16 DEF RecordFind, Active, RecordSteps, Steps, Ended
  <2>3. Moved(c, op[c], step)
    BY <1>4, <2>1, <2>2
  <2>4. QED
    BY <1>3, <1>5, <2>1, <2>2, <2>3 DEF db, history, TransactionSteps
<1>17. ASSUME NEW c \in Calls, RecordInsert(c) PROVE SerialInv'
  <2>1. /\ pc[c] \in Active /\ pc[c] = "recordInsert"
        /\ UNCHANGED <<pending, applied, crowded>>
    BY <1>17 DEF RecordInsert, Active, RecordSteps, history
  <2>2. /\ op[c] \in Operations /\ op[c].key \in Keys
        /\ op[c].key \notin crowded =>
             \A d \in Calls \ {c} : pc[d] \in Active => op[d].key # op[c].key
    BY <1>3, <2>1
  <2>3. CASE events[op[c].key] = "none"
    <3>1. /\ Goto(c, "recorded") /\ UNCHANGED op
          /\ events' = [events EXCEPT ![op[c].key] = op[c].status]
      BY <1>17, <2>3 DEF RecordInsert
    <3>2. Moved(c, op[c], "recorded") /\ pc'[c] = "recorded" /\ op'[c] = op[c]
      BY <1>4, <2>1, <3>1 DEF Steps, Ended
    <3>3. CallIsSerial(c)'
      BY <3>2 DEF CallIsSerial, HasLooked, HasEvent, TransactionSteps
    <3>4. op[c].key \in crowded \/ applied'[op[c].key] = 0
      BY <2>1, <2>2, <2>3 DEF SerialInv, AppliedWhenSettled
    <3>5. \A k \in Keys \ {op[c].key} : events'[k] = events[k]
      BY <1>1, <3>1 DEF TypeOK
    <3>6. QED
      BY <1>1, <2>1, <2>2, <3>2, <3>3, <3>4, <3>5, SerialFrame
  <2>4. CASE events[op[c].key] # "none"
    <3>1. PICK o \in Operations, step \in {"recordFind", "threw"} :
            Moved(c, o, step) /\ SameCall(o, op[c])
      BY <1>1, <1>17, <2>1, <2>4, RaiseEffect DEF RecordInsert
    <3>2. UNCHANGED events
      BY <1>17, <2>4 DEF RecordInsert
    <3>3. QED
      BY <1>5, <2>1, <2>2, <3>1, <3>2 DEF TransactionSteps, SameCall
  <2>5. QED
    BY <2>3, <2>4
<1>18. ASSUME NEW c \in Calls, Abort(c) PROVE SerialInv'
  <2>1. pc[c] \in Active /\ Rollback(c) /\ Raise(c)
    BY <1>18, ConstantSets DEF Abort
  <2>2. PICK o \in Operations, step \in {"recordFind", "threw"} :
          Moved(c, o, step) /\ SameCall(o, op[c])
    BY <1>1, <2>1, RaiseEffect
  <2>3. QED
    BY <1>11, <2>1, <2>2 DEF TransactionSteps
<1>19. ASSUME NEW c \in Calls, Crash(c) PROVE SerialInv'
  <2>1. pc[c] \in Active /\ Rollback(c) /\ Moved(c, op[c], "crashed")
    BY <1>4, <1>19 DEF Crash, Steps, Ended
  <2>2. QED
    BY <1>3, <1>11, <2>1 DEF TransactionSteps, SameCall
<1>20. QED
  BY <1>2, <1>6, <1>7, <1>9, <1>10, <1>12, <1>13, <1>15, <1>16, <1>17, <1>18, <1>19
     DEF Next, Statement, Terminating

\* A key whose calls never overlapped is posted at most once, whatever crashes,
\* aborts and lost answers come between its calls.
THEOREM NoDoublePosting == Spec => []AppliedOnceUnlessCrowded
<1>1. SerialInv => AppliedOnceUnlessCrowded
  BY DEF SerialInv, AppliedWhenSettled, AppliedOnceUnlessCrowded
<1>2. SerialInv /\ [Next]_vars => SerialInv'
  BY SerialNext
<1>3. QED
  BY <1>1, <1>2, SerialInit, PTL DEF Spec

\* A failed or an unmetered event gets no ledger entries unless calls with its key
\* overlapped.
THEOREM PostingsAreSettled == Spec => []OnlySettledUnlessCrowded
<1>1. SerialInv => OnlySettledUnlessCrowded
  BY DEF SerialInv, AppliedWhenSettled, OnlySettledUnlessCrowded
<1>2. SerialInv /\ [Next]_vars => SerialInv'
  BY SerialNext
<1>3. QED
  BY <1>1, <1>2, SerialInit, PTL DEF Spec

-------------------------------------------------------------------------------
\* The key of an operation is one of the keys of its kind.
LEMMA KeyOfKind ==
    ASSUME NEW o \in Operations
    PROVE  \/ o.kind \in UsageKinds /\ o.key \in UsageKeys
           \/ o.kind \in GrantKinds \cup {"debit"} /\ o.key \in DirectKeys
           \/ o.kind \in ResetKinds /\ o.key \in ResetKeys
BY OperationFields DEF Kinds, KeysOf, UsageKinds, ChargeKinds, GrantKinds, ResetKinds

(***************************************************************************)
(* Events.  That a committed event never changes rests on the unique       *)
(* index: a row is uncommitted only while its key is undecided.            *)
(***************************************************************************)

PendingUndecided == \A k \in Keys : pending[k] # NoCall => events[k] = "none"

\* Only charged and metered calls record events without a ledger posting.
RecordsAreUsage ==
    \A c \in Calls :
        pc[c] \in RecordSteps \cup {"running"} => op[c].kind \in UsageKinds

EventInv ==
    /\ TypeOK
    /\ PendingUndecided
    /\ RecordsAreUsage
    /\ SettledDirectIsApplied

\* What one step may do to one key: leave its event, commit the event of a
\* transaction together with its posting, or record the event of a usage key.
KeyIsKept(k) ==
    /\ events'[k] = events[k]
    /\ applied'[k] >= applied[k]
    /\ pending'[k] \in {NoCall, pending[k]} \/ events[k] = "none"

KeyIsCommitted(k) ==
    pending[k] # NoCall /\ pending'[k] = NoCall /\ applied'[k] >= 1

KeyIsRecorded(k) ==
    /\ k \in UsageKeys
    /\ events[k] = "none" /\ pending[k] = NoCall /\ pending'[k] = NoCall

KeyStep(k) == KeyIsKept(k) \/ KeyIsCommitted(k) \/ KeyIsRecorded(k)

LEMMA EventInit == Init => EventInv
<1> SUFFICES ASSUME Init PROVE EventInv
  OBVIOUS
<1>1. TypeOK
  BY TypeInit
<1>2. PendingUndecided /\ SettledDirectIsApplied
  BY DEF Init, PendingUndecided, SettledDirectIsApplied, Keys
<1>3. RecordsAreUsage
  BY DEF Init, RecordsAreUsage, RecordSteps
<1>4. QED
  BY <1>1, <1>2, <1>3 DEF EventInv

\* Every step treats every key in one of the three ways.
LEMMA EveryKeyStep ==
    ASSUME EventInv, [Next]_vars
    PROVE  \A k \in Keys : KeyStep(k)
<1>1. TypeOK
  BY DEF EventInv
<1>2. \A k \in Keys : applied[k] \in Nat
  BY <1>1 DEF TypeOK
<1>3. ASSUME UNCHANGED <<events, applied>>,
             \A k \in Keys : pending'[k] \in {NoCall, pending[k]}
      PROVE  \A k \in Keys : KeyStep(k)
  BY <1>2, <1>3 DEF KeyStep, KeyIsKept
<1>4. CASE UNCHANGED <<events, pending, applied>>
  BY <1>3, <1>4
<1>5. ASSUME NEW c \in Calls, Rollback(c) PROVE \A k \in Keys : KeyStep(k)
  BY <1>1, <1>3, <1>5, RollbackEffect
<1>6. ASSUME NEW c \in Calls, InsertEvent(c) PROVE \A k \in Keys : KeyStep(k)
  <2>1. CASE events[op[c].key] = "none"
    <3>1. UNCHANGED <<events, applied>> /\ pending' = [pending EXCEPT ![op[c].key] = c]
      BY <1>6, <2>1 DEF InsertEvent
    <3>2. QED
      BY <1>1, <1>2, <2>1, <3>1 DEF KeyStep, KeyIsKept, TypeOK
  <2>2. CASE events[op[c].key] # "none"
    BY <1>5, <1>6, <2>2 DEF InsertEvent
  <2>3. QED
    BY <2>1, <2>2
<1>7. ASSUME NEW c \in Calls, Commit(c) \/ CommitUnanswered(c)
      PROVE  \A k \in Keys : KeyStep(k)
  <2>1. pc[c] = "commit" /\ Post(c)
    BY <1>7 DEF Commit, CommitUnanswered
  <2>2. op[c].key \in Keys
    BY <1>1, <2>1, ActiveOperation, OperationFields DEF Active, TransactionSteps
  <2>3. /\ events' = [events EXCEPT ![op[c].key] =
                        IF pending[op[c].key] = c THEN op[c].status ELSE @]
        /\ pending' = [pending EXCEPT ![op[c].key] = IF @ = c THEN NoCall ELSE @]
        /\ applied' = [applied EXCEPT ![op[c].key] = @ + 1]
    BY <1>1, <2>1, PostEffect
  <2>4. /\ events'[op[c].key] =
             IF pending[op[c].key] = c THEN op[c].status ELSE events[op[c].key]
        /\ pending'[op[c].key] =
             IF pending[op[c].key] = c THEN NoCall ELSE pending[op[c].key]
        /\ applied'[op[c].key] = applied[op[c].key] + 1
        /\ \A k \in Keys \ {op[c].key} :
              events'[k] = events[k] /\ pending'[k] = pending[k]
              /\ applied'[k] = applied[k]
    BY <1>1, <2>2, <2>3 DEF TypeOK
  <2>5. KeyStep(op[c].key)
    <3>1. CASE pending[op[c].key] = c
      BY <1>2, <2>2, <2>4, <3>1, CallAssumption DEF KeyStep, KeyIsCommitted
    <3>2. CASE pending[op[c].key] # c
      BY <1>2, <2>2, <2>4, <3>2 DEF KeyStep, KeyIsKept
    <3>3. QED
      BY <3>1, <3>2
  <2>6. \A k \in Keys \ {op[c].key} : KeyStep(k)
    BY <1>2, <2>4 DEF KeyStep, KeyIsKept
  <2>7. QED
    BY <2>5, <2>6
<1>8. ASSUME NEW c \in Calls, RecordInsert(c) PROVE \A k \in Keys : KeyStep(k)
  <2>1. UNCHANGED <<pending, applied>> /\ pending[op[c].key] = NoCall
    BY <1>8 DEF RecordInsert
  <2>2. CASE events[op[c].key] = "none"
    <3>1. op[c] \in Operations /\ op[c].kind \in UsageKinds
      BY <1>1, <1>8, ActiveOperation
         DEF RecordInsert, Active, RecordSteps, EventInv, RecordsAreUsage
    <3>2. op[c].key \in UsageKeys
      BY <3>1, KeyOfKind DEF UsageKinds, ChargeKinds, GrantKinds, ResetKinds
    <3>3. events' = [events EXCEPT ![op[c].key] = op[c].status]
      BY <1>8, <2>2 DEF RecordInsert
    <3>4. \A k \in Keys \ {op[c].key} : events'[k] = events[k]
      BY <1>1, <3>3 DEF TypeOK
    <3>5. KeyStep(op[c].key)
      BY <2>1, <2>2, <3>2 DEF KeyStep, KeyIsRecorded
    <3>6. \A k \in Keys \ {op[c].key} : KeyStep(k)
      BY <1>2, <2>1, <3>4 DEF KeyStep, KeyIsKept
    <3>7. QED
      BY <3>5, <3>6
  <2>3. CASE events[op[c].key] # "none"
    BY <1>4, <1>8, <2>1, <2>3 DEF RecordInsert
  <2>4. QED
    BY <2>2, <2>3
<1>9. ASSUME NEW c \in Calls,
             \/ Begin(c) \/ RunEnds(c) \/ FindEvent(c) \/ FindEventAgain(c)
             \/ ReadAccount(c) \/ UpdateAccount(c) \/ RecordFind(c)
      PROVE  UNCHANGED <<events, pending, applied>>
  BY <1>9 DEF Begin, BeginCharge, BeginMetered, BeginDirect, BeginReset, Start,
              RunEnds, RunIsCharged, RunIsNotCharged, RunFails, FindEvent,
              FindEventAgain, ReadAccount, UpdateAccount, RecordFind, db
<1>10. ASSUME NEW c \in Calls, Abort(c) \/ Crash(c)
       PROVE  \A k \in Keys : KeyStep(k)
  BY <1>5, <1>10 DEF Abort, Crash
<1>11. CASE UNCHANGED vars
  BY <1>4, <1>11 DEF vars
<1>12. QED
  BY <1>4, <1>6, <1>7, <1>8, <1>9, <1>10, <1>11 DEF Next, Statement, Terminating

LEMMA EventNext == EventInv /\ [Next]_vars => EventInv'
<1> SUFFICES ASSUME EventInv, [Next]_vars PROVE EventInv'
  OBVIOUS
<1>1. TypeOK /\ TypeOK'
  BY TypeNext DEF EventInv
<1>2. \A k \in Keys : KeyStep(k)
  BY EveryKeyStep
<1>3. PendingUndecided'
  BY <1>1, <1>2 DEF PendingUndecided, EventInv, KeyStep, KeyIsKept, KeyIsCommitted,
                    KeyIsRecorded
<1>4. SettledDirectIsApplied'
  <2> SUFFICES ASSUME NEW k \in DirectKeys \cup ResetKeys, events'[k] = "settled"
               PROVE  applied'[k] >= 1
    BY DEF SettledDirectIsApplied
  <2>1. k \in Keys /\ k \notin UsageKeys
    BY KeyAssumption DEF Keys
  <2>2. applied[k] \in Nat /\ applied'[k] \in Nat
    BY <1>1, <2>1 DEF TypeOK
  <2>3. KeyIsKept(k) \/ KeyIsCommitted(k)
    BY <1>2, <2>1 DEF KeyStep, KeyIsRecorded
  <2>4. QED
    BY <2>2, <2>3 DEF KeyIsKept, KeyIsCommitted, EventInv, SettledDirectIsApplied
<1>5. ASSUME NEW c \in Calls, NEW o \in Operations, NEW step, Moved(c, o, step),
             step \in RecordSteps \cup {"running"} => o.kind \in UsageKinds
      PROVE  RecordsAreUsage'
  BY <1>1, <1>5, MovedType DEF EventInv, RecordsAreUsage
<1>6. ASSUME NEW c \in Calls, pc[c] \in Active, UNCHANGED op,
             NEW step \in Steps, Goto(c, step),
             step \in RecordSteps => op[c].kind \in UsageKinds, step # "running"
      PROVE  RecordsAreUsage'
  <2>1. Moved(c, op[c], step) /\ op[c] \in Operations
    BY <1>1, <1>6, ActiveOperation DEF Moved, Goto, TypeOK
  <2>2. QED
    BY <1>5, <1>6, <2>1
<1>7. ASSUME NEW c \in Calls, pc[c] \in Active, Raise(c) PROVE RecordsAreUsage'
  BY <1>1, <1>5, <1>7, RaiseEffect DEF RecordSteps
<1>8. ASSUME NEW c \in Calls, Begin(c) PROVE RecordsAreUsage'
  BY <1>1, <1>5, <1>8, BeginEffect DEF RecordSteps
<1>9. ASSUME NEW c \in Calls, RunEnds(c) PROVE RecordsAreUsage'
  <2>1. PICK o \in Operations, step \in {"find", "recordFind"} :
          Moved(c, o, step) /\ pc[c] = "running" /\ SameCall(o, op[c])
    BY <1>1, <1>9, RunEffect
  <2>2. o.kind \in UsageKinds
    BY <2>1 DEF EventInv, RecordsAreUsage, SameCall
  <2>3. QED
    BY <1>5, <2>1, <2>2
<1>10. ASSUME NEW c \in Calls,
              \/ FindEvent(c) \/ FindEventAgain(c)
              \/ ReadAccount(c) \/ UpdateAccount(c)
       PROVE  RecordsAreUsage'
  <2>1. PICK step \in {"done", "read", "findAgain", "insert", "update", "commit"} :
          Goto(c, step)
    BY <1>10 DEF FindEvent, FindEventAgain, ReadAccount, UpdateAccount, AfterFind,
                 AfterEvent, AfterRead
  <2>2. pc[c] \in Active /\ UNCHANGED op /\ step \in Steps \ RecordSteps
    BY <1>10, <2>1 DEF FindEvent, FindEventAgain, ReadAccount, UpdateAccount, Active,
                TransactionSteps, RecordSteps, Steps, Ended
  <2>3. QED
    BY <1>6, <2>1, <2>2
<1>11. ASSUME NEW c \in Calls, InsertEvent(c) PROVE RecordsAreUsage'
  <2>1. pc[c] \in Active
    BY <1>11 DEF InsertEvent, Active, TransactionSteps
  <2>2. CASE events[op[c].key] = "none"
    <3>1. PICK step \in {"read", "update"} : Goto(c, step) /\ UNCHANGED op
      BY <1>11, <2>2 DEF InsertEvent, AfterEvent
    <3>2. step \in Steps \ RecordSteps
      BY DEF Steps, Active, TransactionSteps, RecordSteps
    <3>3. QED
      BY <1>6, <2>1, <3>1, <3>2
  <2>3. CASE events[op[c].key] # "none"
    BY <1>7, <1>11, <2>1, <2>3 DEF InsertEvent
  <2>4. QED
    BY <2>2, <2>3
<1>12. ASSUME NEW c \in Calls, Commit(c) \/ CommitUnanswered(c)
       PROVE  RecordsAreUsage'
  <2>1. pc[c] \in Active
    BY <1>12 DEF Commit, CommitUnanswered, Active, TransactionSteps
  <2>2. CASE Commit(c)
    BY <1>6, <2>1, <2>2 DEF Commit, Steps, Ended, RecordSteps
  <2>3. CASE CommitUnanswered(c)
    BY <1>7, <2>1, <2>3 DEF CommitUnanswered
  <2>4. QED
    BY <1>12, <2>2, <2>3
<1>13. ASSUME NEW c \in Calls, RecordFind(c) \/ RecordInsert(c)
       PROVE  RecordsAreUsage'
  <2>1. pc[c] \in Active /\ op[c].kind \in UsageKinds
    BY <1>13 DEF RecordFind, RecordInsert, Active, RecordSteps, EventInv,
                 RecordsAreUsage
  <2>2. CASE Raise(c)
    BY <1>7, <2>1, <2>2
  <2>3. CASE ~Raise(c)
    <3>1. PICK step \in {"recorded", "recordInsert"} : Goto(c, step) /\ UNCHANGED op
      BY <1>13, <2>3 DEF RecordFind, RecordInsert
    <3>2. step \in Steps /\ step # "running"
      BY DEF Steps, Active, Ended, RecordSteps
    <3>3. QED
      BY <1>6, <2>1, <3>1, <3>2
  <2>4. QED
    BY <2>2, <2>3
<1>14. ASSUME NEW c \in Calls, Abort(c) PROVE RecordsAreUsage'
  BY <1>7, <1>14, ConstantSets DEF Abort
<1>15. ASSUME NEW c \in Calls, Crash(c) PROVE RecordsAreUsage'
  BY <1>6, <1>15 DEF Crash, Steps, Ended, RecordSteps
<1>16. ASSUME UNCHANGED vars PROVE RecordsAreUsage'
  BY <1>16 DEF vars, EventInv, RecordsAreUsage
<1>17. RecordsAreUsage'
  BY <1>8, <1>9, <1>10, <1>11, <1>12, <1>13, <1>14, <1>15, <1>16
     DEF Next, Statement, Terminating
<1>18. QED
  BY <1>1, <1>3, <1>4, <1>17 DEF EventInv

\* A settled grant, admin debit or allowance reset always has its ledger posting.
THEOREM SettledIsApplied == Spec => []SettledDirectIsApplied
<1>1. EventInv => SettledDirectIsApplied
  BY DEF EventInv
<1>2. QED
  BY <1>1, EventInit, EventNext, PTL DEF Spec

\* A committed usage event never changes, even when calls with one key overlap.
THEOREM CommittedEventsStay == Spec => EventsAreImmutable
<1>1. ASSUME EventInv, [Next]_vars
      PROVE  [\A k \in Keys : events[k] # "none" => events'[k] = events[k]]_events
  <2>1. \A k \in Keys : KeyStep(k)
    BY <1>1, EveryKeyStep
  <2>2. PendingUndecided
    BY <1>1 DEF EventInv
  <2>3. QED
    BY <2>1, <2>2
       DEF KeyStep, KeyIsKept, KeyIsCommitted, KeyIsRecorded, PendingUndecided
<1>2. QED
  BY <1>1, EventInit, EventNext, PTL DEF Spec, EventsAreImmutable

-------------------------------------------------------------------------------
(***************************************************************************)
(* Waiting.  What a call holds is known from its step: its key's row from  *)
(* the INSERT to the end of the transaction, the account row from the      *)
(* UPDATE to the end.  So the holder of the account row is at its COMMIT   *)
(* and waits for nobody, and who holds a key waits, if at all, for it.     *)
(***************************************************************************)

CallHolds(c) ==
    /\ \A k \in Keys : pending[k] = c => op[c].key = k /\ HasEvent(c)
    /\ lock = c <=> pc[c] = "commit"

HoldingInv ==
    /\ TypeOK
    /\ \A c \in Calls : CallHolds(c)

\* A step of one call keeps what the others hold.
LEMMA HoldingFrame ==
    ASSUME HoldingInv, NEW c \in Calls, NEW o, NEW step, Moved(c, o, step), TypeOK',
           \A d \in Calls \ {c} :
              /\ lock' = d <=> lock = d
              /\ \A k \in Keys : pending'[k] = d => pending[k] = d,
           CallHolds(c)'
    PROVE  HoldingInv'
<1>1. \A d \in Calls \ {c} : pc'[d] = pc[d] /\ op'[d] = op[d]
  BY MovedType DEF HoldingInv
<1>2. ASSUME NEW d \in Calls, d # c PROVE CallHolds(d)'
  BY <1>1, <1>2 DEF HoldingInv, CallHolds, HasEvent
<1>3. QED
  BY <1>2 DEF HoldingInv

\* A call outside its transaction, or at its first look, holds nothing.
LEMMA HoldingNothing ==
    ASSUME HoldingInv, NEW c \in Calls, NEW o, NEW step, Moved(c, o, step), TypeOK',
           step \notin TransactionSteps \ {"find"},
           \A d \in Calls \ {c} :
              /\ lock' = d <=> lock = d
              /\ \A k \in Keys : pending'[k] = d => pending[k] = d,
           lock' # c, \A k \in Keys : pending'[k] # c
    PROVE  HoldingInv'
<1>1. pc'[c] = step
  BY MovedType DEF HoldingInv
<1>2. CallHolds(c)'
  BY <1>1 DEF CallHolds, TransactionSteps
<1>3. QED
  BY <1>2, HoldingFrame

LEMMA HoldingInit == Init => HoldingInv
BY TypeInit, CallAssumption DEF Init, HoldingInv, CallHolds, NoOperation

LEMMA HoldingNext == HoldingInv /\ [Next]_vars => HoldingInv'
<1> SUFFICES ASSUME HoldingInv, [Next]_vars PROVE HoldingInv'
  OBVIOUS
<1>1. TypeOK /\ TypeOK' /\ \A c \in Calls : CallHolds(c)
  BY TypeNext DEF HoldingInv
<1>2. CASE UNCHANGED vars
  BY <1>1, <1>2 DEF vars, HoldingInv, CallHolds, HasEvent
<1>3. ASSUME NEW c \in Calls, pc[c] \in Active, UNCHANGED op,
             NEW step \in Steps, Goto(c, step)
      PROVE  Moved(c, op[c], step) /\ pc'[c] = step /\ op'[c] = op[c]
  BY <1>1, <1>3, ActiveOperation DEF Moved, Goto, TypeOK
\* A call that holds nothing before and after.
<1>4. ASSUME NEW c \in Calls, NEW o, NEW step, Moved(c, o, step),
             step \notin TransactionSteps \ {"find"}, UNCHANGED <<pending, lock>>,
             pc[c] \notin TransactionSteps \ {"find"}
      PROVE  HoldingInv'
  <2>1. pc[c] # "commit" /\ ~HasEvent(c)
    BY <1>4 DEF HasEvent, TransactionSteps
  <2>2. lock # c /\ \A k \in Keys : pending[k] # c
    BY <1>1, <2>1 DEF CallHolds
  <2>3. QED
    BY <1>1, <1>4, <2>2, HoldingNothing
\* A call that loses what it holds.
<1>5. ASSUME NEW c \in Calls, Rollback(c),
             NEW o, NEW step, Moved(c, o, step), step \notin TransactionSteps
      PROVE  HoldingInv'
  <2>1. /\ lock' = IF lock = c THEN NoCall ELSE lock
        /\ \A k \in Keys : pending'[k] = IF pending[k] = c THEN NoCall ELSE pending[k]
    BY <1>1, <1>5, RollbackEffect
  <2>2. QED
    BY <1>1, <1>5, <2>1, HoldingNothing, CallAssumption
\* A call that goes on inside its transaction, without the account row.
<1>6. ASSUME NEW c \in Calls, pc[c] \in Active \ {"commit"},
             UNCHANGED <<op, pending, lock>>,
             NEW step \in Steps \ {"commit"}, Goto(c, step),
             HasEvent(c) => step = "update"
      PROVE  HoldingInv'
  <2>1. Moved(c, op[c], step) /\ pc'[c] = step /\ op'[c] = op[c]
    BY <1>3, <1>6
  <2>2. HasEvent(c) => HasEvent(c)'
    BY <1>6, <2>1 DEF HasEvent
  <2>3. CallHolds(c)'
    BY <1>1, <1>6, <2>1, <2>2 DEF CallHolds
  <2>4. QED
    BY <1>1, <1>6, <2>1, <2>3, HoldingFrame
<1>7. ASSUME NEW c \in Calls, Begin(c) PROVE HoldingInv'
  BY <1>1, <1>4, <1>7, BeginEffect DEF db, TransactionSteps
<1>8. ASSUME NEW c \in Calls, RunEnds(c) PROVE HoldingInv'
  BY <1>1, <1>4, <1>8, RunEffect DEF db, TransactionSteps
<1>9. ASSUME NEW c \in Calls, FindEvent(c) \/ FindEventAgain(c) \/ ReadAccount(c)
      PROVE  HoldingInv'
  <2>1. PICK step \in {"done", "read", "findAgain", "insert", "update"} : Goto(c, step)
    BY <1>9 DEF FindEvent, FindEventAgain, ReadAccount, AfterFind, AfterEvent, AfterRead
  <2>2. /\ pc[c] \in Active \ {"commit"} /\ UNCHANGED <<op, pending, lock>>
        /\ step \in Steps \ {"commit"}
    BY <1>9, <2>1 DEF FindEvent, FindEventAgain, ReadAccount, db, Active, Ended, Steps,
                      TransactionSteps
  <2>3. HasEvent(c) => step = "update"
    <3> SUFFICES ASSUME HasEvent(c) PROVE step = "update"
      OBVIOUS
    <3>1. ReadAccount(c) /\ op[c].kind \notin ResetKinds
      BY <1>9 DEF HasEvent, FindEvent, FindEventAgain, ReadAccount
    <3>2. Goto(c, "update")
      BY <3>1 DEF ReadAccount, AfterRead
    <3>3. QED
      BY <1>1, <2>1, <3>2 DEF Goto, TypeOK
  <2>4. QED
    BY <1>6, <2>1, <2>2, <2>3
<1>10. ASSUME NEW c \in Calls, UpdateAccount(c) PROVE HoldingInv'
  <2>1. /\ pc[c] = "update" /\ pc[c] \in Active /\ "commit" \in Steps
        /\ Goto(c, "commit") /\ UNCHANGED <<pending, op>>
        /\ lock = NoCall /\ lock' = c
    BY <1>10 DEF UpdateAccount, Active, Steps, TransactionSteps
  <2>2. Moved(c, op[c], "commit") /\ pc'[c] = "commit" /\ op'[c] = op[c]
    BY <1>3, <2>1
  <2>3. HasEvent(c)'
    BY <2>2 DEF HasEvent
  <2>4. CallHolds(c)'
    BY <1>1, <2>1, <2>2, <2>3 DEF CallHolds
  <2>5. QED
    BY <1>1, <2>1, <2>2, <2>4, HoldingFrame, CallAssumption
<1>11. ASSUME NEW c \in Calls, InsertEvent(c) PROVE HoldingInv'
  <2>1. pc[c] = "insert" /\ pc[c] \in Active /\ AfterEvent(op[c]) \in Steps \ {"commit"}
    BY <1>11 DEF InsertEvent, AfterEvent, Active, Steps, TransactionSteps
  <2>2. CASE events[op[c].key] = "none"
    <3>1. /\ pending' = [pending EXCEPT ![op[c].key] = c]
          /\ Goto(c, AfterEvent(op[c])) /\ UNCHANGED <<lock, op>>
          /\ pending[op[c].key] = NoCall
      BY <1>11, <2>2 DEF InsertEvent
    <3>2. /\ Moved(c, op[c], AfterEvent(op[c]))
          /\ pc'[c] = AfterEvent(op[c]) /\ op'[c] = op[c]
      BY <1>3, <2>1, <3>1
    <3>3. HasEvent(c)' /\ ~HasEvent(c)
      BY <2>1, <3>2 DEF HasEvent, AfterEvent
    <3>4. \A k \in Keys : k # op[c].key => pending'[k] = pending[k]
      BY <1>1, <3>1 DEF TypeOK
    <3>5. CallHolds(c)'
      BY <1>1, <2>1, <3>1, <3>2, <3>3, <3>4 DEF CallHolds
    <3>6. op[c].key \in Keys
      BY <1>1, <2>1, ActiveOperation, OperationFields
    <3>7. \A d \in Calls \ {c} : \A k \in Keys : pending'[k] = d => pending[k] = d
      BY <1>1, <3>1, <3>4, <3>6 DEF TypeOK
    <3>8. QED
      BY <1>1, <3>1, <3>2, <3>5, <3>7, HoldingFrame
  <2>3. CASE events[op[c].key] # "none"
    BY <1>1, <1>5, <1>11, <2>1, <2>3, RaiseEffect DEF InsertEvent, TransactionSteps
  <2>4. QED
    BY <2>2, <2>3
<1>12. ASSUME NEW c \in Calls, Commit(c) \/ CommitUnanswered(c) PROVE HoldingInv'
  <2>1. pc[c] = "commit" /\ pc[c] \in Active /\ Post(c)
    BY <1>12 DEF Commit, CommitUnanswered, Active, TransactionSteps
  <2>2. PICK o \in Operations, step \in {"done", "recordFind", "threw"} :
          Moved(c, o, step)
    <3>1. CASE Commit(c)
      BY <1>1, <1>3, <2>1, <3>1, ActiveOperation DEF Commit, Steps, Ended
    <3>2. CASE CommitUnanswered(c)
      BY <1>1, <2>1, <3>2, RaiseEffect DEF CommitUnanswered
    <3>3. QED
      BY <1>12, <3>1, <3>2
  <2>3. /\ pending' = [pending EXCEPT ![op[c].key] = IF @ = c THEN NoCall ELSE @]
        /\ lock' = IF lock = c THEN NoCall ELSE lock
    BY <1>1, <2>1, PostEffect
  <2>4. \A k \in Keys : pending'[k] # c /\ pending'[k] \in {NoCall, pending[k]}
    BY <1>1, <2>3, CallAssumption DEF TypeOK, CallHolds
  <2>5. QED
    BY <1>1, <2>2, <2>3, <2>4, HoldingNothing, CallAssumption DEF TransactionSteps
<1>13. ASSUME NEW c \in Calls, RecordFind(c) \/ RecordInsert(c) PROVE HoldingInv'
  <2>1. pc[c] \in RecordSteps /\ pc[c] \in Active /\ UNCHANGED <<pending, lock>>
    BY <1>13 DEF RecordFind, RecordInsert, RecordSteps, Active, db
  <2>2. PICK o \in Operations, step \in Steps \ TransactionSteps : Moved(c, o, step)
    <3>1. CASE Raise(c)
      BY <1>1, <2>1, <3>1, RaiseEffect DEF TransactionSteps, Moved
    <3>2. CASE ~Raise(c)
      <4>1. PICK step \in {"recorded", "recordInsert"} : Goto(c, step) /\ UNCHANGED op
        BY <1>13, <3>2 DEF RecordFind, RecordInsert
      <4>2. step \in Steps \ TransactionSteps
        BY DEF Steps, Active, Ended, RecordSteps, TransactionSteps
      <4>3. QED
        BY <1>1, <1>3, <2>1, <4>1, <4>2, ActiveOperation
    <3>3. QED
      BY <3>1, <3>2
  <2>3. QED
    BY <1>4, <2>1, <2>2 DEF RecordSteps, TransactionSteps
<1>14. ASSUME NEW c \in Calls, Abort(c) PROVE HoldingInv'
  BY <1>1, <1>5, <1>14, ConstantSets, RaiseEffect DEF Abort, TransactionSteps
<1>15. ASSUME NEW c \in Calls, Crash(c) PROVE HoldingInv'
  <2>1. Rollback(c) /\ Moved(c, op[c], "crashed")
    BY <1>3, <1>15 DEF Crash, Steps, Ended
  <2>2. QED
    BY <1>5, <2>1 DEF TransactionSteps
<1>16. QED
  BY <1>2, <1>7, <1>8, <1>9, <1>10, <1>11, <1>12, <1>13, <1>14, <1>15
     DEF Next, Statement, Terminating

\* No circular wait, however the calls with one key overlap: PostgreSQL finds no
\* deadlock to break between two operations of the credit services.
THEOREM NoDeadlock == Spec => []NoCircularWait
<1>1. ASSUME HoldingInv, NEW c \in Calls, NEW d \in Calls, lock = c, WaitsFor(c, d)
      PROVE  FALSE
  BY <1>1 DEF HoldingInv, CallHolds, WaitsFor
\* Who is waited for waits, if at all, for the holder of the account row.
<1>2. ASSUME HoldingInv, NEW c \in Calls, NEW d \in Calls, NEW e \in Calls,
             WaitsFor(c, d), WaitsFor(d, e)
      PROVE  lock = e
  <2>1. lock # d
    BY <1>1, <1>2
  <2>2. op[c] \in Operations /\ op[c].key \in Keys /\ pending[op[c].key] = d
    BY <1>2, <2>1, ActiveOperation, OperationFields
       DEF WaitsFor, HoldingInv, Active, TransactionSteps, RecordSteps
  <2>3. pc[d] \in {"read", "update", "commit"}
    BY <1>2, <2>2 DEF HoldingInv, CallHolds, HasEvent
  <2>4. QED
    BY <1>2, <2>3 DEF WaitsFor
<1>3. HoldingInv => NoCircularWait
  BY <1>1, <1>2 DEF NoCircularWait
<1>4. QED
  BY <1>3, HoldingInit, HoldingNext, PTL DEF Spec

-------------------------------------------------------------------------------
(***************************************************************************)
(* The contract KeyedPosting.  The look of a call for its event is a look  *)
(* for the posting, because an event of a posting key and its posting      *)
(* commit together, and because who finds the event of another call on its *)
(* second look posts to a key that has one.                                *)
(***************************************************************************)

PostingKeys == DirectKeys \cup ResetKeys

PostsSettled(c) ==
    /\ op[c].kind \in PostingKinds => op[c].status = "settled"
    /\ HasEvent(c) => pending[op[c].key] = c \/ events[op[c].key] # "none"

PostingHasEvent(k) ==
    /\ events[k] \in {"none", "settled"}
    /\ applied[k] > 0 => events[k] = "settled"

PostingInv ==
    /\ EventInv
    /\ \A c \in Calls : PostsSettled(c)
    /\ \A k \in PostingKeys : PostingHasEvent(k)

LEMMA PostingCall ==
    ASSUME NEW o \in Operations
    PROVE  /\ o.kind \in PostingKinds <=> o.kind \notin UsageKinds
           /\ o.kind \in PostingKinds => o.key \in PostingKeys
           /\ o.key \in PostingKeys => o.kind \in PostingKinds
           /\ PostingKeys \subseteq Keys
BY KeyOfKind, KeyAssumption
   DEF PostingKinds, PostingKeys, Keys, UsageKinds, ChargeKinds, GrantKinds, ResetKinds

\* Between calls: an event stays, and a row that is not committed stays its call's.
LEMMA OthersPost ==
    ASSUME PostingInv, [Next]_vars, NEW c \in Calls, NEW o, NEW step, Moved(c, o, step),
           \A k \in Keys : pending[k] \in Calls \ {c} => pending'[k] = pending[k],
           PostsSettled(c)'
    PROVE  \A d \in Calls : PostsSettled(d)'
<1>1. TypeOK /\ \A d \in Calls \ {c} : pc'[d] = pc[d] /\ op'[d] = op[d]
  BY MovedType DEF PostingInv, EventInv
<1>2. \A k \in Keys : events[k] # "none" => events'[k] # "none"
  BY EveryKeyStep DEF PostingInv, EventInv, PendingUndecided, KeyStep, KeyIsKept,
                      KeyIsCommitted, KeyIsRecorded
<1>3. ASSUME NEW d \in Calls, d # c PROVE PostsSettled(d)'
  <2>1. HasEvent(d) => op[d].key \in Keys
    BY <1>1, ActiveOperation, OperationFields DEF HasEvent, Active, TransactionSteps
  <2>2. HasEvent(d)' <=> HasEvent(d)
    BY <1>1, <1>3 DEF HasEvent
  <2>3. QED
    BY <1>1, <1>2, <1>3, <2>1, <2>2 DEF PostingInv, PostsSettled
<1>4. QED
  BY <1>3

LEMMA PostingInit == Init => PostingInv
<1> SUFFICES ASSUME Init PROVE PostingInv
  OBVIOUS
<1>1. \A c \in Calls : PostsSettled(c)
  BY DEF Init, PostsSettled, HasEvent, NoOperation, PostingKinds, GrantKinds, ResetKinds
<1>2. \A k \in PostingKeys : PostingHasEvent(k)
  BY DEF Init, PostingHasEvent, PostingKeys, Keys
<1>3. QED
  BY <1>1, <1>2, EventInit DEF PostingInv

LEMMA PostingNext == PostingInv /\ [Next]_vars => PostingInv'
<1> SUFFICES ASSUME PostingInv, [Next]_vars PROVE PostingInv'
  OBVIOUS
<1>1. TypeOK /\ TypeOK' /\ EventInv /\ EventInv'
  BY EventNext DEF PostingInv, EventInv
<1>2. CASE UNCHANGED vars
  BY <1>1, <1>2 DEF vars, PostingInv, PostsSettled, PostingHasEvent, HasEvent
<1>3. ASSUME NEW c \in Calls, pc[c] \in Active, UNCHANGED op,
             NEW step \in Steps, Goto(c, step)
      PROVE  Moved(c, op[c], step) /\ pc'[c] = step /\ op'[c] = op[c]
  BY <1>1, <1>3, ActiveOperation DEF Moved, Goto, TypeOK
\* A step that neither commits nor gives the call an event.
<1>4. ASSUME NEW c \in Calls, NEW o \in Operations, NEW step, Moved(c, o, step),
             step \notin {"read", "update", "commit"} \/ (step = "read" /\ o.kind \in ResetKinds),
             o.kind \in PostingKinds => o.status = "settled",
             \A k \in Keys : pending[k] \in Calls \ {c} => pending'[k] = pending[k],
             \A k \in PostingKeys : events'[k] = events[k] /\ applied'[k] = applied[k]
      PROVE  PostingInv'
  <2>1. pc'[c] = step /\ op'[c] = o
    BY <1>1, <1>4, MovedType
  <2>2. PostsSettled(c)'
    BY <1>4, <2>1 DEF PostsSettled, HasEvent
  <2>3. QED
    BY <1>1, <1>4, <2>2, OthersPost DEF PostingInv, PostingHasEvent
\* A step inside the transaction after which the call has, or sees, an event.
<1>5. ASSUME NEW c \in Calls, pc[c] \in Active, UNCHANGED <<events, applied, op>>,
             NEW step \in Steps, Goto(c, step),
             \A k \in Keys : pending[k] \in Calls \ {c} => pending'[k] = pending[k],
             pending'[op[c].key] = c \/ events[op[c].key] # "none"
      PROVE  PostingInv'
  <2>1. Moved(c, op[c], step) /\ pc'[c] = step /\ op'[c] = op[c]
    BY <1>3, <1>5
  <2>2. PostsSettled(c)'
    BY <1>5, <2>1 DEF PostingInv, PostsSettled
  <2>3. QED
    BY <1>1, <1>5, <2>1, <2>2, OthersPost DEF PostingInv, PostingHasEvent
<1>6. ASSUME NEW c \in Calls, pc[c] \in Active, Rollback(c), NEW o \in Operations,
             NEW step, Moved(c, o, step), step \notin TransactionSteps,
             o.kind \in PostingKinds => o.status = "settled"
      PROVE  PostingInv'
  BY <1>1, <1>4, <1>6, RollbackEffect, PostingCall DEF TransactionSteps
\* Of a call that posts, an error keeps the operation.
<1>7. ASSUME NEW c \in Calls, pc[c] \in Active, Raise(c)
      PROVE  \E o \in Operations, step \in {"recordFind", "threw"} :
                /\ Moved(c, o, step)
                /\ o.kind \in PostingKinds => o.status = "settled"
  <2>1. CASE op[c].kind \in UsageKinds
    <3>1. op[c] \in Operations
      BY <1>1, <1>7, ActiveOperation
    <3>2. PICK o \in Operations, step \in {"recordFind", "threw"} :
            Moved(c, o, step) /\ SameCall(o, op[c])
      BY <1>1, <1>7, RaiseEffect
    <3>3. o.kind \notin PostingKinds
      BY <2>1, <3>2, PostingCall DEF SameCall
    <3>4. QED
      BY <3>2, <3>3
  <2>2. CASE op[c].kind \notin UsageKinds
    <3>1. Goto(c, "threw") /\ UNCHANGED op /\ "threw" \in Steps
      BY <1>7, <2>2 DEF Raise, Steps, Ended
    <3>2. Moved(c, op[c], "threw") /\ op[c] \in Operations
      BY <1>1, <1>3, <1>7, <3>1, ActiveOperation
    <3>3. QED
      BY <3>2 DEF PostingInv, PostsSettled
  <2>3. QED
    BY <2>1, <2>2
<1>8. ASSUME NEW c \in Calls, Begin(c) PROVE PostingInv'
  <2>1. PICK o \in Operations, step \in {"running", "blocked", "find"} :
          Moved(c, o, step) /\ o.status = "settled" /\ UNCHANGED <<db, snap, overtaken>>
    BY <1>1, <1>8, BeginEffect
  <2>2. QED
    BY <1>4, <2>1 DEF db
<1>9. ASSUME NEW c \in Calls, RunEnds(c) PROVE PostingInv'
  <2>1. PICK o \in Operations, step \in {"find", "recordFind"} :
          /\ Moved(c, o, step) /\ pc[c] = "running" /\ SameCall(o, op[c])
          /\ UNCHANGED <<db, snap, history>>
    BY <1>1, <1>9, RunEffect
  <2>2. o.kind \notin PostingKinds
    BY <1>1, <2>1, PostingCall DEF EventInv, RecordsAreUsage, SameCall
  <2>3. QED
    BY <1>4, <2>1, <2>2 DEF db
<1>10. ASSUME NEW c \in Calls, FindEvent(c) \/ RecordFind(c) PROVE PostingInv'
  <2>1. pc[c] \in Active /\ UNCHANGED <<db, op>>
    BY <1>10 DEF FindEvent, RecordFind, Active, TransactionSteps, RecordSteps
  <2>2. PICK step \in Steps :
          /\ Goto(c, step)
          /\ step \notin {"read", "update", "commit"} \/ (step = "read" /\ op[c].kind \in ResetKinds)
    BY <1>10 DEF FindEvent, RecordFind, AfterFind, Steps, Active, Ended,
                 TransactionSteps, RecordSteps
  <2>3. op[c] \in Operations /\ Moved(c, op[c], step)
    BY <1>1, <1>3, <2>1, <2>2, ActiveOperation
  <2>4. QED
    BY <1>4, <2>1, <2>2, <2>3 DEF db, PostingInv, PostsSettled
<1>11. ASSUME NEW c \in Calls, FindEventAgain(c) PROVE PostingInv'
  <2>1. /\ pc[c] \in Active /\ UNCHANGED <<db, op>>
        /\ AfterEvent(op[c]) \in Steps /\ "insert" \in Steps
    BY <1>11 DEF FindEventAgain, AfterEvent, Steps, Active, TransactionSteps
  <2>2. CASE events[op[c].key] # "none"
    BY <1>5, <1>11, <2>1, <2>2 DEF FindEventAgain, db
  <2>3. CASE events[op[c].key] = "none"
    <3>1. op[c] \in Operations /\ Moved(c, op[c], "insert")
      BY <1>1, <1>3, <1>11, <2>1, <2>3, ActiveOperation DEF FindEventAgain
    <3>2. QED
      BY <1>4, <2>1, <3>1 DEF db, PostingInv, PostsSettled
  <2>4. QED
    BY <2>2, <2>3
<1>12. ASSUME NEW c \in Calls, InsertEvent(c) PROVE PostingInv'
  <2>1. /\ pc[c] \in Active /\ AfterEvent(op[c]) \in Steps
        /\ pending[op[c].key] = NoCall
    BY <1>12 DEF InsertEvent, AfterEvent, Steps, Active, TransactionSteps
  <2>2. op[c].key \in Keys
    BY <1>1, <2>1, ActiveOperation, OperationFields
  <2>3. CASE events[op[c].key] = "none"
    <3>1. /\ pending' = [pending EXCEPT ![op[c].key] = c]
          /\ Goto(c, AfterEvent(op[c])) /\ UNCHANGED <<events, applied, op>>
      BY <1>12, <2>3 DEF InsertEvent
    <3>2. /\ pending'[op[c].key] = c
          /\ \A k \in Keys : pending[k] \in Calls \ {c} => pending'[k] = pending[k]
      BY <1>1, <2>1, <2>2, <3>1, CallAssumption DEF TypeOK
    <3>3. QED
      BY <1>5, <2>1, <3>1, <3>2
  <2>4. CASE events[op[c].key] # "none"
    <3>1. Rollback(c) /\ Raise(c)
      BY <1>12, <2>4 DEF InsertEvent
    <3>2. QED
      BY <1>6, <1>7, <2>1, <3>1 DEF TransactionSteps
  <2>5. QED
    BY <2>3, <2>4
<1>13. ASSUME NEW c \in Calls, ReadAccount(c) PROVE PostingInv'
  <2>1. /\ pc[c] = "read" /\ pc[c] \in Active /\ UNCHANGED <<events, pending, applied, op>>
        /\ Goto(c, AfterRead(op[c])) /\ AfterRead(op[c]) \in Steps
    BY <1>13 DEF ReadAccount, AfterRead, Steps, Active, TransactionSteps, db
  <2>2. CASE op[c].kind \in ResetKinds
    <3>1. op[c] \in Operations /\ Moved(c, op[c], "findAgain")
      BY <1>1, <1>3, <2>1, <2>2, ActiveOperation DEF AfterRead
    <3>2. QED
      BY <1>4, <2>1, <3>1 DEF PostingInv, PostsSettled
  <2>3. CASE op[c].kind \notin ResetKinds
    <3>1. pending[op[c].key] = c \/ events[op[c].key] # "none"
      BY <2>1, <2>3 DEF PostingInv, PostsSettled, HasEvent
    <3>2. QED
      BY <1>5, <2>1, <3>1
  <2>4. QED
    BY <2>2, <2>3
<1>14. ASSUME NEW c \in Calls, Commit(c) \/ CommitUnanswered(c) PROVE PostingInv'
  <2>1. pc[c] = "commit" /\ pc[c] \in Active /\ Post(c)
    BY <1>14 DEF Commit, CommitUnanswered, Active, TransactionSteps
  <2>2. PICK o \in Operations, step \in {"done", "recordFind", "threw"} :
          Moved(c, o, step) /\ (o.kind \in PostingKinds => o.status = "settled")
    <3>1. CASE Commit(c)
      <4>1. "done" \in Steps /\ Goto(c, "done") /\ UNCHANGED op
        BY <3>1 DEF Commit, Steps, Ended
      <4>2. op[c] \in Operations /\ Moved(c, op[c], "done")
        BY <1>1, <1>3, <2>1, <4>1, ActiveOperation
      <4>3. QED
        BY <4>2 DEF PostingInv, PostsSettled
    <3>2. CASE CommitUnanswered(c)
      BY <1>7, <2>1, <3>2 DEF CommitUnanswered
    <3>3. QED
      BY <1>14, <3>1, <3>2
  <2>3. /\ events' = [events EXCEPT ![op[c].key] =
                        IF pending[op[c].key] = c THEN op[c].status ELSE @]
        /\ pending' = [pending EXCEPT ![op[c].key] = IF @ = c THEN NoCall ELSE @]
        /\ applied' = [applied EXCEPT ![op[c].key] = @ + 1]
    BY <1>1, <2>1, PostEffect
  <2>4. op[c] \in Operations /\ op[c].key \in Keys
    BY <1>1, <2>1, ActiveOperation, OperationFields
  <2>5. \A k \in Keys : pending[k] \in Calls \ {c} => pending'[k] = pending[k]
    BY <1>1, <2>3, <2>4 DEF TypeOK
  <2>6. PostsSettled(c)'
    <3>1. pc'[c] = step /\ op'[c] = o
      BY <1>1, <2>2, MovedType
    <3>2. QED
      BY <2>2, <3>1 DEF PostsSettled, HasEvent
  <2>7. pending[op[c].key] = c \/ events[op[c].key] # "none"
    BY <2>1 DEF PostingInv, PostsSettled, HasEvent
  <2>8. ASSUME NEW k \in PostingKeys PROVE PostingHasEvent(k)'
    <3>1. k \in Keys /\ events[k] \in {"none", "settled"}
          /\ (applied[k] > 0 => events[k] = "settled")
      BY <2>4, <2>8, PostingCall DEF PostingInv, PostingHasEvent
    <3>2. CASE k # op[c].key
      BY <1>1, <2>3, <3>1, <3>2 DEF TypeOK, PostingHasEvent
    <3>3. CASE k = op[c].key
      <4>1. op[c].status = "settled"
        BY <2>4, <2>8, <3>3, PostingCall DEF PostingInv, PostsSettled
      <4>2. events'[k] = "settled"
        BY <1>1, <2>3, <2>7, <3>1, <3>3, <4>1 DEF TypeOK
      <4>3. QED
        BY <4>2 DEF PostingHasEvent
    <3>4. QED
      BY <3>2, <3>3
  <2>9. QED
    BY <1>1, <2>2, <2>5, <2>6, <2>8, OthersPost DEF PostingInv
<1>15. ASSUME NEW c \in Calls, RecordInsert(c) PROVE PostingInv'
  <2>1. /\ pc[c] = "recordInsert" /\ pc[c] \in Active
        /\ UNCHANGED <<pending, applied>> /\ op[c].kind \in UsageKinds
    BY <1>1, <1>15 DEF RecordInsert, Active, RecordSteps, EventInv, RecordsAreUsage
  <2>2. op[c] \in Operations /\ op[c].key \notin PostingKeys
    BY <1>1, <2>1, ActiveOperation, PostingCall
  <2>3. CASE events[op[c].key] = "none"
    <3>1. /\ events' = [events EXCEPT ![op[c].key] = op[c].status]
          /\ Goto(c, "recorded") /\ UNCHANGED op /\ "recorded" \in Steps
      BY <1>15, <2>3 DEF RecordInsert, Steps, Ended
    <3>2. \A k \in PostingKeys : events'[k] = events[k]
      BY <1>1, <2>2, <3>1, PostingCall DEF TypeOK
    <3>3. Moved(c, op[c], "recorded")
      BY <1>3, <2>1, <3>1
    <3>4. QED
      BY <1>4, <2>1, <2>2, <3>2, <3>3 DEF PostingInv, PostsSettled
  <2>4. CASE events[op[c].key] # "none"
    BY <1>4, <1>7, <1>15, <2>1, <2>4 DEF RecordInsert
  <2>5. QED
    BY <2>3, <2>4
<1>16. ASSUME NEW c \in Calls, Abort(c) PROVE PostingInv'
  BY <1>6, <1>7, <1>16, ConstantSets DEF Abort, TransactionSteps
<1>17. ASSUME NEW c \in Calls, Crash(c) PROVE PostingInv'
  <2>1. op[c] \in Operations /\ Moved(c, op[c], "crashed") /\ Rollback(c) /\ pc[c] \in Active
    BY <1>1, <1>3, <1>17, ActiveOperation DEF Crash, Steps, Ended
  <2>2. QED
    BY <1>6, <2>1 DEF TransactionSteps, PostingInv, PostsSettled
<1>18. ASSUME NEW c \in Calls, UpdateAccount(c) PROVE PostingInv'
  <2>1. /\ pc[c] = "update" /\ pc[c] \in Active /\ "commit" \in Steps
        /\ UNCHANGED <<events, pending, applied, op>> /\ Goto(c, "commit")
    BY <1>18 DEF UpdateAccount, Steps, Active, TransactionSteps
  <2>2. pending[op[c].key] = c \/ events[op[c].key] # "none"
    BY <2>1 DEF PostingInv, PostsSettled, HasEvent
  <2>3. QED
    BY <1>5, <2>1, <2>2
<1>19. QED
  BY <1>2, <1>8, <1>9, <1>10, <1>11, <1>12, <1>13, <1>14, <1>15, <1>16, <1>17, <1>18
     DEF Next, Statement, Terminating


\* What the caller of o knows when the call is at a step.
StageAt(o, step) ==
    IF o.kind \notin PostingKinds THEN "away"
    ELSE CASE step = "find" -> "look"
           [] step \in TransactionSteps \ {"find"} -> "post"
           [] step = "done" -> "served"
           [] OTHER -> "away"

KeyAt(o, step) == IF StageAt(o, step) = "away" THEN NoCall ELSE o.key

\* A call that moves takes one turn of the contract.
LEMMA CallTurns ==
    ASSUME TypeOK, NEW c \in Calls, NEW o, NEW step, Moved(c, o, step),
           NEW s, NEW k, StageAt(o, step) = s, KeyAt(o, step) = k
    PROVE  /\ Service!Turn(c, s, k)
           /\ StageOf(c) = s /\ KeyAt(op[c], pc[c]) = k
              => UNCHANGED <<[d \in Calls |-> StageOf(d)],
                             [d \in Calls |-> IF StageOf(d) = "away" THEN NoCall ELSE op[d].key]>>
<1>1. \A d \in Calls : StageOf(d) = StageAt(op[d], pc[d])
  BY DEF StageOf, StageAt
<1>2. \A d \in Calls : StageOf(d)' = StageAt(op'[d], pc'[d])
  BY DEF StageOf, StageAt
<1>3. /\ \A d \in Calls \ {c} : pc'[d] = pc[d] /\ op'[d] = op[d]
      /\ pc'[c] = step /\ op'[c] = o
  BY MovedType
<1>4. /\ StageOf(c)' = s
      /\ \A d \in Calls \ {c} : StageOf(d)' = StageOf(d)
  BY <1>1, <1>2, <1>3
<1>5. QED
  BY <1>1, <1>3, <1>4 DEF Service!Turn, KeyAt

\* Postings of other keys, and those of usage keys, are not the contract's.
LEMMA PostingsOf ==
    ASSUME TypeOK, TypeOK', NEW k \in Keys
    PROVE  /\ UNCHANGED applied =>
                 UNCHANGED [j \in PostingKeys |-> applied[j]]
           /\ applied' = [applied EXCEPT ![k] = @ + 1] =>
                 IF k \in PostingKeys
                 THEN [j \in PostingKeys |-> applied[j]]' =
                        [[j \in PostingKeys |-> applied[j]] EXCEPT ![k] = @ + 1]
                 ELSE UNCHANGED [j \in PostingKeys |-> applied[j]]
<1>1. applied \in [Keys -> Nat] /\ PostingKeys \subseteq Keys
  BY DEF TypeOK, Keys, PostingKeys
<1>2. ASSUME applied' = [applied EXCEPT ![k] = @ + 1]
      PROVE  \A j \in PostingKeys : applied'[j] = IF j = k THEN applied[j] + 1 ELSE applied[j]
  BY <1>1, <1>2
<1>3. QED
  BY <1>1, <1>2

\* Whatever a call does that is not asked to post, the contract does not see it.
LEMMA UsageIsAway ==
    ASSUME TypeOK, NEW c \in Calls, NEW o \in Operations, NEW step, Moved(c, o, step),
           o.kind \notin PostingKinds,
           op[c].kind \notin PostingKinds,
           UNCHANGED [j \in PostingKeys |-> applied[j]]
    PROVE  UNCHANGED Service!vars
<1>1. /\ StageAt(o, step) = "away" /\ StageOf(c) = "away"
      /\ KeyAt(o, step) = NoCall /\ KeyAt(op[c], pc[c]) = NoCall
  BY DEF StageAt, StageOf, KeyAt
<1>2. QED
  BY <1>1, CallTurns DEF Service!vars, PostingKeys

LEMMA ServiceInit == Init => Service!Init
BY DEF Init, Service!Init, StageOf, NoOperation, PostingKinds, GrantKinds, ResetKinds, Keys

\* The steps of a call that posts.
LEMMA ServiceStep ==
    ASSUME PostingInv, [Next]_vars, NEW c \in Calls, op[c].kind \in PostingKinds,
           pc[c] # "idle", Statement(c) \/ Abort(c) \/ Crash(c)
    PROVE  Service!Next \/ UNCHANGED Service!vars
<1>1. TypeOK /\ TypeOK' /\ op[c] \in Operations /\ op[c].status = "settled"
  BY TypeNext DEF PostingInv, EventInv, TypeOK, PostsSettled
<1>2. op[c].key \in PostingKeys /\ op[c].key \in Keys /\ op[c].kind \notin UsageKinds
  BY <1>1, PostingCall
<1>0. PICK k \in PostingKeys : k = op[c].key
  BY <1>2
<1>3. ASSUME UNCHANGED op, NEW step \in Steps, Goto(c, step) PROVE Moved(c, op[c], step)
  BY <1>1, <1>3 DEF Moved, Goto, TypeOK
<1>4. pc[c] \notin RecordSteps \cup {"running"}
  BY <1>0, <1>2 DEF PostingInv, EventInv, RecordsAreUsage
<1>5. Raise(c) => Moved(c, op[c], "threw")
  BY <1>0, <1>2, <1>3 DEF Raise, Steps, Ended
\* How the contract sees a call at each of these steps.
<1>6. /\ pc[c] = "find" => StageOf(c) = "look" /\ KeyAt(op[c], pc[c]) = k
      /\ pc[c] \in {"findAgain", "insert", "read", "update", "commit"} =>
            StageOf(c) = "post" /\ KeyAt(op[c], pc[c]) = k
      /\ \A step \in {"findAgain", "insert", "read", "update", "commit"} :
            StageAt(op[c], step) = "post" /\ KeyAt(op[c], step) = k
      /\ StageAt(op[c], "done") = "served" /\ KeyAt(op[c], "done") = k
      /\ \A step \in {"threw", "crashed"} :
            StageAt(op[c], step) = "away" /\ KeyAt(op[c], step) = NoCall
  BY <1>0 DEF StageOf, StageAt, KeyAt, TransactionSteps
<1>7. StageOf(c) # "away" => [d \in Calls |-> IF StageOf(d) = "away" THEN NoCall ELSE op[d].key][c]
                              = k
  BY <1>0
<1>8. ASSUME pc[c] \in TransactionSteps, UNCHANGED applied, NEW step \in {"threw", "crashed"},
             Moved(c, op[c], step)
      PROVE  Service!Next
  <2>1. Service!Turn(c, "away", NoCall) /\ StageOf(c) # "away"
    BY <1>0, <1>1, <1>6, <1>8, CallTurns DEF TransactionSteps
  <2>2. Service!Leave(c)
    BY <1>1, <1>0, <1>2, <1>8, <2>1, PostingsOf DEF Service!Leave, PostingKeys
  <2>3. QED
    BY <2>2 DEF Service!Next
<1>9. ASSUME pc[c] \in {"findAgain", "insert", "read", "update"}, UNCHANGED <<applied, op>>,
             NEW step \in {"findAgain", "insert", "read", "update", "commit"}, Goto(c, step)
      PROVE  UNCHANGED Service!vars
  <2>1. Moved(c, op[c], step)
    BY <1>3, <1>9 DEF Steps, Active, TransactionSteps
  <2>2. UNCHANGED [j \in PostingKeys |-> applied[j]]
    BY <1>1, <1>0, <1>2, <1>9, PostingsOf
  <2>3. QED
    BY <1>0, <1>1, <1>6, <1>9, <2>1, <2>2, CallTurns DEF Service!vars, PostingKeys
<1>10. CASE FindEvent(c)
  <2>1. /\ pc[c] = "find" /\ UNCHANGED <<applied, op>>
        /\ StageOf(c) = "look" /\ PostingHasEvent(k)
    BY <1>0, <1>2, <1>6, <1>10 DEF FindEvent, db, PostingInv
  <2>2. UNCHANGED [j \in PostingKeys |-> applied[j]]
    BY <1>1, <1>0, <1>2, <2>1, PostingsOf
  <2>3. applied[k] \in Nat
    BY <1>1, <1>0, <1>2 DEF TypeOK
  <2>4. CASE events[k] # "none"
    <3>1. Moved(c, op[c], "done")
      BY <1>0, <1>3, <1>10, <2>1, <2>4 DEF FindEvent, Steps, Ended
    <3>2. Service!Turn(c, "served", k)
      BY <1>0, <1>1, <1>6, <3>1, CallTurns
    <3>3. applied[k] > 0
      BY <1>0, <1>2, <2>1, <2>3, <2>4 DEF PostingHasEvent, PostingInv, EventInv, SettledDirectIsApplied,
                             PostingKeys
    <3>4. Service!Find(c)
      BY <1>0, <1>2, <1>7, <2>1, <2>2, <3>2, <3>3 DEF Service!Find, Service!Served, Service!Turn, PostingKeys
    <3>5. QED
      BY <3>4 DEF Service!Next
  <2>5. CASE events[k] = "none"
    <3>1. PICK step \in {"read", "findAgain"} : Goto(c, step)
      BY <1>0, <1>10, <2>5 DEF FindEvent, AfterFind
    <3>2. Moved(c, op[c], step)
      BY <1>3, <2>1, <3>1 DEF Steps, Active, TransactionSteps
    <3>3. Service!Turn(c, "post", k)
      BY <1>0, <1>1, <1>6, <3>2, CallTurns
    <3>4. applied[k] = 0
      BY <1>0, <2>1, <2>3, <2>5 DEF PostingHasEvent
    <3>5. Service!Miss(c)
      BY <1>0, <1>2, <1>7, <2>1, <2>2, <3>3, <3>4 DEF Service!Miss, Service!Turn, PostingKeys
    <3>6. QED
      BY <3>5 DEF Service!Next
  <2>6. QED
    BY <2>4, <2>5
<1>11. CASE FindEventAgain(c)
  BY <1>0, <1>9, <1>11 DEF FindEventAgain, AfterEvent, db
<1>12. CASE InsertEvent(c)
  <2>1. CASE events[k] = "none"
    BY <1>0, <1>9, <1>12, <2>1 DEF InsertEvent, AfterEvent
  <2>2. CASE events[k] # "none"
    BY <1>0, <1>5, <1>8, <1>12, <2>2 DEF InsertEvent, Rollback, TransactionSteps
  <2>3. QED
    BY <2>1, <2>2
<1>13. CASE ReadAccount(c) \/ UpdateAccount(c)
  BY <1>0, <1>9, <1>13 DEF ReadAccount, AfterRead, UpdateAccount, db
<1>14. CASE Commit(c) \/ CommitUnanswered(c)
  <2>1. pc[c] = "commit" /\ Post(c) /\ StageOf(c) = "post"
    BY <1>0, <1>6, <1>14 DEF Commit, CommitUnanswered
  <2>2. [j \in PostingKeys |-> applied[j]]' =
           [[j \in PostingKeys |-> applied[j]] EXCEPT ![k] = @ + 1]
    BY <1>1, <1>0, <1>2, <2>1, PostEffect, PostingsOf
  <2>3. Service!Turn(c, "served", k) \/ Service!Turn(c, "away", NoCall)
    <3>1. CASE Commit(c)
      <4>1. Moved(c, op[c], "done")
        BY <1>3, <3>1 DEF Commit, Steps, Ended
      <4>2. QED
        BY <1>0, <1>1, <1>6, <4>1, CallTurns
    <3>2. CASE CommitUnanswered(c)
      <4>1. Moved(c, op[c], "threw")
        BY <1>5, <3>2 DEF CommitUnanswered
      <4>2. QED
        BY <1>0, <1>1, <1>6, <4>1, CallTurns
    <3>3. QED
      BY <1>14, <3>1, <3>2
  <2>4. Service!Post(c)
    BY <1>0, <1>7, <2>1, <2>2, <2>3 DEF Service!Post, Service!Served, Service!Turn, PostingKeys
  <2>5. QED
    BY <2>4 DEF Service!Next
<1>15. CASE Abort(c)
  BY <1>4, <1>5, <1>8, <1>15 DEF Abort, Rollback
<1>16. CASE Crash(c)
  <2>1. Moved(c, op[c], "crashed") /\ UNCHANGED applied
    BY <1>3, <1>16 DEF Crash, Rollback, Steps, Ended
  <2>2. pc[c] \in TransactionSteps
    BY <1>4, <1>16 DEF Crash, Active
  <2>3. QED
    BY <1>8, <2>1, <2>2
<1>17. QED
  BY <1>4, <1>10, <1>11, <1>12, <1>13, <1>14, <1>15, <1>16
     DEF Statement, RecordFind, RecordInsert, RecordSteps

LEMMA ServiceNext ==
    ASSUME PostingInv, [Next]_vars
    PROVE  [Service!Next]_(Service!vars)
<1>1. TypeOK /\ TypeOK'
  BY TypeNext DEF PostingInv, EventInv
<1>2. CASE UNCHANGED vars
  BY <1>2 DEF vars, Service!vars, StageOf
<1>3. ASSUME NEW c \in Calls, Begin(c) PROVE Service!Next \/ UNCHANGED Service!vars
  <2>1. PICK o \in Operations, step \in {"running", "blocked", "find"} :
          /\ Moved(c, o, step) /\ pc[c] = "idle" /\ UNCHANGED <<db, snap, overtaken>>
          /\ step = "find" => o.kind \notin UsageKinds
          /\ step # "find" => o.kind \in UsageKinds
    BY <1>1, <1>3, BeginEffect
  <2>2. StageOf(c) = "away" /\ KeyAt(op[c], pc[c]) = NoCall
    BY <2>1 DEF StageOf, KeyAt, StageAt, TransactionSteps
  <2>3. UNCHANGED [j \in PostingKeys |-> applied[j]]
    BY <2>1 DEF db
  <2>4. CASE step = "find"
    <3>1. o.kind \in PostingKinds /\ o.key \in PostingKeys
      BY <2>1, <2>4, PostingCall
    <3>2. Service!Turn(c, "look", o.key)
      BY <1>1, <2>1, <2>4, <3>1, CallTurns DEF StageAt, KeyAt
    <3>3. Service!Ask(c)
      BY <2>2, <2>3, <3>1, <3>2 DEF Service!Ask, Service!AskNext, PostingKeys
    <3>4. QED
      BY <3>3 DEF Service!Next
  <2>5. CASE step # "find"
    <3>1. StageAt(o, step) = "away" /\ KeyAt(o, step) = NoCall
      BY <2>1, <2>5, PostingCall DEF StageAt, KeyAt
    <3>2. QED
      BY <1>1, <2>1, <2>2, <2>3, <3>1, CallTurns DEF Service!vars, PostingKeys
  <2>6. QED
    BY <2>4, <2>5
<1>4. ASSUME NEW c \in Calls, RunEnds(c) PROVE UNCHANGED Service!vars
  <2>1. PICK o \in Operations, step \in {"find", "recordFind"} :
          /\ Moved(c, o, step) /\ pc[c] = "running" /\ SameCall(o, op[c])
          /\ UNCHANGED <<db, snap, history>>
    BY <1>1, <1>4, RunEffect
  <2>2. o.kind \notin PostingKinds /\ op[c].kind \notin PostingKinds
    BY <2>1, PostingCall DEF PostingInv, EventInv, RecordsAreUsage, SameCall
  <2>3. QED
    BY <1>1, <2>1, <2>2, UsageIsAway DEF db
<1>5. ASSUME NEW c \in Calls, Statement(c) \/ Abort(c) \/ Crash(c)
      PROVE  Service!Next \/ UNCHANGED Service!vars
  <2>1. pc[c] \in Active /\ pc[c] # "idle" /\ op[c] \in Operations
    <3>1. pc[c] \in Active
      BY <1>5, ConstantSets
         DEF Statement, FindEvent, FindEventAgain, InsertEvent, ReadAccount, UpdateAccount, Commit,
             CommitUnanswered, RecordFind, RecordInsert, Abort, Crash, Active,
             TransactionSteps, RecordSteps
    <3>2. QED
      BY <1>1, <3>1, ActiveOperation, ConstantSets
  <2>2. CASE op[c].kind \in PostingKinds
    BY <1>5, <2>1, <2>2, ServiceStep
  <2>3. CASE op[c].kind \notin PostingKinds
    <3>1. op[c].key \in Keys \ PostingKeys
      BY <2>1, <2>3, PostingCall, OperationFields
    <3>2. UNCHANGED applied \/ applied' = [applied EXCEPT ![op[c].key] = @ + 1]
      BY <1>5 DEF Statement, FindEvent, FindEventAgain, InsertEvent, ReadAccount, UpdateAccount, Commit,
                  CommitUnanswered, RecordFind, RecordInsert, Abort, Crash, Rollback, Post, db
    <3>3. UNCHANGED [j \in PostingKeys |-> applied[j]]
      BY <1>1, <3>1, <3>2, PostingsOf
    <3>4. PICK o \in Operations, step \in Steps : Moved(c, o, step) /\ SameCall(o, op[c])
      <4>1. CASE Raise(c)
        BY <1>1, <2>1, <4>1, RaiseEffect DEF Moved
      <4>2. CASE ~Raise(c)
        <5>1. PICK step \in Steps : Goto(c, step) /\ UNCHANGED op
          BY <1>5, <4>2
             DEF Statement, FindEvent, FindEventAgain, InsertEvent, ReadAccount, UpdateAccount, Commit,
                 CommitUnanswered, RecordFind, RecordInsert, Abort, Crash, db,
                 AfterFind, AfterEvent, AfterRead, Steps, Active, Ended,
                 TransactionSteps, RecordSteps
        <5>2. Moved(c, op[c], step)
          BY <1>1, <2>1, <5>1 DEF Moved, Goto, TypeOK
        <5>3. QED
          BY <2>1, <5>2 DEF SameCall
      <4>3. QED
        BY <4>1, <4>2
    <3>5. QED
      BY <1>1, <2>3, <3>3, <3>4, UsageIsAway DEF SameCall
  <2>4. QED
    BY <2>2, <2>3
<1>6. QED
  BY <1>2, <1>3, <1>4, <1>5 DEF Next, Terminating

\* Grants, admin debits and resets keep the contract of postings under a key, however
\* calls overlap and wherever they fail.
THEOREM LedgerServesPostings == Spec => ServesPostings
<1>1. Init => Service!Init
  BY ServiceInit
<1>2. PostingInv /\ [Next]_vars => [Service!Next]_(Service!vars)
  BY ServiceNext
<1>3. QED
  BY <1>1, <1>2, PostingInit, PostingNext, PTL DEF Spec, ServesPostings, Service!Spec

-------------------------------------------------------------------------------
(***************************************************************************)
(* Refinement.  A commit settles its key, and moves its credits from the   *)
(* current balances or is the one posting of a call that is overtaken; a   *)
(* record decides its key; a call that begins may make its key crowded;    *)
(* every other step is a stutter.                                          *)
(***************************************************************************)

\* A call that has posted over balances it had not read never posts again.
OvertakenHavePosted ==
    \A c \in overtaken : pc[c] \notin TransactionSteps \cup {"idle", "running"}

RefinementInv == SerialInv /\ DriftInv /\ PostingInv /\ OvertakenHavePosted

LEMMA OvertakenNext ==
    ASSUME TypeOK, OvertakenHavePosted, [Next]_vars
    PROVE  OvertakenHavePosted'
<1>1. CASE UNCHANGED vars
  BY <1>1 DEF vars, OvertakenHavePosted
\* A step of a call that is not in its transaction, or leaves it.
<1>2. ASSUME NEW c \in Calls, NEW o, NEW step, Moved(c, o, step),
             overtaken' \subseteq overtaken \cup {c},
             c \in overtaken' => step \notin TransactionSteps \cup {"idle", "running"}
      PROVE  OvertakenHavePosted'
  BY <1>2, MovedType DEF OvertakenHavePosted, TypeOK
<1>3. ASSUME NEW c \in Calls, pc[c] \in Active, UNCHANGED op,
             NEW step \in Steps, Goto(c, step)
      PROVE  Moved(c, op[c], step)
  BY <1>3, ActiveOperation DEF Moved, Goto, TypeOK
<1>4. ASSUME NEW c \in Calls, Begin(c) PROVE OvertakenHavePosted'
  <2>1. PICK o \in Operations, step \in {"running", "blocked", "find"} :
          Moved(c, o, step) /\ pc[c] = "idle" /\ UNCHANGED <<db, snap, overtaken>>
    BY <1>4, BeginEffect
  <2>2. QED
    BY <1>2, <2>1 DEF OvertakenHavePosted
<1>5. ASSUME NEW c \in Calls, RunEnds(c) PROVE OvertakenHavePosted'
  <2>1. PICK o \in Operations, step \in {"find", "recordFind"} :
          Moved(c, o, step) /\ pc[c] = "running" /\ UNCHANGED <<db, snap, history>>
    BY <1>5, RunEffect
  <2>2. QED
    BY <1>2, <2>1 DEF OvertakenHavePosted, history
<1>6. ASSUME NEW c \in Calls, pc[c] \in Active, Raise(c),
             overtaken' \subseteq overtaken \cup {c}
      PROVE  OvertakenHavePosted'
  BY <1>2, <1>6, RaiseEffect DEF TransactionSteps
<1>7. ASSUME NEW c \in Calls, pc[c] \in TransactionSteps, UNCHANGED <<op, overtaken>>,
             NEW step \in Steps, Goto(c, step)
      PROVE  OvertakenHavePosted'
  <2>1. c \notin overtaken /\ Moved(c, op[c], step)
    BY <1>3, <1>7 DEF OvertakenHavePosted, Active
  <2>2. QED
    BY <1>2, <1>7, <2>1
<1>8. ASSUME NEW c \in Calls,
             \/ FindEvent(c) \/ FindEventAgain(c) \/ ReadAccount(c)
             \/ UpdateAccount(c) \/ (InsertEvent(c) /\ events[op[c].key] = "none")
      PROVE  OvertakenHavePosted'
  <2>1. PICK step \in Steps : Goto(c, step)
    BY <1>8 DEF FindEvent, FindEventAgain, ReadAccount, UpdateAccount, InsertEvent,
                AfterFind, AfterEvent, AfterRead, Steps, Active, Ended, TransactionSteps
  <2>2. pc[c] \in TransactionSteps /\ UNCHANGED <<op, overtaken>>
    BY <1>8 DEF FindEvent, FindEventAgain, ReadAccount, UpdateAccount, InsertEvent,
                TransactionSteps, history
  <2>3. QED
    BY <1>7, <2>1, <2>2
<1>9. ASSUME NEW c \in Calls,
             (InsertEvent(c) /\ events[op[c].key] # "none") \/ Abort(c)
      PROVE  OvertakenHavePosted'
  <2>1. pc[c] \in Active /\ Rollback(c) /\ Raise(c)
    BY <1>9, ConstantSets DEF InsertEvent, Abort, TransactionSteps
  <2>2. QED
    BY <1>6, <2>1 DEF Rollback, history
<1>10. ASSUME NEW c \in Calls, Commit(c) \/ CommitUnanswered(c)
       PROVE  OvertakenHavePosted'
  <2>1. /\ pc[c] \in Active /\ "done" \in Steps
        /\ overtaken' \subseteq overtaken \cup {c}
    BY <1>10 DEF Commit, CommitUnanswered, Post, Active, TransactionSteps, Steps, Ended
  <2>2. CASE Commit(c)
    BY <1>2, <1>3, <2>1, <2>2 DEF Commit, TransactionSteps
  <2>3. CASE CommitUnanswered(c)
    BY <1>6, <2>1, <2>3 DEF CommitUnanswered
  <2>4. QED
    BY <1>10, <2>2, <2>3
<1>11. ASSUME NEW c \in Calls, RecordFind(c) \/ RecordInsert(c)
       PROVE  OvertakenHavePosted'
  <2>1. pc[c] \in Active /\ UNCHANGED overtaken
    BY <1>11 DEF RecordFind, RecordInsert, Active, RecordSteps, history
  <2>2. CASE Raise(c)
    BY <1>6, <2>1, <2>2
  <2>3. CASE ~Raise(c)
    <3>1. PICK step \in {"recorded", "recordInsert"} : Goto(c, step) /\ UNCHANGED op
      BY <1>11, <2>3 DEF RecordFind, RecordInsert
    <3>2. step \in Steps /\ step \notin TransactionSteps \cup {"idle", "running"}
      BY DEF Steps, Active, Ended, RecordSteps, TransactionSteps
    <3>3. Moved(c, op[c], step)
      BY <1>3, <2>1, <3>1, <3>2
    <3>4. QED
      BY <1>2, <2>1, <3>2, <3>3
  <2>4. QED
    BY <2>2, <2>3
<1>12. ASSUME NEW c \in Calls, Crash(c) PROVE OvertakenHavePosted'
  <2>1. pc[c] \in Active /\ UNCHANGED <<op, overtaken>> /\ Goto(c, "crashed")
    BY <1>12 DEF Crash, Rollback, history
  <2>2. "crashed" \in Steps /\ "crashed" \notin TransactionSteps \cup {"idle", "running"}
    BY DEF Steps, Ended, TransactionSteps
  <2>3. Moved(c, op[c], "crashed")
    BY <1>3, <2>1, <2>2
  <2>4. QED
    BY <1>2, <2>1, <2>2, <2>3
<1>13. QED
  BY <1>1, <1>4, <1>5, <1>8, <1>9, <1>10, <1>11, <1>12
     DEF Next, Statement, Terminating

\* The two modules share the arithmetic of CreditRows.
LEMMA SameArithmetic ==
    ASSUME NEW kind, NEW row, NEW read, NEW n, NEW period
    PROVE  /\ Atomic!Moves(kind, read, n) = Moves(kind, read, n)
           /\ Atomic!Written(kind, row, read, n, period) =
                 Written(kind, row, read, n, period)
           /\ Atomic!BucketsOf(row) = BucketsOf(row)
BY DEF Atomic!Moves, Atomic!Written, Atomic!ResetRow, Atomic!PostedRow,
       Atomic!GrantMoves, Atomic!DebitMoves, Atomic!ResetMoves,
       Atomic!CarriedCredits, Atomic!Smaller, Atomic!AddMoves,
       Atomic!BucketsOf, BucketsOf, Atomic!CalculateTotalBalance, Atomic!GrantKinds, Atomic!ResetKinds,
       Moves, Written, ResetRow, PostedRow, GrantMoves, DebitMoves, ResetMoves,
       CarriedCredits, Smaller, AddMoves, CalculateTotalBalance, GrantKinds,
       ResetKinds

\* A charge moves credits as a debit does.
LEMMA ChargeIsDebit ==
    ASSUME NEW kind \in UsageKinds, NEW row, NEW read, NEW n, NEW period
    PROVE  /\ Moves(kind, read, n) = Moves("debit", read, n)
           /\ Written(kind, row, read, n, period) = Written("debit", row, read, n, period)
BY DEF Moves, Written, UsageKinds, ChargeKinds, GrantKinds, ResetKinds

LEMMA CommitSettles ==
    ASSUME RefinementInv, NEW c \in Calls, pc[c] = "commit", Post(c), TypeOK'
    PROVE  Atomic!Next
<1>1. TypeOK
  BY DEF RefinementInv, DriftInv
<1>2. PICK o \in Operations : o = op[c]
  BY <1>1, ActiveOperation DEF Active, TransactionSteps
<1>3. o.key \in Keys /\ o.amount \in Int /\ Offered(o) /\ o.status = "settled"
  BY <1>2, OperationFields DEF RefinementInv, SerialInv, CallIsSerial,
                               TransactionSteps, DriftInv, AmountsAreOffered
<1>4. Atomic!Undecided(o.key) \/ o.key \in crowded
  BY <1>2 DEF RefinementInv, SerialInv, CallIsSerial, HasLooked, TransactionSteps,
              Atomic!Undecided
<1>5. /\ pending[o.key] = c => events[o.key] = "none"
      /\ pending[o.key] # c => events[o.key] # "none"
  BY <1>2, <1>3, CallAssumption
     DEF RefinementInv, PostingInv, EventInv, PendingUndecided, PostsSettled, HasEvent
<1>6. /\ events' = [events EXCEPT ![o.key] = IF pending[o.key] = c THEN o.status ELSE @]
      /\ applied' = [applied EXCEPT ![o.key] = @ + 1]
      /\ UNCHANGED crowded
  BY <1>1, <1>2, PostEffect
<1>7. events' = [events EXCEPT ![o.key] = IF @ = "none" THEN "settled" ELSE @]
  BY <1>3, <1>5, <1>6
<1>8. ASSUME NEW kind,
             account' = Written(kind, account, snap[c], o.amount, PeriodOf[o.key]),
             ledger' = AddMoves(ledger, Moves(kind, snap[c], o.amount))
      PROVE  Atomic!Settle(kind, o.key, o.amount)
  <2>1. account \in Accounts /\ snap[c] \in Accounts
    BY <1>1 DEF TypeOK
  <2>2. CASE ReadIsStale(c)
    <3>1. c \notin overtaken
      BY DEF RefinementInv, OvertakenHavePosted, TransactionSteps
    <3>2. overtaken' = overtaken \cup {c}
      BY <2>2 DEF Post
    <3>3. account' \in Accounts /\ ledger' \in Movements
      BY DEF TypeOK
    <3>4. Atomic!MoveOvertaken
      BY <3>1, <3>2, <3>3
         DEF Atomic!MoveOvertaken, Atomic!Accounts, Accounts, Atomic!Movements, Movements
    <3>5. QED
      BY <1>4, <1>6, <1>7, <3>4 DEF Atomic!Settle
  <2>3. CASE ~ReadIsStale(c)
    <3>1. BucketsOf(snap[c]) = BucketsOf(account) /\ UNCHANGED overtaken
      BY <2>3 DEF ReadIsStale, Post
    <3>2. /\ Moves(kind, snap[c], o.amount) = Moves(kind, account, o.amount)
          /\ Written(kind, account, snap[c], o.amount, PeriodOf[o.key]) =
                Written(kind, account, account, o.amount, PeriodOf[o.key])
      BY <1>3, <2>1, <3>1, WrittenFromSameBuckets
    <3>3. Atomic!MoveExactly(kind, o.key, o.amount)
      BY <1>8, <3>1, <3>2, SameArithmetic
         DEF Atomic!MoveExactly, Atomic!AddMoves, AddMoves
    <3>4. QED
      BY <1>4, <1>6, <1>7, <3>3 DEF Atomic!Settle
  <2>4. QED
    BY <2>2, <2>3
<1>9. /\ account' = Written(o.kind, account, snap[c], o.amount, PeriodOf[o.key])
      /\ ledger' = AddMoves(ledger, Moves(o.kind, snap[c], o.amount))
  BY <1>2 DEF Post
<1>10. CASE o.kind \in UsageKinds /\ o.key \in UsageKeys
  <2>1. Atomic!Settle("debit", o.key, o.amount)
    BY <1>8, <1>9, <1>10, ChargeIsDebit
  <2>2. o.amount \in Amounts
    BY <1>3, <1>10 DEF Offered, UsageKinds, ChargeKinds, ResetKinds
  <2>3. QED
    BY <1>10, <2>1, <2>2 DEF Atomic!Next, Atomic!Charge
<1>11. CASE o.kind \in GrantKinds \cup {"debit"} /\ o.key \in DirectKeys
  <2>1. Atomic!Settle(o.kind, o.key, o.amount)
    BY <1>8, <1>9
  <2>2. o.amount \in Amounts
    BY <1>3, <1>11 DEF Offered, GrantKinds, ResetKinds
  <2>3. QED
    BY <1>11, <2>1, <2>2 DEF Atomic!Next, Atomic!Adjust, Atomic!GrantKinds, GrantKinds
<1>12. CASE o.kind \in ResetKinds /\ o.key \in ResetKeys
  <2>1. Atomic!Settle(o.kind, o.key, o.amount)
    BY <1>8, <1>9
  <2>2. QED
    BY <1>3, <1>12, <2>1 DEF Atomic!Next, Atomic!Reset, Offered, ResetKinds
<1>13. QED
  BY <1>10, <1>11, <1>12, KeyOfKind

LEMMA RecordRecords ==
    ASSUME RefinementInv, NEW c \in Calls, RecordInsert(c)
    PROVE  Atomic!Next \/ UNCHANGED Atomic!vars
<1>1. TypeOK /\ pc[c] = "recordInsert" /\ UNCHANGED <<account, ledger, applied, history>>
  BY DEF RefinementInv, DriftInv, RecordInsert
<1>2. op[c] \in Operations /\ op[c].kind \in UsageKinds /\ op[c].status \in Statuses
  BY <1>1, ActiveOperation, OperationFields
     DEF Active, RecordSteps, RefinementInv, PostingInv, EventInv, RecordsAreUsage
<1>3. op[c].key \in UsageKeys
  BY <1>2, KeyOfKind DEF UsageKinds, ChargeKinds, GrantKinds, ResetKinds
<1>4. CASE events[op[c].key] = "none"
  <2>1. events' = [events EXCEPT ![op[c].key] = op[c].status]
    BY <1>4 DEF RecordInsert
  <2>2. Atomic!Record(op[c].key, op[c].status)
    BY <1>1, <1>4, <2>1 DEF Atomic!Record, Atomic!Undecided, history
  <2>3. Atomic!RecordUsage
    BY <1>2, <1>3, <2>2 DEF Atomic!RecordUsage, Statuses
  <2>4. QED
    BY <2>3 DEF Atomic!Next
<1>5. CASE events[op[c].key] # "none"
  BY <1>1, <1>5 DEF RecordInsert, Atomic!vars, history
<1>6. QED
  BY <1>4, <1>5

LEMMA BeginOverlaps ==
    ASSUME TypeOK, NEW c \in Calls, Begin(c)
    PROVE  Atomic!Next \/ UNCHANGED Atomic!vars
<1>1. PICK o \in Operations, step \in {"running", "blocked", "find"} :
        /\ UNCHANGED <<db, snap, overtaken>>
        /\ crowded' = IF InFlight(o.key) THEN crowded \cup {o.key} ELSE crowded
  BY BeginEffect
<1>2. UNCHANGED <<events, account, ledger, applied, overtaken>>
  BY <1>1 DEF db
<1>3. CASE InFlight(o.key)
  <2>1. o.key \in Keys
    BY OperationFields
  <2>2. Atomic!Overlap
    BY <1>1, <1>2, <1>3, <2>1 DEF Atomic!Overlap, Atomic!Keys, Keys
  <2>3. QED
    BY <2>2 DEF Atomic!Next
<1>4. CASE ~InFlight(o.key)
  BY <1>1, <1>2, <1>4 DEF Atomic!vars
<1>5. QED
  BY <1>3, <1>4

\* The interleaved statements behave as one atomic decision per key, computed from
\* the balances of the moment: crashes, aborts, lost answers and retries do not show
\* in the account and the ledger.  What does show is named in the atomic ledger: a
\* call that posts over balances it has not read, and a key with overlapping calls.
THEOREM LedgerIsAtomic == Spec => ImplementsAtomicLedger
<1>1. Init => Atomic!Init
  BY SameArithmetic DEF Init, Atomic!Init, Keys, Atomic!Keys
<1>2. Init => RefinementInv
  BY SerialInit, DriftInit, PostingInit DEF RefinementInv, OvertakenHavePosted, Init
<1>3. RefinementInv /\ [Next]_vars => RefinementInv'
  BY SerialNext, DriftNext, PostingNext, OvertakenNext DEF RefinementInv, DriftInv
<1>4. ASSUME RefinementInv, [Next]_vars
      PROVE  [Atomic!Next]_(Atomic!vars)
  <2>0. TypeOK /\ TypeOK'
    BY <1>4, TypeNext DEF RefinementInv, DriftInv
  <2>1. ASSUME NEW c \in Calls, Commit(c) \/ CommitUnanswered(c)
        PROVE  Atomic!Next
    BY <1>4, <2>0, <2>1, CommitSettles DEF Commit, CommitUnanswered
  <2>2. ASSUME NEW c \in Calls, RecordInsert(c)
        PROVE  Atomic!Next \/ UNCHANGED Atomic!vars
    BY <1>4, <2>2, RecordRecords
  <2>3. ASSUME NEW c \in Calls, Begin(c)
        PROVE  Atomic!Next \/ UNCHANGED Atomic!vars
    BY <2>0, <2>3, BeginOverlaps
  <2>4. ASSUME NEW c \in Calls,
               \/ RunEnds(c) \/ FindEvent(c) \/ FindEventAgain(c)
               \/ ReadAccount(c) \/ UpdateAccount(c) \/ RecordFind(c)
               \/ InsertEvent(c) \/ Abort(c) \/ Crash(c)
        PROVE  UNCHANGED Atomic!vars
    BY <2>4 DEF RunEnds, RunIsCharged, RunIsNotCharged, RunFails, FindEvent,
                FindEventAgain, ReadAccount, UpdateAccount, RecordFind, InsertEvent,
                Abort, Crash, Rollback, db, history, Atomic!vars
  <2>5. CASE UNCHANGED vars
    BY <2>5 DEF vars, Atomic!vars
  <2>6. QED
    BY <1>4, <2>1, <2>2, <2>3, <2>4, <2>5 DEF Next, Statement, Terminating
<1>5. QED
  BY <1>1, <1>2, <1>3, <1>4, PTL DEF Spec, ImplementsAtomicLedger, Atomic!Spec
===============================================================================
