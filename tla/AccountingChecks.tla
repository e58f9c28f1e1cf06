-------------------------- MODULE AccountingChecks --------------------------
(***************************************************************************)
(* The checks of accounting: balances, settlements, cashout, stake and     *)
(* withdraw, one script each.  Nodes 1 and 2 are peers of each other; what *)
(* is read of a cluster is read node by node while traffic goes on.  Money *)
(* moves by transactions, which are sent in one step and mined in another. *)
(***************************************************************************)
EXTENDS ContentChecks

CONSTANTS
    MaxTraffic,     \* bound on exchanges between nodes 1 and 2
    Credit          \* the thresholds for a balance, received and given

ASSUME AccountingAssumption == MaxTraffic \in Nat /\ Credit \in Nat

Pair == {1, 2}

VARIABLES
    ledger,     \* ledger[n]: n's balance with the other peer
    view,       \* view[n]: the balance that the check last read from n
    payments,   \* settlements made, read first, before and last, and if they differed
    traffic,    \* exchanges so far
    cheques,    \* cheques[n]: node n's cheque, from "uncashed" to "paid"
    actions,    \* the nodes that this run has cashed a cheque of
    chain,      \* staking contract: stake, pause, and the caller's nonce
    wallet      \* per token: balance, the balance read before, what is due

accounts == <<ledger, view, payments, traffic, cheques, actions, chain, wallet>>

others == <<near, home, hood, stored, posted, feed, grants, reserve, batches>>

-----------------------------------------------------------------------------
(* The scripts *)

\* the balances of all nodes, one after the other
Reads == <<Step("account", 1, 0), Step("account", 2, 0)>>

\* balances.go, dryRun
BalancesDry == Reads \o <<Step("symmetric", 1, 0)>>

\* balances.go: RandomBee returns a BeeV2 without a random source, and the
\* upload reads the file from it
Balances ==
    BalancesDry \o GetOrCreateMutableBatch(1) \o <<Step("panic", 1, 0)>>

\* the balances, then the settlements; `later` these are compared with the
\* previous ones
ReadsAll(later) == Reads \o <<Step("settlements", 1, later)>>

ValidateSettlements == Step("valid", 1, 0)

\* Up to Retries rounds of reads, each validated; the last one that is not
\* valid is an error.
Rounds ==
    LET round(r) == ReadsAll(TRUE) \o
            <<[ValidateSettlements EXCEPT !.no = IF r = Retries THEN Fail ELSE 1,
                                          !.ok = 4 * (Retries - r) + 1]>>
    IN  ForEach([r \in 1..Retries |-> r], round)

\* settlements.go, dryRun
SettlementsDry == ReadsAll(FALSE) \o <<ValidateSettlements>>

\* settlements.go: strict at first, with retries after upload and download
Settlements ==
    SettlementsDry \o
    GetOrCreateMutableBatch(1) \o <<Direct(UploadFile(1, 1))>> \o Rounds \o
    <<DownloadFile(2, 1)>> \o Rounds

\* with o.ExpectSettlements
SettlementsExpected == Settlements \o <<Step("happened", 1, 0)>>

\* cashout.go: one cashout per node that has an uncashed cheque ...
CashoutAll ==
    ForEach(<<1, 2>>, LAMBDA n:
        <<[Step("uncashed", n, 0) EXCEPT !.no = 4],
          [Step("uncashed", n, 0) EXCEPT !.no = 3],
          Step("read", n, "chequebook"), Step("cashout", n, 0)>>)

ConfirmRound_SkipsPending(r) ==
    <<[Step("confirmed", 1, 0) EXCEPT !.no = 2], Step("paid", 1, 0),
      [Step("confirmed", 2, 0) EXCEPT !.no = 1],
      [Step("paid", 2, 0) EXCEPT !.ok = 4 * (Retries - r) + 1]>>

\* ... and rounds over all of them: the first that is not confirmed starts
\* the next round, one that bounced or left the balance alone is an error.
ConfirmRound(r) ==
    LET next(k) == IF r = Retries THEN Fail ELSE k
    IN  <<[Step("confirmed", 1, 0) EXCEPT !.no = next(4)], Step("paid", 1, 0),
          [Step("confirmed", 2, 0) EXCEPT !.no = next(2)],
          [Step("paid", 2, 0) EXCEPT !.ok = 4 * (Retries - r) + 1]>>

Cashout ==
    CashoutAll \o ForEach([r \in 1..Retries |-> r], ConfirmRound)

ExpectStakeAmountIs(x) == Step("stake", 2, x)
ExpectWithdrawableStake(x) == Step("withdrawable", 2, x)
DepositStake(x) == Step("deposit", 2, x)
MigrateStake == Step("migrate", 2, 0)

\* stake.go.  Once the pause is mined, the deferred UnPause runs on every
\* return: the last two requests are the path of an error.
Stake ==
    LET deferred(s, k) == [s EXCEPT !.no = k, !.err = k]
    IN  <<Step("session", 2, 0), [Step("running", 2, 0) EXCEPT !.no = 21],
          ExpectStakeAmountIs(0),
          [DepositStake(0) EXCEPT !.ok = Fail, !.no = 1], ExpectStakeAmountIs(0),
          DepositStake(1), ExpectStakeAmountIs(1), ExpectWithdrawableStake(1),
          DepositStake(1), ExpectStakeAmountIs(2), ExpectWithdrawableStake(1),
          Denied(MigrateStake), ExpectStakeAmountIs(2),
          Step("pause", 2, TRUE), Step("mined", 2, 0),
          deferred(MigrateStake, 4), deferred(ExpectStakeAmountIs(0), 3),
          deferred(ExpectWithdrawableStake(0), 2),
          [Ignored(Step("pause", 2, FALSE)) EXCEPT !.ok = 3, !.no = 3, !.err = 3],
          Ignored(Step("pause", 2, FALSE)), Step("giveup", 2, 0)>>

\* test/node.go, Withdraw
WalletWithdraw(token, to) ==
    <<Step("wallet", 1, token), Step("withdraw", 1, <<token, to>>),
      Step("spent", 1, token)>>

\* withdraw.go: to an address that is not whitelisted any error will do
Withdraw ==
    LET denied == WalletWithdraw("native", "zero")
    IN  WalletWithdraw("native", "target") \o
        <<[denied[1] EXCEPT !.err = 3], [denied[2] EXCEPT !.err = 2],
          Denied(denied[3])>> \o
        WalletWithdraw("bzz", "target")

AccountingCheckNames ==
    {"balances", "balancesdry", "settlements", "settlementsdry", "expected",
     "cashout", "stake", "withdraw"}

AccountingScript(c) ==
    CASE c = "balances" -> Balances
      [] c = "balancesdry" -> BalancesDry
      [] c = "settlements" -> Settlements
      [] c = "settlementsdry" -> SettlementsDry
      [] c = "expected" -> SettlementsExpected
      [] c = "cashout" -> Cashout
      [] c = "stake" -> Stake
      [] c = "withdraw" -> Withdraw

-----------------------------------------------------------------------------
(* The cluster and the chain *)

Account ==
    LET n == Head(todo).n
    IN  /\ At("account")
        /\ \/ Reply("ok") /\ view' = [view EXCEPT ![n] = ledger[n]]
           \/ Breaks("err") /\ UNCHANGED view
        /\ UNCHANGED <<others, ledger, payments, traffic, cheques, actions, chain, wallet>>

SettlementsRead ==
    /\ At("settlements")
    /\ \/ /\ Reply("ok")
          /\ payments' = [payments EXCEPT !.read = payments.made,
                !.first = IF Head(todo).x THEN @ ELSE payments.made,
                !.happened = @ \/ (Head(todo).x /\ payments.made # payments.previous)]
       \/ Breaks("err") /\ UNCHANGED payments
    /\ UNCHANGED <<others, ledger, view, traffic, cheques, actions, chain, wallet>>

\* validateBalances
Symmetric(balances) == balances[1] + balances[2] = 0

\* validateSettlements: settlements that are not symmetric are only logged
Valid(balances) ==
    (\A n \in Pair : balances[n] \in (-Credit)..Credit) /\ Symmetric(balances)

BalancesValid ==
    /\ At("symmetric")
    /\ RightOrNot(Symmetric(view))
    /\ UNCHANGED <<others, accounts>>

\* what was read last is what the next stage compares with
SettlementsValid ==
    /\ At("valid")
    /\ RightOrNot(Valid(view))
    /\ payments' = [payments EXCEPT !.previous = IF Valid(view) THEN payments.read ELSE @]
    /\ UNCHANGED <<others, ledger, view, traffic, cheques, actions, chain, wallet>>

Happened ==
    /\ At("happened")
    /\ RightOrNot(payments.happened)
    /\ UNCHANGED <<others, accounts>>

\* the upload reads from a nil random source
Panics ==
    /\ At("panic")
    /\ verdict' = "panic" /\ todo' = <<>> /\ tries' = 0
    /\ UNCHANGED <<check, errors, runs, others, accounts>>

\* node 1 serves node 2: one of them enters it first, and it may be paid
Exchange ==
    /\ check \in AccountingCheckNames
    /\ \/ ledger[1] + ledger[2] = 0 /\ traffic < MaxTraffic
          /\ ledger' = [ledger EXCEPT ![1] = @ + 1] /\ traffic' = traffic + 1
       \/ ledger[1] + ledger[2] # 0 /\ UNCHANGED traffic
          /\ ledger' = [ledger EXCEPT ![2] = @ - 1]
    /\ \E paid \in {0, 1} : payments' = [payments EXCEPT !.made = @ + paid]
    /\ UNCHANGED <<script, others, view, cheques, actions, chain, wallet>>

Uncashed ==
    /\ At("uncashed")
    /\ RightOrNot(cheques[Head(todo).n] = "uncashed") \/ Breaks("err")
    /\ UNCHANGED <<others, accounts>>

CashoutTx ==
    LET n == Head(todo).n
    IN  /\ At("cashout")
        /\ \/ Reply("ok") /\ cheques' = [cheques EXCEPT ![n] = "sent"]
              /\ actions' = actions \cup {n}
           \/ Breaks("err") /\ cheques' = [cheques EXCEPT ![n] = "sent"] /\ UNCHANGED actions
           \/ Breaks("err") /\ UNCHANGED <<cheques, actions>>
        /\ UNCHANGED <<others, ledger, view, payments, traffic, chain, wallet>>

\* the cashout is mined, and has paid or bounced
CashoutMined(n) ==
    /\ cheques[n] = "sent"
    /\ \E result \in {"paid", "bounced"} : cheques' = [cheques EXCEPT ![n] = result]
    /\ UNCHANGED <<script, others, ledger, view, payments, traffic, actions, chain, wallet>>

\* only the actions of this run are looked at
Confirmed ==
    LET n == Head(todo).n
    IN  /\ At("confirmed")
        /\ RightOrNot(n \in actions => cheques[n] # "sent") \/ (n \in actions /\ Breaks("err"))
        /\ UNCHANGED <<others, accounts>>

Paid ==
    LET n == Head(todo).n
    IN  /\ At("paid")
        /\ RightOrNot(n \in actions => cheques[n] # "bounced") \/ (n \in actions /\ Breaks("err"))
        /\ UNCHANGED <<others, accounts>>

\* newSession reads the nonce once
Session ==
    /\ At("session")
    /\ \/ Reply("ok") /\ chain' = [chain EXCEPT !.session = chain.nonce]
       \/ Breaks("err") /\ UNCHANGED chain
    /\ UNCHANGED <<others, ledger, view, payments, traffic, cheques, actions, wallet>>

Running ==
    /\ At("running")
    /\ RightOrNot(~chain.paused) \/ Breaks("err")
    /\ UNCHANGED <<others, accounts>>

StakeIs ==
    /\ \/ At("stake") /\ RightOrNot(chain.stake = Head(todo).x)
       \/ At("withdrawable") /\ RightOrNot((chain.stake = 0) = (Head(todo).x = 0))
       \/ (At("stake") \/ At("withdrawable")) /\ Breaks("err")
    /\ UNCHANGED <<others, accounts>>

\* too small an amount is answered with status 400
Deposit ==
    LET x == Head(todo).x
    IN  /\ At("deposit")
        /\ \/ RightOrNot(x > 0) /\ chain' = [chain EXCEPT !.stake = @ + x]
           \/ Breaks("err") /\ chain' \in {chain, [chain EXCEPT !.stake = @ + x]}
        /\ UNCHANGED <<others, ledger, view, payments, traffic, cheques, actions, wallet>>

\* the stake of a running contract cannot be withdrawn
Migrate ==
    /\ At("migrate")
    /\ \/ chain.paused /\ Reply("ok") /\ chain' = [chain EXCEPT !.stake = 0]
       \/ ~chain.paused /\ Reply("err") /\ UNCHANGED chain
       \/ Breaks("err") /\ UNCHANGED chain
    /\ UNCHANGED <<others, ledger, view, payments, traffic, cheques, actions, wallet>>

\* a transaction of the session: its nonce must be the next one
Pause ==
    LET on == Head(todo).x
    IN  /\ At("pause")
        /\ \/ chain.session = chain.nonce /\ Reply("ok")
              /\ chain' = [chain EXCEPT !.paused = on, !.nonce = @ + 1]
           \/ chain.session # chain.nonce /\ Reply("err") /\ UNCHANGED chain
           \/ Breaks("err") /\ UNCHANGED chain
        /\ UNCHANGED <<others, ledger, view, payments, traffic, cheques, actions, wallet>>

WaitMined ==
    /\ At("mined")
    /\ Reply("ok") \/ Breaks("err")
    /\ UNCHANGED <<others, accounts>>

Wallet ==
    LET t == Head(todo).x
    IN  /\ At("wallet")
        /\ \/ Reply("ok") /\ wallet' = [wallet EXCEPT ![t].before = wallet[t].balance]
           \/ Breaks("err") /\ UNCHANGED wallet
        /\ UNCHANGED <<others, ledger, view, payments, traffic, cheques, actions, chain>>

\* the node pays to its whitelisted addresses only
WithdrawTx ==
    LET t == Head(todo).x[1]
    IN  /\ At("withdraw")
        /\ \/ Head(todo).x[2] = "zero" /\ Reply("err") /\ UNCHANGED wallet
           \/ Head(todo).x[2] # "zero" /\ (Reply("ok") \/ Breaks("err"))
              /\ wallet' = [wallet EXCEPT ![t].due = @ + 1]
           \/ Breaks("err") /\ UNCHANGED wallet
        /\ UNCHANGED <<others, ledger, view, payments, traffic, cheques, actions, chain>>

WithdrawMined(t) ==
    /\ wallet[t].due > 0
    /\ wallet' = [wallet EXCEPT ![t].balance = @ - wallet[t].due, ![t].due = 0]
    /\ UNCHANGED <<script, others, ledger, view, payments, traffic, cheques, actions, chain>>

Spent ==
    LET w == wallet[Head(todo).x]
    IN  /\ At("spent")
        /\ RightOrNot(w.balance <= w.before - 1) \/ Breaks("err")
        /\ UNCHANGED <<others, accounts>>

AccountingInit ==
    /\ ledger = [n \in Pair |-> 0] /\ view = [n \in Pair |-> 0] /\ traffic = 0
    /\ payments = [made |-> 0, first |-> 0, previous |-> 0, read |-> 0, happened |-> FALSE]
    /\ cheques \in IF check = "cashout" THEN [Pair -> {"none", "uncashed"}]
                   ELSE [Pair -> {"none"}]
    /\ actions = {}
    /\ chain = [stake |-> 0, paused |-> FALSE, nonce |-> 0, session |-> 0]
    /\ wallet = [t \in {"native", "bzz"} |-> [balance |-> 0, before |-> 0, due |-> 0]]

AccountingStep ==
    \/ Account \/ SettlementsRead \/ BalancesValid \/ SettlementsValid \/ Happened \/ Panics \/ Uncashed \/ CashoutTx \/ Confirmed \/ Paid
    \/ Session \/ Running \/ StakeIs \/ Deposit \/ Migrate \/ Pause \/ WaitMined
    \/ Wallet \/ WithdrawTx \/ Spent

AccountingSettles ==
    \/ \E n \in Pair : CashoutMined(n)
    \/ \E t \in {"native", "bzz"} : WithdrawMined(t)

\* a run starts without actions, and has seen no settlement happen
AccountingAgain ==
    /\ actions' = {} /\ payments' = [payments EXCEPT !.happened = FALSE]
    /\ UNCHANGED <<ledger, view, traffic, cheques, chain, wallet>>

\* nothing was exchanged since the balances were read, they are as they should
\* be, and settlements that are expected were made between the first read and
\* the last
AccountingSettled ==
    /\ view = ledger /\ Valid(ledger)
    /\ check = "expected" => payments.read # payments.first
    /\ \A n \in actions : cheques[n] = "paid"
    /\ \A t \in {"native", "bzz"} : wallet[t].due = 0

============================================================================
