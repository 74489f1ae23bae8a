--------------------------- MODULE WrappedBitcoin ---------------------------
(***************************************************************************)
(* The Motoko actor WrappedBitcoin (examples/motoko/src/BTConICP.mo):      *)
(* balances of wrapped bitcoin, an invoice for each client who deposits,   *)
(* and the closed invoices that pay those who unwrap.                      *)
(*                                                                         *)
(* A method runs without interruption up to its next await, and a trap     *)
(* undoes what was done since the last one.  A public method the actor     *)
(* calls without await is a message to itself, executed later, in order.   *)
(* What an account answers and whether it pays is not known to the actor.  *)
(***************************************************************************)
EXTENDS Integers, Sequences, FiniteSets, FiniteSetsExt, SequencesExt

CONSTANTS
    Client,          \* principals
    Call,            \* the calls that can be open at once
    Value,           \* balances of accounts
    Amount,          \* amounts clients ask to send or to unwrap
    Fee,             \* fee
    MaxAccounts,     \* bound: accounts created
    MaxCalls,        \* bound: calls clients make
    MaxUsed          \* bound: used accounts there are when a client adds one

NoAccount == 0
Account == 1 .. MaxAccounts

ASSUME WrappedAssumption ==
    /\ IsFiniteSet(Client) /\ IsFiniteSet(Call)
    /\ Value \subseteq Nat /\ Amount \subseteq Nat /\ Fee \in Nat
    /\ MaxAccounts \in Nat /\ MaxCalls \in Nat /\ MaxUsed \in Nat

VARIABLES
    balance,         \* account_balance_hashmap; a client without an entry has 0
    invoice,         \* invoice_hashmap
    used,            \* used_accounts
    total_supply,
    inbox,           \* messages of the actor to itself
    calls,           \* the open calls and their local variables
    created,         \* how many accounts there are
    made,            \* how many calls clients have made
    recorded,        \* what was recorded for each account in used_accounts
    paid,            \* what each account was told to pay, with the fees
    given,           \* the accounts clients have put into used_accounts
    deviations       \* what has happened that the bookkeeping does not survive

books == <<balance, used, total_supply>>
history == <<recorded, paid, given, deviations>>
vars == <<books, invoice, inbox, calls, created, made, history>>

Idle == [pc |-> "idle"]

Init ==
    /\ balance = [p \in Client |-> 0]
    /\ invoice = [p \in Client |-> NoAccount]
    /\ used = << >>
    /\ total_supply = 0
    /\ inbox = << >>
    /\ calls = [c \in Call |-> Idle]
    /\ created = 0
    /\ made = 0
    /\ recorded = [a \in Account |-> 0]
    /\ paid = [a \in Account |-> 0]
    /\ given = {}
    /\ deviations = {}

CallMade == made < MaxCalls /\ made' = made + 1
Ends(c) == calls' = [calls EXCEPT ![c] = Idle]
Deviates(how, happens) ==
    deviations' = deviations \cup (IF happens THEN {how} ELSE {})

-----------------------------------------------------------------------------
(* Tokens.                                                                 *)

Minted(to, value) ==
    /\ balance' = [balance EXCEPT ![to] = @ + value]
    /\ total_supply' = total_supply + value

\* mint is public.
Mint(to, value) ==
    /\ CallMade
    /\ Minted(to, value)
    /\ Deviates("direct", TRUE)
    /\ UNCHANGED <<used, invoice, inbox, calls, created, recorded, paid, given>>

\* Both balances are read before either is written.
Send(from, to, value) ==
    /\ CallMade
    /\ balance[from] >= value
    /\ balance' = [balance EXCEPT ![from] = balance[from] - value,
                                  ![to] = balance[to] + value]
    /\ Deviates("self", from = to /\ value > 0)
    /\ UNCHANGED <<used, total_supply, invoice, inbox, calls, created, recorded, paid, given>>

-----------------------------------------------------------------------------
(* Invoices.                                                               *)

\* create_or_view_current_deposit_invoice finds none, and awaits a key and an
\* account.
CreateInvoice(c, who) ==
    /\ CallMade
    /\ calls[c].pc = "idle"
    /\ invoice[who] = NoAccount
    /\ calls' = [calls EXCEPT ![c] = [pc |-> "create", who |-> who]]
    /\ UNCHANGED <<books, invoice, inbox, created, history>>

\* The account is there.  What the method does after that changes nothing.
InvoiceCreated(c) ==
    /\ calls[c].pc = "create"
    /\ created < MaxAccounts
    /\ created' = created + 1
    /\ invoice' = [invoice EXCEPT ![calls[c].who] = created']
    /\ Ends(c)
    /\ UNCHANGED <<books, inbox, made, history>>

\* close_invoice, up to its await of get_balance, a message to the actor.
CloseInvoice(c, who) ==
    /\ CallMade
    /\ calls[c].pc = "idle"
    /\ calls' = [calls EXCEPT ![c] =
                    [pc |-> "close", who |-> who, account |-> invoice[who]]]
    /\ UNCHANGED <<books, invoice, inbox, created, history>>

\* get_balance looks the invoice up again, and asks the account.
GetBalance(c) ==
    /\ calls[c].pc = "close"
    /\ \E satoshi \in IF invoice[calls[c].who] = NoAccount THEN {0} ELSE Value \cup {0} :
          calls' = [calls EXCEPT ![c] =
                       [pc |-> "closing", who |-> calls[c].who,
                        account |-> calls[c].account, balance |-> satoshi]]
    /\ UNCHANGED <<books, invoice, inbox, created, made, history>>

\* The messages to itself it ends with: the account is recorded, if there was
\* an invoice, and the balance is minted.
Pushes(call) ==
    IF call.account # NoAccount /\ call.balance > 0
    THEN <<[method |-> "push", account |-> call.account, amount |-> call.balance]>>
    ELSE << >>
Mints(call) == [method |-> "mint", to |-> call.who, amount |-> call.balance]

\* Fault: the invoice stays open.
InvoiceLeftOpen(c) ==
    /\ calls[c].pc = "closing"
    /\ inbox' = inbox \o Pushes(calls[c]) \o <<Mints(calls[c])>>
    /\ Deviates("unbacked", calls[c].account = NoAccount /\ calls[c].balance > 0)
    /\ Ends(c)
    /\ UNCHANGED <<books, invoice, created, made, recorded, paid, given>>

InvoiceClosed(c) ==
    /\ calls[c].pc = "closing"
    /\ inbox' = inbox \o Pushes(calls[c]) \o <<Mints(calls[c])>>
    /\ invoice' = [invoice EXCEPT ![calls[c].who] = NoAccount]
    /\ Deviates("unbacked", calls[c].account = NoAccount /\ calls[c].balance > 0)
    /\ Ends(c)
    /\ UNCHANGED <<books, created, made, recorded, paid, given>>

\* The key, the account or the balance cannot be had.
InvoiceRejected(c) ==
    /\ calls[c].pc \in {"create", "close"}
    /\ Ends(c)
    /\ UNCHANGED <<books, invoice, inbox, created, made, history>>

-----------------------------------------------------------------------------
(* Used accounts.                                                          *)

Descending(list) == \A i, j \in DOMAIN list : i < j => list[i].amount >= list[j].amount

\* The list in order, the largest amount first.
Sortings(list) ==
    {sorted \in {[i \in DOMAIN list |-> list[p[i]]] :
                    p \in {f \in [DOMAIN list -> DOMAIN list] : IsInjective(f)}} :
        Descending(sorted)}

Sort == used' \in Sortings(used)

InvoiceToUsedAccounts(account, amount) ==
    /\ used' = <<[account |-> account, amount |-> amount]>> \o used
    /\ recorded' = [recorded EXCEPT ![account] = @ + amount]

\* The actor executes the first message to itself.
ExecuteMessage ==
    /\ inbox # << >>
    /\ LET message == Head(inbox)
       IN  \/ /\ message.method = "push"
              /\ InvoiceToUsedAccounts(message.account, message.amount)
              /\ inbox' = Append(Tail(inbox), [method |-> "sort"])
              /\ UNCHANGED <<balance, total_supply>>
           \/ /\ message.method = "mint"
              /\ Minted(message.to, message.amount)
              /\ inbox' = Tail(inbox)
              /\ UNCHANGED <<used, recorded>>
           \/ /\ message.method = "sort"
              /\ Sort
              /\ inbox' = Tail(inbox)
              /\ UNCHANGED <<balance, total_supply, recorded>>
    /\ UNCHANGED <<invoice, calls, created, made, paid, given, deviations>>

\* invoice_to_used_accounts and sort_used_accounts are public.  The account may
\* be any: an open invoice, one that is about to be closed, one that is in the
\* list already, or one the client brings along, which may have any number.
PushAccount(account, amount) ==
    /\ CallMade
    /\ Len(used) < MaxUsed
    /\ InvoiceToUsedAccounts(account, amount)
    /\ inbox' = Append(inbox, [method |-> "sort"])
    /\ given' = given \cup {account}
    /\ Deviates("direct", TRUE)
    /\ UNCHANGED <<balance, total_supply, invoice, calls, created, paid>>

SortAccounts ==
    /\ CallMade
    /\ Sort
    /\ UNCHANGED <<balance, total_supply, invoice, inbox, calls, created, history>>

-----------------------------------------------------------------------------
(* unwrap_btc.  A call takes the first used account while it needs more,   *)
(* pays with the `whole' of it and goes on, with the `whole' of it as the  *)
(* `last', or with a `part' of it.                                         *)

Fits(leftover) ==
    CASE Head(used).amount < leftover -> "whole"
      [] Head(used).amount = leftover -> "last"
      [] OTHER                        -> "part"

Payment(leftover) ==
    IF Fits(leftover) = "part" THEN leftover ELSE Head(used).amount

\* The account pays the fee from the amount, which must not be less.
TransferTraps(leftover) == used # << >> /\ Payment(leftover) < Fee

\* Fault: an account that pays with a part keeps its whole amount.
RestUnreduced(leftover) == IF Fits(leftover) = "part" THEN <<Head(used)>> ELSE << >>

\* What goes back to the list of the account that pays.
Rest(leftover) ==
    IF Fits(leftover) = "part"
    THEN <<[account |-> Head(used).account,
            amount |-> Head(used).amount - Payment(leftover)]>>
    ELSE << >>

\* One turn of the loop, up to the await of the account's send.
Transfer(c, call) ==
    LET fits == Fits(call.leftover)
        payment == Payment(call.leftover)
    IN  /\ used # << >>
        /\ ~ TransferTraps(call.leftover)
        /\ used' = Rest(call.leftover) \o Tail(used)
        /\ paid' = [paid EXCEPT ![Head(used).account] = @ + payment]
        /\ calls' = [calls EXCEPT ![c] =
             [pc |-> fits, who |-> call.who, amount |-> call.amount, b |-> call.b,
              payment |-> payment,
              leftover |-> call.leftover - IF fits = "whole" THEN payment ELSE 0]]

\* Fault: what is left to pay is taken off the balance.
DebitLeftover(call) ==
    balance' = [balance EXCEPT ![call.who] = call.b - call.leftover]

\* The balance the call has read at its start, less the amount.
Debit(call) == balance' = [balance EXCEPT ![call.who] = call.b - call.amount]

\* No used account is left.
RunsOut(c, call) ==
    /\ used = << >>
    /\ Debit(call)
    /\ Ends(c)
    /\ deviations' = deviations
         \cup (IF balance[call.who] # call.b THEN {"stale"} ELSE {})
         \cup (IF call.leftover > 0 THEN {"short"} ELSE {})
    /\ UNCHANGED <<used, paid>>

TakesTurn(c, call) ==
    \/ Transfer(c, call) /\ UNCHANGED <<balance, deviations>>
    \/ RunsOut(c, call)

Unwrap(c, who, amount) ==
    /\ CallMade
    /\ calls[c].pc = "idle"
    /\ balance[who] >= amount
    /\ TakesTurn(c, [who |-> who, amount |-> amount, b |-> balance[who],
                     leftover |-> amount])
    /\ UNCHANGED <<total_supply, invoice, inbox, created, recorded, given>>

\* Fault: the fee stays in the supply.
BurnsNet(call) ==
    /\ total_supply >= call.payment - Fee
    /\ total_supply' = total_supply - (call.payment - Fee)

Burns(call) ==
    /\ total_supply >= call.payment
    /\ total_supply' = total_supply - call.payment

\* Fault: what is left of an account stays where it is.
NeverSorts(call) == << >>

\* The messages to itself a call ends with.
Sorts(call) == IF call.pc = "part" THEN <<[method |-> "sort"]>> ELSE << >>

\* The account has answered; what it says is not looked at.
TransferWhole(c) ==
    /\ calls[c].pc = "whole"
    /\ Burns(calls[c])
    /\ TakesTurn(c, calls[c])
    /\ UNCHANGED <<invoice, inbox, created, made, recorded, given>>

TransferLast(c) ==
    /\ calls[c].pc \in {"last", "part"}
    /\ Burns(calls[c])
    /\ Debit(calls[c])
    /\ Ends(c)
    /\ inbox' = inbox \o Sorts(calls[c])
    /\ Deviates("stale", balance[calls[c].who] # calls[c].b)
    /\ UNCHANGED <<used, invoice, created, made, recorded, paid, given>>

\* The account cannot be reached, or what the call does next traps: the call
\* ends, and what it did before its last await stays.
TransferFails(c) ==
    /\ calls[c].pc \in {"whole", "last", "part"}
    /\ Ends(c)
    /\ Deviates("failed", TRUE)
    /\ UNCHANGED <<books, invoice, inbox, created, made, recorded, paid, given>>

-----------------------------------------------------------------------------
Next ==
    \/ \E p \in Client, v \in Value : Mint(p, v)
    \/ \E p, q \in Client, v \in Amount : Send(p, q, v)
    \/ \E a \in Account, v \in Value : PushAccount(a, v)
    \/ SortAccounts
    \/ ExecuteMessage
    \/ \E c \in Call :
        \/ \E p \in Client : CreateInvoice(c, p) \/ CloseInvoice(c, p)
        \/ InvoiceCreated(c) \/ GetBalance(c) \/ InvoiceClosed(c) \/ InvoiceRejected(c)
        \/ \E p \in Client, v \in Amount : Unwrap(c, p, v)
        \/ TransferWhole(c) \/ TransferLast(c) \/ TransferFails(c)

Spec == Init /\ [][Next]_vars
=============================================================================
