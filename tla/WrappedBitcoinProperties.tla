---------------------- MODULE WrappedBitcoinProperties ----------------------
(***************************************************************************)
(* What must hold of balances, invoices and used accounts although other   *)
(* messages are executed while a call waits.  The first three properties   *)
(* hold for all interleavings.  The bookkeeping of the last two does not:  *)
(* each names everything that can break it.                                *)
(***************************************************************************)
EXTENDS WrappedBitcoin

Pending(method) == {i \in DOMAIN inbox : inbox[i].method = method}
At(pcs) == {c \in Call : calls[c].pc \in pcs}

Recorded == {used[i].account : i \in DOMAIN used}
Closed == Recorded \cup {inbox[i].account : i \in Pending("push")}
Opened == {invoice[p] : p \in Client} \ {NoAccount}

UsedTotal == SumFunction([i \in DOMAIN used |-> used[i].amount])
UsedOf(a) ==
    SumFunction([i \in DOMAIN used |-> IF used[i].account = a THEN used[i].amount ELSE 0])
PendingTotal(method) ==
    SumFunction([i \in DOMAIN inbox |->
                    IF inbox[i].method = method THEN inbox[i].amount ELSE 0])

\* What an open unwrap has told an account to pay and not yet burned, and what
\* it has burned and not yet taken off a balance.
IsPaying(call) == call.pc \in {"whole", "last", "part"}
Due(call) == IF IsPaying(call) THEN call.payment ELSE 0
Burned(call) ==
    IF IsPaying(call)
    THEN call.amount - call.leftover - IF call.pc = "whole" THEN call.payment ELSE 0
    ELSE 0

InFlight == SumFunction([c \in Call |-> Due(calls[c])])
BurnedTotal == SumFunction([c \in Call |-> Burned(calls[c])])
Balances == SumFunction(balance)

\* However many calls of unwrap_btc take accounts at once, an account is told
\* to pay what was recorded for it and not yet taken, and nothing twice.
NoDoubleDrain == \A a \in Account : paid[a] + UsedOf(a) = recorded[a]

\* An account in which a client still deposits pays for nobody's unwrap: it is
\* never an open invoice and a used account, or about to be one, unless a
\* client has put that very account into the list itself, by the public
\* invoice_to_used_accounts, which asks nothing about it.
UsedNotOpen == Opened \cap Closed \subseteq given

\* The largest used account comes first, unless a message that sorts them is
\* on its way, a call will send one, or a transfer has failed.
SortedUnlessUnderWay ==
    \/ Descending(used)
    \/ Pending("push") \cup Pending("sort") # {}
    \/ At({"part"}) # {}
    \/ "failed" \in deviations

\* Every wrapped bitcoin is backed by a used account: what is minted for an
\* invoice is what is recorded for its account, although the two are different
\* messages, and an unwrap takes from the supply what it takes from the used
\* accounts.  What is minted or recorded directly, the balance of an invoice
\* that was created while it was being closed, and a failed transfer break it.
SupplyBacked ==
    deviations \cap {"direct", "unbacked", "failed"} = {} =>
        total_supply + PendingTotal("mint") = UsedTotal + PendingTotal("push") + InFlight

\* The balances add up to the supply, but for what the open unwraps have taken
\* off it.  A transfer to oneself, a balance that changed during an unwrap, an
\* unwrap that found too few accounts and a failed one break it.
SupplyIsBalances ==
    deviations \cap {"self", "stale", "short", "failed"} = {} =>
        Balances = total_supply + BurnedTotal
=============================================================================
