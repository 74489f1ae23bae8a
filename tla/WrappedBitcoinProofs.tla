------------------------ MODULE WrappedBitcoinProofs ------------------------
(***************************************************************************)
(* The properties of the wrapped bitcoin, for any number of clients, calls *)
(* and accounts and every interleaving of their steps: an open invoice is  *)
(* never a used account unless a client makes it one, the used accounts    *)
(* are in order unless they are about to be, no account pays twice, and    *)
(* the supply, the used accounts and the balances agree as long as nothing *)
(* happens that the properties name.                                       *)
(***************************************************************************)
EXTENDS WrappedBitcoinProperties, SequenceTheorems, FiniteSetTheorems, FunctionTheorems,
        WellFoundedInduction, TLAPS

Entry == [account : Nat, amount : Int]

Message ==
    [method : {"push"}, account : Nat, amount : Int]
        \cup [method : {"mint"}, to : Client, amount : Int]
        \cup [method : {"sort"}]

Paying == [pc : {"whole", "last", "part"}, who : Client, amount : Int, b : Int,
           payment : Int, leftover : Int]
Closing == [pc : {"close"}, who : Client, account : Nat]
             \cup [pc : {"closing"}, who : Client, account : Nat, balance : Int]
CallState == [pc : {"idle"}] \cup [pc : {"create"}, who : Client] \cup Closing \cup Paying

Types ==
    /\ balance \in [Client -> Int]
    /\ invoice \in [Client -> Nat]
    /\ used \in Seq(Entry)
    /\ inbox \in Seq(Message)
    /\ calls \in [Call -> CallState]
    /\ created \in Nat

-----------------------------------------------------------------------------
(* Lists.                                                                  *)

LEMMA ConcatMembers ==
    ASSUME NEW S, NEW s \in Seq(S), NEW t \in Seq(S)
    PROVE  /\ s \o t \in Seq(S)
           /\ Range(s \o t) = Range(s) \cup Range(t)
<1> QED  BY ConcatProperties, RangeConcatenation

LEMMA MemberType ==
    ASSUME NEW S, NEW list \in Seq(S)
    PROVE  \A e \in Range(list) : e \in S
<1> QED  BY ElementOfSeq, LenProperties DEF Range

LEMMA ConsMembers ==
    ASSUME NEW S, NEW e \in S, NEW list \in Seq(S)
    PROVE  /\ <<e>> \o list \in Seq(S)
           /\ Range(<<e>> \o list) = {e} \cup Range(list)
           /\ list \o <<e>> \in Seq(S)
           /\ Range(list \o <<e>>) = {e} \cup Range(list)
<1> DEFINE one == <<e>>
<1>1. one \in Seq(S) /\ Range(one) = {e}
  BY DEF Range
<1> HIDE DEF one
<1>2. /\ one \o list \in Seq(S)
      /\ Range(one \o list) = Range(one) \cup Range(list)
  BY <1>1, ConcatMembers
<1>3. /\ list \o one \in Seq(S)
      /\ Range(list \o one) = Range(list) \cup Range(one)
  BY <1>1, ConcatMembers
<1>4. /\ one \o list \in Seq(S)
      /\ Range(one \o list) = {e} \cup Range(list)
      /\ list \o one \in Seq(S)
      /\ Range(list \o one) = {e} \cup Range(list)
  BY <1>1, <1>2, <1>3
<1> QED  BY <1>4 DEF one

LEMMA TailMembers ==
    ASSUME NEW S, NEW list \in Seq(S), list # << >>
    PROVE  Tail(list) \in Seq(S) /\ Range(Tail(list)) \subseteq Range(list)
<1>1. /\ Tail(list) \in Seq(S)
      /\ Len(Tail(list)) = Len(list) - 1
      /\ \A i \in 1 .. Len(Tail(list)) : Tail(list)[i] = list[i + 1]
  BY HeadTailProperties
<1>2. DOMAIN list = 1 .. Len(list) /\ DOMAIN Tail(list) = 1 .. Len(Tail(list)) /\ Len(list) \in Nat
  BY <1>1, LenProperties
<1>3. \A i \in DOMAIN Tail(list) : i + 1 \in DOMAIN list /\ Tail(list)[i] = list[i + 1]
  BY <1>1, <1>2
<1> QED  BY <1>1, <1>3 DEF Range

LEMMA HeadMember ==
    ASSUME NEW S, NEW list \in Seq(S), list # << >>
    PROVE  Head(list) \in S /\ Head(list) \in Range(list)
<1>1. 1 \in DOMAIN list /\ Head(list) = list[1]
  OBVIOUS
<1> QED  BY <1>1, HeadTailProperties DEF Range

LEMMA AppendMembers ==
    ASSUME NEW S, NEW list \in Seq(S), NEW m \in S
    PROVE  /\ Append(list, m) \in Seq(S)
           /\ Range(Append(list, m)) = {m} \cup Range(list)
<1>1. Append(list, m) = list \o <<m>>
  OBVIOUS
<1> QED  BY <1>1, ConsMembers

\* Sorting keeps the type and the members, and gives a sorted list.
LEMMA SortingsSort ==
    ASSUME NEW list \in Seq(Entry), NEW sorted \in Sortings(list)
    PROVE  /\ sorted \in Seq(Entry)
           /\ Range(sorted) \subseteq Range(list)
           /\ Descending(sorted)
<1>1. PICK p \in [DOMAIN list -> DOMAIN list] : sorted = [i \in DOMAIN list |-> list[p[i]]]
  BY DEF Sortings
<1>2. DOMAIN list = 1 .. Len(list) /\ Len(list) \in Nat
  BY LenProperties
<1>3. \A i \in 1 .. Len(list) : list[p[i]] \in Entry
  BY <1>1, <1>2, ElementOfSeq
<1>4. sorted \in Seq(Entry)
  BY <1>1, <1>2, <1>3, IsASeq
<1>5. Range(sorted) \subseteq Range(list)
  BY <1>1 DEF Range
<1>6. Descending(sorted)
  BY DEF Sortings
<1> QED  BY <1>4, <1>5, <1>6

LEMMA TailDescends ==
    ASSUME NEW list \in Seq(Entry), list # << >>, Descending(list)
    PROVE  Descending(Tail(list))
<1>1. /\ Len(Tail(list)) = Len(list) - 1
      /\ \A i \in 1 .. Len(Tail(list)) : Tail(list)[i] = list[i + 1]
  BY HeadTailProperties
<1>2. DOMAIN list = 1 .. Len(list) /\ DOMAIN Tail(list) = 1 .. Len(Tail(list)) /\ Len(list) \in Nat
  BY HeadTailProperties, LenProperties
<1> SUFFICES ASSUME NEW i \in DOMAIN Tail(list), NEW j \in DOMAIN Tail(list), i < j
             PROVE  Tail(list)[i].amount >= Tail(list)[j].amount
  BY DEF Descending
<1>3. i + 1 \in DOMAIN list /\ j + 1 \in DOMAIN list /\ i + 1 < j + 1
  BY <1>1, <1>2
<1>4. list[i + 1].amount >= list[j + 1].amount
  BY <1>3 DEF Descending
<1> QED  BY <1>1, <1>2, <1>4

-----------------------------------------------------------------------------
(* Types.                                                                  *)

LEMMA ClosedInbox ==
    ASSUME Types, NEW c \in Call, InvoiceClosed(c)
    PROVE  /\ calls[c] \in [pc : {"closing"}, who : Client, account : Nat, balance : Int]
           /\ inbox' \in Seq(Message)
           /\ Range(inbox) \subseteq Range(inbox')
           /\ \A m \in Range(inbox') \ Range(inbox) :
                 m.method = "push" => m.account = calls[c].account /\ m.account # NoAccount
<1> DEFINE mint == [method |-> "mint", to |-> calls[c].who, amount |-> calls[c].balance]
<1>1. calls[c] \in [pc : {"closing"}, who : Client, account : Nat, balance : Int]
  BY DEF Types, InvoiceClosed, CallState, Closing, Paying
<1>2. inbox' = inbox \o Pushes(calls[c]) \o <<mint>>
  BY DEF InvoiceClosed, Mints
<1>3. /\ Pushes(calls[c]) \in Seq(Message)
      /\ \A m \in Range(Pushes(calls[c])) :
            m.account = calls[c].account /\ m.account # NoAccount
  <2> DEFINE push == [method |-> "push", account |-> calls[c].account,
                      amount |-> calls[c].balance]
  <2>1. push \in Message /\ push.account = calls[c].account
    BY <1>1 DEF Message
  <2>2. CASE Pushes(calls[c]) = <<push>> /\ calls[c].account # NoAccount
    <3> HIDE DEF push
    <3>1. <<push>> \in Seq(Message) /\ Range(<<push>>) = {push}
      BY <2>1 DEF Range
    <3> QED  BY <2>1, <2>2, <3>1
  <2>3. CASE Pushes(calls[c]) = << >>
    BY <2>3 DEF Range
  <2> QED  BY <2>2, <2>3 DEF Pushes
<1>4. mint \in Message /\ mint.method = "mint"
  BY <1>1 DEF Message
<1> DEFINE front == inbox \o Pushes(calls[c])
<1>5. /\ front \in Seq(Message)
      /\ Range(front) = Range(inbox) \cup Range(Pushes(calls[c]))
  BY <1>3, ConcatMembers DEF Types
<1> HIDE DEF mint, front
<1>6. /\ front \o <<mint>> \in Seq(Message)
      /\ Range(front \o <<mint>>) = {mint} \cup Range(front)
  BY <1>4, <1>5, ConsMembers
<1>7. inbox' = front \o <<mint>>
  BY <1>2 DEF front
<1>8. inbox' \in Seq(Message) /\ Range(inbox') = {mint} \cup Range(front)
  BY <1>6, <1>7
<1> QED  BY <1>1, <1>3, <1>4, <1>5, <1>8

\* What a turn of the loop does to the used accounts and to its call.
LEMMA TransferTypes ==
    ASSUME Types, NEW c \in Call, NEW call,
           call.who \in Client, call.amount \in Int, call.b \in Int, call.leftover \in Int,
           Transfer(c, call)
    PROVE  /\ used' \in Seq(Entry)
           /\ \A e \in Range(used') : \E d \in Range(used) : e.account = d.account
           /\ calls' \in [Call -> CallState]
           /\ calls'[c].pc \in {"whole", "last", "part"}
           /\ calls'[c].pc # "part" => used' = Tail(used)
           /\ \A d \in Call \ {c} : calls'[d] = calls[d]
<1> DEFINE fits == Fits(call.leftover)
           payment == Payment(call.leftover)
           rest == [account |-> Head(used).account, amount |-> Head(used).amount - payment]
           left == call.leftover - IF fits = "whole" THEN payment ELSE 0
           next == [pc |-> fits, who |-> call.who, amount |-> call.amount, b |-> call.b,
                    payment |-> payment, leftover |-> left]
<1>1. /\ used \in Seq(Entry) /\ used # << >>
      /\ used' = (IF fits = "part" THEN <<rest>> ELSE << >>) \o Tail(used)
      /\ calls' = [calls EXCEPT ![c] = next]
  BY DEF Types, Transfer, Rest
<1>2. Head(used) \in Entry /\ Head(used) \in Range(used)
  BY <1>1, HeadMember
<1>3. Tail(used) \in Seq(Entry) /\ Range(Tail(used)) \subseteq Range(used)
  BY <1>1, TailMembers
<1>4. fits \in {"whole", "last", "part"}
  BY DEF Fits
<1>5. payment \in Int
  BY <1>2 DEF Payment, Entry
<1>6. rest \in Entry /\ rest.account = Head(used).account
  BY <1>2, <1>5 DEF Entry
<1>7. left \in Int
  BY <1>5
<1>8. next \in CallState /\ next.pc = fits
  BY <1>4, <1>5, <1>7 DEF CallState, Paying
<1> DEFINE tail == Tail(used)
<1> HIDE DEF fits, payment, rest, left, next, tail
<1>9. /\ tail \in Seq(Entry) /\ Range(tail) \subseteq Range(used)
      /\ used' = (IF fits = "part" THEN <<rest>> ELSE << >>) \o tail
  BY <1>1, <1>3 DEF tail
<1>10. /\ <<rest>> \o tail \in Seq(Entry)
       /\ Range(<<rest>> \o tail) = {rest} \cup Range(tail)
  BY <1>6, <1>9, ConsMembers
<1>11. << >> \o tail = tail
  BY <1>9, ConcatEmptySeq
<1>12. used' = IF fits = "part" THEN <<rest>> \o tail ELSE tail
  BY <1>9, <1>11
<1>13. used' \in Seq(Entry)
  BY <1>9, <1>10, <1>12
<1>14. \A e \in Range(used') : \E d \in Range(used) : e.account = d.account
  BY <1>2, <1>6, <1>9, <1>10, <1>12
<1>15. /\ calls' \in [Call -> CallState] /\ calls'[c] = next
       /\ \A d \in Call \ {c} : calls'[d] = calls[d]
  BY <1>1, <1>8 DEF Types
<1> QED  BY <1>4, <1>8, <1>12, <1>13, <1>14, <1>15 DEF tail

\* A turn of the loop, or the end of it when no account is left.
LEMMA TurnTypes ==
    ASSUME Types, NEW c \in Call, NEW call,
           call.who \in Client, call.amount \in Int, call.b \in Int, call.leftover \in Int,
           TakesTurn(c, call)
    PROVE  /\ balance' \in [Client -> Int]
           /\ used' \in Seq(Entry)
           /\ \A e \in Range(used') : \E d \in Range(used) : e.account = d.account
           /\ calls' \in [Call -> CallState]
           /\ calls'[c].pc \in {"idle", "whole", "last", "part"}
           /\ \/ calls'[c].pc = "part"
              \/ used' = used
              \/ used # << >> /\ used' = Tail(used)
           /\ \A d \in Call \ {c} : calls'[d] = calls[d]
           /\ deviations \subseteq deviations'
<1>1. CASE Transfer(c, call) /\ UNCHANGED <<balance, deviations>>
  <2>1. used # << >>
    BY <1>1 DEF Transfer
  <2> QED  BY <1>1, <2>1, TransferTypes DEF Types
<1>2. CASE RunsOut(c, call)
  <2>1. balance' \in [Client -> Int]
    BY <1>2 DEF RunsOut, Debit, Types
  <2>2. /\ calls' \in [Call -> CallState] /\ calls'[c].pc = "idle"
        /\ \A d \in Call \ {c} : calls'[d] = calls[d]
    BY <1>2 DEF RunsOut, Ends, Idle, Types, CallState
  <2>3. used' = used /\ deviations \subseteq deviations'
    BY <1>2 DEF RunsOut
  <2> QED  BY <2>1, <2>2, <2>3 DEF Types
<1> QED  BY <1>1, <1>2 DEF TakesTurn

-----------------------------------------------------------------------------
(* The invariant.                                                          *)

\* What the properties say, of the members of the lists.
PushOf(m) == m.method = "push"
ToClose(call) == call.pc \in {"close", "closing"}

\* An open invoice no client has put into the list is not there, nor about to be.
Apart ==
    \A p \in Client : invoice[p] # NoAccount /\ invoice[p] \notin given =>
        /\ \A e \in Range(used) : e.account # invoice[p]
        /\ \A m \in Range(inbox) : PushOf(m) => m.account # invoice[p]

InOrder ==
    \/ Descending(used)
    \/ \E m \in Range(inbox) : m.method \in {"push", "sort"}
    \/ \E c \in Call : calls[c].pc = "part"
    \/ "failed" \in deviations

\* No account is the invoice of two clients.
OneEach ==
    \A p, q \in Client : invoice[p] = invoice[q] /\ invoice[p] # NoAccount => p = q

\* The account a call is about to close is nobody else's invoice.
OwnInvoice ==
    \A c \in Call, q \in Client :
        ToClose(calls[c]) /\ calls[c].account # NoAccount /\ invoice[q] = calls[c].account
            => q = calls[c].who

\* An account that is created is a new one to everybody but the clients.
Numbered ==
    /\ \A p \in Client : invoice[p] <= created
    /\ \A e \in Range(used) : e.account <= created \/ e.account \in given
    /\ \A m \in Range(inbox) : PushOf(m) => m.account <= created
    /\ \A c \in Call : ToClose(calls[c]) => calls[c].account <= created

Separate == Apart /\ OneEach /\ OwnInvoice /\ Numbered
IInv == Types /\ Separate /\ InOrder

\* A step that opens no invoice and closes none, and moves accounts only from
\* the messages to the list.
LEMMA KeepsSeparate ==
    ASSUME Separate,
           UNCHANGED <<invoice, created, given>>,
           \A e \in Range(used') :
               \/ \E d \in Range(used) : e.account = d.account
               \/ \E m \in Range(inbox) : PushOf(m) /\ e.account = m.account,
           \A m \in Range(inbox') : PushOf(m) => m \in Range(inbox),
           \A c \in Call : ToClose(calls'[c]) =>
               /\ ToClose(calls[c])
               /\ calls'[c].account = calls[c].account
               /\ calls'[c].who = calls[c].who
    PROVE  Separate'
<1>1. Apart'
  BY DEF Separate, Apart
<1>2. OneEach' /\ OwnInvoice'
  BY DEF Separate, OneEach, OwnInvoice
<1>3. Numbered'
  BY DEF Separate, Numbered
<1> QED  BY <1>1, <1>2, <1>3 DEF Separate

-----------------------------------------------------------------------------
(* Each step keeps the invariant.                                          *)

LEMMA TokensKeep ==
    ASSUME IInv, NEW p \in Client, NEW q \in Client, NEW v \in Int,
           Mint(p, v) \/ Send(p, q, v)
    PROVE  IInv'
<1>1. UNCHANGED <<used, invoice, inbox, calls, created, given>> /\ deviations \subseteq deviations'
  BY DEF Mint, Send, Deviates
<1>2. balance' \in [Client -> Int]
  <2>1. balance \in [Client -> Int] /\ balance[p] \in Int /\ balance[q] \in Int
    BY DEF IInv, Types
  <2>2. CASE Mint(p, v)
    BY <2>1, <2>2 DEF Mint, Minted
  <2>3. CASE Send(p, q, v)
    <3>1. balance' = [balance EXCEPT ![p] = balance[p] - v, ![q] = balance[q] + v]
      BY <2>3 DEF Send
    <3>2. balance[p] - v \in Int /\ balance[q] + v \in Int
      BY <2>1
    <3> QED  BY <2>1, <3>1, <3>2
  <2> QED  BY <2>2, <2>3
<1>3. Types' /\ InOrder'
  BY <1>1, <1>2 DEF IInv, Types, InOrder
<1>4. Separate'
  BY <1>1, KeepsSeparate DEF IInv
<1> QED  BY <1>3, <1>4 DEF IInv

LEMMA CreateInvoiceKeeps ==
    ASSUME IInv, NEW c \in Call, NEW who \in Client, CreateInvoice(c, who)
    PROVE  IInv'
<1>1. UNCHANGED <<books, invoice, inbox, created, given, deviations>> /\ calls[c].pc = "idle"
  BY DEF CreateInvoice, history
<1>2. /\ calls' \in [Call -> CallState] /\ calls'[c].pc = "create"
      /\ \A d \in Call \ {c} : calls'[d] = calls[d]
  BY DEF CreateInvoice, IInv, Types, CallState
<1>3. Types' /\ InOrder'
  BY <1>1, <1>2 DEF IInv, Types, InOrder, books
<1>4. Separate'
  BY <1>1, <1>2, KeepsSeparate DEF IInv, books, ToClose
<1> QED  BY <1>3, <1>4 DEF IInv

LEMMA InvoiceCreatedKeeps ==
    ASSUME IInv, NEW c \in Call, InvoiceCreated(c)
    PROVE  IInv'
<1> DEFINE who == calls[c].who
<1>1. /\ UNCHANGED <<books, inbox, given, deviations>> /\ calls[c].pc = "create"
      /\ created' = created + 1 /\ created \in Nat
      /\ invoice' = [invoice EXCEPT ![who] = created + 1]
  BY DEF InvoiceCreated, history, IInv, Types
<1>2. who \in Client
  BY <1>1 DEF IInv, Types, CallState, Closing, Paying
<1>3. /\ calls' \in [Call -> CallState] /\ calls'[c].pc = "idle"
      /\ \A d \in Call \ {c} : calls'[d] = calls[d]
  BY DEF InvoiceCreated, Ends, Idle, IInv, Types, CallState
<1> HIDE DEF who
<1>4. /\ invoice' \in [Client -> Nat] /\ invoice'[who] = created + 1
      /\ \A p \in Client \ {who} : invoice'[p] = invoice[p]
  BY <1>1, <1>2 DEF IInv, Types
<1>5. Types' /\ InOrder'
  BY <1>1, <1>3, <1>4 DEF IInv, Types, InOrder, books
<1>6. used \in Seq(Entry) /\ inbox \in Seq(Message)
  BY DEF IInv, Types
<1>7. \A e \in Range(used) : e.account <= created \/ e.account \in given
  BY DEF IInv, Separate, Numbered
<1>8. \A m \in Range(inbox) : PushOf(m) => m.account <= created
  BY DEF IInv, Separate, Numbered
<1>9. \A e \in Range(used) : e.account \in Nat
  <2>1. \A e \in Range(used) : e \in Entry
    BY <1>6, MemberType
  <2> QED  BY <2>1 DEF Entry
<1>10. \A m \in Range(inbox) : PushOf(m) => m.account \in Nat
  <2>1. \A m \in Range(inbox) : m \in Message
    BY <1>6, MemberType
  <2> QED  BY <2>1 DEF Message, PushOf
<1>11. Apart'
  BY <1>1, <1>4, <1>7, <1>8, <1>9, <1>10 DEF IInv, Separate, Apart, books
<1>12. \A p \in Client : invoice[p] \in Nat /\ invoice[p] <= created
  BY DEF IInv, Types, Separate, Numbered
<1>13. OneEach'
  BY <1>1, <1>4, <1>12 DEF IInv, Separate, OneEach
<1>14. \A d \in Call : ToClose(calls'[d]) =>
           /\ calls'[d] = calls[d]
           /\ calls[d].account \in Nat /\ calls[d].account <= created
  BY <1>3 DEF IInv, Separate, Numbered, Types, ToClose, CallState, Closing, Paying
<1>15. OwnInvoice'
  BY <1>1, <1>2, <1>4, <1>14 DEF IInv, Separate, OwnInvoice
<1>16. Numbered'
  BY <1>1, <1>4, <1>7, <1>8, <1>9, <1>10, <1>12, <1>14 DEF Numbered, books
<1> QED  BY <1>5, <1>11, <1>13, <1>15, <1>16 DEF IInv, Separate

LEMMA CloseInvoiceKeeps ==
    ASSUME IInv, NEW c \in Call, NEW who \in Client, CloseInvoice(c, who)
    PROVE  IInv'
<1>1. UNCHANGED <<books, invoice, inbox, created, given, deviations>> /\ calls[c].pc = "idle"
  BY DEF CloseInvoice, history
<1>2. invoice[who] \in Nat
  BY DEF IInv, Types
<1>3. /\ calls' \in [Call -> CallState]
      /\ calls'[c] = [pc |-> "close", who |-> who, account |-> invoice[who]]
      /\ \A d \in Call \ {c} : calls'[d] = calls[d]
  BY <1>2 DEF CloseInvoice, IInv, Types, CallState, Closing
<1>4. Types' /\ InOrder'
  BY <1>1, <1>3 DEF IInv, Types, InOrder, books
<1>5. Apart' /\ OneEach'
  BY <1>1 DEF IInv, Separate, Apart, OneEach, books
<1>6. OwnInvoice'
  BY <1>1, <1>3 DEF IInv, Separate, OwnInvoice, OneEach, books
<1>7. Numbered'
  BY <1>1, <1>3 DEF IInv, Separate, Numbered, books
<1> QED  BY <1>4, <1>5, <1>6, <1>7 DEF IInv, Separate

LEMMA GetBalanceKeeps ==
    ASSUME IInv, NEW c \in Call, GetBalance(c)
    PROVE  IInv'
<1>1. UNCHANGED <<books, invoice, inbox, created, given, deviations>> /\ calls[c].pc = "close"
  BY DEF GetBalance, history
<1>2. PICK satoshi \in Value \cup {0} :
        calls' = [calls EXCEPT ![c] =
            [pc |-> "closing", who |-> calls[c].who, account |-> calls[c].account,
             balance |-> satoshi]]
  BY DEF GetBalance
<1>3. satoshi \in Int
  BY WrappedAssumption
<1>4. calls[c].who \in Client /\ calls[c].account \in Nat
  BY <1>1 DEF IInv, Types, CallState, Closing, Paying
<1> DEFINE next == [pc |-> "closing", who |-> calls[c].who, account |-> calls[c].account,
                    balance |-> satoshi]
<1>5. next \in CallState
  BY <1>3, <1>4 DEF CallState, Closing
<1>6. /\ next.pc = "closing" /\ next.who = calls[c].who /\ next.account = calls[c].account
      /\ calls' = [calls EXCEPT ![c] = next]
  BY <1>2
<1> HIDE DEF next
<1>7. /\ calls' \in [Call -> CallState] /\ calls'[c] = next
      /\ \A d \in Call \ {c} : calls'[d] = calls[d]
  BY <1>5, <1>6 DEF IInv, Types
<1>8. Types' /\ InOrder'
  BY <1>1, <1>6, <1>7 DEF IInv, Types, InOrder, books
<1>9. Separate'
  BY <1>1, <1>6, <1>7, KeepsSeparate DEF IInv, books, ToClose
<1> QED  BY <1>8, <1>9 DEF IInv

LEMMA InvoiceClosedKeeps ==
    ASSUME IInv, NEW c \in Call, InvoiceClosed(c)
    PROVE  IInv'
<1> DEFINE who == calls[c].who
           account == calls[c].account
<1>1. /\ UNCHANGED <<books, created, given>> /\ deviations \subseteq deviations'
      /\ calls[c].pc = "closing" /\ ToClose(calls[c])
      /\ invoice' = [invoice EXCEPT ![who] = NoAccount]
  BY DEF InvoiceClosed, Deviates, ToClose
<1>2. /\ who \in Client /\ account \in Nat
      /\ inbox' \in Seq(Message)
      /\ Range(inbox) \subseteq Range(inbox')
      /\ \A m \in Range(inbox') \ Range(inbox) :
            PushOf(m) => m.account = account /\ m.account # NoAccount
  BY ClosedInbox DEF IInv, PushOf
<1>3. /\ calls' \in [Call -> CallState] /\ calls'[c].pc = "idle"
      /\ \A d \in Call \ {c} : calls'[d] = calls[d]
  BY DEF InvoiceClosed, Ends, Idle, IInv, Types, CallState
<1>4. account <= created /\ \A q \in Client : account # NoAccount /\ invoice[q] = account => q = who
  BY <1>1 DEF IInv, Separate, Numbered, OwnInvoice
<1> HIDE DEF who, account
<1>5. /\ invoice' \in [Client -> Nat] /\ invoice'[who] = NoAccount
      /\ \A p \in Client \ {who} : invoice'[p] = invoice[p]
  BY <1>1, <1>2 DEF IInv, Types, NoAccount
<1>6. Types' /\ InOrder'
  BY <1>1, <1>2, <1>3, <1>5 DEF IInv, Types, InOrder, books
<1>7. Apart'
  BY <1>1, <1>2, <1>4, <1>5 DEF IInv, Separate, Apart, books
<1>8. OneEach'
  BY <1>5 DEF IInv, Separate, OneEach
<1>9. \A d \in Call : ToClose(calls'[d]) => ToClose(calls[d]) /\ calls'[d] = calls[d]
  BY <1>3 DEF ToClose
<1>10. OwnInvoice'
  BY <1>5, <1>9 DEF IInv, Separate, OwnInvoice
<1>11. \A p \in Client : invoice'[p] <= created
  <2>1. created \in Nat /\ \A p \in Client : invoice[p] <= created
    BY DEF IInv, Types, Separate, Numbered
  <2>2. 0 <= created
    BY <2>1
  <2> QED  BY <1>5, <2>1, <2>2 DEF NoAccount
<1>12. Numbered'
  BY <1>1, <1>2, <1>4, <1>9, <1>11 DEF IInv, Separate, Numbered, books
<1> QED  BY <1>6, <1>7, <1>8, <1>10, <1>12 DEF IInv, Separate

LEMMA InvoiceRejectedKeeps ==
    ASSUME IInv, NEW c \in Call, InvoiceRejected(c)
    PROVE  IInv'
<1>1. UNCHANGED <<books, invoice, inbox, created, given, deviations>> /\ calls[c].pc # "part"
  BY DEF InvoiceRejected, history
<1>2. /\ calls' \in [Call -> CallState] /\ calls'[c].pc = "idle"
      /\ \A d \in Call \ {c} : calls'[d] = calls[d]
  BY DEF InvoiceRejected, Ends, Idle, IInv, Types, CallState
<1>3. Types' /\ InOrder'
  BY <1>1, <1>2 DEF IInv, Types, InOrder, books
<1>4. Separate'
  BY <1>1, <1>2, KeepsSeparate DEF IInv, books, ToClose
<1> QED  BY <1>3, <1>4 DEF IInv

LEMMA ExecuteMessageKeeps == IInv /\ ExecuteMessage => IInv'
<1> SUFFICES ASSUME IInv, ExecuteMessage
             PROVE  IInv'
  OBVIOUS
<1> DEFINE message == Head(inbox)
<1>1. /\ inbox \in Seq(Message) /\ inbox # << >> /\ used \in Seq(Entry)
      /\ UNCHANGED <<invoice, calls, created, given, deviations>>
  BY DEF ExecuteMessage, IInv, Types
<1>2. message \in Message /\ message \in Range(inbox)
  BY <1>1, HeadMember
<1>3. Tail(inbox) \in Seq(Message) /\ Range(Tail(inbox)) \subseteq Range(inbox)
  BY <1>1, TailMembers
<1>4. CASE /\ message.method = "push"
           /\ InvoiceToUsedAccounts(message.account, message.amount)
           /\ inbox' = Append(Tail(inbox), [method |-> "sort"])
           /\ UNCHANGED balance
  <2> DEFINE entry == [account |-> message.account, amount |-> message.amount]
             sort == [method |-> "sort"]
             rest == Tail(inbox)
  <2>1. entry \in Entry /\ entry.account = message.account
    BY <1>2, <1>4 DEF Message, Entry
  <2>2. used' = <<entry>> \o used /\ inbox' = Append(rest, sort)
    BY <1>4 DEF InvoiceToUsedAccounts
  <2>3. sort \in Message /\ sort.method = "sort" /\ PushOf(message)
    BY <1>4 DEF Message, PushOf
  <2>4. rest \in Seq(Message) /\ Range(rest) \subseteq Range(inbox)
    BY <1>3
  <2> HIDE DEF entry, sort, rest, message
  <2>5. used' \in Seq(Entry) /\ Range(used') = {entry} \cup Range(used)
    BY <1>1, <2>1, <2>2, ConsMembers
  <2>6. inbox' \in Seq(Message) /\ Range(inbox') = {sort} \cup Range(rest)
    BY <2>2, <2>3, <2>4, AppendMembers
  <2>7. Types'
    BY <1>1, <1>4, <2>5, <2>6 DEF IInv, Types
  <2>8. InOrder'
    BY <2>3, <2>6 DEF InOrder
  <2>9. /\ \A e \in Range(used') :
              \/ \E d \in Range(used) : e.account = d.account
              \/ \E m \in Range(inbox) : PushOf(m) /\ e.account = m.account
        /\ \A m \in Range(inbox') : PushOf(m) => m \in Range(inbox)
    BY <1>2, <2>1, <2>3, <2>4, <2>5, <2>6 DEF PushOf
  <2>10. Separate'
    BY <1>1, <2>9, KeepsSeparate DEF IInv
  <2> QED  BY <2>7, <2>8, <2>10 DEF IInv
<1>5. CASE /\ message.method = "mint"
           /\ Minted(message.to, message.amount)
           /\ inbox' = Tail(inbox)
           /\ UNCHANGED used
  <2>1. message.to \in Client /\ message.amount \in Int
    BY <1>2, <1>5 DEF Message
  <2>2. Types'
    BY <1>1, <1>3, <1>5, <2>1 DEF Minted, IInv, Types
  <2>3. Separate'
    BY <1>1, <1>3, <1>5, KeepsSeparate DEF IInv
  <2>4. \A m \in Range(inbox) : m = message \/ m \in Range(inbox')
    <3>1. /\ Len(Tail(inbox)) = Len(inbox) - 1
          /\ \A i \in 1 .. Len(Tail(inbox)) : Tail(inbox)[i] = inbox[i + 1]
      BY <1>1, HeadTailProperties
    <3>2. /\ DOMAIN inbox = 1 .. Len(inbox) /\ Len(inbox) \in Nat
          /\ DOMAIN Tail(inbox) = 1 .. Len(Tail(inbox)) /\ message = inbox[1]
      BY <1>1, <1>3, LenProperties
    <3>3. \A i \in DOMAIN inbox : i # 1 => i - 1 \in DOMAIN Tail(inbox)
                                            /\ Tail(inbox)[i - 1] = inbox[i]
      BY <3>1, <3>2
    <3> QED  BY <1>5, <3>2, <3>3 DEF Range
  <2>5. InOrder'
    BY <1>1, <1>5, <2>4 DEF IInv, InOrder
  <2> QED  BY <2>2, <2>3, <2>5 DEF IInv
<1>6. CASE /\ message.method = "sort" /\ Sort /\ inbox' = Tail(inbox)
           /\ UNCHANGED balance
  <2>1. used' \in Sortings(used)
    BY <1>6 DEF Sort
  <2>2. used' \in Seq(Entry) /\ Range(used') \subseteq Range(used) /\ Descending(used')
    BY <1>1, <2>1, SortingsSort
  <2>3. Types' /\ InOrder'
    BY <1>1, <1>3, <1>6, <2>2 DEF IInv, Types, InOrder
  <2>4. Separate'
    BY <1>1, <1>3, <1>6, <2>2, KeepsSeparate DEF IInv
  <2> QED  BY <2>3, <2>4 DEF IInv
<1> QED  BY <1>4, <1>5, <1>6 DEF ExecuteMessage

LEMMA PushAccountKeeps ==
    ASSUME IInv, NEW account \in Nat, NEW v \in Int, PushAccount(account, v)
    PROVE  IInv'
<1> DEFINE entry == [account |-> account, amount |-> v]
           sort == [method |-> "sort"]
<1>1. /\ UNCHANGED <<balance, invoice, calls, created>> /\ deviations \subseteq deviations'
      /\ given' = given \cup {account}
      /\ used' = <<entry>> \o used /\ used \in Seq(Entry)
      /\ inbox' = Append(inbox, sort) /\ inbox \in Seq(Message)
  BY DEF PushAccount, InvoiceToUsedAccounts, Deviates, IInv, Types
<1>2. entry \in Entry /\ entry.account = account
  BY DEF Entry
<1>3. sort \in Message /\ sort.method = "sort"
  BY DEF Message
<1> HIDE DEF entry, sort
<1>4. used' \in Seq(Entry) /\ Range(used') = {entry} \cup Range(used)
  BY <1>1, <1>2, ConsMembers
<1>5. inbox' \in Seq(Message) /\ Range(inbox') = {sort} \cup Range(inbox)
  BY <1>1, <1>3, AppendMembers
<1>6. Types'
  BY <1>1, <1>4, <1>5 DEF IInv, Types
<1>7. InOrder'
  BY <1>3, <1>5 DEF InOrder
<1>8. ~ PushOf(sort)
  BY <1>3 DEF PushOf
<1>9. Apart'
  BY <1>1, <1>2, <1>4, <1>5, <1>8 DEF IInv, Separate, Apart
<1>10. OneEach' /\ OwnInvoice'
  BY <1>1 DEF IInv, Separate, OneEach, OwnInvoice
<1>11. Numbered'
  BY <1>1, <1>2, <1>4, <1>5, <1>8 DEF IInv, Separate, Numbered
<1> QED  BY <1>6, <1>7, <1>9, <1>10, <1>11 DEF IInv, Separate

LEMMA SortAccountsKeeps == IInv /\ SortAccounts => IInv'
<1> SUFFICES ASSUME IInv, SortAccounts
             PROVE  IInv'
  OBVIOUS
<1>1. UNCHANGED <<balance, invoice, inbox, calls, created, given>> /\ used' \in Sortings(used)
  BY DEF SortAccounts, Sort, history
<1>2. used' \in Seq(Entry) /\ Range(used') \subseteq Range(used) /\ Descending(used')
  BY <1>1, SortingsSort DEF IInv, Types
<1>3. Types' /\ InOrder'
  BY <1>1, <1>2 DEF IInv, Types, InOrder
<1>4. Separate'
  BY <1>1, <1>2, KeepsSeparate DEF IInv
<1> QED  BY <1>3, <1>4 DEF IInv

-----------------------------------------------------------------------------
(* Unwrapping.                                                             *)

LEMMA TurnKeeps ==
    ASSUME IInv, NEW c \in Call, NEW call,
           call.who \in Client, call.amount \in Int, call.b \in Int, call.leftover \in Int,
           TakesTurn(c, call), calls[c].pc # "part",
           UNCHANGED <<invoice, inbox, created, given>>
    PROVE  IInv'
<1>1. /\ balance' \in [Client -> Int]
      /\ used' \in Seq(Entry)
      /\ \A e \in Range(used') : \E d \in Range(used) : e.account = d.account
      /\ calls' \in [Call -> CallState]
      /\ calls'[c].pc \in {"idle", "whole", "last", "part"}
      /\ \/ calls'[c].pc = "part"
         \/ used' = used
         \/ used # << >> /\ used' = Tail(used)
      /\ \A d \in Call \ {c} : calls'[d] = calls[d]
      /\ deviations \subseteq deviations'
  BY TurnTypes DEF IInv
<1>2. Types'
  BY <1>1 DEF IInv, Types
<1>3. Separate'
  BY <1>1, KeepsSeparate DEF IInv, ToClose
<1>4. calls'[c].pc = "part" \/ (Descending(used) => Descending(used'))
  BY <1>1, TailDescends DEF IInv, Types
<1>5. InOrder'
  BY <1>1, <1>4 DEF IInv, InOrder
<1> QED  BY <1>2, <1>3, <1>5 DEF IInv

LEMMA UnwrapKeeps ==
    ASSUME IInv, NEW c \in Call, NEW who \in Client, NEW amount \in Int,
           Unwrap(c, who, amount)
    PROVE  IInv'
<1> DEFINE call == [who |-> who, amount |-> amount, b |-> balance[who], leftover |-> amount]
<1>1. /\ TakesTurn(c, call) /\ calls[c].pc = "idle"
      /\ UNCHANGED <<invoice, inbox, created, given>>
  BY DEF Unwrap
<1>2. balance[who] \in Int
  BY DEF IInv, Types
<1>3. call.who \in Client /\ call.amount \in Int /\ call.b \in Int /\ call.leftover \in Int
  BY <1>2
<1> HIDE DEF call
<1> QED  BY <1>1, <1>3, TurnKeeps

LEMMA PayingType ==
    ASSUME IInv, NEW c \in Call, calls[c].pc \in {"whole", "last", "part"}
    PROVE  calls[c] \in Paying
<1> QED  BY DEF IInv, Types, CallState, Closing, Paying

LEMMA TransferWholeKeeps ==
    ASSUME IInv, NEW c \in Call, TransferWhole(c)
    PROVE  IInv'
<1>1. /\ TakesTurn(c, calls[c]) /\ calls[c].pc = "whole"
      /\ UNCHANGED <<invoice, inbox, created, given>>
  BY DEF TransferWhole
<1>2. calls[c] \in Paying
  BY <1>1, PayingType
<1>3. /\ calls[c].who \in Client /\ calls[c].amount \in Int
      /\ calls[c].b \in Int /\ calls[c].leftover \in Int
  BY <1>2 DEF Paying
<1> QED  BY <1>1, <1>3, TurnKeeps

LEMMA TransferLastKeeps ==
    ASSUME IInv, NEW c \in Call, TransferLast(c)
    PROVE  IInv'
<1>1. /\ UNCHANGED <<used, invoice, created, given>> /\ deviations \subseteq deviations'
      /\ calls[c].pc \in {"last", "part"}
      /\ inbox' = inbox \o Sorts(calls[c]) /\ inbox \in Seq(Message)
  BY DEF TransferLast, Deviates, IInv, Types
<1>2. calls[c] \in Paying
  BY <1>1, PayingType
<1>3. balance' \in [Client -> Int]
  BY <1>2 DEF TransferLast, Debit, IInv, Types, Paying
<1>4. /\ calls' \in [Call -> CallState] /\ calls'[c].pc = "idle"
      /\ \A d \in Call \ {c} : calls'[d] = calls[d]
  BY DEF TransferLast, Ends, Idle, IInv, Types, CallState
<1> DEFINE sort == [method |-> "sort"]
<1>5. /\ inbox' \in Seq(Message)
      /\ Range(inbox) \subseteq Range(inbox')
      /\ \A m \in Range(inbox') : m \in Range(inbox) \/ m = sort
      /\ calls[c].pc = "part" => sort \in Range(inbox')
  <2>1. sort \in Message
    BY DEF Message
  <2>2. CASE calls[c].pc = "part"
    <3>1. inbox' = inbox \o <<sort>>
      BY <1>1, <2>2 DEF Sorts
    <3> HIDE DEF sort
    <3>2. inbox' \in Seq(Message) /\ Range(inbox') = {sort} \cup Range(inbox)
      BY <1>1, <2>1, <3>1, ConsMembers
    <3> QED  BY <3>2
  <2>3. CASE calls[c].pc # "part"
    <3>1. inbox' = inbox
      BY <1>1, <2>3, ConcatEmptySeq DEF Sorts
    <3> QED  BY <1>1, <2>3, <3>1
  <2> QED  BY <2>2, <2>3
<1>6. sort.method = "sort" /\ ~ PushOf(sort)
  BY DEF PushOf
<1> HIDE DEF sort
<1>7. Types'
  BY <1>1, <1>3, <1>4, <1>5 DEF IInv, Types
<1>8. InOrder'
  BY <1>1, <1>4, <1>5, <1>6 DEF IInv, InOrder
<1>9. Separate'
  BY <1>1, <1>4, <1>5, <1>6, KeepsSeparate DEF IInv, ToClose
<1> QED  BY <1>7, <1>8, <1>9 DEF IInv

LEMMA TransferFailsKeeps ==
    ASSUME IInv, NEW c \in Call, TransferFails(c)
    PROVE  IInv'
<1>1. UNCHANGED <<books, invoice, inbox, created, given>> /\ "failed" \in deviations'
  BY DEF TransferFails, Deviates
<1>2. /\ calls' \in [Call -> CallState] /\ calls'[c].pc = "idle"
      /\ \A d \in Call \ {c} : calls'[d] = calls[d]
  BY DEF TransferFails, Ends, Idle, IInv, Types, CallState
<1>3. Types' /\ InOrder'
  BY <1>1, <1>2 DEF IInv, Types, InOrder, books
<1>4. Separate'
  BY <1>1, <1>2, KeepsSeparate DEF IInv, books, ToClose
<1> QED  BY <1>3, <1>4 DEF IInv

-----------------------------------------------------------------------------
(* The theorems.                                                           *)

LEMMA InitIInv == Init => IInv
<1> SUFFICES ASSUME Init PROVE IInv
  OBVIOUS
<1>1. Range(used) = {} /\ Range(inbox) = {} /\ used = << >>
  BY DEF Init, Range
<1>2. Types
  BY DEF Init, Types, CallState, Idle, NoAccount
<1>3. InOrder
  BY DEF Init, InOrder, Descending
<1>4. \A c \in Call : calls[c].pc = "idle"
  BY DEF Init, Idle
<1>5. Separate
  BY <1>1, <1>4 DEF Init, Separate, Apart, OneEach, OwnInvoice, Numbered, ToClose, NoAccount
<1> QED  BY <1>2, <1>3, <1>5 DEF IInv

LEMMA NextIInv == IInv /\ [Next]_vars => IInv'
<1> SUFFICES ASSUME IInv, [Next]_vars
             PROVE  IInv'
  OBVIOUS
<1>0. (\A v \in Value \cup Amount : v \in Int) /\ \A a \in Account : a \in Nat
  BY WrappedAssumption DEF Account
<1>1. ASSUME NEW p \in Client, NEW v \in Value, Mint(p, v)
      PROVE  IInv'
  BY <1>0, <1>1, TokensKeep
<1>2. ASSUME NEW p \in Client, NEW q \in Client, NEW v \in Amount, Send(p, q, v)
      PROVE  IInv'
  BY <1>0, <1>2, TokensKeep
<1>3. ASSUME NEW a \in Account, NEW v \in Value, PushAccount(a, v)
      PROVE  IInv'
  BY <1>0, <1>3, PushAccountKeeps
<1>4. CASE SortAccounts
  BY <1>4, SortAccountsKeeps
<1>5. CASE ExecuteMessage
  BY <1>5, ExecuteMessageKeeps
<1>6. ASSUME NEW c \in Call, NEW p \in Client, CreateInvoice(c, p) \/ CloseInvoice(c, p)
      PROVE  IInv'
  BY <1>6, CreateInvoiceKeeps, CloseInvoiceKeeps
<1>7. ASSUME NEW c \in Call,
             InvoiceCreated(c) \/ GetBalance(c) \/ InvoiceClosed(c) \/ InvoiceRejected(c)
      PROVE  IInv'
  BY <1>7, InvoiceCreatedKeeps, GetBalanceKeeps, InvoiceClosedKeeps, InvoiceRejectedKeeps
<1>8. ASSUME NEW c \in Call, NEW p \in Client, NEW v \in Amount, Unwrap(c, p, v)
      PROVE  IInv'
  BY <1>0, <1>8, UnwrapKeeps
<1>9. ASSUME NEW c \in Call, TransferWhole(c) \/ TransferLast(c) \/ TransferFails(c)
      PROVE  IInv'
  BY <1>9, TransferWholeKeeps, TransferLastKeeps, TransferFailsKeeps
<1>10. CASE UNCHANGED vars
  BY <1>10 DEF vars, books, history, IInv, Types, Separate, Apart, OneEach, OwnInvoice,
               Numbered, InOrder
<1> QED  BY <1>1, <1>2, <1>3, <1>4, <1>5, <1>6, <1>7, <1>8, <1>9, <1>10 DEF Next

LEMMA IInvProperties == IInv => UsedNotOpen /\ SortedUnlessUnderWay
<1> SUFFICES ASSUME IInv PROVE UsedNotOpen /\ SortedUnlessUnderWay
  OBVIOUS
<1>1. \A i \in DOMAIN used : used[i] \in Range(used)
  BY DEF Range
<1>2. \A i \in DOMAIN inbox : inbox[i] \in Range(inbox)
  BY DEF Range
<1>3. UsedNotOpen
  BY <1>1, <1>2 DEF IInv, Separate, Apart, UsedNotOpen, Opened, Closed, Recorded, Pending, PushOf
<1>4. SortedUnlessUnderWay
  <2>1. CASE \E m \in Range(inbox) : m.method \in {"push", "sort"}
    <3>1. PICK i \in DOMAIN inbox : inbox[i].method \in {"push", "sort"}
      BY <2>1 DEF Range
    <3> QED  BY <3>1 DEF SortedUnlessUnderWay, Pending
  <2>2. CASE \E c \in Call : calls[c].pc = "part"
    BY <2>2 DEF SortedUnlessUnderWay, At
  <2>3. CASE Descending(used) \/ "failed" \in deviations
    BY <2>3 DEF SortedUnlessUnderWay
  <2> QED  BY <2>1, <2>2, <2>3 DEF IInv, InOrder
<1> QED  BY <1>3, <1>4

\* Balances, invoices, accounts, messages and open calls keep their types; every
\* message and every open call has the fields its handler reads.
THEOREM WrappedTypes == Spec => []Types
<1>1. IInv => Types
  BY DEF IInv
<1> QED  BY <1>1, InitIInv, NextIInv, PTL DEF Spec

\* An open invoice is never a used account, nor about to be one, whatever
\* calls of create_or_view_current_deposit_invoice and close_invoice overlap,
\* unless a client has put that account into the list.
THEOREM UsedNeverOpen == Spec => []UsedNotOpen
<1> QED  BY InitIInv, NextIInv, IInvProperties, PTL DEF Spec

\* The used accounts are in order, unless a message or a call that sorts them
\* is under way or a transfer has failed.
THEOREM AlwaysSorted == Spec => []SortedUnlessUnderWay
<1> QED  BY InitIInv, NextIInv, IInvProperties, PTL DEF Spec

-----------------------------------------------------------------------------
(* Sums.                                                                   *)

LEMMA NatSetInduction ==
    ASSUME NEW T, 0 \in T, \A n \in Nat : n \in T => n + 1 \in T
    PROVE  Nat \subseteq T
<1> SUFFICES ASSUME Nat \ T # {} PROVE FALSE
  OBVIOUS
<1> DEFINE R == OpToRel(<, Nat)
           U == Nat \ T
<1>1. IsWellFoundedOn(R, Nat)
  BY NatLessThanWellFounded
<1>2. \A x, y \in Nat : x < y => <<x, y>> \in R
  BY DEF OpToRel
<1> HIDE DEF R
<1>3. PICK m \in U : \A y \in U : ~ (<<y, m>> \in R)
  BY <1>1, WFMin
<1>4. m # 0 /\ m \in Nat
  OBVIOUS
<1>5. m - 1 \in Nat /\ m - 1 < m
  BY <1>4
<1>6. m - 1 \in T
  BY <1>2, <1>3, <1>4, <1>5
<1> QED  BY <1>4, <1>5, <1>6

\* What holds of a set if it holds of it less any element holds of all
\* subsets of a finite set.
LEMMA SubsetInduction ==
    ASSUME NEW S, IsFiniteSet(S), NEW P, {} \in P,
           \A s \in SUBSET S : s # {} /\ (\A x \in s : s \ {x} \in P) => s \in P
    PROVE  \A s \in SUBSET S : s \in P
<1> DEFINE T == {n \in Nat : \A s \in SUBSET S : Cardinality(s) = n => s \in P}
<1>1. \A s \in SUBSET S : IsFiniteSet(s) /\ Cardinality(s) \in Nat
  BY FS_Subset, FS_CardinalityType
<1>2. 0 \in T
  BY <1>1, FS_EmptySet
<1>3. ASSUME NEW n \in Nat, n \in T PROVE n + 1 \in T
  <2>1. \A s \in SUBSET S : Cardinality(s) = n => s \in P
    BY <1>3
  <2>2. ASSUME NEW s \in SUBSET S, Cardinality(s) = n + 1 PROVE s \in P
    <3>1. s # {}
      <4>1. Cardinality({}) = 0 /\ n + 1 # 0
        BY FS_EmptySet
      <4> QED  BY <2>2, <4>1
    <3>2. ASSUME NEW x \in s PROVE s \ {x} \in P
      <4>1. s \ {x} \in SUBSET S /\ Cardinality(s \ {x}) = n
        BY <1>1, <2>2, FS_RemoveElement
      <4> QED  BY <2>1, <4>1
    <3> QED  BY <3>1, <3>2
  <2> QED  BY <2>2
<1> HIDE DEF T
<1>4. \A n \in Nat : n \in T
  BY <1>2, <1>3, NatSetInduction
<1>5. ASSUME NEW s \in SUBSET S PROVE s \in P
  <2>1. Cardinality(s) \in T
    BY <1>1, <1>4
  <2> QED  BY <2>1 DEF T
<1> QED  BY <1>5

\* The sums of all subsets of S, each taken one element after the other.
Taken(s) == CHOOSE x \in s : TRUE
IsSum(g, f, S) ==
    g = [s \in SUBSET S |-> IF s = {} THEN 0 ELSE f[Taken(s)] + g[s \ {Taken(s)}]]

LEMMA SumDef ==
    ASSUME NEW f, NEW S
    PROVE  SumFunctionOnSet(f, S) = (CHOOSE g : IsSum(g, f, S))[S]
BY DEF SumFunctionOnSet, FoldFunctionOnSet, MapThenFoldSet, IsSum, Taken

LEMMA SumExists ==
    ASSUME NEW S, IsFiniteSet(S), NEW f
    PROVE  \E g : IsSum(g, f, S) /\ SumFunctionOnSet(f, S) = g[S]
<1> DEFINE D(n) == {s \in SUBSET S : Cardinality(s) <= n}
           Less(s) == s \ {Taken(s)}
           Number(s) == f[Taken(s)]
           Is(g, n) == g = [s \in D(n) |-> IF s = {} THEN 0 ELSE Number(s) + g[Less(s)]]
           T == {n \in Nat : \E g : Is(g, n)}
           N == Cardinality(S)
<1>1. \A s \in SUBSET S : IsFiniteSet(s) /\ Cardinality(s) \in Nat /\ Cardinality(s) <= N
  BY FS_Subset, FS_CardinalityType
<1>2. \A s \in SUBSET S : s # {} => Taken(s) \in s
  BY DEF Taken
<1>3. \A s \in SUBSET S : s # {} => Less(s) \in SUBSET S /\ Cardinality(Less(s)) = Cardinality(s) - 1
  <2> SUFFICES ASSUME NEW s \in SUBSET S, s # {}
               PROVE  Less(s) \in SUBSET S /\ Cardinality(Less(s)) = Cardinality(s) - 1
    OBVIOUS
  <2> DEFINE x == Taken(s)
  <2>1. x \in s /\ IsFiniteSet(s)
    BY <1>1, <1>2
  <2> HIDE DEF x
  <2>2. Cardinality(s \ {x}) = Cardinality(s) - 1
    BY <2>1, FS_RemoveElement
  <2> QED  BY <2>2 DEF x
<1> HIDE DEF Less, Number
<1>4. 0 \in T
  <2> DEFINE g == [s \in D(0) |-> 0]
  <2>1. \A s \in D(0) : s = {}
    <3> SUFFICES ASSUME NEW s \in D(0) PROVE s = {}
      OBVIOUS
    <3>1. IsFiniteSet(s) /\ Cardinality(s) = 0
      BY <1>1
    <3> QED  BY <3>1, FS_EmptySet
  <2>2. g = [s \in D(0) |-> IF s = {} THEN 0 ELSE Number(s) + g[Less(s)]]
    BY <2>1
  <2> QED  BY <2>2
<1>5. ASSUME NEW n \in Nat, n \in T PROVE n + 1 \in T
  <2>1. PICK g : Is(g, n)
    BY <1>5
  <2> DEFINE h == [s \in D(n + 1) |-> IF s \in D(n) THEN g[s] ELSE Number(s) + g[Less(s)]]
  <2>2. \A s \in D(n) : g[s] = IF s = {} THEN 0 ELSE Number(s) + g[Less(s)]
    BY <2>1
  <2>3. \A s \in D(n + 1) : s # {} => Less(s) \in D(n)
    BY <1>1, <1>3
  <2>4. \A s \in D(n) : s \in D(n + 1) /\ h[s] = g[s]
    BY <1>1
  <2>5. {} \in D(n)
    BY FS_EmptySet
  <2> HIDE DEF Is
  <2>6. ASSUME NEW s \in D(n + 1)
        PROVE  h[s] = IF s = {} THEN 0 ELSE Number(s) + h[Less(s)]
    <3>1. s # {} => h[Less(s)] = g[Less(s)]
      BY <2>3, <2>4
    <3>2. CASE s \in D(n)
      <4> HIDE DEF h, D
      <4> QED  BY <2>2, <2>4, <3>1, <3>2
    <3>3. CASE s \notin D(n)
      <4>1. s # {} /\ h[s] = Number(s) + g[Less(s)]
        BY <2>5, <3>3
      <4> HIDE DEF h, D
      <4> QED  BY <3>1, <4>1
    <3> QED  BY <3>2, <3>3
  <2>7. h = [s \in D(n + 1) |-> h[s]]
    OBVIOUS
  <2> HIDE DEF h, D
  <2>8. h = [s \in D(n + 1) |-> IF s = {} THEN 0 ELSE Number(s) + h[Less(s)]]
    BY <2>6, <2>7
  <2> QED  BY <2>8 DEF Is
<1>6. N \in Nat
  BY FS_CardinalityType
<1>7. D(N) = SUBSET S
  BY <1>1
<1> HIDE DEF T, N, D
<1>8. N \in T
  BY <1>4, <1>5, <1>6, NatSetInduction
<1>9. PICK g : Is(g, N)
  BY <1>8 DEF T
<1>10. IsSum(g, f, S)
  BY <1>7, <1>9 DEF IsSum, Less, Number
<1>11. IsSum(CHOOSE h : IsSum(h, f, S), f, S)
  BY <1>10
<1> QED  BY <1>11, SumDef

\* The sum of a subset does not depend on the set it is a subset of.
LEMMA SumUnique ==
    ASSUME NEW S, NEW T \in SUBSET S, IsFiniteSet(T), NEW f, NEW g, NEW h,
           IsSum(g, f, S), IsSum(h, f, T)
    PROVE  g[T] = h[T]
<1> DEFINE P == {s \in SUBSET T : g[s] = h[s]}
<1>1. \A s \in SUBSET S : g[s] = IF s = {} THEN 0 ELSE f[Taken(s)] + g[s \ {Taken(s)}]
  BY DEF IsSum
<1>2. \A s \in SUBSET T : h[s] = IF s = {} THEN 0 ELSE f[Taken(s)] + h[s \ {Taken(s)}]
  BY DEF IsSum
<1>3. {} \in P
  BY <1>1, <1>2
<1>4. ASSUME NEW s \in SUBSET T, s # {}, \A x \in s : s \ {x} \in P PROVE s \in P
  <2> DEFINE x == Taken(s)
  <2>1. x \in s
    BY <1>4 DEF Taken
  <2>2. s \in SUBSET S /\ g[s] = f[x] + g[s \ {x}] /\ h[s] = f[x] + h[s \ {x}]
    BY <1>1, <1>2, <1>4
  <2> HIDE DEF x
  <2>3. g[s \ {x}] = h[s \ {x}]
    BY <1>4, <2>1
  <2> QED  BY <2>2, <2>3
<1> HIDE DEF P
<1>5. T \in P
  BY <1>3, <1>4, SubsetInduction
<1> QED  BY <1>5 DEF P

\* It does not matter which element is taken first.
LEMMA SumStep ==
    ASSUME NEW S, IsFiniteSet(S), NEW f, \A x \in S : f[x] \in Int,
           NEW g, IsSum(g, f, S)
    PROVE  \A s \in SUBSET S : g[s] \in Int /\ \A x \in s : g[s] = f[x] + g[s \ {x}]
<1> DEFINE Q(s) == g[s] \in Int /\ \A x \in s : g[s] = f[x] + g[s \ {x}]
           P == {s \in SUBSET S : \A t \in SUBSET s : Q(t)}
<1>1. \A s \in SUBSET S : g[s] = IF s = {} THEN 0 ELSE f[Taken(s)] + g[s \ {Taken(s)}]
  BY DEF IsSum
<1>2. {} \in P
  <2>1. g[{}] = 0
    BY <1>1
  <2>2. Q({})
    BY <2>1
  <2> HIDE DEF Q
  <2> QED  BY <2>2
<1>3. ASSUME NEW s \in SUBSET S, s # {}, \A x \in s : s \ {x} \in P PROVE s \in P
  <2> DEFINE c == Taken(s)
  <2>1. c \in s /\ g[s] = f[c] + g[s \ {c}] /\ f[c] \in Int
    BY <1>1, <1>3 DEF Taken
  <2> HIDE DEF c
  <2>2. \A x \in s : \A t \in SUBSET (s \ {x}) : Q(t)
    BY <1>3
  <2> HIDE DEF P
  <2>3. g[s \ {c}] \in Int
    BY <2>1, <2>2
  <2>4. ASSUME NEW x \in s PROVE g[s] = f[x] + g[s \ {x}]
    <3>1. CASE x = c
      BY <2>1, <3>1
    <3>2. CASE x # c
      <4> DEFINE both == g[(s \ {c}) \ {x}]
                 vx == f[x]
                 vc == f[c]
      <4>1. x \in s \ {c} /\ c \in s \ {x} /\ (s \ {c}) \ {x} = (s \ {x}) \ {c}
        BY <2>1, <3>2
      <4>2. Q(s \ {c}) /\ Q(s \ {x}) /\ Q((s \ {c}) \ {x})
        BY <2>1, <2>2, <4>1
      <4>3. g[s \ {c}] = vx + both /\ g[s \ {x}] = vc + both /\ both \in Int
        BY <4>1, <4>2
      <4>4. vx \in Int /\ vc \in Int
        BY <2>1
      <4> HIDE DEF both, vx, vc
      <4>5. g[s] = vc + (vx + both) /\ vc + (vx + both) = vx + (vc + both)
        BY <2>1, <4>3, <4>4 DEF vc
      <4> QED  BY <4>3, <4>5 DEF vx
    <3> QED  BY <3>1, <3>2
  <2>5. Q(s)
    <3> DEFINE y == g[s \ {c}]
               z == f[c]
    <3>1. y \in Int /\ z \in Int /\ g[s] = z + y
      BY <2>1, <2>3
    <3> HIDE DEF y, z
    <3>2. g[s] \in Int
      BY <3>1
    <3> QED  BY <2>4, <3>2
  <2>6. \A t \in SUBSET s : t = s \/ \E x \in s : t \in SUBSET (s \ {x})
    OBVIOUS
  <2> HIDE DEF Q
  <2>7. \A t \in SUBSET s : Q(t)
    BY <2>2, <2>5, <2>6
  <2> QED  BY <2>7 DEF P
<1> HIDE DEF P, Q
<1>4. S \in P
  <2>1. \A s \in SUBSET S : s # {} /\ (\A x \in s : s \ {x} \in P) => s \in P
    BY <1>3
  <2>2. \A s \in SUBSET S : s \in P
    BY ONLY <1>2, <2>1, IsFiniteSet(S), SubsetInduction
  <2> QED  BY <2>2
<1>5. \A s \in SUBSET S : Q(s)
  BY <1>4 DEF P
<1> QED  BY <1>5 DEF Q

\* What is needed to know of a sum.
LEMMA SumFacts ==
    ASSUME NEW S, IsFiniteSet(S), NEW f, \A x \in S : f[x] \in Int
    PROVE  /\ SumFunctionOnSet(f, S) \in Int
           /\ S = {} => SumFunctionOnSet(f, S) = 0
           /\ \A x \in S : SumFunctionOnSet(f, S) = f[x] + SumFunctionOnSet(f, S \ {x})
<1>1. PICK g : IsSum(g, f, S) /\ SumFunctionOnSet(f, S) = g[S]
  BY SumExists
<1>2. g[S] \in Int /\ \A x \in S : g[S] = f[x] + g[S \ {x}]
  BY <1>1, SumStep
<1>3. S = {} => g[S] = 0
  BY <1>1 DEF IsSum
<1>4. ASSUME NEW x \in S PROVE g[S \ {x}] = SumFunctionOnSet(f, S \ {x})
  <2> DEFINE T == S \ {x}
  <2>1. T \in SUBSET S /\ IsFiniteSet(T)
    BY FS_RemoveElement
  <2> HIDE DEF T
  <2>2. PICK h : IsSum(h, f, T) /\ SumFunctionOnSet(f, T) = h[T]
    BY <2>1, SumExists
  <2>3. g[T] = h[T]
    BY <1>1, <2>1, <2>2, SumUnique
  <2> QED  BY <2>2, <2>3 DEF T
<1> QED  BY <1>1, <1>2, <1>3, <1>4

LEMMA SumZero ==
    ASSUME NEW S, IsFiniteSet(S), NEW f, \A x \in S : f[x] = 0
    PROVE  SumFunctionOnSet(f, S) = 0
<1> DEFINE P == {s \in SUBSET S : SumFunctionOnSet(f, s) = 0}
<1>1. \A s \in SUBSET S : IsFiniteSet(s)
  BY FS_Subset
<1>2. {} \in P
  BY <1>1, SumFacts
<1>3. ASSUME NEW s \in SUBSET S, s # {}, \A x \in s : s \ {x} \in P PROVE s \in P
  <2>1. PICK x \in s : TRUE
    BY <1>3
  <2>2. SumFunctionOnSet(f, s) = f[x] + SumFunctionOnSet(f, s \ {x})
    <3>1. IsFiniteSet(s) /\ \A y \in s : f[y] \in Int
      BY <1>1
    <3> HIDE DEF P
    <3> QED  BY <3>1, SumFacts
  <2>3. SumFunctionOnSet(f, s \ {x}) = 0 /\ f[x] = 0
    BY <1>3
  <2> QED  BY <2>2, <2>3
<1> HIDE DEF P
<1>4. S \in P
  BY <1>2, <1>3, SubsetInduction
<1> QED  BY <1>4 DEF P

\* The same numbers at other places have the same sum.
LEMMA SumMoved ==
    ASSUME NEW S, IsFiniteSet(S), NEW f, NEW k, NEW h,
           \A x \in S : f[x] \in Int /\ k[h[x]] = f[x],
           \A x, y \in S : h[x] = h[y] => x = y
    PROVE  SumFunctionOnSet(f, S) = SumFunctionOnSet(k, {h[x] : x \in S})
<1> DEFINE Im(s) == {h[x] : x \in s}
           P == {s \in SUBSET S : IsFiniteSet(Im(s))
                                    /\ SumFunctionOnSet(f, s) = SumFunctionOnSet(k, Im(s))}
<1>1. \A s \in SUBSET S : IsFiniteSet(s)
  BY FS_Subset
<1>2. {} \in P
  <2>1. IsFiniteSet({})
    BY FS_EmptySet
  <2>2. SumFunctionOnSet(f, {}) = 0 /\ SumFunctionOnSet(k, {}) = 0
    BY <2>1, SumFacts
  <2>3. Im({}) = {}
    OBVIOUS
  <2> HIDE DEF Im
  <2> QED  BY <2>1, <2>2, <2>3
<1>3. ASSUME NEW s \in SUBSET S, s # {}, \A x \in s : s \ {x} \in P PROVE s \in P
  <2>1. PICK x \in s : TRUE
    BY <1>3
  <2> DEFINE r == s \ {x}
             y == h[x]
  <2>2. Im(s) = Im(r) \cup {y} /\ y \notin Im(r) /\ Im(s) \ {y} = Im(r)
    <3>1. \A w \in r : h[w] # y
      OBVIOUS
    <3> QED  BY <3>1
  <2>3. IsFiniteSet(Im(r)) /\ SumFunctionOnSet(f, r) = SumFunctionOnSet(k, Im(r))
    BY <1>3
  <2>4. \A z \in Im(s) : k[z] \in Int
    OBVIOUS
  <2>5. k[y] = f[x]
    OBVIOUS
  <2>6. SumFunctionOnSet(f, s) = f[x] + SumFunctionOnSet(f, r)
    BY <1>1, SumFacts
  <2> DEFINE A == Im(s)
             B == Im(r)
  <2> HIDE DEF y, A, B, Im, r
  <2>7. A = B \cup {y} /\ y \notin B /\ A \ {y} = B /\ IsFiniteSet(B) /\ \A z \in A : k[z] \in Int
    BY <2>2, <2>3, <2>4 DEF A, B
  <2>8. IsFiniteSet(A)
    BY <2>7, FS_AddElement
  <2>9. SumFunctionOnSet(k, A) = k[y] + SumFunctionOnSet(k, A \ {y})
    BY <2>7, <2>8, SumFacts
  <2>10. SumFunctionOnSet(f, s) = SumFunctionOnSet(k, A)
    BY <2>3, <2>5, <2>6, <2>7, <2>9 DEF B
  <2> QED  BY <2>8, <2>10 DEF A
<1> HIDE DEF P
<1>4. S \in P
  BY <1>2, <1>3, SubsetInduction
<1> QED  BY <1>4 DEF P

LEMMA SumSame ==
    ASSUME NEW S, IsFiniteSet(S), NEW f, NEW k, \A x \in S : f[x] \in Int /\ k[x] = f[x]
    PROVE  SumFunctionOnSet(f, S) = SumFunctionOnSet(k, S)
<1> DEFINE h == [x \in S |-> x]
<1>1. /\ \A x \in S : f[x] \in Int /\ k[h[x]] = f[x]
      /\ \A x, y \in S : h[x] = h[y] => x = y
  OBVIOUS
<1>2. {h[x] : x \in S} = S
  OBVIOUS
<1> HIDE DEF h
<1>3. SumFunctionOnSet(f, S) = SumFunctionOnSet(k, {h[x] : x \in S})
  BY <1>1, SumMoved
<1> QED  BY <1>2, <1>3

\* One number changes.
LEMMA SumChanged ==
    ASSUME NEW S, IsFiniteSet(S), NEW f, NEW k, NEW c \in S,
           \A x \in S : f[x] \in Int /\ k[x] \in Int,
           \A x \in S \ {c} : k[x] = f[x]
    PROVE  SumFunctionOnSet(k, S) = (SumFunctionOnSet(f, S) - f[c]) + k[c]
<1> DEFINE T == S \ {c}
           sf == SumFunctionOnSet(f, T)
           sk == SumFunctionOnSet(k, T)
<1>1. IsFiniteSet(T) /\ \A x \in T : f[x] \in Int /\ k[x] = f[x]
  BY FS_RemoveElement
<1>2. SumFunctionOnSet(f, S) = f[c] + sf /\ SumFunctionOnSet(k, S) = k[c] + sk
  BY SumFacts
<1> HIDE DEF T
<1>3. sf = sk /\ sf \in Int
  BY <1>1, SumSame, SumFacts
<1>4. f[c] \in Int /\ k[c] \in Int
  OBVIOUS
<1> HIDE DEF sf, sk
<1> QED  BY <1>2, <1>3, <1>4

-----------------------------------------------------------------------------
(* Sums over lists.                                                        *)

\* The sum of the weights of the members of a list.
ListSum(w, list) ==
    SumFunctionOnSet([i \in DOMAIN list |-> w[list[i]]], DOMAIN list)

LEMMA ListFinite ==
    ASSUME NEW S, NEW list \in Seq(S)
    PROVE  /\ DOMAIN list = 1 .. Len(list) /\ Len(list) \in Nat
           /\ IsFiniteSet(DOMAIN list)
           /\ \A i \in DOMAIN list : list[i] \in S
<1> DEFINE n == Len(list)
<1>1. DOMAIN list = 1 .. n /\ n \in Nat /\ 1 \in Int /\ n \in Int
  BY LenProperties
<1>2. \A i \in DOMAIN list : list[i] \in S
  BY ElementOfSeq, LenProperties
<1> HIDE DEF n
<1>3. IsFiniteSet(1 .. n)
  BY <1>1, FS_Interval
<1> QED  BY <1>1, <1>2, <1>3 DEF n

LEMMA ListSumInt ==
    ASSUME NEW S, NEW list \in Seq(S), NEW w, \A e \in S : w[e] \in Int
    PROVE  /\ ListSum(w, list) \in Int
           /\ list = << >> => ListSum(w, list) = 0
<1> DEFINE D == DOMAIN list
           f == [i \in D |-> w[list[i]]]
<1>1. IsFiniteSet(D) /\ \A i \in D : f[i] \in Int
  BY ListFinite
<1>2. list = << >> => D = {}
  OBVIOUS
<1> HIDE DEF D, f
<1>3. SumFunctionOnSet(f, D) \in Int /\ (D = {} => SumFunctionOnSet(f, D) = 0)
  BY <1>1, SumFacts
<1> QED  BY <1>2, <1>3 DEF f, D, ListSum

LEMMA ListSumCons ==
    ASSUME NEW S, NEW list \in Seq(S), NEW e \in S, NEW w, \A d \in S : w[d] \in Int
    PROVE  ListSum(w, <<e>> \o list) = w[e] + ListSum(w, list)
<1> DEFINE full == <<e>> \o list
           n == Len(list)
           D == 1 .. n
           E == 1 .. n + 1
           f == [i \in DOMAIN list |-> w[list[i]]]
           k == [i \in DOMAIN full |-> w[full[i]]]
           h == [i \in D |-> i + 1]
<1>1. full \in Seq(S) /\ Len(full) = n + 1 /\ n \in Nat
  <2>1. <<e>> \in Seq(S) /\ Len(<<e>>) = 1
    OBVIOUS
  <2> QED  BY <2>1, ConcatProperties, LenProperties
<1>2. full[1] = e /\ \A i \in D : full[i + 1] = list[i]
  BY <1>1, ConcatProperties
<1>3. DOMAIN list = D /\ DOMAIN full = E /\ IsFiniteSet(D) /\ IsFiniteSet(E)
  BY <1>1, ListFinite
<1>4. \A i \in E : full[i] \in S
  BY <1>1, <1>3, ListFinite
<1> HIDE DEF full
<1>5. \A i \in E : k[i] \in Int /\ k[i] = w[full[i]]
  BY <1>3, <1>4
<1>6. \A i \in D : f[i] \in Int /\ k[h[i]] = f[i]
  <2> SUFFICES ASSUME NEW i \in D PROVE f[i] \in Int /\ k[h[i]] = f[i]
    OBVIOUS
  <2>1. h[i] = i + 1 /\ i + 1 \in E /\ f[i] = w[list[i]] /\ list[i] \in S
    BY <1>1, <1>3, ListFinite
  <2> HIDE DEF k, h, f, E
  <2> QED  BY <1>2, <1>5, <2>1
<1>7. \A i, j \in D : h[i] = h[j] => i = j
  BY <1>1
<1>8. {h[i] : i \in D} = E \ {1} /\ 1 \in E
  <2>1. \A i \in E \ {1} : i - 1 \in D /\ h[i - 1] = i
    BY <1>1
  <2>2. \A i \in D : h[i] \in E \ {1}
    BY <1>1
  <2> HIDE DEF h
  <2>3. 1 \in E
    BY <1>1
  <2> HIDE DEF D, E
  <2> QED  BY <2>1, <2>2, <2>3
<1> HIDE DEF D, E, f, k, h, n
<1>9. SumFunctionOnSet(f, D) = SumFunctionOnSet(k, E \ {1})
  <2>1. SumFunctionOnSet(f, D) = SumFunctionOnSet(k, {h[i] : i \in D})
    <3>1. IsFiniteSet(D)
      BY <1>3
    <3> QED  BY ONLY <3>1, <1>6, <1>7, SumMoved
  <2> QED  BY <1>8, <2>1
<1>10. SumFunctionOnSet(k, E) = k[1] + SumFunctionOnSet(k, E \ {1})
  <2>1. IsFiniteSet(E) /\ (\A i \in E : k[i] \in Int) /\ 1 \in E
    BY <1>3, <1>5, <1>8
  <2> QED  BY ONLY <2>1, SumFacts
<1>11. k[1] = w[e]
  BY <1>2, <1>5, <1>8
<1> QED  BY <1>3, <1>9, <1>10, <1>11 DEF ListSum, f, k, full

LEMMA ListSumAppend ==
    ASSUME NEW S, NEW list \in Seq(S), NEW e \in S, NEW w, \A d \in S : w[d] \in Int
    PROVE  ListSum(w, list \o <<e>>) = ListSum(w, list) + w[e]
<1> DEFINE full == list \o <<e>>
           n == Len(list)
           D == 1 .. n
           E == 1 .. n + 1
           f == [i \in DOMAIN list |-> w[list[i]]]
           k == [i \in DOMAIN full |-> w[full[i]]]
<1>1. full \in Seq(S) /\ Len(full) = n + 1 /\ n \in Nat
  <2>1. <<e>> \in Seq(S) /\ Len(<<e>>) = 1
    OBVIOUS
  <2> QED  BY <2>1, ConcatProperties, LenProperties
<1>2. full[n + 1] = e /\ \A i \in D : full[i] = list[i]
  BY <1>1, ConcatProperties
<1>3. DOMAIN list = D /\ DOMAIN full = E /\ IsFiniteSet(D) /\ IsFiniteSet(E)
  BY <1>1, ListFinite
<1>4. \A i \in E : full[i] \in S
  BY <1>1, <1>3, ListFinite
<1> HIDE DEF full
<1>5. \A i \in E : k[i] \in Int /\ k[i] = w[full[i]]
  BY <1>3, <1>4
<1>6. E \ {n + 1} = D /\ n + 1 \in E
  BY <1>1
<1>7. \A i \in D : f[i] \in Int /\ k[i] = f[i]
  <2> SUFFICES ASSUME NEW i \in D PROVE f[i] \in Int /\ k[i] = f[i]
    OBVIOUS
  <2>1. i \in E /\ f[i] = w[list[i]] /\ list[i] \in S
    BY <1>3, <1>6, ListFinite
  <2> HIDE DEF k, f, E
  <2> QED  BY <1>2, <1>5, <2>1
<1> HIDE DEF D, E, f, k
<1>8. SumFunctionOnSet(f, D) = SumFunctionOnSet(k, D)
  BY <1>3, <1>7, SumSame
<1>9. SumFunctionOnSet(k, E) = k[n + 1] + SumFunctionOnSet(k, E \ {n + 1})
  <2>1. IsFiniteSet(E) /\ (\A i \in E : k[i] \in Int) /\ n + 1 \in E
    BY <1>3, <1>5, <1>6
  <2> QED  BY ONLY <2>1, SumFacts
<1>10. SumFunctionOnSet(f, D) \in Int
  BY <1>3, <1>7, SumFacts
<1>11. k[n + 1] = w[e] /\ w[e] \in Int
  BY <1>2, <1>5, <1>6
<1>12. SumFunctionOnSet(k, E) = SumFunctionOnSet(f, D) + w[e]
  <2> DEFINE sf == SumFunctionOnSet(f, D)
             sk == SumFunctionOnSet(k, E)
             we == w[e]
  <2>1. sk = we + sf /\ sf \in Int /\ we \in Int
    BY <1>6, <1>8, <1>9, <1>10, <1>11
  <2> HIDE DEF sf, sk, we
  <2>2. sk = sf + we
    BY <2>1
  <2> QED  BY <2>2 DEF sf, sk, we
<1> QED  BY <1>3, <1>12 DEF ListSum, f, k, full

LEMMA ListSumTail ==
    ASSUME NEW S, NEW list \in Seq(S), list # << >>, NEW w, \A d \in S : w[d] \in Int
    PROVE  ListSum(w, list) = w[Head(list)] + ListSum(w, Tail(list))
<1> DEFINE e == Head(list)
           rest == Tail(list)
<1>1. e \in S /\ rest \in Seq(S)
  BY HeadTailProperties
<1>2. list = <<e>> \o rest
  BY SMT
<1> HIDE DEF e, rest
<1>3. ListSum(w, <<e>> \o rest) = w[e] + ListSum(w, rest)
  BY <1>1, ListSumCons
<1> QED  BY <1>2, <1>3 DEF e, rest

LEMMA ListSumSorted ==
    ASSUME NEW S, NEW list \in Seq(S), NEW sorted \in Sortings(list),
           NEW w, \A d \in S : w[d] \in Int
    PROVE  ListSum(w, sorted) = ListSum(w, list)
<1> DEFINE D == DOMAIN list
           f == [i \in D |-> w[list[i]]]
           k == [i \in DOMAIN sorted |-> w[sorted[i]]]
<1>1. PICK p \in {g \in [D -> D] : IsInjective(g)} : sorted = [i \in D |-> list[p[i]]]
  BY DEF Sortings
<1>2. IsFiniteSet(D) /\ \A i \in D : f[i] \in Int
  BY ListFinite
<1>3. p \in [D -> D] /\ \A i, j \in D : p[i] = p[j] => i = j
  BY <1>1 DEF IsInjective
<1>4. DOMAIN sorted = D /\ \A i \in D : k[i] = f[p[i]]
  BY <1>1, <1>3
<1> HIDE DEF D, f, k
<1>5. {p[i] : i \in D} = D
  <2>1. p \in Injection(D, D)
    BY <1>3 DEF Injection, IsInjective
  <2>2. p \in Surjection(D, D)
    BY <1>2, <2>1, FS_Injection
  <2> QED  BY <1>3, <2>2 DEF Surjection
<1>6. SumFunctionOnSet(k, D) = SumFunctionOnSet(f, {p[i] : i \in D})
  BY <1>2, <1>3, <1>4, SumMoved
<1> QED  BY <1>4, <1>5, <1>6 DEF ListSum, f, k, D

-----------------------------------------------------------------------------
(* The sums of the bookkeeping.                                            *)

\* What the entries and the messages of a list stand for.
AmountsIn(list) == SumFunction([i \in DOMAIN list |-> list[i].amount])
AmountsOf(a, list) ==
    SumFunction([i \in DOMAIN list |-> IF list[i].account = a THEN list[i].amount ELSE 0])
AmountsFor(method, list) ==
    SumFunction([i \in DOMAIN list |-> IF list[i].method = method THEN list[i].amount ELSE 0])

OfEntry(a, e) == IF e.account = a THEN e.amount ELSE 0
OfMessage(method, m) == IF m.method = method THEN m.amount ELSE 0

EntryWeight == [e \in Entry |-> e.amount]
WeightOf(a) == [e \in Entry |-> OfEntry(a, e)]
WeightFor(method) == [m \in Message |-> OfMessage(method, m)]

LEMMA WeightsInt ==
    /\ \A e \in Entry : EntryWeight[e] \in Int /\ EntryWeight[e] = e.amount
    /\ \A a : \A e \in Entry : WeightOf(a)[e] \in Int /\ WeightOf(a)[e] = OfEntry(a, e)
    /\ \A m \in Message : /\ WeightFor("push")[m] \in Int
                          /\ WeightFor("push")[m] = OfMessage("push", m)
                          /\ WeightFor("mint")[m] \in Int
                          /\ WeightFor("mint")[m] = OfMessage("mint", m)
<1>1. \A e \in Entry : e.amount \in Int
  BY DEF Entry
<1>2. \A m \in Message : m.method \in {"push", "mint"} => m.amount \in Int
  BY DEF Message
<1> QED  BY <1>1, <1>2 DEF EntryWeight, WeightOf, WeightFor, OfEntry, OfMessage

LEMMA EntrySums ==
    ASSUME NEW list \in Seq(Entry), NEW a
    PROVE  /\ AmountsIn(list) = ListSum(EntryWeight, list)
           /\ AmountsOf(a, list) = ListSum(WeightOf(a), list)
<1>1. \A i \in DOMAIN list : list[i] \in Entry
  BY ListFinite
<1>2. [i \in DOMAIN list |-> list[i].amount] = [i \in DOMAIN list |-> EntryWeight[list[i]]]
  BY <1>1, WeightsInt
<1>3. [i \in DOMAIN list |-> IF list[i].account = a THEN list[i].amount ELSE 0]
        = [i \in DOMAIN list |-> WeightOf(a)[list[i]]]
  BY <1>1, WeightsInt DEF OfEntry
<1> QED  BY <1>2, <1>3 DEF AmountsIn, AmountsOf, ListSum, SumFunction

LEMMA MessageSums ==
    ASSUME NEW list \in Seq(Message), NEW method \in {"push", "mint"}
    PROVE  AmountsFor(method, list) = ListSum(WeightFor(method), list)
<1>1. \A i \in DOMAIN list : list[i] \in Message
  BY ListFinite
<1>2. [i \in DOMAIN list |-> IF list[i].method = method THEN list[i].amount ELSE 0]
        = [i \in DOMAIN list |-> WeightFor(method)[list[i]]]
  BY <1>1, WeightsInt DEF OfMessage
<1> QED  BY <1>2 DEF AmountsFor, ListSum, SumFunction

\* An entry comes to the front, or goes, and the list is sorted.
LEMMA EntryComes ==
    ASSUME NEW list \in Seq(Entry), NEW e \in Entry, NEW a
    PROVE  /\ AmountsIn(<<e>> \o list) = e.amount + AmountsIn(list)
           /\ AmountsOf(a, <<e>> \o list) = OfEntry(a, e) + AmountsOf(a, list)
           /\ AmountsIn(list) \in Int /\ AmountsOf(a, list) \in Int
           /\ list = << >> => AmountsIn(list) = 0 /\ AmountsOf(a, list) = 0
<1> DEFINE full == <<e>> \o list
<1>1. full \in Seq(Entry)
  BY ConsMembers
<1>2. /\ ListSum(EntryWeight, full) = EntryWeight[e] + ListSum(EntryWeight, list)
      /\ ListSum(WeightOf(a), full) = WeightOf(a)[e] + ListSum(WeightOf(a), list)
  BY WeightsInt, ListSumCons
<1>3. /\ ListSum(EntryWeight, list) \in Int /\ ListSum(WeightOf(a), list) \in Int
      /\ list = << >> => ListSum(EntryWeight, list) = 0 /\ ListSum(WeightOf(a), list) = 0
  BY WeightsInt, ListSumInt
<1> HIDE DEF full
<1>4. /\ AmountsIn(full) = ListSum(EntryWeight, full)
      /\ AmountsOf(a, full) = ListSum(WeightOf(a), full)
  BY <1>1, EntrySums
<1> QED  BY <1>2, <1>3, <1>4, EntrySums, WeightsInt DEF full

LEMMA EntryGoes ==
    ASSUME NEW list \in Seq(Entry), list # << >>, NEW a
    PROVE  /\ AmountsIn(list) = Head(list).amount + AmountsIn(Tail(list))
           /\ AmountsOf(a, list) = OfEntry(a, Head(list)) + AmountsOf(a, Tail(list))
<1> DEFINE e == Head(list)
           rest == Tail(list)
<1>1. e \in Entry /\ rest \in Seq(Entry)
  BY HeadTailProperties
<1>2. list = <<e>> \o rest
  BY SMT
<1> HIDE DEF e, rest
<1>3. /\ AmountsIn(<<e>> \o rest) = e.amount + AmountsIn(rest)
      /\ AmountsOf(a, <<e>> \o rest) = OfEntry(a, e) + AmountsOf(a, rest)
  BY <1>1, EntryComes
<1> QED  BY <1>2, <1>3 DEF e, rest

LEMMA EntriesSorted ==
    ASSUME NEW list \in Seq(Entry), NEW sorted \in Sortings(list), NEW a
    PROVE  /\ AmountsIn(sorted) = AmountsIn(list)
           /\ AmountsOf(a, sorted) = AmountsOf(a, list)
<1>1. sorted \in Seq(Entry)
  BY SortingsSort
<1>2. /\ ListSum(EntryWeight, sorted) = ListSum(EntryWeight, list)
      /\ ListSum(WeightOf(a), sorted) = ListSum(WeightOf(a), list)
  BY WeightsInt, ListSumSorted
<1> QED  BY <1>1, <1>2, EntrySums

\* A message is sent, or executed.
LEMMA MessageSent ==
    ASSUME NEW list \in Seq(Message), NEW m \in Message, NEW method \in {"push", "mint"}
    PROVE  /\ AmountsFor(method, list \o <<m>>) = AmountsFor(method, list) + OfMessage(method, m)
           /\ AmountsFor(method, list) \in Int
           /\ OfMessage(method, m) \in Int
           /\ list = << >> => AmountsFor(method, list) = 0
<1> DEFINE full == list \o <<m>>
           w == WeightFor(method)
<1>1. full \in Seq(Message)
  BY ConsMembers
<1>2. \A d \in Message : w[d] \in Int /\ w[d] = OfMessage(method, d)
  BY WeightsInt
<1> HIDE DEF w
<1>3. ListSum(w, full) = ListSum(w, list) + w[m]
  BY <1>2, ListSumAppend
<1>4. ListSum(w, list) \in Int /\ (list = << >> => ListSum(w, list) = 0)
  BY <1>2, ListSumInt
<1> HIDE DEF full
<1>5. AmountsFor(method, full) = ListSum(w, full) /\ AmountsFor(method, list) = ListSum(w, list)
  BY <1>1, MessageSums DEF w
<1> QED  BY <1>2, <1>3, <1>4, <1>5 DEF full

LEMMA MessageExecuted ==
    ASSUME NEW list \in Seq(Message), list # << >>, NEW method \in {"push", "mint"}
    PROVE  AmountsFor(method, list) = OfMessage(method, Head(list)) + AmountsFor(method, Tail(list))
<1> DEFINE w == WeightFor(method)
           rest == Tail(list)
           m == Head(list)
<1>1. m \in Message /\ rest \in Seq(Message)
  BY HeadTailProperties
<1>2. \A d \in Message : w[d] \in Int /\ w[d] = OfMessage(method, d)
  BY WeightsInt
<1> HIDE DEF w
<1>3. ListSum(w, list) = w[m] + ListSum(w, rest)
  BY <1>2, ListSumTail
<1> HIDE DEF rest, m
<1>4. AmountsFor(method, rest) = ListSum(w, rest) /\ AmountsFor(method, list) = ListSum(w, list)
  BY <1>1, MessageSums DEF w
<1> QED  BY <1>1, <1>2, <1>3, <1>4 DEF rest, m

\* The balance of a client is set.
LEMMA BalanceSet ==
    ASSUME NEW b \in [Client -> Int], NEW p \in Client, NEW v \in Int
    PROVE  /\ SumFunction([b EXCEPT ![p] = v]) = (SumFunction(b) - b[p]) + v
           /\ SumFunction(b) \in Int
<1> DEFINE k == [b EXCEPT ![p] = v]
<1>1. /\ DOMAIN b = Client /\ DOMAIN k = Client /\ k[p] = v
      /\ \A x \in Client : b[x] \in Int /\ k[x] \in Int
      /\ \A x \in Client \ {p} : k[x] = b[x]
  OBVIOUS
<1>2. IsFiniteSet(Client)
  BY WrappedAssumption
<1> HIDE DEF k
<1>3. SumFunctionOnSet(k, Client) = (SumFunctionOnSet(b, Client) - b[p]) + k[p]
  BY <1>1, <1>2, SumChanged
<1>4. SumFunctionOnSet(b, Client) \in Int
  BY <1>1, <1>2, SumFacts
<1> QED  BY <1>1, <1>3, <1>4 DEF SumFunction, k

\* The open unwraps.
LEMMA CallAmounts ==
    ASSUME NEW call \in CallState
    PROVE  /\ Due(call) \in Int /\ Burned(call) \in Int
           /\ ~ IsPaying(call) => Due(call) = 0 /\ Burned(call) = 0
<1>1. CASE IsPaying(call)
  <2>1. call \in Paying
    BY <1>1 DEF IsPaying, CallState, Closing, Paying
  <2>2. call.payment \in Int /\ call.amount \in Int /\ call.leftover \in Int
    BY <2>1 DEF Paying
  <2> QED  BY <1>1, <2>2 DEF Due, Burned
<1>2. CASE ~ IsPaying(call)
  BY <1>2 DEF Due, Burned
<1> QED  BY <1>1, <1>2

LEMMA CallSet ==
    ASSUME NEW old \in [Call -> CallState], NEW new \in [Call -> CallState], NEW c \in Call,
           \A d \in Call \ {c} : new[d] = old[d]
    PROVE  /\ SumFunction([d \in Call |-> Due(new[d])])
                = (SumFunction([d \in Call |-> Due(old[d])]) - Due(old[c])) + Due(new[c])
           /\ SumFunction([d \in Call |-> Burned(new[d])])
                = (SumFunction([d \in Call |-> Burned(old[d])]) - Burned(old[c])) + Burned(new[c])
           /\ SumFunction([d \in Call |-> Due(old[d])]) \in Int
           /\ SumFunction([d \in Call |-> Burned(old[d])]) \in Int
           /\ Due(old[c]) \in Int /\ Burned(old[c]) \in Int
           /\ Due(new[c]) \in Int /\ Burned(new[c]) \in Int
<1> DEFINE d0 == [d \in Call |-> Due(old[d])]
           d1 == [d \in Call |-> Due(new[d])]
           b0 == [d \in Call |-> Burned(old[d])]
           b1 == [d \in Call |-> Burned(new[d])]
<1>1. \A d \in Call : /\ Due(old[d]) \in Int /\ Burned(old[d]) \in Int
                      /\ Due(new[d]) \in Int /\ Burned(new[d]) \in Int
  BY CallAmounts
<1>2. /\ \A d \in Call : d0[d] \in Int /\ d1[d] \in Int /\ b0[d] \in Int /\ b1[d] \in Int
      /\ \A d \in Call \ {c} : d1[d] = d0[d] /\ b1[d] = b0[d]
      /\ d0[c] = Due(old[c]) /\ d1[c] = Due(new[c])
      /\ b0[c] = Burned(old[c]) /\ b1[c] = Burned(new[c])
  BY <1>1
<1>3. DOMAIN d0 = Call /\ DOMAIN d1 = Call /\ DOMAIN b0 = Call /\ DOMAIN b1 = Call
  OBVIOUS
<1>4. IsFiniteSet(Call)
  BY WrappedAssumption
<1> HIDE DEF d0, d1, b0, b1
<1>5. SumFunctionOnSet(d1, Call) = (SumFunctionOnSet(d0, Call) - d0[c]) + d1[c]
  <2>1. \A d \in Call : d0[d] \in Int /\ d1[d] \in Int
    BY <1>2
  <2>2. \A d \in Call \ {c} : d1[d] = d0[d]
    BY <1>2
  <2> QED  BY ONLY c \in Call, <1>4, <2>1, <2>2, SumChanged
<1>6. SumFunctionOnSet(b1, Call) = (SumFunctionOnSet(b0, Call) - b0[c]) + b1[c]
  <2>1. \A d \in Call : b0[d] \in Int /\ b1[d] \in Int
    BY <1>2
  <2>2. \A d \in Call \ {c} : b1[d] = b0[d]
    BY <1>2
  <2> QED  BY ONLY c \in Call, <1>4, <2>1, <2>2, SumChanged
<1>7. SumFunctionOnSet(d0, Call) \in Int /\ SumFunctionOnSet(b0, Call) \in Int
  BY <1>2, <1>4, SumFacts
<1>8. /\ SumFunction(d1) = (SumFunction(d0) - Due(old[c])) + Due(new[c])
      /\ SumFunction(b1) = (SumFunction(b0) - Burned(old[c])) + Burned(new[c])
      /\ SumFunction(d0) \in Int /\ SumFunction(b0) \in Int
  BY <1>2, <1>3, <1>5, <1>6, <1>7 DEF SumFunction
<1> QED  BY <1>1, <1>8 DEF d0, d1, b0, b1

-----------------------------------------------------------------------------
(* The bookkeeping.                                                        *)

\* An open call asks for no less than nothing, and what it pays last is what
\* is left to pay.
CallSound(call) ==
    /\ call.pc = "closing" => call.balance >= 0
    /\ IsPaying(call) => call.leftover >= 0
    /\ call.pc \in {"last", "part"} => call.payment = call.leftover

Sound ==
    /\ total_supply \in Int
    /\ recorded \in [Account -> Int] /\ paid \in [Account -> Int]
    /\ \A c \in Call : CallSound(calls[c])

Kept == NoDoubleDrain /\ SupplyBacked /\ SupplyIsBalances
BInv == IInv /\ Sound /\ Kept

\* What the properties say of the sums.
Drained == \A a \in Account : paid[a] + AmountsOf(a, used) = recorded[a]
Backed ==
    total_supply + AmountsFor("mint", inbox)
        = AmountsIn(used) + AmountsFor("push", inbox) + InFlight
Even == SumFunction(balance) = total_supply + BurnedTotal
MustBeBacked == deviations \cap {"direct", "unbacked", "failed"} = {}
MustBeEven == deviations \cap {"self", "stale", "short", "failed"} = {}

LEMMA KeptFacts ==
    /\ NoDoubleDrain <=> Drained
    /\ SupplyBacked <=> (MustBeBacked => Backed)
    /\ SupplyIsBalances <=> (MustBeEven => Even)
<1>1. /\ UsedTotal = AmountsIn(used)
      /\ \A a : UsedOf(a) = AmountsOf(a, used)
      /\ \A method : PendingTotal(method) = AmountsFor(method, inbox)
      /\ Balances = SumFunction(balance)
  BY DEF UsedTotal, AmountsIn, UsedOf, AmountsOf, PendingTotal, AmountsFor, Balances
<1>2. NoDoubleDrain <=> Drained
  BY <1>1 DEF NoDoubleDrain, Drained
<1>3. SupplyBacked <=> (MustBeBacked => Backed)
  BY <1>1 DEF SupplyBacked, Backed, MustBeBacked
<1>4. SupplyIsBalances <=> (MustBeEven => Even)
  BY <1>1 DEF SupplyIsBalances, Even, MustBeEven
<1> QED  BY <1>2, <1>3, <1>4

LEMMA SumsInt ==
    Types => /\ AmountsIn(used) \in Int
             /\ \A a : AmountsOf(a, used) \in Int
             /\ AmountsFor("push", inbox) \in Int /\ AmountsFor("mint", inbox) \in Int
             /\ InFlight \in Int /\ BurnedTotal \in Int
             /\ SumFunction(balance) \in Int
<1> SUFFICES ASSUME Types
             PROVE  /\ AmountsIn(used) \in Int
                    /\ \A a : AmountsOf(a, used) \in Int
                    /\ AmountsFor("push", inbox) \in Int /\ AmountsFor("mint", inbox) \in Int
                    /\ InFlight \in Int /\ BurnedTotal \in Int
                    /\ SumFunction(balance) \in Int
  OBVIOUS
<1>1. ASSUME NEW a PROVE AmountsIn(used) \in Int /\ AmountsOf(a, used) \in Int
  <2>1. used \in Seq(Entry)
    BY DEF Types
  <2>2. ListSum(EntryWeight, used) \in Int
    <3>1. \A e \in Entry : EntryWeight[e] \in Int
      BY WeightsInt
    <3> QED  BY ONLY <2>1, <3>1, ListSumInt
  <2>3. ListSum(WeightOf(a), used) \in Int
    <3> DEFINE w == WeightOf(a)
    <3>1. \A e \in Entry : w[e] \in Int
      BY WeightsInt
    <3> HIDE DEF w
    <3>2. ListSum(w, used) \in Int
      BY ONLY <2>1, <3>1, ListSumInt
    <3> QED  BY <3>2 DEF w
  <2> QED  BY <2>1, <2>2, <2>3, EntrySums
<1>2. AmountsFor("push", inbox) \in Int /\ AmountsFor("mint", inbox) \in Int
  BY MessageSums, WeightsInt, ListSumInt DEF Types
<1>3. \A c \in Call : Due(calls[c]) \in Int /\ Burned(calls[c]) \in Int
  BY CallAmounts DEF Types
<1>4. InFlight \in Int /\ BurnedTotal \in Int
  <2> DEFINE d == [c \in Call |-> Due(calls[c])]
             b == [c \in Call |-> Burned(calls[c])]
  <2>1. /\ DOMAIN d = Call /\ DOMAIN b = Call /\ IsFiniteSet(Call)
        /\ \A c \in Call : d[c] \in Int /\ b[c] \in Int
    BY <1>3, WrappedAssumption
  <2> HIDE DEF d, b
  <2>2. SumFunctionOnSet(d, Call) \in Int /\ SumFunctionOnSet(b, Call) \in Int
    BY <2>1, SumFacts
  <2>3. SumFunction(d) \in Int /\ SumFunction(b) \in Int
    BY <2>1, <2>2 DEF SumFunction
  <2> QED  BY <2>3 DEF InFlight, BurnedTotal, d, b
<1>5. SumFunction(balance) \in Int
  <2>1. DOMAIN balance = Client /\ IsFiniteSet(Client) /\ \A p \in Client : balance[p] \in Int
    BY WrappedAssumption DEF Types
  <2>2. SumFunctionOnSet(balance, Client) \in Int
    BY <2>1, SumFacts
  <2> QED  BY <2>1, <2>2 DEF SumFunction
<1> QED  BY <1>1, <1>2, <1>4, <1>5

\* A step that changes no list, no balance and no supply, and opens and closes
\* only calls that do not pay.
LEMMA KeepsBooks ==
    ASSUME BInv, IInv', UNCHANGED <<books, inbox, recorded, paid>>,
           deviations \subseteq deviations',
           NEW c \in Call, \A d \in Call \ {c} : calls'[d] = calls[d],
           "failed" \in deviations' \/ (~ IsPaying(calls[c]) /\ ~ IsPaying(calls'[c])),
           CallSound(calls'[c])
    PROVE  BInv'
<1>1. UNCHANGED <<balance, used, total_supply>>
  BY DEF books
<1>2. Sound'
  BY <1>1 DEF BInv, Sound
<1>3. CASE "failed" \in deviations'
  <2>1. NoDoubleDrain' /\ SupplyBacked' /\ SupplyIsBalances'
    <3>1. NoDoubleDrain'
      BY <1>1 DEF BInv, Kept, NoDoubleDrain, UsedOf
    <3> QED  BY <1>3, <3>1 DEF SupplyBacked, SupplyIsBalances
  <2> QED  BY <1>2, <2>1 DEF BInv, Kept
<1>4. CASE ~ IsPaying(calls[c]) /\ ~ IsPaying(calls'[c])
  <2>1. calls \in [Call -> CallState] /\ calls' \in [Call -> CallState]
    BY DEF BInv, IInv, Types
  <2>2. /\ Due(calls[c]) = 0 /\ Due(calls'[c]) = 0
        /\ Burned(calls[c]) = 0 /\ Burned(calls'[c]) = 0
    BY <1>4, <2>1, CallAmounts
  <2>3. InFlight' = InFlight /\ BurnedTotal' = BurnedTotal
    <3> DEFINE d0 == [d \in Call |-> Due(calls[d])]
               d1 == [d \in Call |-> Due(calls'[d])]
               b0 == [d \in Call |-> Burned(calls[d])]
               b1 == [d \in Call |-> Burned(calls'[d])]
    <3>1. d1 = d0 /\ b1 = b0
      <4>1. \A d \in Call : Due(calls'[d]) = Due(calls[d]) /\ Burned(calls'[d]) = Burned(calls[d])
        BY <2>2
      <4> QED  BY <4>1
    <3>2. /\ InFlight = SumFunction(d0) /\ BurnedTotal = SumFunction(b0)
          /\ InFlight' = SumFunction(d1) /\ BurnedTotal' = SumFunction(b1)
      BY DEF InFlight, BurnedTotal
    <3> HIDE DEF d0, d1, b0, b1
    <3> QED  BY <3>1, <3>2
  <2>4. NoDoubleDrain' /\ SupplyBacked' /\ SupplyIsBalances'
    <3>1. NoDoubleDrain'
      BY <1>1 DEF BInv, Kept, NoDoubleDrain, UsedOf
    <3>2. SupplyBacked'
      BY <1>1, <2>3 DEF BInv, Kept, SupplyBacked, UsedTotal, PendingTotal
    <3>3. SupplyIsBalances'
      BY <1>1, <2>3 DEF BInv, Kept, SupplyIsBalances, Balances
    <3> QED  BY <3>1, <3>2, <3>3
  <2> QED  BY <1>2, <2>4 DEF BInv, Kept
<1> QED  BY <1>3, <1>4

LEMMA KeptNext ==
    /\ NoDoubleDrain' <=> Drained'
    /\ SupplyBacked' <=> (MustBeBacked' => Backed')
    /\ SupplyIsBalances' <=> (MustBeEven' => Even')
BY KeptFacts, PTL

\* How the properties are kept.
LEMMA KeepsKept ==
    ASSUME Kept, deviations \subseteq deviations',
           Drained => Drained',
           Backed /\ deviations' \cap {"direct", "unbacked", "failed"} = {} => Backed',
           Even /\ deviations' \cap {"self", "stale", "short", "failed"} = {} => Even'
    PROVE  Kept'
<1>1. NoDoubleDrain'
  BY KeptFacts, KeptNext DEF Kept
<1>2. SupplyBacked'
  BY KeptFacts, KeptNext DEF Kept, MustBeBacked
<1>3. SupplyIsBalances'
  BY KeptFacts, KeptNext DEF Kept, MustBeEven
<1> QED  BY <1>1, <1>2, <1>3 DEF Kept

LEMMA MintKeepsBooks ==
    ASSUME BInv, IInv', NEW p \in Client, NEW v \in Int, Mint(p, v)
    PROVE  BInv'
<1>1. /\ UNCHANGED <<used, invoice, inbox, calls, recorded, paid>>
      /\ "direct" \in deviations' /\ deviations \subseteq deviations'
      /\ balance' = [balance EXCEPT ![p] = balance[p] + v]
      /\ total_supply' = total_supply + v
  BY DEF Mint, Minted, Deviates
<1>2. /\ balance \in [Client -> Int] /\ balance[p] \in Int /\ total_supply \in Int
      /\ BurnedTotal \in Int
  BY SumsInt DEF BInv, IInv, Types, Sound
<1>3. Sound'
  BY <1>1, <1>2 DEF BInv, Sound
<1>4. Drained => Drained'
  BY <1>1 DEF Drained, AmountsOf
<1>5. Even => Even'
  <2>1. BurnedTotal' = BurnedTotal
    BY <1>1 DEF BurnedTotal
  <2> DEFINE v2 == balance[p] + v
  <2>2. v2 \in Int
    BY <1>2
  <2> HIDE DEF v2
  <2>3. /\ SumFunction([balance EXCEPT ![p] = v2]) = (SumFunction(balance) - balance[p]) + v2
        /\ SumFunction(balance) \in Int
    BY <1>2, <2>2, BalanceSet
  <2>4. SumFunction(balance') = SumFunction(balance) + v
    BY <1>1, <1>2, <2>3 DEF v2
  <2> QED  BY <1>1, <1>2, <2>1, <2>4 DEF Even
<1>6. Kept'
  BY <1>1, <1>4, <1>5, KeepsKept DEF BInv
<1> QED  BY <1>3, <1>6 DEF BInv

LEMMA SendKeepsBooks ==
    ASSUME BInv, IInv', NEW p \in Client, NEW q \in Client, NEW v \in Nat, Send(p, q, v)
    PROVE  BInv'
<1> DEFINE x == balance[p] - v
           y == balance[q] + v
           mid == [balance EXCEPT ![p] = x]
<1>1. /\ UNCHANGED <<used, total_supply, invoice, inbox, calls, recorded, paid>>
      /\ deviations \subseteq deviations'
      /\ p = q /\ v > 0 => "self" \in deviations'
      /\ balance' = [mid EXCEPT ![q] = y]
  BY DEF Send, Deviates
<1>2. balance \in [Client -> Int] /\ balance[p] \in Int /\ balance[q] \in Int
  BY DEF BInv, IInv, Types
<1>3. x \in Int /\ y \in Int
  BY <1>2
<1>4. mid \in [Client -> Int] /\ mid[p] = x /\ (p # q => mid[q] = balance[q])
  BY <1>2, <1>3
<1>5. x = balance[p] - v /\ y = balance[q] + v
  OBVIOUS
<1>6. SumFunction(mid) = (SumFunction(balance) - balance[p]) + x /\ SumFunction(balance) \in Int
  <2> HIDE DEF x, y
  <2> QED  BY <1>2, <1>3, BalanceSet
<1> HIDE DEF x, y, mid
<1>7. SumFunction(balance') = (SumFunction(mid) - mid[q]) + y
  BY <1>1, <1>3, <1>4, BalanceSet
<1>8. Sound' /\ (Drained => Drained') /\ (Backed => Backed')
  BY <1>1 DEF BInv, Sound, Drained, AmountsOf, AmountsIn, AmountsFor, Backed, InFlight
<1>9. ASSUME Even, deviations' \cap {"self", "stale", "short", "failed"} = {}
      PROVE  Even'
  <2>1. BurnedTotal' = BurnedTotal
    BY <1>1 DEF BurnedTotal
  <2>2. p # q \/ v = 0
    BY <1>1, <1>9
  <2>3. SumFunction(balance') = SumFunction(balance)
    <3> DEFINE s == SumFunction(balance)
               m == SumFunction(mid)
               t == SumFunction(balance')
    <3>1. s \in Int /\ m = (s - balance[p]) + x /\ t = (m - mid[q]) + y
      BY <1>6, <1>7
    <3> HIDE DEF s, m, t
    <3>2. CASE p # q
      <4>1. mid[q] = balance[q]
        BY <1>4, <3>2
      <4> QED  BY <1>2, <1>3, <1>5, <3>1, <4>1 DEF s, t
    <3>3. CASE p = q /\ v = 0
      <4>1. mid[q] = x /\ x = balance[p] /\ y = balance[p]
        BY <1>2, <1>4, <1>5, <3>3
      <4> QED  BY <1>2, <3>1, <4>1 DEF s, t
    <3> QED  BY <2>2, <3>2, <3>3
  <2> QED  BY <1>1, <1>9, <2>1, <2>3 DEF Even
<1>10. Kept'
  BY <1>1, <1>8, <1>9, KeepsKept DEF BInv
<1> QED  BY <1>8, <1>10 DEF BInv

LEMMA SortKeepsBooks ==
    ASSUME BInv, IInv', used' \in Sortings(used), deviations' = deviations,
           AmountsFor("push", inbox') = AmountsFor("push", inbox),
           AmountsFor("mint", inbox') = AmountsFor("mint", inbox),
           UNCHANGED <<balance, total_supply, calls, recorded, paid>>
    PROVE  BInv'
<1>1. \A a : AmountsIn(used') = AmountsIn(used) /\ AmountsOf(a, used') = AmountsOf(a, used)
  BY EntriesSorted DEF BInv, IInv, Types
<1>2. InFlight' = InFlight /\ BurnedTotal' = BurnedTotal
  BY DEF InFlight, BurnedTotal
<1>3. Sound'
  BY DEF BInv, Sound
<1>4. Drained => Drained'
  BY <1>1 DEF Drained
<1>5. Backed => Backed'
  BY <1>1, <1>2 DEF Backed
<1>6. Even => Even'
  BY <1>2 DEF Even
<1>7. Kept'
  BY <1>4, <1>5, <1>6, KeepsKept DEF BInv
<1> QED  BY <1>3, <1>7 DEF BInv

\* An entry is recorded.
LEMMA RecordKeepsDrained ==
    ASSUME BInv, NEW account \in Nat, NEW amount \in Int,
           InvoiceToUsedAccounts(account, amount), paid' = paid
    PROVE  /\ recorded' \in [Account -> Int]
           /\ AmountsIn(used') = amount + AmountsIn(used)
           /\ Drained => Drained'
<1> DEFINE e == [account |-> account, amount |-> amount]
<1>1. /\ used' = <<e>> \o used /\ used \in Seq(Entry)
      /\ recorded' = [recorded EXCEPT ![account] = recorded[account] + amount]
      /\ recorded \in [Account -> Int] /\ paid \in [Account -> Int]
  BY DEF InvoiceToUsedAccounts, BInv, IInv, Types, Sound
<1>2. e \in Entry /\ e.account = account /\ e.amount = amount
  BY DEF Entry
<1> HIDE DEF e
<1>3. AmountsIn(used') = amount + AmountsIn(used)
  BY <1>1, <1>2, EntryComes
<1>4. ASSUME NEW a \in Account
      PROVE  /\ AmountsOf(a, used) \in Int
             /\ AmountsOf(a, used') = (IF a = account THEN amount ELSE 0) + AmountsOf(a, used)
  BY <1>1, <1>2, EntryComes DEF OfEntry
<1>5. ASSUME NEW a \in Account
      PROVE  recorded'[a] \in Int
               /\ recorded'[a] = recorded[a] + (IF a = account THEN amount ELSE 0)
  BY <1>1
<1>6. ASSUME Drained, NEW a \in Account PROVE paid'[a] + AmountsOf(a, used') = recorded'[a]
  <2> DEFINE x == IF a = account THEN amount ELSE 0
  <2>1. x \in Int /\ paid[a] \in Int /\ paid'[a] = paid[a]
    BY <1>1
  <2>2. AmountsOf(a, used') = x + AmountsOf(a, used) /\ recorded'[a] = recorded[a] + x
    BY <1>4, <1>5
  <2>3. paid[a] + AmountsOf(a, used) = recorded[a] /\ AmountsOf(a, used) \in Int
    BY <1>4, <1>6 DEF Drained
  <2> HIDE DEF x
  <2> QED  BY <2>1, <2>2, <2>3
<1> QED  BY <1>1, <1>3, <1>5, <1>6 DEF Drained

LEMMA PushKeepsBooks ==
    ASSUME BInv, IInv', NEW account \in Nat, NEW v \in Int, PushAccount(account, v)
    PROVE  BInv'
<1>1. /\ UNCHANGED <<balance, total_supply, invoice, calls, paid>>
      /\ InvoiceToUsedAccounts(account, v)
      /\ "direct" \in deviations' /\ deviations \subseteq deviations'
  BY DEF PushAccount, Deviates
<1>2. recorded' \in [Account -> Int] /\ (Drained => Drained')
  BY <1>1, RecordKeepsDrained
<1>3. Sound'
  BY <1>1, <1>2 DEF BInv, Sound
<1>4. Even => Even'
  BY <1>1 DEF Even, BurnedTotal
<1>5. Kept'
  BY <1>1, <1>2, <1>4, KeepsKept DEF BInv
<1> QED  BY <1>3, <1>5 DEF BInv

LEMMA MessageTaken ==
    ASSUME Types, inbox # << >>, NEW method \in {"push", "mint"}
    PROVE  LET m == Head(inbox)
               rest == Tail(inbox)
           IN  /\ m \in Message /\ rest \in Seq(Message)
               /\ AmountsFor(method, rest) \in Int /\ OfMessage(method, m) \in Int
               /\ AmountsFor(method, inbox) = OfMessage(method, m) + AmountsFor(method, rest)
<1> DEFINE m == Head(inbox)
           rest == Tail(inbox)
<1>1. m \in Message /\ rest \in Seq(Message)
  BY HeadTailProperties DEF Types
<1>2. AmountsFor(method, inbox) = OfMessage(method, m) + AmountsFor(method, rest)
  BY MessageExecuted DEF Types
<1> HIDE DEF m, rest
<1>3. AmountsFor(method, rest) \in Int /\ OfMessage(method, m) \in Int
  BY <1>1, MessageSent
<1> QED  BY <1>1, <1>2, <1>3 DEF m, rest

\* A message that sorts is nothing to the sums.
LEMMA SortSent ==
    ASSUME NEW list \in Seq(Message), NEW method \in {"push", "mint"}
    PROVE  AmountsFor(method, list \o <<[method |-> "sort"]>>) = AmountsFor(method, list)
<1> DEFINE sort == [method |-> "sort"]
<1>1. sort \in Message /\ OfMessage(method, sort) = 0
  BY DEF Message, OfMessage
<1> HIDE DEF sort
<1>2. /\ AmountsFor(method, list \o <<sort>>) = AmountsFor(method, list) + OfMessage(method, sort)
      /\ AmountsFor(method, list) \in Int
  BY <1>1, MessageSent
<1> QED  BY <1>1, <1>2 DEF sort

LEMMA ExecuteKeepsBooks ==
    ASSUME BInv, IInv', ExecuteMessage
    PROVE  BInv'
<1> DEFINE message == Head(inbox)
           rest == Tail(inbox)
<1>1. /\ inbox # << >> /\ UNCHANGED <<invoice, calls, paid, deviations>>
      /\ Types
  BY DEF ExecuteMessage, BInv, IInv
<1>2. /\ message \in Message /\ rest \in Seq(Message)
      /\ AmountsFor("push", rest) \in Int /\ AmountsFor("mint", rest) \in Int
      /\ AmountsFor("push", inbox) = OfMessage("push", message) + AmountsFor("push", rest)
      /\ AmountsFor("mint", inbox) = OfMessage("mint", message) + AmountsFor("mint", rest)
  BY <1>1, MessageTaken
<1>3. InFlight' = InFlight /\ BurnedTotal' = BurnedTotal
  BY <1>1 DEF InFlight, BurnedTotal
<1>4. /\ AmountsIn(used) \in Int /\ InFlight \in Int /\ BurnedTotal \in Int
      /\ SumFunction(balance) \in Int /\ total_supply \in Int
  BY SumsInt DEF BInv, IInv, Sound
<1> HIDE DEF rest
<1>5. CASE /\ message.method = "push"
           /\ InvoiceToUsedAccounts(message.account, message.amount)
           /\ inbox' = Append(Tail(inbox), [method |-> "sort"])
           /\ UNCHANGED <<balance, total_supply>>
  <2>1. inbox' = rest \o <<[method |-> "sort"]>>
    BY <1>2, <1>5 DEF rest
  <2>2. message.account \in Nat /\ message.amount \in Int
    BY <1>2, <1>5 DEF Message
  <2>3. /\ AmountsFor("push", inbox') = AmountsFor("push", rest)
        /\ AmountsFor("mint", inbox') = AmountsFor("mint", rest)
    BY <1>2, <2>1, SortSent
  <2>4. OfMessage("push", message) = message.amount /\ OfMessage("mint", message) = 0
    BY <1>5 DEF OfMessage
  <2> DEFINE account == message.account
             amount == message.amount
  <2>5. account \in Nat /\ amount \in Int /\ InvoiceToUsedAccounts(account, amount)
    BY <1>5, <2>2
  <2> HIDE DEF account, amount, message
  <2>6. /\ recorded' \in [Account -> Int]
        /\ AmountsIn(used') = amount + AmountsIn(used)
        /\ Drained => Drained'
    BY <1>1, <2>5, RecordKeepsDrained
  <2>7. Sound'
    BY <1>1, <1>5, <2>6 DEF BInv, Sound
  <2>8. Backed => Backed'
    <3> DEFINE pushes == AmountsFor("push", rest)
               mints == AmountsFor("mint", rest)
               held == AmountsIn(used)
    <3>1. /\ AmountsFor("push", inbox) = amount + pushes
          /\ AmountsFor("mint", inbox) = mints
          /\ AmountsFor("push", inbox') = pushes
          /\ AmountsFor("mint", inbox') = mints
          /\ AmountsIn(used') = amount + held
          /\ pushes \in Int /\ mints \in Int /\ held \in Int
      BY <1>2, <1>4, <2>3, <2>4, <2>6 DEF amount
    <3> HIDE DEF pushes, mints, held
    <3>2. total_supply + mints = held + (amount + pushes) + InFlight
            => total_supply + mints = (amount + held) + pushes + InFlight
      BY <1>4, <2>5, <3>1
    <3> QED  BY <1>3, <1>5, <3>1, <3>2 DEF Backed, held
  <2>9. Even => Even'
    BY <1>3, <1>5 DEF Even
  <2>10. Kept'
    BY <1>1, <2>6, <2>8, <2>9, KeepsKept DEF BInv
  <2> QED  BY <2>7, <2>10 DEF BInv
<1>6. CASE /\ message.method = "mint"
           /\ Minted(message.to, message.amount)
           /\ inbox' = Tail(inbox)
           /\ UNCHANGED <<used, recorded>>
  <2> DEFINE p == message.to
             v == message.amount
  <2>1. p \in Client /\ v \in Int
    BY <1>2, <1>6 DEF Message
  <2>2. OfMessage("push", message) = 0 /\ OfMessage("mint", message) = v
    BY <1>6 DEF OfMessage
  <2>3. /\ balance' = [balance EXCEPT ![p] = balance[p] + v]
        /\ total_supply' = total_supply + v
        /\ inbox' = rest
    BY <1>6 DEF Minted, rest
  <2>4. balance \in [Client -> Int] /\ balance[p] \in Int
    BY <1>1, <2>1 DEF Types
  <2> HIDE DEF p, v, message
  <2>5. SumFunction(balance') = SumFunction(balance) + v
    <3> DEFINE v2 == balance[p] + v
    <3>1. v2 \in Int
      BY <2>1, <2>4
    <3> HIDE DEF v2
    <3>2. SumFunction([balance EXCEPT ![p] = v2]) = (SumFunction(balance) - balance[p]) + v2
      BY <2>1, <2>4, <3>1, BalanceSet
    <3> QED  BY <1>4, <2>1, <2>3, <2>4, <3>2 DEF v2
  <2>6. Sound'
    BY <1>1, <1>4, <1>6, <2>1, <2>3 DEF BInv, Sound
  <2>7. Drained => Drained'
    BY <1>1, <1>6 DEF Drained
  <2>8. Backed => Backed'
    <3> DEFINE pushes == AmountsFor("push", rest)
               mints == AmountsFor("mint", rest)
               held == AmountsIn(used)
    <3>1. /\ AmountsFor("push", inbox) = 0 + pushes
          /\ AmountsFor("mint", inbox) = v + mints
          /\ AmountsFor("push", inbox') = pushes
          /\ AmountsFor("mint", inbox') = mints
          /\ AmountsIn(used') = held
          /\ pushes \in Int /\ mints \in Int /\ held \in Int
      BY <1>2, <1>4, <1>6, <2>2, <2>3
    <3> HIDE DEF pushes, mints, held
    <3>2. total_supply + (v + mints) = held + (0 + pushes) + InFlight
            => (total_supply + v) + mints = held + pushes + InFlight
      BY <1>4, <2>1, <3>1
    <3> QED  BY <1>3, <2>3, <3>1, <3>2 DEF Backed, held
  <2>9. Even => Even'
    BY <1>3, <1>4, <2>1, <2>3, <2>5 DEF Even
  <2>10. Kept'
    BY <1>1, <2>7, <2>8, <2>9, KeepsKept DEF BInv
  <2> QED  BY <2>6, <2>10 DEF BInv
<1>7. CASE /\ message.method = "sort" /\ Sort /\ inbox' = Tail(inbox)
           /\ UNCHANGED <<balance, total_supply, recorded>>
  <2>1. OfMessage("push", message) = 0 /\ OfMessage("mint", message) = 0
    BY <1>7 DEF OfMessage
  <2>2. /\ AmountsFor("push", inbox') = AmountsFor("push", inbox)
        /\ AmountsFor("mint", inbox') = AmountsFor("mint", inbox)
    <3>1. inbox' = rest
      BY <1>7 DEF rest
    <3> HIDE DEF message
    <3> QED  BY <1>2, <2>1, <3>1
  <2>3. used' \in Sortings(used)
    BY <1>7 DEF Sort
  <2> QED  BY <1>1, <1>7, <2>2, <2>3, SortKeepsBooks
<1> QED  BY <1>5, <1>6, <1>7 DEF ExecuteMessage

LEMMA InvoiceClosedKeepsBooks ==
    ASSUME BInv, IInv', NEW c \in Call, InvoiceClosed(c)
    PROVE  BInv'
<1> DEFINE call == calls[c]
           push == [method |-> "push", account |-> call.account, amount |-> call.balance]
           mint == [method |-> "mint", to |-> call.who, amount |-> call.balance]
           both == inbox \o Pushes(call)
<1>1. /\ UNCHANGED <<balance, used, total_supply, recorded, paid>>
      /\ deviations \subseteq deviations'
      /\ call.account = NoAccount /\ call.balance > 0 => "unbacked" \in deviations'
      /\ inbox' = both \o <<mint>> /\ call.pc = "closing"
      /\ inbox \in Seq(Message)
  BY DEF InvoiceClosed, Deviates, books, Mints, BInv, IInv, Types
<1>2. call \in [pc : {"closing"}, who : Client, account : Nat, balance : Int]
  BY <1>1 DEF BInv, IInv, Types, CallState, Closing, Paying
<1>3. push \in Message /\ mint \in Message /\ call.balance \in Int
  BY <1>2 DEF Message
<1>4. /\ OfMessage("push", push) = call.balance /\ OfMessage("mint", push) = 0
      /\ OfMessage("push", mint) = 0 /\ OfMessage("mint", mint) = call.balance
  BY DEF OfMessage
<1>5. call.balance >= 0
  BY <1>1 DEF BInv, Sound, CallSound
<1>6. calls' = [calls EXCEPT ![c] = Idle] /\ calls \in [Call -> CallState]
  BY DEF InvoiceClosed, Ends, BInv, IInv, Types
<1>7. /\ \A d \in Call \ {c} : calls'[d] = calls[d]
      /\ calls'[c].pc = "idle" /\ ~ IsPaying(calls'[c]) /\ ~ IsPaying(calls[c])
  BY <1>1, <1>6 DEF Idle, IsPaying
<1> DEFINE satoshi == call.balance
           more == IF call.account # NoAccount /\ satoshi > 0 THEN satoshi ELSE 0
<1>8. /\ both \in Seq(Message)
      /\ AmountsFor("push", both) = AmountsFor("push", inbox) + more
      /\ AmountsFor("mint", both) = AmountsFor("mint", inbox)
      /\ AmountsFor("push", inbox) \in Int /\ AmountsFor("mint", inbox) \in Int
  <2>1. CASE call.account # NoAccount /\ satoshi > 0
    <3>1. both = inbox \o <<push>> /\ more = satoshi
      BY <2>1 DEF Pushes
    <3> HIDE DEF push, more
    <3>2. inbox \o <<push>> \in Seq(Message)
      BY <1>1, <1>3, ConsMembers
    <3>3. /\ AmountsFor("push", inbox \o <<push>>)
               = AmountsFor("push", inbox) + OfMessage("push", push)
          /\ AmountsFor("mint", inbox \o <<push>>)
               = AmountsFor("mint", inbox) + OfMessage("mint", push)
          /\ AmountsFor("push", inbox) \in Int /\ AmountsFor("mint", inbox) \in Int
      BY <1>1, <1>3, MessageSent
    <3> HIDE DEF call, both
    <3> QED  BY <1>4, <3>1, <3>2, <3>3
  <2>2. CASE ~ (call.account # NoAccount /\ satoshi > 0)
    <3>1. both = inbox /\ more = 0
      BY <1>1, <2>2, ConcatEmptySeq DEF Pushes
    <3>2. AmountsFor("push", inbox) \in Int /\ AmountsFor("mint", inbox) \in Int
      BY <1>1, <1>3, MessageSent
    <3> HIDE DEF call, both, more
    <3> QED  BY <1>1, <3>1, <3>2
  <2> QED  BY <2>1, <2>2
<1>9. satoshi \in Int /\ satoshi >= 0 /\ more \in Int
  BY <1>3, <1>5
<1>10. call.account = NoAccount /\ satoshi > 0 => "unbacked" \in deviations'
  BY <1>1
<1>11. call.account # NoAccount \/ ~ (satoshi > 0) => more = satoshi
  BY <1>9
<1> HIDE DEF push, both, more
<1>12. /\ AmountsFor("push", inbox') = AmountsFor("push", inbox) + more
       /\ AmountsFor("mint", inbox') = AmountsFor("mint", inbox) + satoshi
  <2> HIDE DEF mint
  <2>1. /\ AmountsFor("push", both \o <<mint>>)
             = AmountsFor("push", both) + OfMessage("push", mint)
        /\ AmountsFor("mint", both \o <<mint>>)
             = AmountsFor("mint", both) + OfMessage("mint", mint)
    BY <1>3, <1>8, MessageSent
  <2> HIDE DEF call
  <2> QED  BY <1>1, <1>4, <1>8, <1>9, <2>1
<1>13. InFlight' = InFlight /\ BurnedTotal' = BurnedTotal
  <2>1. calls \in [Call -> CallState] /\ calls' \in [Call -> CallState]
    BY DEF BInv, IInv, Types
  <2>2. /\ InFlight' = (InFlight - Due(calls[c])) + Due(calls'[c])
        /\ BurnedTotal' = (BurnedTotal - Burned(calls[c])) + Burned(calls'[c])
        /\ InFlight \in Int /\ BurnedTotal \in Int
    BY <1>7, <2>1, CallSet DEF InFlight, BurnedTotal
  <2>3. /\ Due(calls[c]) = 0 /\ Due(calls'[c]) = 0
        /\ Burned(calls[c]) = 0 /\ Burned(calls'[c]) = 0
    BY <1>7, <2>1, CallAmounts
  <2> QED  BY <2>2, <2>3
<1>14. Sound'
  BY <1>1, <1>7 DEF BInv, Sound, CallSound, IsPaying
<1>15. Drained => Drained'
  BY <1>1 DEF Drained
<1>16. ASSUME Backed, deviations' \cap {"direct", "unbacked", "failed"} = {}
       PROVE  Backed'
  <2>1. more = satoshi
    BY <1>10, <1>11, <1>16
  <2>2. total_supply \in Int /\ AmountsIn(used) \in Int /\ InFlight \in Int
    BY SumsInt DEF BInv, IInv, Sound
  <2> DEFINE pushes == AmountsFor("push", inbox)
             mints == AmountsFor("mint", inbox)
             held == AmountsIn(used)
  <2>3. /\ total_supply + mints = held + pushes + InFlight
        /\ pushes \in Int /\ mints \in Int /\ held \in Int
    BY <1>8, <1>16, <2>2 DEF Backed
  <2> HIDE DEF pushes, mints, held, satoshi
  <2>4. total_supply + (mints + satoshi) = held + (pushes + satoshi) + InFlight
    BY <1>9, <2>2, <2>3
  <2> QED  BY <1>1, <1>12, <1>13, <2>1, <2>4 DEF Backed, pushes, mints, held
<1>17. Even => Even'
  BY <1>1, <1>13 DEF Even
<1>18. Kept'
  BY <1>1, <1>15, <1>16, <1>17, KeepsKept DEF BInv
<1> QED  BY <1>14, <1>18 DEF BInv

\* What a turn of the loop does to the sums.
LEMMA TransferSums ==
    ASSUME IInv, NEW c \in Call, NEW call,
           call.who \in Client, call.amount \in Int, call.b \in Int, call.leftover \in Nat,
           Transfer(c, call)
    PROVE  LET payment == Payment(call.leftover)
               h == Head(used).account
           IN  /\ payment \in Int
               /\ AmountsIn(used) = payment + AmountsIn(used')
               /\ \A a : AmountsOf(a, used)
                           = (IF a = h THEN payment ELSE 0) + AmountsOf(a, used')
               /\ paid' = [paid EXCEPT ![h] = @ + payment]
               /\ Due(calls'[c]) = payment
               /\ Burned(calls'[c]) = call.amount - call.leftover
               /\ CallSound(calls'[c])
               /\ \A d \in Call \ {c} : calls'[d] = calls[d]
<1> DEFINE fits == Fits(call.leftover)
           payment == Payment(call.leftover)
           head == Head(used)
           tail == Tail(used)
           rest == [account |-> head.account, amount |-> head.amount - payment]
           left == call.leftover - IF fits = "whole" THEN payment ELSE 0
           next == [pc |-> fits, who |-> call.who, amount |-> call.amount, b |-> call.b,
                    payment |-> payment, leftover |-> left]
<1>1. /\ used \in Seq(Entry) /\ used # << >>
      /\ used' = (IF fits = "part" THEN <<rest>> ELSE << >>) \o tail
      /\ calls' = [calls EXCEPT ![c] = next]
      /\ paid' = [paid EXCEPT ![head.account] = @ + payment]
      /\ calls \in [Call -> CallState]
  BY DEF Transfer, Rest, IInv, Types
<1>2. head \in Entry /\ head.account \in Nat /\ head.amount \in Int
  <2>1. head \in Entry
    BY <1>1, HeadMember
  <2> HIDE DEF head
  <2> QED  BY <2>1 DEF Entry
<1>3. tail \in Seq(Entry)
  BY <1>1, TailMembers
<1>4. \/ fits = "whole" /\ payment = head.amount /\ head.amount < call.leftover
      \/ fits = "last" /\ payment = head.amount /\ payment = call.leftover
      \/ fits = "part" /\ payment = call.leftover
  BY <1>2 DEF Fits, Payment
<1>5. payment \in Int
  BY <1>2, <1>4
<1>6. rest \in Entry /\ rest.account = head.account /\ rest.amount = head.amount - payment
  BY <1>2, <1>5 DEF Entry
<1>7. /\ next.pc = fits /\ next.amount = call.amount
      /\ next.payment = payment /\ next.leftover = left
  OBVIOUS
<1>8. left \in Int /\ (fits = "whole" => left = call.leftover - payment /\ left >= 0)
                   /\ (fits # "whole" => left = call.leftover)
  BY <1>2, <1>4, <1>5
<1>9. calls'[c] = next /\ \A d \in Call \ {c} : calls'[d] = calls[d]
  BY <1>1
<1> HIDE DEF next, left, fits, payment
<1>10. Due(next) = payment /\ Burned(next) = call.amount - call.leftover /\ CallSound(next)
  <2>1. IsPaying(next)
    BY <1>4, <1>7 DEF IsPaying
  <2>2. Due(next) = payment
    BY <1>7, <2>1 DEF Due
  <2>3. Burned(next) = call.amount - left - IF fits = "whole" THEN payment ELSE 0
    BY <1>7, <2>1 DEF Burned
  <2>4. Burned(next) = call.amount - call.leftover
    BY <1>5, <1>8, <2>3
  <2>5. CallSound(next)
    BY <1>4, <1>7, <1>8 DEF CallSound
  <2> QED  BY <2>2, <2>4, <2>5
<1> HIDE DEF head, tail
<1>11. /\ AmountsIn(used) = head.amount + AmountsIn(tail)
       /\ \A a : AmountsOf(a, used) = OfEntry(a, head) + AmountsOf(a, tail)
  BY <1>1, EntryGoes DEF head, tail
<1>12. /\ AmountsIn(used) = payment + AmountsIn(used')
       /\ \A a : AmountsOf(a, used) = (IF a = head.account THEN payment ELSE 0) + AmountsOf(a, used')
  <2>1. CASE fits = "part"
    <3>1. used' = <<rest>> \o tail
      BY <1>1, <2>1
    <3> HIDE DEF rest
    <3>2. /\ AmountsIn(<<rest>> \o tail) = rest.amount + AmountsIn(tail)
          /\ AmountsIn(tail) \in Int
      BY <1>3, <1>6, EntryComes
    <3>3. AmountsIn(used) = payment + AmountsIn(used')
      <4> DEFINE t == AmountsIn(tail)
      <4>1. /\ AmountsIn(used) = head.amount + t
            /\ AmountsIn(used') = (head.amount - payment) + t
            /\ t \in Int
        BY <1>6, <1>11, <3>1, <3>2
      <4> HIDE DEF t
      <4> QED  BY <1>2, <1>5, <4>1
    <3>4. ASSUME NEW a
          PROVE  AmountsOf(a, used)
                   = (IF a = head.account THEN payment ELSE 0) + AmountsOf(a, used')
      <4> DEFINE t == AmountsOf(a, tail)
      <4>1. /\ AmountsOf(a, <<rest>> \o tail) = OfEntry(a, rest) + AmountsOf(a, tail)
            /\ AmountsOf(a, tail) \in Int
        BY <1>3, <1>6, EntryComes
      <4>2. /\ AmountsOf(a, used) = OfEntry(a, head) + t
            /\ AmountsOf(a, used') = OfEntry(a, rest) + t
            /\ t \in Int
        BY <1>11, <3>1, <4>1
      <4>3. /\ OfEntry(a, head) = IF a = head.account THEN head.amount ELSE 0
            /\ OfEntry(a, rest) = IF a = head.account THEN head.amount - payment ELSE 0
        BY <1>6 DEF OfEntry
      <4> HIDE DEF t
      <4> QED  BY <1>2, <1>5, <4>2, <4>3
    <3> QED  BY <3>3, <3>4
  <2>2. CASE fits # "part"
    <3>1. used' = tail /\ payment = head.amount
      <4>1. used' = << >> \o tail
        BY <1>1, <2>2
      <4> QED  BY <1>3, <1>4, <2>2, <4>1, ConcatEmptySeq
    <3>2. AmountsIn(used) = payment + AmountsIn(used')
      BY <1>11, <3>1
    <3>3. \A a : AmountsOf(a, used)
                   = (IF a = head.account THEN payment ELSE 0) + AmountsOf(a, used')
      BY <1>11, <3>1 DEF OfEntry
    <3> QED  BY <3>2, <3>3
  <2> QED  BY <2>1, <2>2
<1> QED  BY <1>1, <1>5, <1>9, <1>10, <1>12 DEF payment, head

\* A turn of the loop after the supply is burned, if the call was paying.
LEMMA TurnKeepsBooks ==
    ASSUME BInv, IInv', NEW c \in Call, NEW call,
           call.who \in Client, call.amount \in Int, call.b \in Int, call.leftover \in Nat,
           TakesTurn(c, call), UNCHANGED <<inbox, recorded>>,
           total_supply' = total_supply - Due(calls[c]),
           call.amount - call.leftover = Burned(calls[c]) + Due(calls[c])
    PROVE  BInv'
<1> DEFINE due == Due(calls[c])
           gone == Burned(calls[c])
           who == call.who
<1>1. /\ calls \in [Call -> CallState] /\ calls' \in [Call -> CallState] /\ Types
      /\ used \in Seq(Entry) /\ used' \in Seq(Entry)
      /\ total_supply \in Int /\ paid \in [Account -> Int] /\ recorded \in [Account -> Int]
      /\ balance \in [Client -> Int]
  BY DEF BInv, IInv, Types, Sound
<1>2. due \in Int /\ gone \in Int
  BY <1>1, CallAmounts
<1>3. /\ AmountsIn(used) \in Int /\ AmountsIn(used') \in Int
      /\ \A a : AmountsOf(a, used) \in Int /\ AmountsOf(a, used') \in Int
  BY <1>1, EntrySums, WeightsInt, ListSumInt
<1>4. ASSUME \A d \in Call \ {c} : calls'[d] = calls[d]
      PROVE  /\ InFlight' = (InFlight - due) + Due(calls'[c])
             /\ BurnedTotal' = (BurnedTotal - gone) + Burned(calls'[c])
  BY <1>1, <1>4, CallSet DEF InFlight, BurnedTotal
<1>5. /\ InFlight \in Int /\ BurnedTotal \in Int /\ SumFunction(balance) \in Int
      /\ AmountsFor("push", inbox) \in Int /\ AmountsFor("mint", inbox) \in Int
  BY <1>1, SumsInt
<1>6. call.amount - call.leftover = gone + due
  OBVIOUS
<1>7. /\ AmountsFor("push", inbox') = AmountsFor("push", inbox)
      /\ AmountsFor("mint", inbox') = AmountsFor("mint", inbox)
  OBVIOUS
<1>8. total_supply' = total_supply - due /\ total_supply' \in Int
  BY <1>1, <1>2
<1> HIDE DEF due, gone
<1>9. CASE Transfer(c, call) /\ UNCHANGED <<balance, deviations>>
  <2> DEFINE payment == Payment(call.leftover)
             h == Head(used).account
  <2>1. /\ payment \in Int
        /\ AmountsIn(used) = payment + AmountsIn(used')
        /\ \A a : AmountsOf(a, used) = (IF a = h THEN payment ELSE 0) + AmountsOf(a, used')
        /\ paid' = [paid EXCEPT ![h] = @ + payment]
        /\ Due(calls'[c]) = payment
        /\ Burned(calls'[c]) = call.amount - call.leftover
        /\ CallSound(calls'[c])
        /\ \A d \in Call \ {c} : calls'[d] = calls[d]
    BY <1>9, TransferSums DEF BInv
  <2> HIDE DEF payment, h
  <2>2. /\ InFlight' = (InFlight - due) + payment
        /\ BurnedTotal' = (BurnedTotal - gone) + (gone + due)
    BY <1>4, <1>6, <2>1
  <2>3. paid' \in [Account -> Int]
    <3>1. paid' = [x \in Account |-> IF x = h THEN paid[x] + payment ELSE paid[x]]
      BY <1>1, <2>1
    <3> DEFINE F(x) == IF x = h THEN paid[x] + payment ELSE paid[x]
    <3>2. \A x \in Account : paid[x] \in Int
      BY <1>1
    <3>3. \A x \in Account : F(x) \in Int
      BY <2>1, <3>2
    <3>4. paid' = [x \in Account |-> F(x)]
      BY <3>1
    <3> HIDE DEF F
    <3> QED  BY <3>3, <3>4
  <2>4. Sound'
    BY <1>1, <1>8, <2>1, <2>3 DEF BInv, Sound
  <2>5. ASSUME Drained, NEW a \in Account PROVE paid'[a] + AmountsOf(a, used') = recorded'[a]
    <3> DEFINE x == IF a = h THEN payment ELSE 0
               now == AmountsOf(a, used')
    <3>1. x \in Int /\ paid[a] \in Int /\ paid'[a] = paid[a] + x
      BY <1>1, <2>1
    <3>2. AmountsOf(a, used) = x + now /\ now \in Int
      BY <1>3, <2>1
    <3>3. paid[a] + AmountsOf(a, used) = recorded[a]
      BY <2>5 DEF Drained
    <3> HIDE DEF x, now
    <3>4. paid'[a] + now = recorded[a]
      BY <3>1, <3>2, <3>3
    <3> QED  BY <3>4 DEF now
  <2>6. Drained => Drained'
    BY <2>5 DEF Drained
  <2>7. Backed => Backed'
    <3> DEFINE pushes == AmountsFor("push", inbox)
               mints == AmountsFor("mint", inbox)
               held == AmountsIn(used')
    <3>1. pushes \in Int /\ mints \in Int /\ held \in Int
      BY <1>3, <1>5
    <3>2. AmountsIn(used) = payment + held
      BY <2>1
    <3> HIDE DEF pushes, mints, held
    <3>3. total_supply + mints = (payment + held) + pushes + InFlight
            => (total_supply - due) + mints = held + pushes + ((InFlight - due) + payment)
      BY <1>1, <1>2, <1>5, <2>1, <3>1
    <3>4. Backed => total_supply + mints = (payment + held) + pushes + InFlight
      BY <3>2 DEF Backed, pushes, mints
    <3>5. (total_supply - due) + mints = held + pushes + ((InFlight - due) + payment) => Backed'
      BY <1>7, <1>8, <2>2 DEF Backed, pushes, mints, held
    <3> QED  BY <3>3, <3>4, <3>5
  <2>8. Even => Even'
    <3>1. SumFunction(balance) = total_supply + BurnedTotal
            => SumFunction(balance) = (total_supply - due) + ((BurnedTotal - gone) + (gone + due))
      BY <1>1, <1>2, <1>5
    <3> QED  BY <1>8, <1>9, <2>2, <3>1 DEF Even
  <2>9. Kept'
    BY <1>9, <2>6, <2>7, <2>8, KeepsKept DEF BInv
  <2> QED  BY <2>4, <2>9 DEF BInv
<1>10. CASE RunsOut(c, call)
  <2>1. /\ UNCHANGED <<used, paid>> /\ deviations \subseteq deviations'
        /\ balance' = [balance EXCEPT ![who] = call.b - call.amount]
        /\ calls' = [calls EXCEPT ![c] = Idle]
        /\ balance[who] # call.b => "stale" \in deviations'
        /\ call.leftover > 0 => "short" \in deviations'
    BY <1>10 DEF RunsOut, Debit, Ends
  <2>2. \A d \in Call \ {c} : calls'[d] = calls[d]
    BY <1>1, <2>1
  <2>3. calls'[c] = Idle
    BY <1>1, <2>1
  <2>4. Due(calls'[c]) = 0 /\ Burned(calls'[c]) = 0 /\ CallSound(calls'[c])
    BY <2>3 DEF Idle, Due, Burned, CallSound, IsPaying
  <2>5. InFlight' = (InFlight - due) + 0 /\ BurnedTotal' = (BurnedTotal - gone) + 0
    BY <1>4, <2>2, <2>4
  <2>6. Sound'
    BY <1>1, <1>8, <2>1, <2>2, <2>4 DEF BInv, Sound
  <2>7. Drained => Drained'
    BY <2>1 DEF Drained
  <2>8. Backed => Backed'
    <3> DEFINE pushes == AmountsFor("push", inbox)
               mints == AmountsFor("mint", inbox)
               held == AmountsIn(used)
    <3>1. pushes \in Int /\ mints \in Int /\ held \in Int
      BY <1>3, <1>5
    <3> HIDE DEF pushes, mints, held
    <3>2. total_supply + mints = held + pushes + InFlight
            => (total_supply - due) + mints = held + pushes + ((InFlight - due) + 0)
      BY <1>1, <1>2, <1>5, <3>1
    <3> QED  BY <1>7, <1>8, <2>1, <2>5, <3>2 DEF Backed, pushes, mints, held
  <2>9. ASSUME Even, deviations' \cap {"self", "stale", "short", "failed"} = {}
        PROVE  Even'
    <3>1. balance[who] = call.b /\ call.leftover = 0
      BY <2>1, <2>9
    <3> DEFINE v == call.b - call.amount
    <3>2. v \in Int
      OBVIOUS
    <3> HIDE DEF v
    <3>3. SumFunction([balance EXCEPT ![who] = v]) = (SumFunction(balance) - balance[who]) + v
      BY <1>1, <3>2, BalanceSet
    <3> DEFINE s == SumFunction(balance)
               amount == call.amount
    <3>4. SumFunction(balance') = (s - call.b) + (call.b - amount) /\ s \in Int
      BY <1>5, <2>1, <3>1, <3>3 DEF v
    <3>5. amount = gone + due /\ amount \in Int
      BY <1>6, <3>1
    <3>6. s = total_supply + BurnedTotal
      BY <2>9 DEF Even
    <3> HIDE DEF s, amount
    <3>7. (s - call.b) + (call.b - amount) = (total_supply - due) + ((BurnedTotal - gone) + 0)
      BY <1>1, <1>2, <1>5, <3>4, <3>5, <3>6
    <3> QED  BY <1>8, <2>5, <3>4, <3>7 DEF Even
  <2>10. Kept'
    BY <2>1, <2>7, <2>8, <2>9, KeepsKept DEF BInv
  <2> QED  BY <2>6, <2>10 DEF BInv
<1> QED  BY <1>9, <1>10 DEF TakesTurn

LEMMA PayingFacts ==
    ASSUME BInv, NEW c \in Call, IsPaying(calls[c])
    PROVE  /\ calls[c].who \in Client /\ calls[c].amount \in Int /\ calls[c].b \in Int
           /\ calls[c].payment \in Int /\ calls[c].leftover \in Nat
           /\ Due(calls[c]) = calls[c].payment
<1>1. calls[c] \in Paying
  BY PayingType DEF BInv, IsPaying
<1>2. /\ calls[c].who \in Client /\ calls[c].amount \in Int /\ calls[c].b \in Int
      /\ calls[c].payment \in Int /\ calls[c].leftover \in Int
  BY <1>1 DEF Paying
<1>3. calls[c].leftover >= 0
  BY DEF BInv, Sound, CallSound
<1> QED  BY <1>2, <1>3 DEF Due

LEMMA UnwrapKeepsBooks ==
    ASSUME BInv, IInv', NEW c \in Call, NEW who \in Client, NEW amount \in Nat,
           Unwrap(c, who, amount)
    PROVE  BInv'
<1> DEFINE call == [who |-> who, amount |-> amount, b |-> balance[who], leftover |-> amount]
<1>1. /\ TakesTurn(c, call) /\ calls[c].pc = "idle" /\ total_supply' = total_supply
      /\ UNCHANGED <<inbox, recorded>>
  BY DEF Unwrap
<1>2. balance[who] \in Int /\ calls[c] \in CallState /\ total_supply \in Int
  BY DEF BInv, IInv, Types, Sound
<1>3. /\ call.who \in Client /\ call.amount \in Int /\ call.b \in Int /\ call.leftover \in Nat
      /\ call.amount - call.leftover = 0
  BY <1>2
<1>4. Due(calls[c]) = 0 /\ Burned(calls[c]) = 0
  BY <1>1, <1>2, CallAmounts DEF IsPaying
<1> HIDE DEF call
<1>5. /\ total_supply' = total_supply - Due(calls[c])
      /\ call.amount - call.leftover = Burned(calls[c]) + Due(calls[c])
  BY <1>1, <1>2, <1>3, <1>4
<1> QED  BY <1>1, <1>3, <1>5, TurnKeepsBooks

LEMMA TransferWholeKeepsBooks ==
    ASSUME BInv, IInv', NEW c \in Call, TransferWhole(c)
    PROVE  BInv'
<1> DEFINE call == calls[c]
<1>1. /\ TakesTurn(c, call) /\ call.pc = "whole"
      /\ total_supply' = total_supply - call.payment
      /\ UNCHANGED <<inbox, recorded>>
  BY DEF TransferWhole, Burns
<1>2. IsPaying(call)
  BY <1>1 DEF IsPaying
<1>3. /\ call.who \in Client /\ call.amount \in Int /\ call.b \in Int
      /\ call.payment \in Int /\ call.leftover \in Nat
      /\ Due(call) = call.payment
  BY <1>2, PayingFacts
<1>4. Burned(call) = call.amount - call.leftover - call.payment
  BY <1>1, <1>2 DEF Burned
<1>5. total_supply' = total_supply - Due(calls[c])
  BY <1>1, <1>3
<1>6. call.amount - call.leftover = Burned(calls[c]) + Due(calls[c])
  <2> DEFINE x == call.amount
             y == call.leftover
             z == call.payment
  <2>1. Burned(call) = x - y - z /\ Due(call) = z /\ x \in Int /\ y \in Int /\ z \in Int
    BY <1>3, <1>4
  <2> HIDE DEF x, y, z, call
  <2>2. x - y = Burned(call) + Due(call)
    BY <2>1
  <2> QED  BY <2>2 DEF x, y, call
<1> HIDE DEF call
<1>7. TakesTurn(c, call) /\ UNCHANGED <<inbox, recorded>>
  BY <1>1
<1> QED  BY <1>3, <1>5, <1>6, <1>7, TurnKeepsBooks

LEMMA TransferLastKeepsBooks ==
    ASSUME BInv, IInv', NEW c \in Call, TransferLast(c)
    PROVE  BInv'
<1> DEFINE call == calls[c]
           who == call.who
           payment == call.payment
           amount == call.amount
           v == call.b - amount
<1>1. /\ UNCHANGED <<used, recorded, paid>> /\ deviations \subseteq deviations'
      /\ call.pc \in {"last", "part"}
      /\ total_supply' = total_supply - payment
      /\ balance' = [balance EXCEPT ![who] = v]
      /\ calls' = [calls EXCEPT ![c] = Idle]
      /\ inbox' = inbox \o Sorts(call)
      /\ balance[who] # call.b => "stale" \in deviations'
  BY DEF TransferLast, Burns, Debit, Ends, Deviates
<1>2. IsPaying(call) /\ call.payment = call.leftover
  BY <1>1 DEF IsPaying, BInv, Sound, CallSound
<1>3. /\ who \in Client /\ amount \in Int /\ call.b \in Int /\ payment \in Int
      /\ Due(call) = payment
  BY <1>2, PayingFacts
<1>4. Burned(call) = amount - payment
  <2>1. Burned(call) = call.amount - call.leftover - 0
    BY <1>1, <1>2 DEF Burned
  <2> QED  BY <1>2, <1>3, <2>1
<1>5. v \in Int /\ v = call.b - amount
  BY <1>3
<1>6. /\ calls \in [Call -> CallState] /\ calls' \in [Call -> CallState] /\ Types
      /\ inbox \in Seq(Message) /\ balance \in [Client -> Int] /\ total_supply \in Int
  BY DEF BInv, IInv, Types, Sound
<1>7. calls'[c] = Idle /\ \A d \in Call \ {c} : calls'[d] = calls[d]
  BY <1>1, <1>6
<1>8. Due(calls'[c]) = 0 /\ Burned(calls'[c]) = 0 /\ CallSound(calls'[c])
  BY <1>7 DEF Idle, Due, Burned, CallSound, IsPaying
<1>9. /\ AmountsFor("push", inbox') = AmountsFor("push", inbox)
      /\ AmountsFor("mint", inbox') = AmountsFor("mint", inbox)
  <2>1. CASE call.pc = "part"
    <3>1. inbox' = inbox \o <<[method |-> "sort"]>>
      BY <1>1, <2>1 DEF Sorts
    <3> QED  BY <1>6, <3>1, SortSent
  <2>2. CASE call.pc # "part"
    <3>1. inbox' = inbox
      BY <1>1, <1>6, <2>2, ConcatEmptySeq DEF Sorts
    <3> QED  BY <3>1
  <2> QED  BY <2>1, <2>2
<1>10. /\ InFlight' = (InFlight - Due(call)) + Due(calls'[c])
       /\ BurnedTotal' = (BurnedTotal - Burned(call)) + Burned(calls'[c])
  BY <1>6, <1>7, CallSet DEF InFlight, BurnedTotal
<1> HIDE DEF call, who, payment, amount, v
<1>11. InFlight' = (InFlight - payment) + 0 /\ BurnedTotal' = (BurnedTotal - (amount - payment)) + 0
  BY <1>3, <1>4, <1>8, <1>10
<1>12. /\ InFlight \in Int /\ BurnedTotal \in Int /\ SumFunction(balance) \in Int
       /\ AmountsIn(used) \in Int
       /\ AmountsFor("push", inbox) \in Int /\ AmountsFor("mint", inbox) \in Int
  BY <1>6, SumsInt
<1>13. Sound'
  <2>1. total_supply' \in Int
    BY <1>1, <1>3, <1>6
  <2> QED  BY <1>1, <1>7, <1>8, <2>1 DEF BInv, Sound
<1>14. Drained => Drained'
  BY <1>1 DEF Drained
<1>15. Backed => Backed'
  <2> DEFINE pushes == AmountsFor("push", inbox)
             mints == AmountsFor("mint", inbox)
             held == AmountsIn(used)
  <2>1. pushes \in Int /\ mints \in Int /\ held \in Int
    BY <1>12
  <2> HIDE DEF pushes, mints, held
  <2>2. total_supply + mints = held + pushes + InFlight
          => (total_supply - payment) + mints = held + pushes + ((InFlight - payment) + 0)
    BY <1>3, <1>6, <1>12, <2>1
  <2> QED  BY <1>1, <1>9, <1>11, <2>2 DEF Backed, pushes, mints, held
<1>16. ASSUME Even, deviations' \cap {"self", "stale", "short", "failed"} = {}
       PROVE  Even'
  <2>1. balance[who] = call.b
    BY <1>1, <1>16
  <2>2. SumFunction([balance EXCEPT ![who] = v]) = (SumFunction(balance) - balance[who]) + v
    BY <1>3, <1>5, <1>6, BalanceSet
  <2> DEFINE s == SumFunction(balance)
             b == call.b
  <2>3. SumFunction(balance') = (s - b) + (b - amount) /\ s \in Int /\ b \in Int
    BY <1>1, <1>3, <1>5, <1>12, <2>1, <2>2
  <2>4. s = total_supply + BurnedTotal
    BY <1>16 DEF Even
  <2> HIDE DEF s, b
  <2>5. (s - b) + (b - amount) = (total_supply - payment) + ((BurnedTotal - (amount - payment)) + 0)
    BY <1>3, <1>6, <1>12, <2>3, <2>4
  <2> QED  BY <1>1, <1>11, <2>3, <2>5 DEF Even
<1>17. Kept'
  BY <1>1, <1>14, <1>15, <1>16, KeepsKept DEF BInv
<1> QED  BY <1>13, <1>17 DEF BInv

\* The steps that touch no books.
LEMMA CallsKeepBooks ==
    ASSUME BInv, IInv', NEW c \in Call,
           \/ \E p \in Client : CreateInvoice(c, p) \/ CloseInvoice(c, p)
           \/ InvoiceCreated(c) \/ GetBalance(c) \/ InvoiceRejected(c) \/ TransferFails(c)
    PROVE  BInv'
<1>1. /\ UNCHANGED <<books, inbox, recorded, paid>> /\ deviations \subseteq deviations'
  BY DEF CreateInvoice, CloseInvoice, InvoiceCreated, GetBalance, InvoiceRejected, TransferFails,
         history, Deviates
<1>2. calls \in [Call -> CallState]
  BY DEF BInv, IInv, Types
<1>3. ASSUME NEW new, calls' = [calls EXCEPT ![c] = new],
             "failed" \in deviations' \/ (~ IsPaying(calls[c]) /\ ~ IsPaying(new)),
             CallSound(new)
      PROVE  BInv'
  <2>1. calls'[c] = new /\ \A d \in Call \ {c} : calls'[d] = calls[d]
    BY <1>2, <1>3
  <2> QED  BY <1>1, <1>3, <2>1, KeepsBooks
<1>4. CallSound(Idle) /\ ~ IsPaying(Idle)
  BY DEF CallSound, IsPaying, Idle
<1>5. ASSUME NEW p \in Client, CreateInvoice(c, p) PROVE BInv'
  <2> DEFINE new == [pc |-> "create", who |-> p]
  <2>1. calls' = [calls EXCEPT ![c] = new] /\ ~ IsPaying(calls[c])
    BY <1>5 DEF CreateInvoice, IsPaying
  <2>2. ~ IsPaying(new) /\ CallSound(new)
    BY DEF IsPaying, CallSound
  <2> HIDE DEF new
  <2> QED  BY <1>3, <2>1, <2>2
<1>6. ASSUME NEW p \in Client, CloseInvoice(c, p) PROVE BInv'
  <2> DEFINE new == [pc |-> "close", who |-> p, account |-> invoice[p]]
  <2>1. calls' = [calls EXCEPT ![c] = new] /\ ~ IsPaying(calls[c])
    BY <1>6 DEF CloseInvoice, IsPaying
  <2>2. ~ IsPaying(new) /\ CallSound(new)
    BY DEF IsPaying, CallSound
  <2> HIDE DEF new
  <2> QED  BY <1>3, <2>1, <2>2
<1>7. CASE InvoiceCreated(c)
  BY <1>3, <1>4, <1>7 DEF InvoiceCreated, Ends, IsPaying
<1>8. CASE GetBalance(c)
  <2>1. PICK satoshi \in Value \cup {0} :
          calls' = [calls EXCEPT ![c] =
              [pc |-> "closing", who |-> calls[c].who, account |-> calls[c].account,
               balance |-> satoshi]]
    BY <1>8 DEF GetBalance
  <2> DEFINE new == [pc |-> "closing", who |-> calls[c].who, account |-> calls[c].account,
                     balance |-> satoshi]
  <2>2. satoshi \in Nat
    BY WrappedAssumption
  <2>3. ~ IsPaying(new) /\ CallSound(new)
    BY <2>2 DEF IsPaying, CallSound
  <2>4. ~ IsPaying(calls[c])
    BY <1>8 DEF GetBalance, IsPaying
  <2> HIDE DEF new
  <2>5. calls' = [calls EXCEPT ![c] = new]
    BY <2>1 DEF new
  <2> QED  BY <1>3, <2>3, <2>4, <2>5
<1>9. CASE InvoiceRejected(c)
  BY <1>3, <1>4, <1>9 DEF InvoiceRejected, Ends, IsPaying
<1>10. CASE TransferFails(c)
  BY <1>3, <1>4, <1>10 DEF TransferFails, Ends, Deviates
<1> QED  BY <1>5, <1>6, <1>7, <1>8, <1>9, <1>10

LEMMA InitBooks == Init => BInv
<1> SUFFICES ASSUME Init PROVE BInv
  OBVIOUS
<1>1. IInv
  BY InitIInv
<1>2. Sound
  BY DEF Init, Sound, CallSound, Idle, IsPaying
<1>3. used = << >> /\ inbox = << >> /\ used \in Seq(Entry) /\ inbox \in Seq(Message)
  BY DEF Init
<1>4. \A a : AmountsIn(used) = 0 /\ AmountsOf(a, used) = 0
  BY <1>3, EntrySums, WeightsInt, ListSumInt
<1>5. AmountsFor("push", inbox) = 0 /\ AmountsFor("mint", inbox) = 0
  BY <1>3, MessageSums, WeightsInt, ListSumInt
<1>6. InFlight = 0 /\ BurnedTotal = 0
  <2> DEFINE d == [c \in Call |-> Due(calls[c])]
             b == [c \in Call |-> Burned(calls[c])]
  <2>1. \A c \in Call : Due(calls[c]) = 0 /\ Burned(calls[c]) = 0
    BY DEF Init, Idle, Due, Burned, IsPaying
  <2>2. /\ DOMAIN d = Call /\ DOMAIN b = Call /\ IsFiniteSet(Call)
        /\ \A c \in Call : d[c] = 0 /\ b[c] = 0
    BY <2>1, WrappedAssumption
  <2> HIDE DEF d, b
  <2>3. SumFunctionOnSet(d, Call) = 0 /\ SumFunctionOnSet(b, Call) = 0
    BY <2>2, SumZero
  <2>4. SumFunction(d) = 0 /\ SumFunction(b) = 0
    BY <2>2, <2>3 DEF SumFunction
  <2> QED  BY <2>4 DEF InFlight, BurnedTotal, d, b
<1>7. SumFunction(balance) = 0
  <2>1. DOMAIN balance = Client /\ IsFiniteSet(Client) /\ \A p \in Client : balance[p] = 0
    BY WrappedAssumption DEF Init
  <2>2. SumFunctionOnSet(balance, Client) = 0
    BY <2>1, SumZero
  <2> QED  BY <2>1, <2>2 DEF SumFunction
<1>8. Drained /\ Backed /\ Even
  <2>1. Drained
    BY <1>4 DEF Init, Drained
  <2>2. Backed
    BY <1>4, <1>5, <1>6 DEF Init, Backed
  <2>3. Even
    BY <1>6, <1>7 DEF Init, Even
  <2> QED  BY <2>1, <2>2, <2>3
<1> QED  BY <1>1, <1>2, <1>8, KeptFacts DEF BInv, Kept

LEMMA NextBooks == BInv /\ [Next]_vars => BInv'
<1> SUFFICES ASSUME BInv, [Next]_vars
             PROVE  BInv'
  OBVIOUS
<1>0. IInv'
  BY NextIInv DEF BInv
<1>1. /\ \A v \in Value \cup Amount : v \in Int
      /\ \A v \in Amount : v \in Nat
      /\ \A a \in Account : a \in Nat
  BY WrappedAssumption DEF Account
<1>2. ASSUME NEW p \in Client, NEW v \in Value, Mint(p, v)
      PROVE  BInv'
  BY <1>0, <1>1, <1>2, MintKeepsBooks
<1>3. ASSUME NEW p \in Client, NEW q \in Client, NEW v \in Amount, Send(p, q, v)
      PROVE  BInv'
  BY <1>0, <1>1, <1>3, SendKeepsBooks
<1>4. ASSUME NEW a \in Account, NEW v \in Value, PushAccount(a, v)
      PROVE  BInv'
  BY <1>0, <1>1, <1>4, PushKeepsBooks
<1>5. CASE SortAccounts
  BY <1>0, <1>5, SortKeepsBooks DEF SortAccounts, Sort, history
<1>6. CASE ExecuteMessage
  BY <1>0, <1>6, ExecuteKeepsBooks
<1>7. ASSUME NEW c \in Call,
             \/ \E p \in Client : CreateInvoice(c, p) \/ CloseInvoice(c, p)
             \/ InvoiceCreated(c) \/ GetBalance(c) \/ InvoiceRejected(c) \/ TransferFails(c)
      PROVE  BInv'
  BY <1>0, <1>7, CallsKeepBooks
<1>8. ASSUME NEW c \in Call, InvoiceClosed(c)
      PROVE  BInv'
  BY <1>0, <1>8, InvoiceClosedKeepsBooks
<1>9. ASSUME NEW c \in Call, NEW p \in Client, NEW v \in Amount, Unwrap(c, p, v)
      PROVE  BInv'
  BY <1>0, <1>1, <1>9, UnwrapKeepsBooks
<1>10. ASSUME NEW c \in Call, TransferWhole(c) \/ TransferLast(c)
       PROVE  BInv'
  BY <1>0, <1>10, TransferWholeKeepsBooks, TransferLastKeepsBooks
<1>11. CASE UNCHANGED vars
  <2>1. Sound'
    BY <1>11 DEF vars, books, history, BInv, Sound
  <2>2. NoDoubleDrain'
    BY <1>11 DEF vars, books, history, BInv, Kept, NoDoubleDrain, UsedOf
  <2>3. InFlight' = InFlight /\ BurnedTotal' = BurnedTotal
    BY <1>11 DEF vars, InFlight, BurnedTotal
  <2>4. SupplyBacked' /\ SupplyIsBalances'
    BY <1>11, <2>3 DEF vars, books, history, BInv, Kept, SupplyBacked, SupplyIsBalances,
                       UsedTotal, PendingTotal, Balances
  <2> QED  BY <1>0, <2>1, <2>2, <2>4 DEF BInv, Kept
<1> QED  BY <1>2, <1>3, <1>4, <1>5, <1>6, <1>7, <1>8, <1>9, <1>10, <1>11 DEF Next

\* An account is told to pay what was recorded for it and not yet taken, and
\* nothing twice, however many calls of unwrap_btc run at once.
THEOREM NeverDrainsTwice == Spec => []NoDoubleDrain
<1>1. BInv => NoDoubleDrain
  BY DEF BInv, Kept
<1> QED  BY <1>1, InitBooks, NextBooks, PTL DEF Spec

\* The supply is what the used accounts hold, what is about to be recorded and
\* what accounts were told to pay, less what is about to be minted, unless the
\* tokens were minted or the account recorded directly, an invoice was created
\* while it was being closed, or a transfer failed.
THEOREM AlwaysBacked == Spec => []SupplyBacked
<1>1. BInv => SupplyBacked
  BY DEF BInv, Kept
<1> QED  BY <1>1, InitBooks, NextBooks, PTL DEF Spec

\* The balances add up to the supply and what the open unwraps have burned,
\* unless a client sent tokens to itself, a balance changed during an unwrap,
\* an unwrap ran out of accounts, or a transfer failed.
THEOREM BalancesAlwaysAddUp == Spec => []SupplyIsBalances
<1>1. BInv => SupplyIsBalances
  BY DEF BInv, Kept
<1> QED  BY <1>1, InitBooks, NextBooks, PTL DEF Spec
=============================================================================
