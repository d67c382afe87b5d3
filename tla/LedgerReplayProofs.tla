------------------------- MODULE LedgerReplayProofs -------------------------
(***************************************************************************)
(* Proofs about the ledger as a history: the Accounts rows are the replay  *)
(* of the Transactions rows, and what a sync returns is one moment of it.  *)
(* It ends with what this is to the phone of one user: the server that     *)
(* Client runs on.                                                         *)
(*                                                                         *)
(* The replay is defined by recursion over the rows.  What it satisfies is *)
(* shown from the least element principle for the natural numbers, stated  *)
(* for sets (WFMin), so that it needs no predicate as a parameter.         *)
(***************************************************************************)
EXTENDS LedgerService, LedgerProofs, WellFoundedInduction

-----------------------------------------------------------------------------
(* Induction and recursion *)

\* Induction over the natural numbers, for a set of them.
LEMMA SetInduction ==
    ASSUME NEW T, 0 \in T, \A n \in Nat : n \in T => n + 1 \in T
    PROVE  Nat \subseteq T
<1> DEFINE Less == OpToRel(<, Nat)
           Rest == Nat \ T
<1>1. IsWellFoundedOn(Less, Nat)
  BY NatLessThanWellFounded
<1>2. \A x, y \in Nat : x < y => <<x, y>> \in Less
  BY DEF OpToRel
<1> SUFFICES ASSUME Rest # {} PROVE FALSE
  OBVIOUS
<1>3. PICK x \in Rest : \A y \in Rest : <<y, x>> \notin Less
  <2> HIDE DEF Less
  <2> QED
    BY <1>1, WFMin
<1>4. x \in Nat /\ x # 0 /\ x - 1 \in Nat /\ x - 1 < x
  OBVIOUS
<1>5. x - 1 \in Rest
  BY <1>4
<1> QED
  BY <1>2, <1>3, <1>4, <1>5

\* f is the iteration of step from base, up to n.
Iterates(f, base, step, n) ==
    f[0] = base /\ \A i \in 0..(n - 1) : f[i + 1] = step[i][f[i]]

LEMMA IterationUnique ==
    ASSUME NEW f, NEW g, NEW base, NEW step, NEW n \in Nat,
           Iterates(f, base, step, n), Iterates(g, base, step, n)
    PROVE  \A i \in 0..n : f[i] = g[i]
<1> DEFINE T == {i \in Nat : i <= n => f[i] = g[i]}
<1>1. 0 \in T
  BY DEF Iterates
<1>2. ASSUME NEW i \in Nat, i \in T PROVE i + 1 \in T
  <2> SUFFICES ASSUME i + 1 <= n PROVE f[i + 1] = g[i + 1]
    OBVIOUS
  <2>1. i \in 0..(n - 1) /\ f[i] = g[i]
    BY <1>2
  <2> QED
    BY <2>1 DEF Iterates
<1>3. Nat \subseteq T
  <2> HIDE DEF T
  <2> QED
    BY <1>1, <1>2, SetInduction
<1> QED
  BY <1>3

LEMMA IterationExists ==
    ASSUME NEW S, NEW base \in S, NEW step \in [Nat -> [S -> S]]
    PROVE  \A n \in Nat : \E f \in [0..n -> S] : Iterates(f, base, step, n)
<1> DEFINE T == {n \in Nat : \E f \in [0..n -> S] : Iterates(f, base, step, n)}
<1>1. 0 \in T
  <2>1. [i \in 0..0 |-> base] \in [0..0 -> S] /\ Iterates([i \in 0..0 |-> base], base, step, 0)
    BY DEF Iterates
  <2> QED
    BY <2>1
<1>2. ASSUME NEW n \in Nat, NEW f \in [0..n -> S], Iterates(f, base, step, n)
      PROVE  \E g \in [0..(n + 1) -> S] : Iterates(g, base, step, n + 1)
  <2> DEFINE g == [i \in 0..(n + 1) |-> IF i = n + 1 THEN step[n][f[n]] ELSE f[i]]
  <2>1. f[n] \in S /\ step[n][f[n]] \in S
    OBVIOUS
  <2>2. g \in [0..(n + 1) -> S]
    BY <2>1
  <2>3. g[n + 1] = step[n][f[n]] /\ \A i \in 0..n : g[i] = f[i]
    OBVIOUS
  <2>4. g[0] = base
    BY <1>2, <2>3 DEF Iterates
  <2>5. ASSUME NEW i \in 0..n PROVE g[i + 1] = step[i][g[i]]
    <3>1. CASE i = n
      BY <2>3, <3>1
    <3>2. CASE i # n
      <4>1. i \in 0..(n - 1) /\ i + 1 \in 0..n
        BY <3>2
      <4>2. f[i + 1] = step[i][f[i]]
        BY <1>2, <4>1 DEF Iterates
      <4> QED
        BY <2>3, <4>1, <4>2
    <3> QED
      BY <3>1, <3>2
  <2>6. (n + 1) - 1 = n
    OBVIOUS
  <2> HIDE DEF g
  <2>7. Iterates(g, base, step, n + 1)
    BY <2>4, <2>5, <2>6 DEF Iterates
  <2> QED
    BY <2>2, <2>7
<1>3. Nat \subseteq T
  <2>1. ASSUME NEW n \in Nat, n \in T PROVE n + 1 \in T
    <3>1. PICK f \in [0..n -> S] : Iterates(f, base, step, n)
      BY <2>1
    <3>2. \E g \in [0..(n + 1) -> S] : Iterates(g, base, step, n + 1)
      BY <1>2, <3>1
    <3> QED
      BY <3>2
  <2> HIDE DEF T
  <2> QED
    BY <1>1, <2>1, SetInduction
<1> QED
  BY <1>3

-----------------------------------------------------------------------------
(* The replay *)

Balances == [Users -> Int]

LEMMA TransferBalances ==
    ASSUME NEW b \in Balances, NEW t \in Tams
    PROVE  Transfer(b, t) \in Balances
  BY TransferType DEF Balances

\* The recursive definition has a solution, and so the function it names is one.
LEMMA ReplayEquation ==
    ASSUME NEW rows \in Seq(Rows)
    PROVE  Replay(rows) = [k \in 0..Len(rows) |->
              IF k = 0 THEN Opening ELSE Transfer(Replay(rows)[k - 1], rows[k].tam)]
<1> DEFINE Equation(g) == g = [k \in 0..Len(rows) |->
                                 IF k = 0 THEN Opening ELSE Transfer(g[k - 1], rows[k].tam)]
           n == Len(rows)
           step == [i \in Nat |-> [v \in Balances |->
                       IF i < n THEN Transfer(v, rows[i + 1].tam) ELSE v]]
<1>1. Replay(rows) = CHOOSE g : Equation(g)
  BY DEF Replay
<1>2. n \in Nat /\ \A k \in 1..n : rows[k].tam \in Tams
  <2>1. Len(rows) \in Nat /\ \A k \in 1..Len(rows) : rows[k] \in Rows
    OBVIOUS
  <2> QED
    BY <2>1 DEF Rows
<1>3. step \in [Nat -> [Balances -> Balances]]
  <2> SUFFICES ASSUME NEW i \in Nat, NEW v \in Balances
               PROVE  (IF i < n THEN Transfer(v, rows[i + 1].tam) ELSE v) \in Balances
    OBVIOUS
  <2>1. CASE i < n
    <3>1. rows[i + 1].tam \in Tams
      BY <1>2, <2>1
    <3> QED
      BY <2>1, <3>1, TransferBalances
  <2> QED
    BY <2>1
<1>4. PICK f \in [0..n -> Balances] : Iterates(f, Opening, step, n)
  <2>1. Opening \in Balances
    BY PaymentsAssumption DEF Balances
  <2> HIDE DEF step, n
  <2> QED
    BY <1>2, <1>3, <2>1, IterationExists
<1>5. \A k \in 0..n : f[k] = IF k = 0 THEN Opening ELSE Transfer(f[k - 1], rows[k].tam)
  <2> SUFFICES ASSUME NEW k \in 0..n, k # 0 PROVE f[k] = Transfer(f[k - 1], rows[k].tam)
    BY <1>4 DEF Iterates
  <2>1. k - 1 \in 0..(n - 1) /\ k - 1 \in Nat /\ k - 1 < n /\ (k - 1) + 1 = k /\ f[k - 1] \in Balances
    BY <1>2
  <2>2. f[(k - 1) + 1] = step[k - 1][f[k - 1]]
    <3> HIDE DEF step, n
    <3> QED
      BY <1>4, <2>1 DEF Iterates
  <2>3. step[k - 1][f[k - 1]] = Transfer(f[k - 1], rows[(k - 1) + 1].tam)
    <3> HIDE DEF n
    <3> QED
      BY <2>1
  <2> QED
    BY <2>1, <2>2, <2>3
<1>6. Equation(f)
  <2> HIDE DEF step
  <2> QED
    BY <1>4, <1>5
<1> QED
  <2>1. Equation(CHOOSE g : Equation(g))
    <3> HIDE DEF Equation
    <3> QED
      BY <1>6
  <2> QED
    BY <1>1, <2>1

\* One more row leaves the earlier balances alone and transfers from the last.
LEMMA ReplayAppends ==
    ASSUME NEW rows \in Seq(Rows), NEW row \in Rows
    PROVE  /\ \A k \in 0..Len(rows) : Replay(Append(rows, row))[k] = Replay(rows)[k]
           /\ Replay(Append(rows, row))[Len(rows) + 1]
                 = Transfer(Replay(rows)[Len(rows)], row.tam)
<1> DEFINE n == Len(rows)
           more == Append(rows, row)
           T == {k \in Nat : k <= n => Replay(more)[k] = Replay(rows)[k]}
<1>1. /\ n \in Nat /\ more \in Seq(Rows) /\ Len(more) = n + 1 /\ more[n + 1] = row
      /\ \A k \in 1..n : more[k] = rows[k]
  OBVIOUS
<1>2. /\ \A k \in 0..n :
           Replay(rows)[k] = IF k = 0 THEN Opening ELSE Transfer(Replay(rows)[k - 1], rows[k].tam)
      /\ \A k \in 0..(n + 1) :
           Replay(more)[k] = IF k = 0 THEN Opening ELSE Transfer(Replay(more)[k - 1], more[k].tam)
  <2>1. Replay(rows) = [k \in 0..n |->
              IF k = 0 THEN Opening ELSE Transfer(Replay(rows)[k - 1], rows[k].tam)]
    BY ReplayEquation
  <2>2. Replay(more) = [k \in 0..(n + 1) |->
              IF k = 0 THEN Opening ELSE Transfer(Replay(more)[k - 1], more[k].tam)]
    <3> HIDE DEF more, n
    <3> QED
      BY <1>1, ReplayEquation
  <2> HIDE DEF more, n
  <2> QED
    BY <2>1, <2>2
<1> HIDE DEF more, n
<1>3. 0 \in T
  BY <1>1, <1>2
<1>4. ASSUME NEW k \in Nat, k \in T PROVE k + 1 \in T
  <2> SUFFICES ASSUME k + 1 <= n PROVE Replay(more)[k + 1] = Replay(rows)[k + 1]
    OBVIOUS
  <2>1. k + 1 \in 1..n /\ k + 1 \in 0..n /\ k + 1 \in 0..(n + 1) /\ (k + 1) - 1 = k /\ k + 1 # 0
    BY <1>1
  <2>2. Replay(more)[k] = Replay(rows)[k]
    BY <1>1, <1>4, <2>1
  <2> QED
    BY <1>1, <1>2, <2>1, <2>2
<1>5. Nat \subseteq T
  <2>1. \A k \in Nat : k \in T => k + 1 \in T
    BY <1>4
  <2> HIDE DEF T
  <2> QED
    BY <1>3, <2>1, SetInduction
<1>6. \A k \in 0..n : Replay(more)[k] = Replay(rows)[k]
  BY <1>1, <1>5
<1>7. Replay(more)[n + 1] = Transfer(Replay(rows)[n], row.tam)
  <2>1. n + 1 \in 0..(n + 1) /\ n + 1 # 0 /\ (n + 1) - 1 = n /\ n \in 0..n
    BY <1>1
  <2> QED
    BY <1>1, <1>2, <1>6, <2>1
<1> QED
  BY <1>6, <1>7 DEF n, more

LEMMA ReplayStarts ==
    ASSUME NEW rows \in Seq(Rows)
    PROVE  Replay(rows)[0] = Opening
<1>1. 0 \in 0..Len(rows)
  OBVIOUS
<1> QED
  BY <1>1, ReplayEquation

\* What a step does to the history: nothing, or one row more.
LEMMA HistoryGrows ==
    ASSUME IInv, [Next]_vars
    PROVE  /\ Len(ledger) \in Nat /\ Len(ledger') \in Nat /\ Len(ledger) <= Len(ledger')
           /\ \A k \in 1..Len(ledger) : ledger'[k] = ledger[k]
           /\ \A k \in 0..Len(ledger) : BalanceAfter(k)' = BalanceAfter(k)
           /\ BalancesReplayLedger => BalancesReplayLedger'
<1>1. ledger \in Seq(Rows)
  BY DEF IInv, TypeOK
<1>2. CASE balance' = balance /\ ledger' = ledger
  BY <1>1, <1>2 DEF BalanceAfter, BalancesReplayLedger
<1>3. CASE \E r \in Requests : Committing(r)
  <2>1. PICK r \in Requests : Committing(r)
    BY <1>3
  <2>2. PICK row : ledger' = Append(ledger, row) /\ row.tam = Current(r)
    BY <2>1 DEF Committing, Publish
  <2>3. ledger' \in Seq(Rows) /\ balance' = Transfer(balance, Current(r))
    <3>1. TypeOK'
      BY StepTyped DEF IInv
    <3> QED
      BY <2>1, <3>1, CommitSettles DEF TypeOK
  <2>4. row \in Rows
    <3>1. ledger'[Len(ledger')] = row /\ Len(ledger') \in DOMAIN ledger'
      BY <1>1, <2>2
    <3> QED
      BY <2>3, <3>1
  <2>5. /\ \A k \in 0..Len(ledger) : Replay(ledger')[k] = Replay(ledger)[k]
        /\ Replay(ledger')[Len(ledger) + 1] = Transfer(Replay(ledger)[Len(ledger)], Current(r))
    BY <1>1, <2>2, <2>4, ReplayAppends
  <2>6. Len(ledger') = Len(ledger) + 1 /\ \A k \in 1..Len(ledger) : ledger'[k] = ledger[k]
    BY <1>1, <2>2, <2>4
  <2>7. Len(ledger) \in Nat
    BY <1>1
  <2>8. \A k \in 0..Len(ledger) : BalanceAfter(k)' = BalanceAfter(k)
    BY <2>5 DEF BalanceAfter
  <2>9. BalancesReplayLedger => BalancesReplayLedger'
    BY <2>3, <2>5, <2>6 DEF BalancesReplayLedger, BalanceAfter
  <2> QED
    BY <2>6, <2>7, <2>8, <2>9
<1> QED
  BY <1>2, <1>3, StepSettles

\* Whatever the interleaving of the requests, their faults and the crashes, the
\* Accounts rows are the Transactions rows replayed one by one: no update is
\* lost and none is applied twice.
THEOREM BalancesAreReplayed == Spec => []BalancesReplayLedger
<1>1. Init => BalancesReplayLedger
  <2>1. <<>> \in Seq(Rows) /\ Len(<<>>) = 0
    OBVIOUS
  <2> QED
    BY <2>1, ReplayStarts DEF Init, BalancesReplayLedger, BalanceAfter
<1>2. IInv /\ BalancesReplayLedger /\ [Next]_vars => BalancesReplayLedger'
  BY HistoryGrows
<1> QED
  BY <1>1, <1>2, Invariance, PTL DEF Spec

-----------------------------------------------------------------------------
(* Money *)

\* The users in some order, each of them once.
Roster(users, n) ==
    /\ users \in [1..n -> Users]
    /\ \A u \in Users : \E i \in 1..n : users[i] = u
    /\ \A i, j \in 1..n : users[i] = users[j] => i = j

\* What the first k users have together.
Sums(b, users, n) ==
    LET sum[k \in 0..n] == IF k = 0 THEN 0 ELSE sum[k - 1] + b[users[k]]
    IN  sum

LEMMA SumsEquation ==
    ASSUME NEW b \in Balances, NEW n \in Nat, NEW users \in [1..n -> Users]
    PROVE  /\ Sums(b, users, n)[0] = 0
           /\ \A k \in 1..n : Sums(b, users, n)[k] = Sums(b, users, n)[k - 1] + b[users[k]]
           /\ \A k \in 0..n : Sums(b, users, n)[k] \in Int
<1> DEFINE Equation(g) == g = [k \in 0..n |-> IF k = 0 THEN 0 ELSE g[k - 1] + b[users[k]]]
           step == [i \in Nat |-> [v \in Int |-> IF i < n THEN v + b[users[i + 1]] ELSE v]]
<1>1. step \in [Nat -> [Int -> Int]]
  <2> SUFFICES ASSUME NEW i \in Nat, NEW v \in Int
               PROVE  (IF i < n THEN v + b[users[i + 1]] ELSE v) \in Int
    OBVIOUS
  <2>1. CASE i < n
    <3>1. b[users[i + 1]] \in Int
      BY <2>1 DEF Balances
    <3> QED
      BY <2>1, <3>1
  <2> QED
    BY <2>1
<1>2. PICK f \in [0..n -> Int] : Iterates(f, 0, step, n)
  <2>1. 0 \in Int
    OBVIOUS
  <2> HIDE DEF step
  <2> QED
    BY <1>1, <2>1, IterationExists
<1>3. \A k \in 0..n : f[k] = IF k = 0 THEN 0 ELSE f[k - 1] + b[users[k]]
  <2> SUFFICES ASSUME NEW k \in 0..n, k # 0 PROVE f[k] = f[k - 1] + b[users[k]]
    BY <1>2 DEF Iterates
  <2>1. k - 1 \in 0..(n - 1) /\ k - 1 \in Nat /\ k - 1 < n /\ (k - 1) + 1 = k /\ f[k - 1] \in Int
    OBVIOUS
  <2>2. f[(k - 1) + 1] = step[k - 1][f[k - 1]]
    <3> HIDE DEF step
    <3> QED
      BY <1>2, <2>1 DEF Iterates
  <2> QED
    BY <2>1, <2>2
<1>4. Equation(f)
  <2> HIDE DEF step
  <2> QED
    BY <1>2, <1>3
<1>5. Equation(Sums(b, users, n))
  <2>1. Equation(CHOOSE g : Equation(g))
    <3> HIDE DEF Equation
    <3> QED
      BY <1>4
  <2> QED
    BY <2>1 DEF Sums
<1> DEFINE s == Sums(b, users, n)
<1>6. \A k \in 0..n : s[k] = IF k = 0 THEN 0 ELSE s[k - 1] + b[users[k]]
  <2> HIDE DEF s
  <2> QED
    BY <1>5 DEF s
<1>7. \A k \in 0..n : s[k] \in Int
  <2> DEFINE T == {k \in Nat : k <= n => s[k] \in Int}
  <2> HIDE DEF s
  <2>1. 0 \in T
    BY <1>6
  <2>2. ASSUME NEW k \in Nat, k \in T PROVE k + 1 \in T
    <3> SUFFICES ASSUME k + 1 <= n PROVE s[k + 1] \in Int
      OBVIOUS
    <3>1. k + 1 \in 0..n /\ k + 1 # 0 /\ (k + 1) - 1 = k /\ s[k] \in Int /\ k + 1 \in 1..n
      BY <2>2
    <3>2. s[k + 1] = s[k] + b[users[k + 1]] /\ b[users[k + 1]] \in Int
      BY <1>6, <3>1 DEF Balances
    <3> QED
      BY <3>1, <3>2
  <2>3. Nat \subseteq T
    <3> HIDE DEF T
    <3> QED
      BY <2>1, <2>2, SetInduction
  <2> QED
    BY <2>3
<1> HIDE DEF s
<1>8. \A k \in 1..n : k \in 0..n /\ k # 0
  OBVIOUS
<1>9. s[0] = 0 /\ \A k \in 1..n : s[k] = s[k - 1] + b[users[k]]
  BY <1>6, <1>8
<1> QED
  BY <1>7, <1>9 DEF s

\* The debit and the credit of a payment are each rounded to the cent.  Of whole
\* cents both are exact; with half a cent they can miss each other by a cent.
LEMMA RoundingDrift ==
    ASSUME NEW b \in Int, NEW c \in Int, NEW a \in Int
    PROVE  /\ Debited(b, a) + Credited(c, a) - (b + c) \in -1..1
           /\ a % 2 = 0 => Debited(b, a) + Credited(c, a) = b + c
<1>1. ASSUME NEW n \in Int
      PROVE  /\ Cents(n) \in Int /\ 2 * Cents(n) - n \in -1..1
             /\ n % 2 = 0 => 2 * Cents(n) = n
  BY DEF Cents
<1>0. 2 * b - a \in Int /\ 2 * c + a \in Int
  OBVIOUS
<1>2. PICK m \in Int, n \in Int : m = 2 * b - a /\ n = 2 * c + a
  BY <1>0
<1>3. a % 2 = 0 => m % 2 = 0 /\ n % 2 = 0
  BY <1>2
<1>4. PICK x, y \in Int : x = Cents(m) /\ y = Cents(n)
  BY <1>1
<1>5. /\ 2 * x - m \in -1..1 /\ 2 * y - n \in -1..1
      /\ a % 2 = 0 => 2 * x = m /\ 2 * y = n
  BY <1>1, <1>3, <1>4
<1>6. x + y - (b + c) \in -1..1 /\ (a % 2 = 0 => x + y = b + c)
  BY <1>2, <1>5
<1> QED
  BY <1>2, <1>4, <1>6 DEF Debited, Credited

\* A transfer changes the total where the sender is counted and where the
\* receiver is, and nowhere else.
LEMMA TransferKeepsTotal ==
    ASSUME NEW n \in Nat, NEW users, Roster(users, n), NEW b \in Balances, NEW t \in Tams,
           ~SelfPayment(t)
    PROVE  LET before == Sums(b, users, n)[n]
               after == Sums(Transfer(b, t), users, n)[n]
           IN  /\ before \in Int /\ after \in Int
               /\ after - before \in -1..1
               /\ Amount[t] % 2 = 0 => after = before
<1>1. /\ users \in [1..n -> Users] /\ Amount[t] \in Int
      /\ Sender[t] \in Users /\ Receiver[t] \in Users
  BY PaymentsAssumption DEF Roster
<1>2. PICK i \in 1..n, j \in 1..n : users[i] = Sender[t] /\ users[j] = Receiver[t]
  BY <1>1 DEF Roster
<1>3. PICK c : c = Transfer(b, t)
  OBVIOUS
<1>4. c \in Balances
  BY <1>3, TransferBalances
<1> DEFINE d == b[Sender[t]] - Debited(b[Sender[t]], Amount[t])
           e == Credited(b[Receiver[t]], Amount[t]) - b[Receiver[t]]
           Out(k) == IF i <= k THEN d ELSE 0
           In(k) == IF j <= k THEN e ELSE 0
           p == Sums(b, users, n)
           q == Sums(c, users, n)
           T == {k \in Nat : k <= n => q[k] = p[k] - Out(k) + In(k)}
<1>5. /\ p[0] = 0 /\ \A k \in 1..n : p[k] = p[k - 1] + b[users[k]]
      /\ \A k \in 0..n : p[k] \in Int
  BY <1>1, SumsEquation
<1>6. /\ q[0] = 0 /\ \A k \in 1..n : q[k] = q[k - 1] + c[users[k]]
      /\ \A k \in 0..n : q[k] \in Int
  BY <1>1, <1>4, SumsEquation
<1>7. d \in Int /\ e \in Int /\ e - d \in -1..1 /\ (Amount[t] % 2 = 0 => e = d)
  <2>1. b[Sender[t]] \in Int /\ b[Receiver[t]] \in Int
    BY <1>1 DEF Balances
  <2>2. PICK x, y, u, v : /\ x = b[Sender[t]] /\ u = Debited(x, Amount[t])
                          /\ y = b[Receiver[t]] /\ v = Credited(y, Amount[t])
    OBVIOUS
  <2>3. /\ x \in Int /\ y \in Int /\ u \in Int /\ v \in Int /\ u + v - (x + y) \in -1..1
        /\ Amount[t] % 2 = 0 => u + v = x + y
    BY <1>1, <2>1, <2>2, RoundedToCents, RoundingDrift
  <2>4. d = x - u /\ e = v - y
    BY <2>2
  <2> QED
    BY <2>3, <2>4
<1>8. ASSUME NEW k \in 1..n
      PROVE  /\ b[users[k]] \in Int
             /\ c[users[k]] = b[users[k]] - (IF k = i THEN d ELSE 0) + (IF k = j THEN e ELSE 0)
  <2>1. users[k] \in Users /\ b[users[k]] \in Int
    BY <1>1 DEF Balances
  <2>2. (users[k] = Sender[t] <=> k = i) /\ (users[k] = Receiver[t] <=> k = j)
    BY <1>2 DEF Roster
  <2>3. c[users[k]] = IF k = i THEN Debited(b[users[k]], Amount[t])
                      ELSE IF k = j THEN Credited(b[users[k]], Amount[t])
                      ELSE b[users[k]]
    BY <1>3, <2>1, <2>2, TransferAt DEF Balances
  <2>4. i # j
    BY <1>2 DEF SelfPayment
  <2>5. CASE k = i
    <3>1. d = b[users[k]] - Debited(b[users[k]], Amount[t]) /\ c[users[k]] = Debited(b[users[k]], Amount[t])
      BY <1>2, <2>3, <2>5
    <3>2. Debited(b[users[k]], Amount[t]) \in Int
      BY <1>1, <2>1, RoundedToCents
    <3> HIDE DEF d, e
    <3> QED
      BY <1>7, <2>1, <2>4, <2>5, <3>1, <3>2
  <2>6. CASE k = j
    <3>1. e = Credited(b[users[k]], Amount[t]) - b[users[k]] /\ c[users[k]] = Credited(b[users[k]], Amount[t])
      BY <1>2, <2>3, <2>4, <2>6
    <3>2. Credited(b[users[k]], Amount[t]) \in Int
      BY <1>1, <2>1, RoundedToCents
    <3> HIDE DEF d, e
    <3> QED
      BY <1>7, <2>1, <2>4, <2>6, <3>1, <3>2
  <2>7. CASE k # i /\ k # j
    <3> HIDE DEF d, e
    <3> QED
      BY <2>1, <2>3, <2>7
  <2> QED
    BY <2>5, <2>6, <2>7
<1> HIDE DEF p, q, d, e
<1>9. 0 \in T
  BY <1>5, <1>6
<1>10. ASSUME NEW k \in Nat, k \in T PROVE k + 1 \in T
  <2> SUFFICES ASSUME k + 1 <= n PROVE q[k + 1] = p[k + 1] - Out(k + 1) + In(k + 1)
    OBVIOUS
  <2>1. k + 1 \in 1..n /\ (k + 1) - 1 = k /\ k \in 0..n /\ q[k] = p[k] - Out(k) + In(k)
    BY <1>10
  <2>2. p[k + 1] = p[k] + b[users[k + 1]] /\ q[k + 1] = q[k] + c[users[k + 1]]
    BY <1>5, <1>6, <2>1
  <2>3. /\ Out(k + 1) = Out(k) + (IF k + 1 = i THEN d ELSE 0)
        /\ In(k + 1) = In(k) + (IF k + 1 = j THEN e ELSE 0)
        /\ Out(k) \in Int /\ In(k) \in Int /\ p[k] \in Int
    BY <1>5, <1>7, <2>1
  <2>4. PICK x, y : /\ x = (IF k + 1 = i THEN d ELSE 0) /\ y = (IF k + 1 = j THEN e ELSE 0)
    OBVIOUS
  <2>5. x \in Int /\ y \in Int /\ b[users[k + 1]] \in Int
        /\ c[users[k + 1]] = b[users[k + 1]] - x + y
    BY <1>7, <1>8, <2>1, <2>4
  <2> HIDE DEF Out, In
  <2> QED
    BY <2>1, <2>2, <2>3, <2>4, <2>5
<1>11. Nat \subseteq T
  <2> HIDE DEF T
  <2> QED
    BY <1>9, <1>10, SetInduction
<1>12. q[n] = p[n] - Out(n) + In(n) /\ Out(n) = d /\ In(n) = e /\ p[n] \in Int
  BY <1>5, <1>11
<1>13. /\ p[n] \in Int /\ q[n] \in Int /\ q[n] - p[n] \in -1..1
       /\ Amount[t] % 2 = 0 => q[n] = p[n]
  BY <1>7, <1>12
<1> QED
  BY <1>3, <1>13 DEF p, q

\* How many of the first k rows move half a cent.
HalfCents(k) == Cardinality({i \in 1..k : Amount[ledger[i].tam] % 2 = 1})

LEMMA HalfCentsCount ==
    ASSUME IInv, NEW r \in Requests, Committing(r)
    PROVE  /\ HalfCents(Len(ledger)) \in Nat
           /\ HalfCents(Len(ledger))' = HalfCents(Len(ledger))
                + (IF Amount[Current(r)] % 2 = 1 THEN 1 ELSE 0)
<1> DEFINE n == Len(ledger)
           S == {i \in 1..n : Amount[ledger[i].tam] % 2 = 1}
           c == Current(r)
<1>1. ledger \in Seq(Rows) /\ n \in Nat
  BY DEF IInv, TypeOK
<1>2. PICK row : ledger' = Append(ledger, row) /\ row.tam = c
  BY DEF Committing, Publish
<1>3. /\ Len(ledger') = n + 1 /\ ledger'[n + 1] = row
      /\ \A i \in 1..n : ledger'[i] = ledger[i]
  BY <1>1, <1>2
<1>4. IsFiniteSet(S) /\ n + 1 \notin S /\ HalfCents(Len(ledger)) = Cardinality(S)
  <2>1. IsFiniteSet(1..n)
    BY <1>1, FS_Interval
  <2> QED
    BY <1>1, <2>1, FS_Subset DEF HalfCents
<1>5. HalfCents(Len(ledger))' = Cardinality({i \in 1..(n + 1) : Amount[ledger'[i].tam] % 2 = 1})
  BY <1>3 DEF HalfCents
<1>6. Cardinality(S) \in Nat
  BY <1>4, FS_CardinalityType
<1>7. CASE Amount[c] % 2 = 1
  <2>1. {i \in 1..(n + 1) : Amount[ledger'[i].tam] % 2 = 1} = S \cup {n + 1}
    BY <1>1, <1>2, <1>3, <1>7
  <2> HIDE DEF S, n, c
  <2> QED
    BY <1>4, <1>5, <1>6, <1>7, <2>1, FS_AddElement DEF c
<1>8. CASE Amount[c] % 2 # 1
  <2>1. {i \in 1..(n + 1) : Amount[ledger'[i].tam] % 2 = 1} = S
    BY <1>1, <1>2, <1>3, <1>8
  <2>2. HalfCents(Len(ledger))' = Cardinality(S)
    BY <1>5, <2>1
  <2> HIDE DEF S, n
  <2> QED
    BY <1>4, <1>6, <1>8, <2>2
<1> QED
  BY <1>7, <1>8

\* Whatever fails or crashes, the accounts together hold what they held in the
\* beginning, at every moment and not only when the syncs are over, but for at
\* most a cent a settled payment of half a cent: those two roundings are the
\* only way money is made or lost.
THEOREM MoneyIsConserved ==
    ASSUME NEW CONSTANT n \in Nat, NEW CONSTANT users, Roster(users, n)
    PROVE  Spec => [](Sums(balance, users, n)[n] - Sums(Opening, users, n)[n]
                         \in -HalfCents(Len(ledger))..HalfCents(Len(ledger)))
<1> DEFINE total == Sums(balance, users, n)[n]
           opening == Sums(Opening, users, n)[n]
           halves == HalfCents(Len(ledger))
           Conserved == total - opening \in -halves..halves
<1>0. opening \in Int
  <2>1. users \in [1..n -> Users] /\ Opening \in Balances /\ n \in 0..n
    BY PaymentsAssumption DEF Roster, Balances
  <2> QED
    BY <2>1, SumsEquation
<1>1. Init => Conserved
  <2> SUFFICES ASSUME Init PROVE Conserved
    OBVIOUS
  <2>1. total = opening /\ Len(ledger) = 0
    BY DEF Init
  <2>2. halves = 0
    <3>1. {i \in 1..Len(ledger) : Amount[ledger[i].tam] % 2 = 1} = {}
      BY <2>1
    <3> QED
      BY <3>1, FS_EmptySet DEF HalfCents
  <2> HIDE DEF opening, total, halves
  <2> QED
    BY <1>0, <2>1, <2>2
<1>2. IInv /\ Conserved /\ [Next]_vars => Conserved'
  <2> SUFFICES ASSUME IInv, Conserved, [Next]_vars PROVE Conserved'
    OBVIOUS
  <2>1. CASE balance' = balance /\ ledger' = ledger
    BY <2>1 DEF HalfCents
  <2>2. CASE \E r \in Requests : Committing(r)
    <3>1. PICK r \in Requests : Committing(r)
      BY <2>2
    <3>2. /\ balance' = Transfer(balance, Current(r)) /\ Current(r) \in Tams
          /\ ~SelfPayment(Current(r))
      BY <3>1, CommitSettles
    <3>3. balance \in Balances /\ Amount[Current(r)] \in Int
      BY <3>2, PaymentsAssumption DEF IInv, TypeOK, Balances
    <3>4. PICK c : c = Transfer(balance, Current(r))
      OBVIOUS
    <3>5. /\ Sums(balance, users, n)[n] \in Int /\ Sums(c, users, n)[n] \in Int
          /\ Sums(c, users, n)[n] - Sums(balance, users, n)[n] \in -1..1
          /\ Amount[Current(r)] % 2 = 0 => Sums(c, users, n)[n] = Sums(balance, users, n)[n]
      BY <3>2, <3>3, <3>4, TransferKeepsTotal
    <3>6. PICK x, y : x = Sums(balance, users, n)[n] /\ y = Sums(c, users, n)[n]
      OBVIOUS
    <3>7. PICK h, k : h = HalfCents(Len(ledger)) /\ k = HalfCents(Len(ledger))'
      OBVIOUS
    <3>8. h \in Nat /\ k = h + (IF Amount[Current(r)] % 2 = 1 THEN 1 ELSE 0)
      BY <3>1, <3>7, HalfCentsCount
    <3>9. Amount[Current(r)] % 2 = 0 \/ Amount[Current(r)] % 2 = 1
      BY <3>3
    <3>10. x - opening \in -h..h
      BY <3>6, <3>7
    <3>11. y - opening \in -k..k
      <4> HIDE DEF opening
      <4>1. CASE Amount[Current(r)] % 2 = 0
        BY <1>0, <3>5, <3>6, <3>8, <3>10, <4>1
      <4>2. CASE Amount[Current(r)] % 2 = 1
        <5>1. k = h + 1 /\ y - x \in -1..1 /\ x \in Int /\ y \in Int
          BY <3>5, <3>6, <3>8, <4>2
        <5> QED
          BY <1>0, <3>8, <3>10, <5>1
      <4> QED
        BY <3>9, <4>1, <4>2
    <3>12. Sums(balance', users, n)[n] = y
      BY <3>2, <3>4, <3>6
    <3> QED
      BY <3>7, <3>11, <3>12
  <2> QED
    BY <2>1, <2>2, StepSettles
<1> QED
  BY <1>1, <1>2, Invariance, PTL DEF Spec

-----------------------------------------------------------------------------
(* What a sync returns *)

\* Every reported success of r is among the first k rows.
ReportedBy(r, k) ==
    \A i \in DOMAIN replies[r] : Succeeded(replies[r][i]) =>
        \E j \in 1..k : ledger[j].tam = replies[r][i].tam

\* An answer with an account was read at one moment k of the history, after all
\* that the request reports.
AnswerRead(r) ==
    answer[r].user # NoUser =>
        /\ pc[r] \in {"history", "done"}
        /\ \E k \in 0..Len(ledger) :
              /\ answer[r].bkvcAt = k
              /\ pc[r] = "done" => /\ k <= answer[r].historyAt
                                   /\ answer[r].unread # {} => r \in Failing
              /\ answer[r].balance = BalanceAfter(k)[answer[r].user]
              /\ ReportedBy(r, k)

AnswersRead == \A r \in Requests : AnswerRead(r)

\* The steps of a request that leave its answer, and all of the others', alone.
LEMMA BatchKeepsAnswers ==
    ASSUME IInv, NEW q \in Requests,
           \/ Receive(q) \/ Reject(q) \/ Begin(q) \/ AlreadySubmitted(q) \/ NotSubmitted(q)
           \/ Insert(q) \/ InsertViolates(q) \/ Debit(q) \/ Credit(q) \/ CertifySender(q)
           \/ SenderHasNoKey(q) \/ CertifyReceiver(q) \/ ReceiverHasNoKey(q) \/ Attach(q)
           \/ Commit(q) \/ CommitUnconfirmed(q) \/ StatementFails(q) \/ DeadlockVictim(q)
    PROVE  /\ answer' = answer /\ pc[q] \notin {"history", "done"}
           /\ \A p \in Requests \ {q} : replies'[p] = replies[p] /\ pc'[p] = pc[p]
<1> USE DEF IInv, TypeOK
<1>1. CASE Receive(q)
  BY <1>1 DEF Receive
<1>2. ASSUME NEW from \in {"next"} \cup InTransaction, NEW to, Advance(q, from, to), replies' = replies
      PROVE  /\ answer' = answer /\ pc[q] \notin {"history", "done"}
             /\ \A p \in Requests \ {q} : replies'[p] = replies[p] /\ pc'[p] = pc[p]
  BY <1>2 DEF Advance, InTransaction
<1>3. ASSUME NEW outcome, Report(q, outcome), pc[q] \notin {"history", "done"}
      PROVE  /\ answer' = answer /\ pc[q] \notin {"history", "done"}
             /\ \A p \in Requests \ {q} : replies'[p] = replies[p] /\ pc'[p] = pc[p]
  BY <1>3 DEF Report
<1>4. CASE \/ Begin(q) \/ NotSubmitted(q) \/ Insert(q) \/ Debit(q) \/ Credit(q)
           \/ CertifySender(q) \/ CertifyReceiver(q) \/ Attach(q)
  <2>1. PICK from \in {"next"} \cup InTransaction, to \in InTransaction : Advance(q, from, to)
    <3>1. CASE Begin(q)
      BY <3>1 DEF Begin, InTransaction
    <3>2. CASE NotSubmitted(q) \/ Insert(q) \/ Debit(q)
      BY <3>2 DEF NotSubmitted, Insert, Debit, InTransaction
    <3>3. CASE Credit(q) \/ CertifySender(q) \/ CertifyReceiver(q) \/ Attach(q)
      BY <3>3 DEF Credit, CertifySender, CertifyReceiver, Attach, InTransaction
    <3> QED
      BY <1>4, <3>1, <3>2, <3>3
  <2>2. replies' = replies
    BY <2>1 DEF Advance
  <2> QED
    BY <1>2, <2>1, <2>2
<1>5. CASE \/ Reject(q) \/ AlreadySubmitted(q) \/ InsertViolates(q) \/ SenderHasNoKey(q)
           \/ ReceiverHasNoKey(q) \/ Commit(q) \/ CommitUnconfirmed(q) \/ StatementFails(q)
           \/ DeadlockVictim(q)
  <2>1. /\ \E outcome : Report(q, outcome)
        /\ pc[q] \notin {"history", "done"}
    <3>1. CASE Reject(q)
      BY <3>1 DEF Reject, HasNext
    <3>2. CASE AlreadySubmitted(q) \/ InsertViolates(q) \/ SenderHasNoKey(q) \/ ReceiverHasNoKey(q)
      BY <3>2 DEF AlreadySubmitted, InsertViolates, SenderHasNoKey, ReceiverHasNoKey, RollBack
    <3>3. CASE Commit(q) \/ CommitUnconfirmed(q)
      BY <3>3 DEF Commit, CommitUnconfirmed
    <3>4. CASE StatementFails(q)
      BY <3>4 DEF StatementFails, InTransaction, RollBack
    <3>5. CASE DeadlockVictim(q)
      BY <3>5 DEF DeadlockVictim, Deadlocked, Waits, RollBack
    <3> QED
      BY <1>5, <3>1, <3>2, <3>3, <3>4, <3>5
  <2> QED
    BY <1>3, <2>1
<1> QED
  BY <1>1, <1>4, <1>5

\* What a step does to the answer of a request.
LEMMA AnswerSteps ==
    ASSUME IInv, [Next]_vars, NEW r \in Requests, AnswerRead(r)
    PROVE  \/ answer'[r] = answer[r] /\ replies'[r] = replies[r] /\ pc'[r] = pc[r]
           \/ answer'[r].user = NoUser
           \/ ReadAccount(r)
           \/ ReadHistory(r) \/ (r \in Failing /\ ReadHistoryCut(r))
<1> USE DEF IInv, TypeOK
<1>1. ASSUME NEW q \in Requests,
             Receive(q) \/ Handle(q) \/ (q \in Failing /\ Fault(q)) \/ DeadlockVictim(q)
      PROVE  \/ answer'[r] = answer[r] /\ replies'[r] = replies[r] /\ pc'[r] = pc[r]
             \/ answer'[r].user = NoUser
             \/ ReadAccount(r)
             \/ ReadHistory(r) \/ (r \in Failing /\ ReadHistoryCut(r))
  <2>1. CASE \/ Receive(q) \/ Reject(q) \/ Begin(q) \/ AlreadySubmitted(q) \/ NotSubmitted(q)
             \/ Insert(q) \/ InsertViolates(q) \/ Debit(q) \/ Credit(q) \/ CertifySender(q)
             \/ SenderHasNoKey(q) \/ CertifyReceiver(q) \/ ReceiverHasNoKey(q) \/ Attach(q)
             \/ Commit(q) \/ CommitUnconfirmed(q) \/ StatementFails(q) \/ DeadlockVictim(q)
    <3>1. /\ answer' = answer /\ pc[q] \notin {"history", "done"}
          /\ \A p \in Requests \ {q} : replies'[p] = replies[p] /\ pc'[p] = pc[p]
      BY <2>1, BatchKeepsAnswers
    <3> QED
      BY <3>1 DEF AnswerRead
  <2>2. CASE BeginPanics(q)
    <3>1. /\ pc[q] \notin {"history", "done"} /\ answer'[q].user = answer[q].user
          /\ replies' = replies
          /\ \A p \in Requests \ {q} : answer'[p] = answer[p] /\ pc'[p] = pc[p]
      BY <2>2 DEF BeginPanics, HasNext, Answers
    <3> QED
      BY <3>1 DEF AnswerRead
  <2>3. CASE \/ AnswerAnonymous(q) \/ FindSession(q) \/ NoAccount(q) \/ AccountUnavailable(q)
             \/ HistoryUnavailable(q)
    <3>1. /\ answer'[q].user = NoUser /\ replies' = replies
          /\ \A p \in Requests \ {q} : answer'[p] = answer[p] /\ pc'[p] = pc[p]
      BY <2>3 DEF AnswerAnonymous, FindSession, NoAccount, AccountUnavailable,
         HistoryUnavailable, Answer, Unanswered
    <3> QED
      BY <3>1
  <2>4. CASE ReadAccount(q) \/ ReadHistory(q) \/ (q \in Failing /\ ReadHistoryCut(q))
    <3>1. /\ replies' = replies
          /\ \A p \in Requests \ {q} : answer'[p] = answer[p] /\ pc'[p] = pc[p]
      BY <2>4 DEF ReadAccount, ReadHistory, ReadHistoryCut, AnswerWithHistory, Answer
    <3> QED
      BY <2>4, <3>1
  <2> QED
    BY <1>1, <2>1, <2>2, <2>3, <2>4 DEF Handle, Fault
<1>2. CASE Environment
  <2>1. CASE ServerCrash
    BY <2>1 DEF ServerCrash, Unanswered
  <2>2. CASE \/ \E u \in Rotating : DeactivateKey(u) \/ InsertKey(u)
             \/ \E t \in Ageing : Expire(t)
    BY <2>2 DEF DeactivateKey, InsertKey, Expire
  <2> QED
    BY <1>2, <2>1, <2>2 DEF Environment
<1>3. CASE UNCHANGED vars
  BY <1>3 DEF vars
<1> QED
  BY <1>1, <1>2, <1>3, LedgerAssumption DEF Next

\* What was true at a moment of the history stays true of it.
LEMMA MomentsStay ==
    ASSUME IInv, [Next]_vars, NEW r \in Requests, replies'[r] = replies[r],
           NEW k \in 0..Len(ledger), ReportedBy(r, k)
    PROVE  /\ k \in 0..Len(ledger')
           /\ BalanceAfter(k)' = BalanceAfter(k)
           /\ ReportedBy(r, k)'
<1>1. /\ Len(ledger) \in Nat /\ Len(ledger') \in Nat /\ Len(ledger) <= Len(ledger')
      /\ \A j \in 1..Len(ledger) : ledger'[j] = ledger[j]
      /\ BalanceAfter(k)' = BalanceAfter(k)
  BY HistoryGrows
<1>2. \A j \in 1..k : ledger'[j] = ledger[j]
  BY <1>1
<1> QED
  BY <1>1, <1>2 DEF ReportedBy, Succeeded

LEMMA AnswersStayRead ==
    ASSUME IInv, Honest, BalancesReplayLedger, AnswersRead, [Next]_vars
    PROVE  AnswersRead'
<1> SUFFICES ASSUME NEW r \in Requests, answer'[r].user # NoUser
             PROVE  AnswerRead(r)'
  BY DEF AnswersRead, AnswerRead
<1>1. Len(ledger) \in Nat
  BY DEF IInv, TypeOK
<1>2. AnswerRead(r)
  BY DEF AnswersRead
<1>3. CASE answer'[r] = answer[r] /\ replies'[r] = replies[r] /\ pc'[r] = pc[r]
  <2>1. PICK k \in 0..Len(ledger) :
              /\ answer[r].bkvcAt = k
              /\ pc[r] = "done" => /\ k <= answer[r].historyAt
                                   /\ answer[r].unread # {} => r \in Failing
              /\ answer[r].balance = BalanceAfter(k)[answer[r].user]
              /\ ReportedBy(r, k)
    BY <1>2, <1>3 DEF AnswerRead
  <2>2. /\ k \in 0..Len(ledger')
        /\ BalanceAfter(k)' = BalanceAfter(k)
        /\ ReportedBy(r, k)'
    BY <1>3, <2>1, MomentsStay
  <2> QED
    BY <1>2, <1>3, <2>1, <2>2 DEF AnswerRead
<1>4. CASE ReadAccount(r)
  <2>1. /\ answer'[r].user = Caller[r] /\ answer'[r].balance = balance[Caller[r]]
        /\ answer'[r].bkvcAt = Len(ledger) /\ pc'[r] = "history"
        /\ replies' = replies
    BY <1>4 DEF ReadAccount, Answer, IInv, TypeOK, Answers
  <2>2. PICK k \in 0..Len(ledger) : k = Len(ledger)
    BY <1>1
  <2>3. ReportedBy(r, k)
    <3>1. DOMAIN ledger = 1..Len(ledger)
      BY DEF IInv, TypeOK
    <3>2. \A i \in DOMAIN replies[r] : Succeeded(replies[r][i]) => replies[r][i].tam \in Settled
      BY DEF Honest, RepliesHonest
    <3> QED
      BY <2>2, <3>1, <3>2 DEF ReportedBy, Settled
  <2>4. /\ k \in 0..Len(ledger')
        /\ BalanceAfter(k)' = BalanceAfter(k)
        /\ ReportedBy(r, k)'
    BY <2>1, <2>3, MomentsStay
  <2>5. balance = BalanceAfter(k)
    BY <2>2 DEF BalancesReplayLedger
  <2> QED
    BY <2>1, <2>2, <2>4, <2>5 DEF AnswerRead
<1>5. CASE ReadHistory(r) \/ (r \in Failing /\ ReadHistoryCut(r))
  <2>0. PICK lost : AnswerWithHistory(r, lost) /\ (lost # {} => r \in Failing)
    BY <1>5 DEF ReadHistory, ReadHistoryCut
  <2>1. /\ answer'[r].user = answer[r].user /\ answer'[r].balance = answer[r].balance
        /\ answer'[r].bkvcAt = answer[r].bkvcAt /\ answer'[r].historyAt = Len(ledger)
        /\ answer'[r].unread # {} => r \in Failing
        /\ pc'[r] = "done"
        /\ replies' = replies
    BY <2>0 DEF AnswerWithHistory, Answer, IInv, TypeOK, Answers
  <2>2. PICK k \in 0..Len(ledger) :
              /\ answer[r].bkvcAt = k
              /\ answer[r].balance = BalanceAfter(k)[answer[r].user]
              /\ ReportedBy(r, k)
    BY <1>2, <2>1 DEF AnswerRead
  <2>3. /\ k \in 0..Len(ledger')
        /\ BalanceAfter(k)' = BalanceAfter(k)
        /\ ReportedBy(r, k)'
    BY <2>1, <2>2, MomentsStay
  <2>4. k <= Len(ledger)
    BY <1>1
  <2> QED
    BY <2>1, <2>2, <2>3, <2>4 DEF AnswerRead
<1> QED
  BY <1>2, <1>3, <1>4, <1>5, AnswerSteps

\* The certified balance is the replayed one of a moment after everything the
\* sync reports, and the history, read no earlier, has every row of that moment,
\* or the request is one that met an error and the rows it lost are missing.
THEOREM SyncReturnsWhatItDid == Spec => []SyncReturnsItsOwnWrites
<1>1. Init => AnswersRead
  BY DEF Init, AnswersRead, AnswerRead, Unanswered
<1>2. IInv /\ AnswersRead => SyncReturnsItsOwnWrites
  <2> SUFFICES ASSUME IInv, AnswersRead, NEW r \in Requests, pc[r] = "done", answer[r].user # NoUser
               PROVE  /\ answer[r].balance = BalanceAfter(answer[r].bkvcAt)[answer[r].user]
                      /\ ReportedBy(r, answer[r].bkvcAt)
                      /\ \A k \in 1..answer[r].bkvcAt :
                            ledger[k].tam \in Listed(r) \cup answer[r].unread
                      /\ answer[r].unread # {} => r \in Failing
    BY DEF SyncReturnsItsOwnWrites, ReportedBy
  <2>1. AnswerRead(r) /\ answer[r].historyAt \in Nat /\ answer[r].bkvcAt \in Nat
    BY DEF AnswersRead, IInv, TypeOK, Answers
  <2>2. answer[r].bkvcAt <= answer[r].historyAt
    BY <2>1 DEF AnswerRead
  <2>3. \A k \in 1..answer[r].bkvcAt : k \in 1..answer[r].historyAt
    BY <2>1, <2>2
  <2> QED
    BY <2>1, <2>3 DEF AnswerRead, Listed
<1> QED
  BY <1>1, <1>2, AnswersStayRead, Invariance, HonestInvariance, BalancesAreReplayed, PTL DEF Spec

-----------------------------------------------------------------------------
(* The ledger is the server a phone runs on: the numbering of the payments *)

LEMMA WatchedInType ==
    ASSUME TypeOK, NEW n \in Nat
    PROVE  /\ WatchedIn(n) \in Nat
           /\ WatchedIn(n) = 0 <=> \A i \in 1..n : ledger[i].tam \notin Watched
<1> DEFINE S == {i \in 1..n : ledger[i].tam \in Watched}
<1>1. IsFiniteSet(S)
  <2>1. IsFiniteSet(1..n)
    BY FS_Interval
  <2> QED
    BY <2>1, FS_Subset
<1>2. Cardinality(S) \in Nat /\ (Cardinality(S) = 0 <=> S = {})
  BY <1>1, FS_CardinalityType, FS_EmptySet
<1> QED
  BY <1>2 DEF WatchedIn

\* A settled TAM has one row, and RowOf finds it.
LEMMA RowOfUnique ==
    ASSUME IInv, NEW i \in 1..Len(ledger)
    PROVE  RowOf(ledger[i].tam) = i
<1>1. DOMAIN ledger = 1..Len(ledger)
  BY DEF IInv, TypeOK
<1> QED
  BY <1>1 DEF IInv, SettledOnce, RowOf

LEMMA NumberOfSettled ==
    ASSUME IInv, NEW t \in Watched
    PROVE  NumberOf(t) = 0 <=> t \notin Settled
<1>1. DOMAIN ledger = 1..Len(ledger) /\ Len(ledger) \in Nat
  BY DEF IInv, TypeOK
<1>2. CASE t \in Settled
  <2>1. PICK i \in 1..Len(ledger) : ledger[i].tam = t
    BY <1>1, <1>2 DEF Settled
  <2>2. i \in Nat /\ i \in 1..i /\ RowOf(t) = i
    BY <1>1, <2>1, RowOfUnique
  <2>3. WatchedIn(i) # 0
    BY <2>1, <2>2, WatchedInType DEF IInv
  <2> QED
    BY <1>2, <2>2, <2>3 DEF NumberOf
<1> QED
  BY <1>2 DEF NumberOf

\* What is numbered stays numbered as it is.
LEMMA NumbersStay ==
    ASSUME IInv, [Next]_vars
    PROVE  /\ \A k \in 0..Len(ledger) : WatchedIn(k)' = WatchedIn(k)
           /\ \A t \in Settled : NumberOf(t)' = NumberOf(t)
<1>1. /\ Len(ledger) \in Nat /\ Len(ledger') \in Nat /\ Len(ledger) <= Len(ledger')
      /\ \A k \in 1..Len(ledger) : ledger'[k] = ledger[k]
  BY HistoryGrows
<1>2. ASSUME NEW k \in 0..Len(ledger) PROVE WatchedIn(k)' = WatchedIn(k)
  <2>1. \A i \in 1..k : ledger'[i] = ledger[i]
    BY <1>1
  <2>2. {i \in 1..k : ledger'[i].tam \in Watched} = {i \in 1..k : ledger[i].tam \in Watched}
    BY <2>1
  <2> QED
    BY <2>2 DEF WatchedIn
<1>3. ASSUME NEW t \in Settled PROVE NumberOf(t)' = NumberOf(t)
  <2>1. DOMAIN ledger = 1..Len(ledger) /\ DOMAIN ledger' = 1..Len(ledger') /\ IInv'
    BY StepInvariant DEF IInv, TypeOK
  <2>2. PICK i \in 1..Len(ledger) : ledger[i].tam = t
    BY <1>1, <2>1 DEF Settled
  <2>3. RowOf(t) = i
    BY <2>2, RowOfUnique
  <2>4. i \in 1..Len(ledger') /\ ledger'[i].tam = t /\ i \in 0..Len(ledger)
    BY <1>1, <2>2
  <2>5. RowOf(t)' = i
    BY <2>1, <2>4 DEF IInv, SettledOnce, RowOf
  <2>6. t \in Settled'
    BY <2>1, <2>4 DEF Settled
  <2>7. NumberOf(t)' = WatchedIn(i)'
    BY <2>5, <2>6 DEF NumberOf, WatchedIn
  <2> QED
    BY <1>2, <2>3, <2>4, <2>7 DEF NumberOf
<1> QED
  BY <1>2, <1>3

\* A transaction began when no more than the committed rows were.
StampsPast ==
    /\ \A r \in Requests : stamp[r] <= Len(ledger)
    /\ \A i \in 1..Len(ledger) : ledger[i].stamp <= Len(ledger)

LEMMA StampSteps ==
    ASSUME TypeOK, [Next]_vars, NEW r \in Requests
    PROVE  stamp'[r] \in {stamp[r], Len(ledger), 0}
<1> USE DEF TypeOK
<1>1. ASSUME NEW q \in Requests, Receive(q) \/ Handle(q) \/ Fault(q) \/ DeadlockVictim(q)
      PROVE  stamp'[r] \in {stamp[r], Len(ledger), 0}
  <2>1. CASE CloseTransaction(q)
    BY <2>1 DEF CloseTransaction
  <2>2. CASE Begin(q)
    BY <2>2 DEF Begin
  <2>3. CASE stamp' = stamp
    BY <2>3
  <2>4. CloseTransaction(q) \/ Begin(q) \/ stamp' = stamp
    BY <1>1 DEF Handle, Fault, DeadlockVictim, Receive, Reject, BeginPanics,
       AlreadySubmitted, NotSubmitted, Insert, InsertViolates, Debit, Credit, CertifySender,
       SenderHasNoKey, CertifyReceiver, ReceiverHasNoKey, Attach, StatementFails, Commit,
       CommitUnconfirmed, AnswerAnonymous, FindSession, ReadAccount, NoAccount,
       AccountUnavailable, ReadHistory, ReadHistoryCut, AnswerWithHistory, HistoryUnavailable,
       Answer, RollBack, txVars
  <2> QED
    BY <2>1, <2>2, <2>3, <2>4
<1>2. CASE Environment
  BY <1>2 DEF Environment, ServerCrash, DeactivateKey, InsertKey, Expire, txVars
<1>3. CASE UNCHANGED vars
  BY <1>3 DEF vars
<1> QED
  BY <1>1, <1>2, <1>3, LedgerAssumption DEF Next

LEMMA StampsStayPast ==
    ASSUME IInv, StampsPast, [Next]_vars
    PROVE  StampsPast'
<1>1. /\ Len(ledger) \in Nat /\ Len(ledger') \in Nat /\ Len(ledger) <= Len(ledger')
      /\ \A k \in 1..Len(ledger) : ledger'[k] = ledger[k]
  BY HistoryGrows
<1>2. ASSUME NEW r \in Requests PROVE stamp'[r] <= Len(ledger')
  <2>1. stamp'[r] \in {stamp[r], Len(ledger), 0} /\ stamp[r] \in Nat /\ stamp[r] <= Len(ledger)
    BY StampSteps DEF IInv, TypeOK, StampsPast
  <2> QED
    BY <1>1, <2>1
<1>3. ASSUME NEW i \in 1..Len(ledger') PROVE ledger'[i].stamp <= Len(ledger')
  <2>1. CASE i \in 1..Len(ledger)
    <3>1. ledger[i].stamp \in Nat /\ ledger[i].stamp <= Len(ledger)
      <4>1. ledger[i] \in Rows
        BY <2>1 DEF IInv, TypeOK
      <4> QED
        BY <2>1, <4>1 DEF StampsPast, Rows
    <3> QED
      BY <1>1, <2>1, <3>1
  <2>2. CASE i \notin 1..Len(ledger)
    <3>1. PICK r \in Requests : Committing(r)
      BY <2>2, StepSettles
    <3>2. ledger'[i].stamp = stamp[r] /\ stamp[r] \in Nat /\ stamp[r] <= Len(ledger)
      <4>1. PICK row : ledger' = Append(ledger, row) /\ row.stamp = stamp[r]
        BY <3>1 DEF Committing, Publish
      <4>2. ledger \in Seq(Rows)
        BY DEF IInv, TypeOK
      <4>3. i = Len(ledger) + 1 /\ ledger'[i] = row
        BY <1>1, <2>2, <4>1, <4>2
      <4> QED
        BY <4>1, <4>3 DEF IInv, TypeOK, StampsPast
    <3> QED
      BY <1>1, <3>2
  <2> QED
    BY <2>1, <2>2
<1> QED
  BY <1>2, <1>3 DEF StampsPast

LEMMA StampsPastInvariance == Spec => []StampsPast
<1>1. Init => StampsPast
  BY DEF Init, StampsPast
<1> QED
  BY <1>1, StampsStayPast, Invariance, PTL DEF Spec

LEMMA BeginningsStay ==
    ASSUME IInv, StampsPast, [Next]_vars, NEW t \in Settled
    PROVE  BegunAt(t)' = BegunAt(t)
<1>1. /\ Len(ledger) \in Nat /\ Len(ledger') \in Nat /\ Len(ledger) <= Len(ledger')
      /\ \A k \in 1..Len(ledger) : ledger'[k] = ledger[k]
  BY HistoryGrows
<1>2. DOMAIN ledger = 1..Len(ledger) /\ DOMAIN ledger' = 1..Len(ledger') /\ IInv'
  BY StepInvariant DEF IInv, TypeOK
<1>3. PICK i \in 1..Len(ledger) : ledger[i].tam = t
  BY <1>1, <1>2 DEF Settled
<1>4. RowOf(t) = i
  BY <1>3, RowOfUnique
<1>5. i \in 1..Len(ledger') /\ ledger'[i] = ledger[i] /\ ledger'[i].tam = t
  BY <1>1, <1>3
<1>6. RowOf(t)' = i
  BY <1>2, <1>5 DEF IInv, SettledOnce, RowOf
<1>7. t \in Settled'
  BY <1>2, <1>5 DEF Settled
<1>8. PICK k \in 0..Len(ledger) : k = ledger[i].stamp
  <2>1. ledger[i] \in Rows
    BY <1>3 DEF IInv, TypeOK
  <2> QED
    BY <1>1, <2>1 DEF StampsPast, Rows
<1>9. WatchedIn(k)' = WatchedIn(k)
  BY NumbersStay
<1>10. BegunAt(t) = WatchedIn(k)
  BY <1>4, <1>8 DEF BegunAt
<1>11. BegunAt(t)' = WatchedIn(k)'
  BY <1>5, <1>6, <1>7, <1>8 DEF BegunAt, WatchedIn
<1> QED
  BY <1>9, <1>10, <1>11

\* Its transaction began with no more of the user's settled than there are.
LEMMA CommitBegins ==
    ASSUME IInv, StampsPast, [Next]_vars, NEW r \in Requests, Committing(r)
    PROVE  /\ WatchedIn(stamp[r]) \in 0..WatchedIn(Len(ledger))
           /\ \A t \in Watched : BegunAt(t)' =
                 IF t = Current(r) THEN WatchedIn(stamp[r]) ELSE BegunAt(t)
<1>0. PICK c, k : c = Current(r) /\ k = stamp[r]
  OBVIOUS
<1>1. /\ c \in Tams /\ c \notin Settled /\ Settled' = Settled \cup {c}
      /\ Len(ledger) \in Nat /\ k \in 0..Len(ledger)
  BY <1>0, CommitSettles DEF IInv, TypeOK, StampsPast
<1>2. WatchedIn(k) \in 0..WatchedIn(Len(ledger))
  <2> DEFINE S == {i \in 1..Len(ledger) : ledger[i].tam \in Watched}
             T == {i \in 1..k : ledger[i].tam \in Watched}
  <2>1. IsFiniteSet(1..Len(ledger)) /\ S \subseteq 1..Len(ledger)
    <3>1. Len(ledger) \in Int /\ 1 \in Int
      BY <1>1
    <3> QED
      BY <3>1, FS_Interval
  <2>5. T \subseteq S
    BY <1>1
  <2>2. Cardinality(T) <= Cardinality(S)
    <3>1. IsFiniteSet(S)
      BY <2>1, FS_Subset
    <3> HIDE DEF S, T
    <3> QED
      BY <2>5, <3>1, FS_Subset
  <2>3. Cardinality(T) = WatchedIn(k) /\ Cardinality(S) = WatchedIn(Len(ledger))
    BY DEF WatchedIn
  <2>4. WatchedIn(k) \in Nat /\ WatchedIn(Len(ledger)) \in Nat
    BY <1>1, WatchedInType DEF IInv
  <2> QED
    BY <2>2, <2>3, <2>4
<1>3. BegunAt(c)' = WatchedIn(k)
  <2>1. PICK row : ledger' = Append(ledger, row) /\ row.tam = c /\ row.stamp = k
    BY <1>0 DEF Committing, Publish
  <2>2. IInv' /\ ledger \in Seq(Rows)
    BY StepInvariant DEF IInv, TypeOK
  <2>3. /\ Len(ledger') = Len(ledger) + 1 /\ ledger'[Len(ledger) + 1] = row
        /\ DOMAIN ledger' = 1..(Len(ledger) + 1)
    BY <1>1, <2>1, <2>2
  <2>4. RowOf(c)' = Len(ledger) + 1
    BY <1>1, <2>1, <2>2, <2>3 DEF IInv, SettledOnce, RowOf
  <2>5. BegunAt(c)' = WatchedIn(k)'
    BY <1>1, <2>1, <2>3, <2>4 DEF BegunAt, WatchedIn
  <2> QED
    BY <1>1, <2>5, NumbersStay
<1>4. ASSUME NEW t \in Watched, t # c PROVE BegunAt(t)' = BegunAt(t)
  <2>1. CASE t \in Settled
    BY <2>1, BeginningsStay
  <2>2. CASE t \notin Settled
    BY <1>1, <1>4, <2>2 DEF BegunAt
  <2> QED
    BY <2>1, <2>2
<1> QED
  BY <1>0, <1>2, <1>3, <1>4

\* A commit takes the next number, when the TAM is the user's.
LEMMA CommitNumbers ==
    ASSUME IInv, [Next]_vars, NEW r \in Requests, Committing(r)
    PROVE  /\ Len(ledger') = Len(ledger) + 1
           /\ Current(r) \in Watched =>
                 /\ NumberOf(Current(r)) = 0
                 /\ WatchedIn(Len(ledger))' = WatchedIn(Len(ledger)) + 1
                 /\ \A t \in Watched : NumberOf(t)' =
                       IF t = Current(r) THEN WatchedIn(Len(ledger))' ELSE NumberOf(t)
           /\ Current(r) \notin Watched =>
                 /\ WatchedIn(Len(ledger))' = WatchedIn(Len(ledger))
                 /\ \A t \in Watched : NumberOf(t)' = NumberOf(t)
<1> DEFINE n == Len(ledger)
           S == {i \in 1..n : ledger[i].tam \in Watched}
<1>0. PICK c : c = Current(r)
  OBVIOUS
<1>1. /\ c \in Tams /\ c \notin Settled /\ Settled' = Settled \cup {c}
      /\ ledger'[Len(ledger')].tam = c
  BY <1>0, CommitSettles
<1>2. n \in Nat /\ Len(ledger') = n + 1 /\ \A i \in 1..n : ledger'[i] = ledger[i]
  <2>1. PICK row : ledger' = Append(ledger, row)
    BY DEF Committing, Publish
  <2>2. ledger \in Seq(Rows) /\ ledger' \in Seq(Rows)
    BY StepInvariant DEF IInv, TypeOK
  <2>3. Len(ledger') = n + 1
    BY <2>1, <2>2
  <2> QED
    BY <2>2, <2>3, HistoryGrows
<1>3. \A t \in Settled : NumberOf(t)' = NumberOf(t)
  BY NumbersStay
<1>4. \A t \in Watched \ Settled' : NumberOf(t)' = NumberOf(t)
  BY <1>1 DEF NumberOf
<1>5. WatchedIn(Len(ledger))' = Cardinality({i \in 1..(n + 1) : ledger'[i].tam \in Watched})
  BY <1>2 DEF WatchedIn
<1>6. WatchedIn(Len(ledger)) = Cardinality(S) /\ IsFiniteSet(S) /\ n + 1 \notin S
  <2>1. IsFiniteSet(1..n)
    BY <1>2, FS_Interval
  <2> QED
    BY <1>2, <2>1, FS_Subset DEF WatchedIn
<1>7. CASE c \in Watched
  <2>1. {i \in 1..(n + 1) : ledger'[i].tam \in Watched} = S \cup {n + 1}
    BY <1>1, <1>2, <1>7
  <2>2. WatchedIn(Len(ledger))' = WatchedIn(Len(ledger)) + 1
    <3> HIDE DEF S, n
    <3> QED
      BY <1>5, <1>6, <2>1, FS_AddElement
  <2>3. NumberOf(c)' = WatchedIn(Len(ledger))'
    <3>1. RowOf(c)' = n + 1
      <4>1. IInv'
        BY StepInvariant
      <4>2. n + 1 \in 1..Len(ledger') /\ DOMAIN ledger' = 1..Len(ledger') /\ SettledOnce'
        BY <1>2, <4>1 DEF IInv, TypeOK
      <4> QED
        BY <1>1, <1>2, <4>2 DEF SettledOnce, RowOf
    <3>2. c \in Settled'
      BY <1>1
    <3> QED
      BY <1>2, <3>1, <3>2 DEF NumberOf, WatchedIn
  <2>4. NumberOf(c) = 0
    BY <1>1 DEF NumberOf
  <2> QED
    BY <1>0, <1>1, <1>2, <1>3, <1>4, <1>7, <2>2, <2>3, <2>4
<1>8. CASE c \notin Watched
  <2>1. {i \in 1..(n + 1) : ledger'[i].tam \in Watched} = S
    BY <1>1, <1>2, <1>8
  <2> QED
    BY <1>0, <1>1, <1>2, <1>3, <1>4, <1>5, <1>6, <1>8, <2>1
<1> QED
  BY <1>7, <1>8

-----------------------------------------------------------------------------
(* The ledger is the server a phone runs on: the visits *)

\* The visits of the others stand still.
Alone(r) ==
    \A p \in Requests \ {r} : /\ pc'[p] = pc[p] /\ todo'[p] = todo[p]
                              /\ replies'[p] = replies[p] /\ hasError'[p] = hasError[p]
                              /\ answer'[p] = answer[p]

Submitting(r) == pc[r] \in {"next"} \cup InTransaction

\* The next statement for the same TAM.
GoesOn(r) ==
    /\ Submitting(r) /\ pc'[r] \in InTransaction
    /\ UNCHANGED <<ledger, todo, replies, hasError, answer>>

\* The end of the work on a TAM.
Finishes(r, outcome) ==
    /\ Submitting(r) /\ todo[r] # <<>>
    /\ Report(r, outcome)
    /\ \/ outcome \in {"failed", "silent"} /\ ledger' = ledger
       \/ outcome = "already" /\ Current(r) \in Settled /\ ledger' = ledger
       \/ outcome \in {"failed", "settled"} /\ Committing(r)

LEMMA BatchMoves ==
    ASSUME TypeOK, NEW r \in Requests,
           \/ Reject(r) \/ Begin(r) \/ AlreadySubmitted(r) \/ NotSubmitted(r)
           \/ Insert(r) \/ InsertViolates(r) \/ Debit(r) \/ Credit(r) \/ CertifySender(r)
           \/ SenderHasNoKey(r) \/ CertifyReceiver(r) \/ ReceiverHasNoKey(r) \/ Attach(r)
           \/ Commit(r) \/ CommitUnconfirmed(r) \/ StatementFails(r) \/ DeadlockVictim(r)
    PROVE  /\ Alone(r)
           /\ GoesOn(r) \/ \E outcome \in Outcomes : Finishes(r, outcome)
<1>1. ASSUME NEW outcome, Report(r, outcome) PROVE Alone(r)
  BY <1>1 DEF TypeOK, Report, Alone
<1>2. CASE \/ Begin(r) \/ NotSubmitted(r) \/ Insert(r) \/ Debit(r) \/ Credit(r)
           \/ CertifySender(r) \/ CertifyReceiver(r) \/ Attach(r)
  <2>1. PICK from \in {"next"} \cup InTransaction, to \in InTransaction : Advance(r, from, to)
    <3>1. CASE Begin(r)
      BY <3>1 DEF Begin, InTransaction
    <3>2. CASE NotSubmitted(r) \/ Insert(r) \/ Debit(r)
      BY <3>2 DEF NotSubmitted, Insert, Debit, InTransaction
    <3>3. CASE Credit(r) \/ CertifySender(r) \/ CertifyReceiver(r) \/ Attach(r)
      BY <3>3 DEF Credit, CertifySender, CertifyReceiver, Attach, InTransaction
    <3> QED
      BY <1>2, <3>1, <3>2, <3>3
  <2>2. ledger' = ledger
    BY <1>2 DEF Begin, NotSubmitted, Insert, Debit, Credit, CertifySender, CertifyReceiver, Attach
  <2>3. Alone(r)
    BY <2>1 DEF TypeOK, Advance, Alone
  <2>4. GoesOn(r)
    BY <2>1, <2>2 DEF TypeOK, Advance, GoesOn, Submitting
  <2> QED
    BY <2>3, <2>4
<1>3. CASE Commit(r) \/ CommitUnconfirmed(r)
  <2>1. PICK outcome \in {"failed", "settled"} : Report(r, outcome)
    BY <1>3 DEF Commit, CommitUnconfirmed
  <2>2. Committing(r) /\ pc[r] \in InTransaction
    BY <1>3 DEF Commit, CommitUnconfirmed, Committing, InTransaction
  <2>3. Finishes(r, outcome)
    BY <2>1, <2>2 DEF TypeOK, Finishes, Submitting
  <2> QED
    BY <1>1, <2>1, <2>3 DEF Outcomes
<1>4. CASE \/ Reject(r) \/ InsertViolates(r) \/ SenderHasNoKey(r) \/ ReceiverHasNoKey(r)
           \/ StatementFails(r) \/ DeadlockVictim(r)
  <2>1. PICK outcome \in {"failed", "silent"} : Report(r, outcome)
    BY <1>4 DEF Reject, InsertViolates, SenderHasNoKey, ReceiverHasNoKey, StatementFails,
       DeadlockVictim, RollBack
  <2>2. ledger' = ledger
    BY <1>4 DEF Reject, InsertViolates, SenderHasNoKey, ReceiverHasNoKey, StatementFails,
       DeadlockVictim, RollBack
  <2>3. Submitting(r) /\ todo[r] # <<>>
    <3>1. HasNext(r) \/ pc[r] \in InTransaction
      BY <1>4 DEF Reject, InsertViolates, SenderHasNoKey, ReceiverHasNoKey, StatementFails,
         DeadlockVictim, Deadlocked, Waits, InTransaction
    <3> QED
      BY <3>1 DEF TypeOK, HasNext, Submitting
  <2>4. Finishes(r, outcome)
    BY <2>1, <2>2, <2>3 DEF Finishes
  <2> QED
    BY <1>1, <2>1, <2>4 DEF Outcomes
<1>5. CASE AlreadySubmitted(r)
  <2>1. Report(r, "already") /\ ledger' = ledger /\ Current(r) \in Settled /\ pc[r] \in InTransaction
    BY <1>5 DEF AlreadySubmitted, RollBack, InTransaction
  <2>2. Finishes(r, "already")
    BY <2>1 DEF TypeOK, Finishes, Submitting
  <2> QED
    BY <1>1, <2>1, <2>2 DEF Outcomes
<1> QED
  BY <1>2, <1>3, <1>4, <1>5

\* A history that was read, whole or not.
HistoryRead(r) == \E lost \in SUBSET Settled : AnswerWithHistory(r, lost)

\* The steps after the batch, and the panic: the answer of r is what changes.
LEMMA AnsweringMoves ==
    ASSUME TypeOK, NEW r \in Requests,
           \/ BeginPanics(r) \/ AnswerAnonymous(r) \/ FindSession(r) \/ ReadAccount(r)
           \/ NoAccount(r) \/ AccountUnavailable(r) \/ HistoryRead(r) \/ HistoryUnavailable(r)
    PROVE  /\ Alone(r)
           /\ UNCHANGED <<ledger, todo, replies, hasError>>
           /\ pc'[r] \in {"account", "history", "done"}
<1>1. CASE BeginPanics(r)
  BY <1>1 DEF TypeOK, BeginPanics, Alone, dbVars
<1>2. ASSUME NEW to, NEW reply, Answer(r, to, reply)
      PROVE  Alone(r) /\ UNCHANGED <<ledger, todo, replies, hasError>> /\ pc'[r] = to
  BY <1>2 DEF TypeOK, Answer, Alone, dbVars
<1>3. CASE \/ AnswerAnonymous(r) \/ FindSession(r) \/ ReadAccount(r)
           \/ NoAccount(r) \/ AccountUnavailable(r) \/ HistoryRead(r) \/ HistoryUnavailable(r)
  <2>1. \E to \in {"account", "history", "done"} : \E reply : Answer(r, to, reply)
    BY <1>3 DEF AnswerAnonymous, FindSession, ReadAccount, NoAccount, AccountUnavailable,
       HistoryRead, AnswerWithHistory, HistoryUnavailable
  <2> QED
    BY <1>2, <2>1
<1> QED
  BY <1>1, <1>3

\* What an answer reflects is a moment of the history, and there is no answer
\* before the account is read.
VisitKnown(r) ==
    /\ answer[r].bkvcAt \in 0..Len(ledger)
    /\ answer[r].historyAt \in 0..Len(ledger)
    /\ pc[r] \notin {"history", "done"} => answer[r] = Unanswered

VisitsKnown == \A r \in Requests : VisitKnown(r)

LEMMA VisitStaysKnown ==
    ASSUME IInv, [Next]_vars, NEW r \in Requests, VisitKnown(r),
           pc'[r] = pc[r], todo'[r] = todo[r], replies'[r] = replies[r], answer'[r] = answer[r]
    PROVE  VisitKnown(r)'
<1>1. Len(ledger) \in Nat /\ Len(ledger') \in Nat /\ Len(ledger) <= Len(ledger')
  BY HistoryGrows
<1> QED
  BY <1>1 DEF VisitKnown

LEMMA FinishKeepsKnown ==
    ASSUME IInv, [Next]_vars, NEW r \in Requests, NEW outcome \in Outcomes,
           Finishes(r, outcome), VisitKnown(r)
    PROVE  VisitKnown(r)'
<1> USE DEF IInv
<1>1. Len(ledger) \in Nat /\ Len(ledger') \in Nat /\ Len(ledger) <= Len(ledger')
  BY HistoryGrows
<1>2. pc[r] \notin {"history", "done"} /\ pc'[r] = "next" /\ answer' = answer
  BY DEF TypeOK, Finishes, Submitting, Report, InTransaction
<1> QED
  BY <1>1, <1>2 DEF VisitKnown

LEMMA AnsweringKeepsKnown ==
    ASSUME IInv, [Next]_vars, NEW r \in Requests, VisitKnown(r),
           \/ BeginPanics(r) \/ AnswerAnonymous(r) \/ FindSession(r) \/ ReadAccount(r)
           \/ NoAccount(r) \/ AccountUnavailable(r) \/ HistoryRead(r) \/ HistoryUnavailable(r)
    PROVE  VisitKnown(r)'
<1> USE DEF IInv
<1>1. Len(ledger) \in Nat /\ answer[r] \in Answers /\ Unanswered \in Answers
  BY UnansweredType DEF TypeOK
<1>2. UNCHANGED <<ledger, todo, replies>>
  BY AnsweringMoves
<1>3. CASE AnswerAnonymous(r) \/ NoAccount(r) \/ AccountUnavailable(r) \/ HistoryUnavailable(r)
  <2>1. pc'[r] = "done" /\ answer'[r].bkvcAt = 0 /\ answer'[r].historyAt = 0
    BY <1>3 DEF TypeOK, AnswerAnonymous, NoAccount, AccountUnavailable, HistoryUnavailable,
       Answer, Unanswered
  <2> QED
    BY <1>1, <1>2, <2>1 DEF VisitKnown
<1>4. CASE FindSession(r)
  BY <1>1, <1>2, <1>4 DEF TypeOK, FindSession, Answer, Unanswered, VisitKnown
<1>5. CASE BeginPanics(r)
  <2>1. /\ pc'[r] = "done"
        /\ answer'[r].bkvcAt = answer[r].bkvcAt /\ answer'[r].historyAt = answer[r].historyAt
    BY <1>1, <1>5 DEF TypeOK, BeginPanics, Answers
  <2> QED
    BY <1>2, <2>1 DEF VisitKnown
<1>6. CASE ReadAccount(r)
  <2>1. /\ pc'[r] = "history"
        /\ answer'[r].bkvcAt = Len(ledger) /\ answer'[r].historyAt = answer[r].historyAt
    BY <1>1, <1>6 DEF TypeOK, ReadAccount, Answer, Answers
  <2> QED
    BY <1>1, <1>2, <2>1 DEF VisitKnown
<1>7. CASE HistoryRead(r)
  <2>0. PICK lost \in SUBSET Settled : AnswerWithHistory(r, lost)
    BY <1>7 DEF HistoryRead
  <2>1. /\ pc'[r] = "done"
        /\ answer'[r].bkvcAt = answer[r].bkvcAt /\ answer'[r].historyAt = Len(ledger)
    BY <1>1, <2>0 DEF TypeOK, AnswerWithHistory, Answer, Answers
  <2> QED
    BY <1>1, <1>2, <2>1 DEF VisitKnown
<1> QED
  BY <1>3, <1>4, <1>5, <1>6, <1>7

LEMMA ReceiveKeepsKnown ==
    ASSUME IInv, [Next]_vars, NEW r \in Requests, VisitKnown(r), Receive(r)
    PROVE  VisitKnown(r)' /\ Alone(r)
<1> USE DEF IInv
<1>1. Alone(r)
  BY DEF TypeOK, Receive, Alone
<1>2. VisitKnown(r)'
  BY DEF TypeOK, Receive, VisitKnown, dbVars
<1> QED
  BY <1>1, <1>2

\* Everything a step of one request can be.
LEMMA HandlerMoves ==
    ASSUME TypeOK, NEW r \in Requests,
           Receive(r) \/ Handle(r) \/ Fault(r) \/ DeadlockVictim(r)
    PROVE  \/ Receive(r)
           \/ Alone(r) /\ GoesOn(r)
           \/ \E outcome \in Outcomes : Alone(r) /\ Finishes(r, outcome)
           \/ BeginPanics(r) \/ AnswerAnonymous(r) \/ FindSession(r) \/ ReadAccount(r)
           \/ NoAccount(r) \/ AccountUnavailable(r) \/ HistoryRead(r) \/ HistoryUnavailable(r)
<1>1. ReadHistory(r) \/ ReadHistoryCut(r) => HistoryRead(r)
  BY DEF ReadHistory, ReadHistoryCut, HistoryRead
<1> QED
  BY <1>1, BatchMoves DEF Handle, Fault

LEMMA VisitsStayKnown ==
    ASSUME IInv, VisitsKnown, [Next]_vars
    PROVE  VisitsKnown'
<1>0. TypeOK
  BY DEF IInv
<1>1. ASSUME NEW q \in Requests, Receive(q) \/ Handle(q) \/ Fault(q) \/ DeadlockVictim(q)
      PROVE  VisitsKnown'
  <2>1. VisitKnown(q)' /\ Alone(q)
    <3>1. CASE Receive(q)
      BY <3>1, ReceiveKeepsKnown DEF VisitsKnown
    <3>2. CASE Alone(q) /\ GoesOn(q)
      <4>1. VisitKnown(q)
        BY DEF VisitsKnown
      <4> QED
        BY <3>2, <4>1 DEF GoesOn, Submitting, InTransaction, VisitKnown
    <3>3. CASE \E outcome \in Outcomes : Alone(q) /\ Finishes(q, outcome)
      BY <3>3, FinishKeepsKnown DEF VisitsKnown
    <3>4. CASE \/ BeginPanics(q) \/ AnswerAnonymous(q) \/ FindSession(q) \/ ReadAccount(q)
               \/ NoAccount(q) \/ AccountUnavailable(q) \/ HistoryRead(q) \/ HistoryUnavailable(q)
      BY <1>0, <3>4, AnsweringKeepsKnown, AnsweringMoves DEF VisitsKnown
    <3> QED
      BY <1>0, <1>1, <3>1, <3>2, <3>3, <3>4, HandlerMoves
  <2>2. ASSUME NEW r \in Requests \ {q} PROVE VisitKnown(r)'
    BY <2>1, VisitStaysKnown DEF VisitsKnown, Alone
  <2> QED
    BY <2>1, <2>2 DEF VisitsKnown
<1>2. CASE ServerCrash
  <2>1. \A r \in Requests :
          \/ /\ pc'[r] = pc[r] /\ todo'[r] = todo[r] /\ replies'[r] = replies[r]
             /\ answer'[r] = answer[r]
          \/ /\ pc'[r] = "done" /\ todo'[r] = <<>> /\ replies'[r] = <<>>
             /\ answer'[r] = Unanswered
    BY <1>2 DEF ServerCrash
  <2>2. Len(ledger') \in Nat
    BY HistoryGrows
  <2>3. ASSUME NEW r \in Requests, pc'[r] = "done", todo'[r] = <<>>, replies'[r] = <<>>,
               answer'[r] = Unanswered
        PROVE  VisitKnown(r)'
    BY <2>2, <2>3 DEF VisitKnown, Unanswered
  <2> QED
    BY <2>1, <2>3, VisitStaysKnown DEF VisitsKnown
<1>3. CASE \/ \E u \in Rotating : DeactivateKey(u) \/ InsertKey(u)
           \/ \E t \in Ageing : Expire(t)
           \/ UNCHANGED vars
  <2>1. UNCHANGED <<pc, todo, replies, answer>>
    BY <1>3 DEF DeactivateKey, InsertKey, Expire, vars
  <2> QED
    BY <2>1, VisitStaysKnown DEF VisitsKnown
<1> QED
  BY <1>1, <1>2, <1>3, LedgerAssumption DEF Next, Environment

LEMMA VisitsKnownInvariance == Spec => []VisitsKnown
<1>1. Init => VisitsKnown
  <2> SUFFICES ASSUME Init, NEW r \in Requests PROVE VisitKnown(r)
    BY DEF VisitsKnown
  <2> QED
    BY DEF Init, VisitKnown, Unanswered
<1> QED
  BY <1>1, VisitsStayKnown, Invariance, PTL DEF Spec

-----------------------------------------------------------------------------
(* The ledger is the server a phone runs on: the simulation *)

Visits == [r \in Own |-> Visit(r)]

LEMMA VisitStays ==
    ASSUME IInv, [Next]_vars, NEW p \in Requests, VisitKnown(p),
           pc'[p] = pc[p], todo'[p] = todo[p], replies'[p] = replies[p],
           hasError'[p] = hasError[p], answer'[p] = answer[p]
    PROVE  Visit(p)' = Visit(p)
<1>1. /\ PhaseOf(p)' = PhaseOf(p) /\ DoneBy(p)' = DoneBy(p) /\ SilencedBy(p)' = SilencedBy(p)
      /\ StatusOf(p)' = StatusOf(p) /\ LeftIn(p)' = LeftIn(p)
  BY DEF PhaseOf, DoneBy, SilencedBy, LeftIn, StatusOf, Status
<1>2. PICK b, h \in 0..Len(ledger) : b = answer[p].bkvcAt /\ h = answer[p].historyAt
  BY DEF VisitKnown
<1>3. WatchedIn(b)' = WatchedIn(b) /\ WatchedIn(h)' = WatchedIn(h)
  BY NumbersStay
<1>4. /\ Cardinality({i \in 1..answer'[p].bkvcAt : ledger'[i].tam \in Watched}) = WatchedIn(b)'
      /\ Cardinality({i \in 1..answer'[p].historyAt : ledger'[i].tam \in Watched}) = WatchedIn(h)'
  BY <1>2 DEF WatchedIn
<1>5. /\ WatchedIn(answer[p].bkvcAt)' = WatchedIn(answer[p].bkvcAt)
      /\ WatchedIn(answer[p].historyAt)' = WatchedIn(answer[p].historyAt)
  BY <1>2, <1>3, <1>4 DEF WatchedIn
<1> QED
  BY <1>1, <1>5 DEF Visit

LEMMA VisitMoves ==
    ASSUME NEW r \in Own, \A p \in Own \ {r} : Visit(p)' = Visit(p)
    PROVE  Visits' = [Visits EXCEPT ![r] = Visit(r)']
  BY DEF Visits

\* The tables as the phone knows them do not change.
ServerStill == UNCHANGED <<WatchedIn(Len(ledger)), [t \in Watched |-> NumberOf(t)],
                           [t \in Watched |-> BegunAt(t)]>>

LEMMA SameLedgerStill ==
    ASSUME ledger' = ledger
    PROVE  ServerStill
  BY DEF ServerStill, WatchedIn, NumberOf, BegunAt, RowOf, Settled

LEMMA ArriveSimulated ==
    ASSUME NEW r \in Own, NEW batch, ServerStill, Visits' = [Visits EXCEPT ![r] = Visit(r)'],
           Visit(r).phase = "idle",
           Visit(r)' = [Visit(r) EXCEPT !.phase = "sent", !.batch = batch]
    PROVE  Service!Arrive(r, batch)
  BY DEF Service!Arrive, ServerStill, Visits, Service!server

LEMMA SucceedSimulated ==
    ASSUME NEW r \in Own, NEW t \in Watched, Visits' = [Visits EXCEPT ![r] = Visit(r)'],
           Visit(r).phase = "sent", t \in Visit(r).batch,
           Visit(r)' = [Visit(r) EXCEPT !.done = Visit(r).done \cup {t}],
           \/ NumberOf(t) = 0 /\ Service!Settle(t)
           \/ NumberOf(t) # 0 /\ ServerStill
    PROVE  Service!Succeed(r, t)
<1>1. [s \in Own |-> Visit(s)]' = [[s \in Own |-> Visit(s)] EXCEPT ![r].done = @ \cup {t}]
  BY DEF Visits
<1>2. IF [u \in Watched |-> NumberOf(u)][t] = 0 THEN Service!Settle(t) ELSE UNCHANGED Service!server
  BY DEF ServerStill, Service!server
<1> QED
  BY <1>1, <1>2 DEF Service!Succeed

LEMMA FailSimulated ==
    ASSUME NEW r \in Own, NEW t \in Watched, Visits' = [Visits EXCEPT ![r] = Visit(r)'],
           Visit(r).phase = "sent", t \in Visit(r).batch,
           Visit(r)' = [Visit(r) EXCEPT !.done = Visit(r).done \cup {t}, !.hasError = TRUE],
           Service!Settle(t) \/ ServerStill
    PROVE  Service!Fail(r, t)
<1>1. [s \in Own |-> Visit(s)]' =
         [[s \in Own |-> Visit(s)] EXCEPT ![r].done = @ \cup {t}, ![r].hasError = TRUE]
  BY DEF Visits
<1>2. Service!Settle(t) \/ UNCHANGED Service!server
  BY DEF ServerStill, Service!server
<1> QED
  BY <1>1, <1>2 DEF Service!Fail

LEMMA FailSilentlySimulated ==
    ASSUME NEW r \in Own, NEW t \in Watched, Visits' = [Visits EXCEPT ![r] = Visit(r)'],
           Visit(r).phase = "sent", t \in Visit(r).batch,
           Visit(r)' = [Visit(r) EXCEPT !.done = Visit(r).done \cup {t},
                                        !.silenced = Visit(r).silenced \cup {t}],
           ServerStill
    PROVE  Service!FailSilently(r, t)
<1>1. [s \in Own |-> Visit(s)]' =
         [[s \in Own |-> Visit(s)] EXCEPT ![r].done = @ \cup {t}, ![r].silenced = @ \cup {t}]
  BY DEF Visits
<1> QED
  BY <1>1 DEF ServerStill, Service!FailSilently, Service!server

LEMMA FailForOthersSimulated ==
    ASSUME NEW r \in Own, Visits' = [Visits EXCEPT ![r] = Visit(r)'], ServerStill,
           Visit(r).phase = "sent", Visit(r)' = [Visit(r) EXCEPT !.hasError = TRUE]
    PROVE  Service!FailForOthers(r)
  BY DEF Visits, ServerStill, Service!FailForOthers, Service!server

LEMMA FinishBatchSimulated ==
    ASSUME NEW r \in Own, Visits' = [Visits EXCEPT ![r] = Visit(r)'], ServerStill,
           Visit(r).phase = "sent", Visit(r).batch \subseteq Visit(r).done,
           NEW next \in {"submitted", "answered"},
           Visit(r)' = [Visit(r) EXCEPT !.phase = next,
                                        !.status = IF Visit(r).hasError THEN "207" ELSE "202"]
    PROVE  Service!FinishBatch(r, next)
<1>1. [s \in Own |-> Visit(s)]' =
         [[s \in Own |-> Visit(s)] EXCEPT
             ![r].phase = next,
             ![r].status = IF [s \in Own |-> Visit(s)][r].hasError THEN "207" ELSE "202"]
  BY DEF Visits
<1> QED
  BY <1>1 DEF ServerStill, Service!FinishBatch, Service!server

LEMMA ReadingSimulated ==
    ASSUME NEW r \in Own, Visits' = [Visits EXCEPT ![r] = Visit(r)'], ServerStill,
           \/ /\ Visit(r).phase = "submitted"
              /\ Visit(r)' = [Visit(r) EXCEPT !.phase = "certified",
                                              !.bkvc = WatchedIn(Len(ledger))]
           \/ /\ Visit(r).phase = "certified"
              /\ \E lost \in SUBSET Service!Committed :
                   Visit(r)' = [Visit(r) EXCEPT !.phase = "answered",
                                                !.history = WatchedIn(Len(ledger)),
                                                !.unread = lost]
    PROVE  Service!ReadAccount(r) \/ \E lost \in SUBSET Watched : Service!ReadHistory(r, lost)
<1>1. CASE /\ Visit(r).phase = "submitted"
           /\ Visit(r)' = [Visit(r) EXCEPT !.phase = "certified", !.bkvc = WatchedIn(Len(ledger))]
  BY <1>1 DEF Visits, ServerStill, Service!ReadAccount, Service!server
<1>2. ASSUME Visit(r).phase = "certified", NEW lost \in SUBSET Service!Committed,
             Visit(r)' = [Visit(r) EXCEPT !.phase = "answered", !.history = WatchedIn(Len(ledger)),
                                          !.unread = lost]
      PROVE  lost \in SUBSET Watched /\ Service!ReadHistory(r, lost)
  <2>1. lost \in SUBSET Watched
    BY <1>2 DEF Service!Committed
  <2>2. Service!ReadHistory(r, lost)
    BY <1>2 DEF Visits, ServerStill, Service!ReadHistory, Service!server
  <2> QED
    BY <2>1, <2>2
<1> QED
  BY <1>1, <1>2

LEMMA GiveUpSimulated ==
    ASSUME NEW r \in Own, Visits' = [Visits EXCEPT ![r] = Visit(r)'], ServerStill,
           \/ /\ Visit(r).phase = "sent"
              /\ Visit(r)' = [Visit(r) EXCEPT !.phase = "answered", !.status = "500"]
           \/ /\ Visit(r).phase \in {"submitted", "certified"}
              /\ Visit(r)' = [Visit(r) EXCEPT !.phase = "answered", !.status = "207",
                                              !.bkvc = 0, !.history = 0, !.unread = {}]
    PROVE  Service!GiveUp(r)
  BY DEF Visits, ServerStill, Service!GiveUp, Service!server

\* Visits are compared field by field.
VisitFields == {"phase", "batch", "done", "silenced", "hasError", "status", "bkvc", "history",
                "unread"}
IsVisit(v) == v = [x \in VisitFields |-> v[x]]

LEMMA SameVisit ==
    ASSUME NEW v, NEW w, IsVisit(v), IsVisit(w),
           v.phase = w.phase, v.batch = w.batch, v.done = w.done, v.silenced = w.silenced,
           v.hasError = w.hasError, v.status = w.status, v.bkvc = w.bkvc, v.history = w.history,
           v.unread = w.unread
    PROVE  v = w
  BY DEF IsVisit, VisitFields

\* The fields of a visit, action by action.
LEMMA PhaseValues ==
    ASSUME TypeOK, NEW r \in Requests
    PROVE  /\ pc[r] = "idle" <=> PhaseOf(r) = "idle"
           /\ Submitting(r) <=> PhaseOf(r) = "sent"
           /\ pc[r] = "account" <=> PhaseOf(r) = "submitted"
           /\ pc[r] = "history" <=> PhaseOf(r) = "certified"
           /\ pc[r] = "done" <=> PhaseOf(r) = "answered"
<1>1. pc[r] \in {"idle", "next", "account", "history", "done"} \cup InTransaction
  BY DEF TypeOK
<1> QED
  BY <1>1 DEF PhaseOf, Submitting, InTransaction

LEMMA NothingWatched == WatchedIn(0) = 0
<1>1. {i \in 1..0 : ledger[i].tam \in Watched} = {}
  OBVIOUS
<1> QED
  BY <1>1, FS_EmptySet DEF WatchedIn

LEMMA FinishVisits ==
    ASSUME IInv, [Next]_vars, NEW r \in Own, VisitKnown(r), NEW outcome \in Outcomes,
           Finishes(r, outcome), NEW t, t = Current(r),
           NEW v, v = Visit(r), NEW w, w = Visit(r)'
    PROVE  /\ v.phase = "sent"
           /\ t \in Watched => t \in v.batch
           /\ IsVisit(v) /\ IsVisit(w) /\ v.hasError \in BOOLEAN
           /\ w.phase = v.phase /\ w.batch = v.batch /\ w.done = v.done \cup (Watched \cap {t})
           /\ w.silenced = v.silenced \cup (IF outcome = "silent" THEN Watched \cap {t} ELSE {})
           /\ w.hasError = (v.hasError \/ outcome = "failed")
           /\ w.status = v.status /\ w.bkvc = v.bkvc /\ w.history = v.history /\ w.unread = v.unread
<1> USE DEF IInv
<1>0. r \in Requests
  BY ServiceAssumption
<1>1. /\ pc[r] \notin {"account", "history", "done"} /\ pc'[r] = "next" /\ answer'[r] = answer[r]
      /\ answer[r] = Unanswered
      /\ todo'[r] = Tail(todo[r]) /\ todo[r] # <<>> /\ todo[r] \in Seq(Tams)
      /\ replies'[r] = Append(replies[r], [tam |-> t, outcome |-> outcome])
      /\ replies[r] \in Seq(Replies)
      /\ hasError'[r] = (hasError[r] \/ outcome = "failed")
  BY <1>0 DEF TypeOK, Finishes, Submitting, Report, InTransaction, VisitKnown
<1>2. t = Head(todo[r]) /\ t \in Tams
  BY <1>1 DEF Current
<1>3. PhaseOf(r) = "sent" /\ PhaseOf(r)' = "sent"
  <2>1. PhaseOf(r) = "sent"
    BY <1>0, PhaseValues DEF Finishes
  <2>2. PhaseOf(r)' = "sent"
    BY <1>1 DEF PhaseOf, InTransaction
  <2> QED
    BY <2>1, <2>2
<1>4. LeftIn(r) = (Watched \cap {t}) \cup LeftIn(r)'
  <2>1. /\ DOMAIN todo[r] = 1..Len(todo[r]) /\ Len(todo[r]) \in Nat \ {0} /\ todo[r][1] = t
        /\ DOMAIN todo'[r] = 1..(Len(todo[r]) - 1)
        /\ \A i \in 1..(Len(todo[r]) - 1) : todo'[r][i] = todo[r][i + 1]
    BY <1>1, <1>2
  <2>2. \A i \in 1..Len(todo[r]) : i = 1 \/ (i - 1 \in 1..(Len(todo[r]) - 1) /\ (i - 1) + 1 = i)
    BY <2>1
  <2>3. \A i \in 1..(Len(todo[r]) - 1) : i + 1 \in 1..Len(todo[r])
    BY <2>1
  <2>4. ASSUME NEW i \in DOMAIN todo[r]
        PROVE  todo[r][i] = t \/ \E j \in DOMAIN todo'[r] : todo[r][i] = todo'[r][j]
    BY <2>1, <2>2
  <2>5. \E i \in DOMAIN todo[r] : todo[r][i] = t
    BY <2>1
  <2>6. ASSUME NEW j \in DOMAIN todo'[r]
        PROVE  \E i \in DOMAIN todo[r] : todo[r][i] = todo'[r][j]
    BY <2>1, <2>3
  <2> QED
    BY <2>4, <2>5, <2>6 DEF LeftIn
<1> DEFINE reply == [tam |-> t, outcome |-> outcome]
           n == Len(replies[r])
<1>5. /\ n \in Nat /\ DOMAIN replies[r] = 1..n /\ DOMAIN replies'[r] = 1..(n + 1)
      /\ replies'[r][n + 1] = reply /\ \A i \in 1..n : replies'[r][i] = replies[r][i]
  <2>1. reply \in Replies
    BY <1>2 DEF Replies
  <2>2. replies'[r] = Append(replies[r], reply)
    BY <1>1
  <2> HIDE DEF reply
  <2> QED
    BY <1>1, <2>1, <2>2
<1>6. reply.tam = t /\ reply.outcome = outcome
  OBVIOUS
<1> HIDE DEF reply, n
<1>7. DoneBy(r)' = DoneBy(r) \cup (Watched \cap {t})
  BY <1>5, <1>6 DEF DoneBy
<1>8. SilencedBy(r)' = SilencedBy(r) \cup (IF outcome = "silent" THEN Watched \cap {t} ELSE {})
  BY <1>5, <1>6 DEF SilencedBy
<1>9. StatusOf(r) = answer[r].status /\ StatusOf(r)' = answer[r].status
  BY <1>1 DEF StatusOf
<1>10. /\ WatchedIn(answer[r].bkvcAt)' = WatchedIn(answer[r].bkvcAt)
       /\ WatchedIn(answer[r].historyAt)' = WatchedIn(answer[r].historyAt)
  <2>1. answer[r].bkvcAt = 0 /\ answer[r].historyAt = 0 /\ answer'[r].bkvcAt = 0 /\ answer'[r].historyAt = 0
    BY <1>1 DEF Unanswered
  <2>2. WatchedIn(answer[r].bkvcAt)' = 0 /\ WatchedIn(answer[r].historyAt)' = 0
    <3>1. {i \in 1..0 : ledger'[i].tam \in Watched} = {}
      OBVIOUS
    <3> QED
      BY <2>1, <3>1, FS_EmptySet DEF WatchedIn
  <2> QED
    BY <2>1, <2>2, NothingWatched
<1>11. DoneBy(r)' \cup LeftIn(r)' = DoneBy(r) \cup LeftIn(r)
  BY <1>4, <1>7
<1>12. /\ IsVisit(v) /\ v.phase = "sent" /\ v.done = DoneBy(r)
       /\ v.silenced = SilencedBy(r) /\ v.hasError = hasError[r] /\ v.status = StatusOf(r)
       /\ v.batch = DoneBy(r) \cup LeftIn(r)
       /\ v.bkvc = WatchedIn(answer[r].bkvcAt) /\ v.history = WatchedIn(answer[r].historyAt)
       /\ v.unread = answer[r].unread \cap Watched
  BY <1>3 DEF Visit, IsVisit, VisitFields
<1>13. IsVisit(w)
  BY DEF Visit, IsVisit, VisitFields
<1>14. /\ w.phase = "sent" /\ w.batch = v.batch /\ w.done = DoneBy(r) \cup (Watched \cap {t})
       /\ w.silenced = SilencedBy(r) \cup (IF outcome = "silent" THEN Watched \cap {t} ELSE {})
       /\ w.hasError = (hasError[r] \/ outcome = "failed")
       /\ w.status = v.status /\ w.bkvc = v.bkvc /\ w.history = v.history /\ w.unread = v.unread
  BY <1>1, <1>3, <1>7, <1>8, <1>9, <1>10, <1>11, <1>12 DEF Visit
<1>15. (t \in Watched => t \in v.batch) /\ hasError[r] \in BOOLEAN
  BY <1>0, <1>4, <1>12 DEF TypeOK
<1> QED
  BY <1>12, <1>13, <1>14, <1>15

\* What a visit is made of, before and after a step that leaves the ledger alone.
LEMMA VisitParts ==
    ASSUME NEW r \in Own, ledger' = ledger
    PROVE  /\ IsVisit(Visit(r)) /\ IsVisit(Visit(r)')
           /\ \A v : v = Visit(r) =>
                 /\ v.phase = PhaseOf(r) /\ v.done = DoneBy(r) /\ v.silenced = SilencedBy(r)
                 /\ v.batch = DoneBy(r) \cup LeftIn(r)
                 /\ v.hasError = hasError[r] /\ v.status = StatusOf(r)
                 /\ v.bkvc = WatchedIn(answer[r].bkvcAt)
                 /\ v.history = WatchedIn(answer[r].historyAt)
                 /\ v.unread = answer[r].unread \cap Watched
           /\ \A v : v = Visit(r)' =>
                 /\ v.phase = PhaseOf(r)' /\ v.done = DoneBy(r)' /\ v.silenced = SilencedBy(r)'
                 /\ v.batch = DoneBy(r)' \cup LeftIn(r)'
                 /\ v.hasError = hasError'[r] /\ v.status = StatusOf(r)'
                 /\ v.bkvc = WatchedIn(answer'[r].bkvcAt)
                 /\ v.history = WatchedIn(answer'[r].historyAt)
                 /\ v.unread = answer'[r].unread \cap Watched
<1>1. /\ WatchedIn(answer[r].bkvcAt)' = WatchedIn(answer'[r].bkvcAt)
      /\ WatchedIn(answer[r].historyAt)' = WatchedIn(answer'[r].historyAt)
  BY DEF WatchedIn
<1>2. IsVisit(Visit(r)) /\ IsVisit(Visit(r)')
  BY DEF Visit, IsVisit, VisitFields
<1> QED
  BY <1>1, <1>2 DEF Visit

LEMMA ReceiveVisits ==
    ASSUME TypeOK, NEW r \in Own, Receive(r), VisitKnown(r)
    PROVE  \E batch \in SUBSET Watched :
              /\ Visit(r).phase = "idle"
              /\ Visit(r)' = [Visit(r) EXCEPT !.phase = "sent", !.batch = batch]
<1>0. r \in Requests
  BY ServiceAssumption
<1>1. PICK todos \in Batches[r] : todo' = [todo EXCEPT ![r] = todos]
  BY DEF Receive
<1>3. PICK batch : batch = DoneBy(r) \cup LeftIn(r)'
  OBVIOUS
<1>4. batch \in SUBSET Watched
  BY <1>3 DEF DoneBy, LeftIn
<1>5. /\ pc[r] = "idle" /\ pc'[r] = "next" /\ ledger' = ledger /\ replies' = replies
      /\ hasError' = hasError /\ answer' = answer
  BY <1>0 DEF TypeOK, Receive, dbVars
<1>6. /\ PhaseOf(r) = "idle" /\ PhaseOf(r)' = "sent" /\ DoneBy(r)' = DoneBy(r)
      /\ SilencedBy(r)' = SilencedBy(r) /\ StatusOf(r)' = StatusOf(r)
  BY <1>5 DEF PhaseOf, DoneBy, SilencedBy, StatusOf, InTransaction
<1>7. PICK v, w : v = Visit(r)' /\ w = [Visit(r) EXCEPT !.phase = "sent", !.batch = batch]
  OBVIOUS
<1>8. IsVisit(v) /\ IsVisit(Visit(r))
  BY <1>5, <1>7, VisitParts
<1>9. IsVisit(w) /\ w.phase = "sent" /\ w.batch = batch
  BY <1>7, <1>8 DEF IsVisit, VisitFields
<1>10. /\ w.done = Visit(r).done /\ w.silenced = Visit(r).silenced
       /\ w.hasError = Visit(r).hasError /\ w.status = Visit(r).status
       /\ w.bkvc = Visit(r).bkvc /\ w.history = Visit(r).history /\ w.unread = Visit(r).unread
  BY <1>7, <1>8 DEF IsVisit, VisitFields
<1>11. v = w
  <2>1. PICK u : u = Visit(r)
    OBVIOUS
  <2>2. /\ u.done = DoneBy(r) /\ u.silenced = SilencedBy(r)
        /\ u.hasError = hasError[r] /\ u.status = StatusOf(r)
        /\ u.bkvc = WatchedIn(answer[r].bkvcAt) /\ u.history = WatchedIn(answer[r].historyAt)
        /\ u.unread = answer[r].unread \cap Watched
    BY <2>1, <1>5, VisitParts
  <2>3. /\ v.phase = "sent" /\ v.done = DoneBy(r) /\ v.silenced = SilencedBy(r)
        /\ v.batch = batch /\ v.hasError = hasError[r] /\ v.status = StatusOf(r)
        /\ v.bkvc = WatchedIn(answer[r].bkvcAt) /\ v.history = WatchedIn(answer[r].historyAt)
        /\ v.unread = answer[r].unread \cap Watched
    BY <1>3, <1>5, <1>6, <1>7, VisitParts
  <2> QED
    BY <1>8, <1>9, <1>10, <2>1, <2>2, <2>3, SameVisit
<1>12. Visit(r).phase = "idle"
  BY <1>6 DEF Visit
<1> QED
  BY <1>4, <1>7, <1>11, <1>12

\* After the batch only these four fields can change.
LEMMA AnsweringVisit ==
    ASSUME NEW r \in Own, UNCHANGED <<ledger, todo, replies, hasError>>, NEW w, IsVisit(w),
           w.batch = Visit(r).batch, w.done = Visit(r).done, w.silenced = Visit(r).silenced,
           w.hasError = Visit(r).hasError, w.phase = PhaseOf(r)', w.status = StatusOf(r)',
           w.bkvc = WatchedIn(answer'[r].bkvcAt), w.history = WatchedIn(answer'[r].historyAt),
           w.unread = answer'[r].unread \cap Watched
    PROVE  Visit(r)' = w
<1>1. PICK u, v : u = Visit(r) /\ v = Visit(r)'
  OBVIOUS
<1>2. /\ u.done = DoneBy(r) /\ u.silenced = SilencedBy(r) /\ u.hasError = hasError[r]
      /\ u.batch = DoneBy(r) \cup LeftIn(r)
  BY <1>1, VisitParts
<1>3. /\ v.done = DoneBy(r)' /\ v.silenced = SilencedBy(r)' /\ v.hasError = hasError[r]
      /\ v.batch = DoneBy(r)' \cup LeftIn(r)'
      /\ v.phase = PhaseOf(r)' /\ v.status = StatusOf(r)'
      /\ v.bkvc = WatchedIn(answer'[r].bkvcAt) /\ v.history = WatchedIn(answer'[r].historyAt)
      /\ v.unread = answer'[r].unread \cap Watched
  BY <1>1, VisitParts
<1>4. DoneBy(r)' = DoneBy(r) /\ SilencedBy(r)' = SilencedBy(r) /\ LeftIn(r)' = LeftIn(r)
  BY DEF DoneBy, SilencedBy, LeftIn
<1>5. IsVisit(v)
  BY <1>1, VisitParts
<1> QED
  BY <1>1, <1>2, <1>3, <1>4, <1>5, SameVisit

LEMMA FinishBatchVisits ==
    ASSUME TypeOK, NEW r \in Own, VisitKnown(r), AnswerAnonymous(r) \/ FindSession(r)
    PROVE  /\ Visit(r).phase = "sent" /\ Visit(r).batch \subseteq Visit(r).done
           /\ \E next \in {"submitted", "answered"} :
                 Visit(r)' = [Visit(r) EXCEPT !.phase = next,
                                 !.status = IF Visit(r).hasError THEN "207" ELSE "202"]
<1>0. r \in Requests /\ UNCHANGED <<ledger, todo, replies, hasError>>
  BY ServiceAssumption, AnsweringMoves
<1>1. pc[r] = "next" /\ todo[r] = <<>>
  BY DEF AnswerAnonymous, FindSession, LoopDone
<1>2. PICK next : next = PhaseOf(r)'
  OBVIOUS
<1>3. answer[r] = Unanswered
  BY <1>0, <1>1 DEF VisitKnown
<1>5. /\ next \in {"submitted", "answered"} /\ StatusOf(r)' = Status(r)
      /\ answer'[r].bkvcAt = 0 /\ answer'[r].historyAt = 0 /\ answer'[r].unread = {}
  <2>1. CASE AnswerAnonymous(r)
    <3>1. pc'[r] = "done" /\ answer'[r] = [Unanswered EXCEPT !.status = Status(r)]
      BY <1>0, <2>1 DEF TypeOK, AnswerAnonymous, Answer
    <3> QED
      BY <1>2, <3>1 DEF PhaseOf, StatusOf, Unanswered, InTransaction
  <2>2. CASE FindSession(r)
    <3>1. pc'[r] = "account" /\ answer'[r] = Unanswered
      BY <1>0, <2>2 DEF TypeOK, FindSession, Answer
    <3>2. Status(r)' = Status(r)
      BY <1>0 DEF Status
    <3> QED
      BY <1>2, <3>1, <3>2 DEF PhaseOf, StatusOf, Unanswered, InTransaction
  <2> QED
    BY <2>1, <2>2
<1>6. PICK v : v = Visit(r)
  OBVIOUS
<1>7. /\ v.phase = "sent" /\ v.batch \subseteq v.done /\ v.hasError = hasError[r]
      /\ v.bkvc = WatchedIn(0) /\ v.history = WatchedIn(0) /\ v.unread = {} /\ IsVisit(v)
  <2>1. PhaseOf(r) = "sent"
    BY <1>0, <1>1, PhaseValues DEF Submitting
  <2>2. LeftIn(r) = {}
    BY <1>1 DEF LeftIn
  <2>3. answer[r].bkvcAt = 0 /\ answer[r].historyAt = 0 /\ answer[r].unread = {}
    BY <1>3 DEF Unanswered
  <2> QED
    BY <1>0, <1>6, <2>1, <2>2, <2>3, VisitParts
<1>8. PICK w : w = [v EXCEPT !.phase = next, !.status = IF v.hasError THEN "207" ELSE "202"]
  OBVIOUS
<1>9. /\ IsVisit(w) /\ w.phase = next /\ w.status = Status(r)
      /\ w.batch = v.batch /\ w.done = v.done /\ w.silenced = v.silenced
      /\ w.hasError = v.hasError /\ w.bkvc = v.bkvc /\ w.history = v.history /\ w.unread = v.unread
  BY <1>7, <1>8 DEF IsVisit, VisitFields, Status
<1>10. Visit(r)' = w
  BY <1>0, <1>2, <1>5, <1>6, <1>7, <1>9, AnsweringVisit
<1> QED
  BY <1>5, <1>6, <1>7, <1>8, <1>10

LEMMA ReadingVisits ==
    ASSUME IInv, NEW r \in Own, VisitKnown(r), ReadAccount(r) \/ HistoryRead(r)
    PROVE  \/ /\ Visit(r).phase = "submitted"
              /\ Visit(r)' = [Visit(r) EXCEPT !.phase = "certified",
                                              !.bkvc = WatchedIn(Len(ledger))]
           \/ /\ Visit(r).phase = "certified"
              /\ \E lost \in SUBSET Service!Committed :
                   Visit(r)' = [Visit(r) EXCEPT !.phase = "answered",
                                                !.history = WatchedIn(Len(ledger)),
                                                !.unread = lost]
<1>0. r \in Requests /\ UNCHANGED <<ledger, todo, replies, hasError>> /\ answer[r] \in Answers
  BY ServiceAssumption, AnsweringMoves DEF IInv, TypeOK
<1>1. PICK n, v : n = WatchedIn(Len(ledger)) /\ v = Visit(r)
  OBVIOUS
<1>2. /\ v.phase = PhaseOf(r) /\ v.status = StatusOf(r) /\ IsVisit(v)
      /\ v.bkvc = WatchedIn(answer[r].bkvcAt) /\ v.history = WatchedIn(answer[r].historyAt)
      /\ v.unread = answer[r].unread \cap Watched
  BY <1>0, <1>1, VisitParts
<1>3. CASE ReadAccount(r)
  <2>1. /\ pc[r] = "account" /\ pc'[r] = "history"
        /\ answer'[r].bkvcAt = Len(ledger) /\ answer'[r].historyAt = answer[r].historyAt
        /\ answer'[r].unread = answer[r].unread
    BY <1>0, <1>3 DEF IInv, TypeOK, ReadAccount, Answer, Answers
  <2>2. PhaseOf(r) = "submitted" /\ PhaseOf(r)' = "certified" /\ StatusOf(r)' = StatusOf(r)
    BY <1>0, <2>1 DEF PhaseOf, StatusOf, Status, InTransaction
  <2>3. PICK w : w = [v EXCEPT !.phase = "certified", !.bkvc = n]
    OBVIOUS
  <2>4. /\ IsVisit(w) /\ w.phase = "certified" /\ w.status = v.status
        /\ w.batch = v.batch /\ w.done = v.done /\ w.silenced = v.silenced
        /\ w.hasError = v.hasError /\ w.bkvc = n /\ w.history = v.history /\ w.unread = v.unread
    BY <1>2, <2>3 DEF IsVisit, VisitFields
  <2>5. Visit(r)' = w
    BY <1>0, <1>1, <1>2, <2>1, <2>2, <2>4, AnsweringVisit
  <2> QED
    BY <1>1, <1>2, <2>2, <2>3, <2>5
<1>4. CASE HistoryRead(r)
  <2>0. PICK lost \in SUBSET Settled : AnswerWithHistory(r, lost)
    BY <1>4 DEF HistoryRead
  <2>1. /\ pc[r] = "history" /\ pc'[r] = "done" /\ answer'[r].status = Status(r)
        /\ answer'[r].unread = lost
        /\ answer'[r].bkvcAt = answer[r].bkvcAt /\ answer'[r].historyAt = Len(ledger)
    BY <1>0, <2>0 DEF IInv, TypeOK, AnswerWithHistory, Answer, Answers
  <2>2. PhaseOf(r) = "certified" /\ PhaseOf(r)' = "answered" /\ StatusOf(r)' = StatusOf(r)
    BY <1>0, <2>1 DEF PhaseOf, StatusOf, Status, InTransaction
  <2>3. PICK w : w = [v EXCEPT !.phase = "answered", !.history = n,
                             !.unread = lost \cap Watched]
    OBVIOUS
  <2>4. /\ IsVisit(w) /\ w.phase = "answered" /\ w.status = v.status
        /\ w.batch = v.batch /\ w.done = v.done /\ w.silenced = v.silenced
        /\ w.hasError = v.hasError /\ w.bkvc = v.bkvc /\ w.history = n
        /\ w.unread = lost \cap Watched
    BY <1>2, <2>3 DEF IsVisit, VisitFields
  <2>5. Visit(r)' = w
    BY <1>0, <1>1, <1>2, <2>1, <2>2, <2>4, AnsweringVisit
  <2>6. lost \cap Watched \in SUBSET Service!Committed
    BY NumberOfSettled DEF Service!Committed
  <2> QED
    BY <1>1, <1>2, <2>2, <2>3, <2>5, <2>6
<1> QED
  BY <1>3, <1>4

LEMMA GiveUpVisits ==
    ASSUME TypeOK, NEW r \in Own, VisitKnown(r),
           BeginPanics(r) \/ NoAccount(r) \/ AccountUnavailable(r) \/ HistoryUnavailable(r)
    PROVE  \/ /\ Visit(r).phase = "sent"
              /\ Visit(r)' = [Visit(r) EXCEPT !.phase = "answered", !.status = "500"]
           \/ /\ Visit(r).phase \in {"submitted", "certified"}
              /\ Visit(r)' = [Visit(r) EXCEPT !.phase = "answered", !.status = "207",
                                              !.bkvc = 0, !.history = 0, !.unread = {}]
<1>0. r \in Requests /\ UNCHANGED <<ledger, todo, replies, hasError>> /\ answer[r] \in Answers
  BY ServiceAssumption, AnsweringMoves DEF TypeOK
<1>1. PICK v : v = Visit(r)
  OBVIOUS
<1>2. /\ v.phase = PhaseOf(r) /\ v.status = StatusOf(r) /\ IsVisit(v)
      /\ v.bkvc = WatchedIn(answer[r].bkvcAt) /\ v.history = WatchedIn(answer[r].historyAt)
      /\ v.unread = answer[r].unread \cap Watched
  BY <1>0, <1>1, VisitParts
<1>3. CASE BeginPanics(r)
  <2>1. /\ pc[r] = "next" /\ pc'[r] = "done" /\ answer'[r].status = "500"
        /\ answer'[r].bkvcAt = answer[r].bkvcAt /\ answer'[r].historyAt = answer[r].historyAt
        /\ answer'[r].unread = answer[r].unread
    BY <1>0, <1>3 DEF TypeOK, BeginPanics, HasNext, Answers
  <2>2. PhaseOf(r) = "sent" /\ PhaseOf(r)' = "answered" /\ StatusOf(r)' = "500"
    BY <1>0, <2>1 DEF PhaseOf, StatusOf, InTransaction
  <2>3. PICK w : w = [v EXCEPT !.phase = "answered", !.status = "500"]
    OBVIOUS
  <2>4. /\ IsVisit(w) /\ w.phase = "answered" /\ w.status = "500"
        /\ w.batch = v.batch /\ w.done = v.done /\ w.silenced = v.silenced
        /\ w.hasError = v.hasError /\ w.bkvc = v.bkvc /\ w.history = v.history /\ w.unread = v.unread
    BY <1>2, <2>3 DEF IsVisit, VisitFields
  <2>5. Visit(r)' = w
    BY <1>0, <1>1, <1>2, <2>1, <2>2, <2>4, AnsweringVisit
  <2> QED
    BY <1>1, <1>2, <2>2, <2>3, <2>5
<1>4. CASE NoAccount(r) \/ AccountUnavailable(r) \/ HistoryUnavailable(r)
  <2>1. /\ pc[r] \in {"account", "history"} /\ pc'[r] = "done"
        /\ answer'[r] = [Unanswered EXCEPT !.status = "207"]
    BY <1>0, <1>4 DEF TypeOK, NoAccount, AccountUnavailable, HistoryUnavailable, Answer
  <2>2. /\ answer'[r].status = "207" /\ answer'[r].bkvcAt = 0 /\ answer'[r].historyAt = 0
        /\ answer'[r].unread = {}
    BY <2>1 DEF Unanswered
  <2>3. PhaseOf(r) \in {"submitted", "certified"} /\ PhaseOf(r)' = "answered" /\ StatusOf(r)' = "207"
    BY <2>1, <2>2 DEF PhaseOf, StatusOf, InTransaction
  <2>4. PICK w : w = [v EXCEPT !.phase = "answered", !.status = "207", !.bkvc = 0, !.history = 0, !.unread = {}]
    OBVIOUS
  <2>5. /\ IsVisit(w) /\ w.phase = "answered" /\ w.status = "207"
        /\ w.batch = v.batch /\ w.done = v.done /\ w.silenced = v.silenced
        /\ w.hasError = v.hasError /\ w.bkvc = 0 /\ w.history = 0
        /\ w.unread = {}
    BY <1>2, <2>4 DEF IsVisit, VisitFields
  <2>6. Visit(r)' = w
    BY <1>0, <1>1, <2>2, <2>3, <2>5, NothingWatched, AnsweringVisit
  <2> QED
    BY <1>1, <1>2, <2>3, <2>4, <2>6
<1> QED
  BY <1>3, <1>4

LEMMA CrashSimulated ==
    ASSUME IInv, [Next]_vars, VisitsKnown, ServerCrash
    PROVE  Service!Crash
<1>1. ledger' = ledger /\ TypeOK
  BY DEF ServerCrash, dbVars, IInv
<1>2. ASSUME NEW r \in Own, PhaseOf(r) \in {"idle", "answered"}
      PROVE  Visit(r)' = Visit(r)
  <2>1. r \in Requests /\ pc[r] \in {"idle", "done"}
    BY <1>1, <1>2, ServiceAssumption, PhaseValues
  <2>2. /\ pc'[r] = pc[r] /\ todo'[r] = todo[r] /\ replies'[r] = replies[r]
        /\ hasError'[r] = hasError[r] /\ answer'[r] = answer[r]
    BY <2>1 DEF ServerCrash
  <2> QED
    BY <2>1, <2>2, VisitStays DEF VisitsKnown
<1>3. ASSUME NEW r \in Own, PhaseOf(r) \notin {"idle", "answered"}
      PROVE  Visit(r)' = [Visit(r) EXCEPT !.phase = "answered", !.status = "none",
                                !.batch = {}, !.done = {}, !.silenced = {},
                                !.hasError = FALSE, !.bkvc = 0, !.history = 0, !.unread = {}]
  <2>1. r \in Requests /\ pc[r] \notin {"idle", "done"}
    BY <1>1, <1>3, ServiceAssumption, PhaseValues
  <2>2. /\ pc'[r] = "done" /\ todo'[r] = <<>> /\ replies'[r] = <<>>
        /\ hasError'[r] = FALSE /\ answer'[r] = Unanswered
    BY <2>1 DEF ServerCrash
  <2>3. PICK u, v, w : /\ u = Visit(r) /\ v = Visit(r)'
                       /\ w = [u EXCEPT !.phase = "answered", !.status = "none",
                                !.batch = {}, !.done = {}, !.silenced = {},
                                !.hasError = FALSE, !.bkvc = 0, !.history = 0, !.unread = {}]
    OBVIOUS
  <2>4. IsVisit(u) /\ IsVisit(v)
    BY <1>1, <2>3, VisitParts
  <2>5. /\ IsVisit(w)
        /\ w.phase = "answered" /\ w.batch = {} /\ w.done = {} /\ w.silenced = {}
        /\ w.hasError = FALSE /\ w.status = "none" /\ w.bkvc = 0 /\ w.history = 0
        /\ w.unread = {}
    BY <2>3, <2>4 DEF IsVisit, VisitFields
  <2>6. /\ PhaseOf(r)' = "answered" /\ DoneBy(r)' = {} /\ SilencedBy(r)' = {}
        /\ LeftIn(r)' = {} /\ StatusOf(r)' = "none"
        /\ answer'[r].bkvcAt = 0 /\ answer'[r].historyAt = 0 /\ answer'[r].unread = {}
    BY <2>2 DEF PhaseOf, DoneBy, SilencedBy, LeftIn, StatusOf, Unanswered, InTransaction
  <2>7. /\ v.phase = "answered" /\ v.batch = {} /\ v.done = {} /\ v.silenced = {}
        /\ v.hasError = FALSE /\ v.status = "none" /\ v.bkvc = 0 /\ v.history = 0
        /\ v.unread = {}
    BY <1>1, <2>2, <2>3, <2>6, NothingWatched, VisitParts
  <2>8. v = w
    BY <2>4, <2>5, <2>7, SameVisit
  <2> QED
    BY <2>3, <2>8
<1>4. \A r \in Own : Visit(r).phase = PhaseOf(r)
  BY DEF Visit
<1>5. Visits' = [r \in Own |->
          IF Visits[r].phase \in {"idle", "answered"} THEN Visits[r]
          ELSE [Visits[r] EXCEPT !.phase = "answered", !.status = "none",
                                 !.batch = {}, !.done = {}, !.silenced = {},
                                 !.hasError = FALSE, !.bkvc = 0, !.history = 0, !.unread = {}]]
  BY <1>2, <1>3, <1>4, Zenon DEF Visits
<1>6. ServerStill
  BY <1>1, SameLedgerStill
<1> QED
  BY <1>5, <1>6 DEF Visits, ServerStill, Service!Crash, Service!server

\* A commit is a settlement of the user's, or nothing to the phone.
LEMMA CommitSimulated ==
    ASSUME IInv, StampsPast, [Next]_vars, NEW r \in Requests, Committing(r), NEW t, t = Current(r)
    PROVE  /\ t \in Watched => NumberOf(t) = 0 /\ Service!Settle(t)
           /\ t \notin Watched => ServerStill
<1> DEFINE n == WatchedIn(Len(ledger))
<1>0. PICK k : k = WatchedIn(stamp[r])
  OBVIOUS
<1>3. /\ k \in 0..n
      /\ \A u \in Watched : BegunAt(u)' = IF u = t THEN k ELSE BegunAt(u)
  BY <1>0, CommitBegins
<1>1. CASE t \in Watched
  <2>1. NumberOf(t) = 0 /\ n' = n + 1
    BY <1>1, CommitNumbers
  <2>2. \A u \in Watched : NumberOf(u)' = IF u = t THEN n' ELSE NumberOf(u)
    BY <1>1, CommitNumbers
  <2> HIDE DEF n
  <2>3. [u \in Watched |-> NumberOf(u)]' = [[u \in Watched |-> NumberOf(u)] EXCEPT ![t] = n']
    BY <2>2
  <2>4. [u \in Watched |-> BegunAt(u)]' = [[u \in Watched |-> BegunAt(u)] EXCEPT ![t] = k]
    BY <1>3
  <2> QED
    BY <1>1, <1>3, <2>1, <2>3, <2>4 DEF n, Service!Settle
<1>2. CASE t \notin Watched
  <2>1. n' = n /\ \A u \in Watched : NumberOf(u)' = NumberOf(u)
    BY <1>2, CommitNumbers
  <2>2. \A u \in Watched : BegunAt(u)' = BegunAt(u)
    BY <1>2, <1>3
  <2> QED
    BY <1>2, <2>1, <2>2 DEF ServerStill
<1> QED
  BY <1>1, <1>2

LEMMA FinishSimulated ==
    ASSUME IInv, StampsPast, [Next]_vars, VisitsKnown, NEW r \in Requests, NEW outcome \in Outcomes,
           Finishes(r, outcome), Alone(r)
    PROVE  [Service!Next]_(Service!vars)
<1>1. PICK t : t = Current(r)
  OBVIOUS
<1>2. \A p \in Own \ {r} : Visit(p)' = Visit(p)
  BY VisitStays, ServiceAssumption DEF Alone, VisitsKnown
<1>3. ledger' = ledger => ServerStill
  BY SameLedgerStill
<1>4. CASE r \notin Own
  <2>1. Visits' = Visits
    BY <1>2, <1>4 DEF Visits
  <2>2. ServerStill \/ (t \in Watched /\ Service!Settle(t))
    BY <1>1, <1>3, CommitSimulated DEF Finishes
  <2>3. CASE ServerStill
    BY <2>1, <2>3 DEF Visits, ServerStill, Service!vars, Service!server
  <2>4. CASE t \in Watched /\ Service!Settle(t)
    BY <2>1, <2>4 DEF Visits, Service!SettleElsewhere, Service!Next
  <2> QED
    BY <2>2, <2>3, <2>4
<1>5. CASE r \in Own
  <2>1. Visits' = [Visits EXCEPT ![r] = Visit(r)']
    BY <1>2, <1>5, VisitMoves
  <2>2. PICK v, w : v = Visit(r) /\ w = Visit(r)'
    OBVIOUS
  <2>3. /\ v.phase = "sent"
        /\ t \in Watched => t \in v.batch
        /\ IsVisit(v) /\ IsVisit(w) /\ v.hasError \in BOOLEAN
        /\ w.phase = v.phase /\ w.batch = v.batch /\ w.done = v.done \cup (Watched \cap {t})
        /\ w.silenced = v.silenced \cup (IF outcome = "silent" THEN Watched \cap {t} ELSE {})
        /\ w.hasError = (v.hasError \/ outcome = "failed")
        /\ w.status = v.status /\ w.bkvc = v.bkvc /\ w.history = v.history /\ w.unread = v.unread
    <3>1. VisitKnown(r)
      BY DEF VisitsKnown
    <3> QED
      BY <1>1, <1>5, <2>2, <3>1, FinishVisits
  <2>4. CASE t \notin Watched
    <3>1. ServerStill
      BY <1>1, <1>3, <2>4, CommitSimulated DEF Finishes
    <3>2. CASE outcome = "failed"
      <4>1. PICK x : x = [v EXCEPT !.hasError = TRUE]
        OBVIOUS
      <4>2. /\ IsVisit(x) /\ x.phase = w.phase /\ x.batch = w.batch /\ x.done = w.done
            /\ x.silenced = w.silenced /\ x.hasError = w.hasError
            /\ x.status = w.status /\ x.bkvc = w.bkvc /\ x.history = w.history /\ x.unread = w.unread
        BY <2>3, <2>4, <3>2, <4>1 DEF IsVisit, VisitFields
      <4>3. w = [v EXCEPT !.hasError = TRUE]
        BY <2>3, <4>1, <4>2, SameVisit
      <4>4. Service!FailForOthers(r)
        BY <1>5, <2>1, <2>2, <2>3, <3>1, <4>3, FailForOthersSimulated
      <4> QED
        BY <1>5, <4>4 DEF Service!Next
    <3>3. CASE outcome # "failed"
      <4>1. w = v
        BY <2>3, <2>4, <3>3, SameVisit
      <4>2. Visits' = Visits
        BY <1>2, <2>2, <4>1 DEF Visits
      <4> QED
        BY <3>1, <4>2 DEF Visits, ServerStill, Service!vars, Service!server
    <3> QED
      BY <3>2, <3>3
  <2>5. CASE t \in Watched /\ outcome \in {"settled", "already"}
    <3>1. w = [v EXCEPT !.done = v.done \cup {t}]
      <4>1. PICK x : x = [v EXCEPT !.done = v.done \cup {t}]
        OBVIOUS
      <4>2. /\ IsVisit(x) /\ x.phase = v.phase /\ x.batch = v.batch /\ x.done = w.done
            /\ x.silenced = w.silenced /\ x.hasError = w.hasError
            /\ x.status = v.status /\ x.bkvc = v.bkvc /\ x.history = v.history /\ x.unread = v.unread
        BY <2>3, <4>1, <2>5 DEF IsVisit, VisitFields
      <4> QED
        BY <2>3, <4>1, <4>2, SameVisit
    <3>2. \/ NumberOf(t) = 0 /\ Service!Settle(t)
          \/ NumberOf(t) # 0 /\ ServerStill
      <4>1. CASE Committing(r)
        BY <1>1, <2>5, <4>1, CommitSimulated
      <4>2. CASE Current(r) \in Settled /\ ledger' = ledger
        BY <1>1, <1>3, <2>5, <4>2, NumberOfSettled
      <4> QED
        BY <2>5, <4>1, <4>2 DEF Finishes
    <3>3. Service!Succeed(r, t)
      BY <1>5, <2>1, <2>2, <2>3, <2>5, <3>1, <3>2, SucceedSimulated
    <3> QED
      BY <1>5, <2>5, <3>3 DEF Service!Next
  <2>6. CASE t \in Watched /\ outcome = "failed"
    <3>1. w = [v EXCEPT !.done = v.done \cup {t}, !.hasError = TRUE]
      <4>1. PICK x : x = [v EXCEPT !.done = v.done \cup {t}, !.hasError = TRUE]
        OBVIOUS
      <4>2. /\ IsVisit(x) /\ x.phase = v.phase /\ x.batch = v.batch /\ x.done = w.done
            /\ x.silenced = w.silenced /\ x.hasError = w.hasError
            /\ x.status = v.status /\ x.bkvc = v.bkvc /\ x.history = v.history /\ x.unread = v.unread
        BY <2>3, <4>1, <2>6 DEF IsVisit, VisitFields
      <4> QED
        BY <2>3, <4>1, <4>2, SameVisit
    <3>2. Service!Settle(t) \/ ServerStill
      BY <1>1, <1>3, <2>6, CommitSimulated DEF Finishes
    <3>3. Service!Fail(r, t)
      BY <1>5, <2>1, <2>2, <2>3, <2>6, <3>1, <3>2, FailSimulated
    <3> QED
      BY <1>5, <2>6, <3>3 DEF Service!Next
  <2>7. CASE t \in Watched /\ outcome = "silent"
    <3>1. w = [v EXCEPT !.done = v.done \cup {t}, !.silenced = v.silenced \cup {t}]
      <4>1. PICK x : x = [v EXCEPT !.done = v.done \cup {t}, !.silenced = v.silenced \cup {t}]
        OBVIOUS
      <4>2. /\ IsVisit(x) /\ x.phase = v.phase /\ x.batch = v.batch /\ x.done = w.done
            /\ x.silenced = w.silenced /\ x.hasError = w.hasError
            /\ x.status = v.status /\ x.bkvc = v.bkvc /\ x.history = v.history /\ x.unread = v.unread
        BY <2>3, <4>1, <2>7 DEF IsVisit, VisitFields
      <4> QED
        BY <2>3, <4>1, <4>2, SameVisit
    <3>2. ServerStill
      BY <1>3, <2>7 DEF Finishes
    <3>3. Service!FailSilently(r, t)
      BY <1>5, <2>1, <2>2, <2>3, <2>7, <3>1, <3>2, FailSilentlySimulated
    <3> QED
      BY <1>5, <2>7, <3>3 DEF Service!Next
  <2> QED
    BY <2>4, <2>5, <2>6, <2>7 DEF Outcomes
<1> QED
  BY <1>4, <1>5

\* A step that only changes the visit of r, if that is one of the phone's.
LEMMA VisitSimulated ==
    ASSUME IInv, [Next]_vars, VisitsKnown, NEW r \in Requests, Alone(r), ledger' = ledger
    PROVE  /\ ServerStill
           /\ r \in Own => Visits' = [Visits EXCEPT ![r] = Visit(r)']
           /\ r \notin Own \/ Visit(r)' = Visit(r) => UNCHANGED Service!vars
<1>1. \A p \in Own \ {r} : Visit(p)' = Visit(p)
  BY VisitStays, ServiceAssumption DEF Alone, VisitsKnown
<1>2. ServerStill
  BY SameLedgerStill
<1>3. r \in Own => Visits' = [Visits EXCEPT ![r] = Visit(r)']
  BY <1>1, VisitMoves
<1>4. ASSUME r \notin Own \/ Visit(r)' = Visit(r) PROVE UNCHANGED Service!vars
  <2>1. Visits' = Visits
    BY <1>1, <1>4 DEF Visits
  <2> QED
    BY <1>2, <2>1 DEF Visits, ServerStill, Service!vars, Service!server
<1> QED
  BY <1>2, <1>3, <1>4

LEMMA HandlerSimulated ==
    ASSUME IInv, StampsPast, [Next]_vars, VisitsKnown, NEW r \in Requests,
           Receive(r) \/ Handle(r) \/ Fault(r) \/ DeadlockVictim(r)
    PROVE  [Service!Next]_(Service!vars)
<1> USE DEF IInv
<1>0. VisitKnown(r)
  BY DEF VisitsKnown
<1>1. CASE Receive(r)
  <2>1. Alone(r) /\ ledger' = ledger
    BY <1>0, <1>1, ReceiveKeepsKnown DEF Receive, dbVars
  <2>2. CASE r \in Own
    <3>1. PICK batch \in SUBSET Watched :
             /\ Visit(r).phase = "idle"
             /\ Visit(r)' = [Visit(r) EXCEPT !.phase = "sent", !.batch = batch]
      BY <1>0, <1>1, <2>2, ReceiveVisits
    <3>2. Service!Arrive(r, batch)
      BY <2>1, <2>2, <3>1, VisitSimulated, ArriveSimulated
    <3> QED
      BY <2>2, <3>2 DEF Service!Next
  <2>3. CASE r \notin Own
    BY <2>1, <2>3, VisitSimulated
  <2> QED
    BY <2>2, <2>3
<1>2. CASE Alone(r) /\ GoesOn(r)
  <2>1. Visit(r)' = Visit(r)
    <3>1. r \in Own => UNCHANGED <<ledger, todo, replies, hasError, answer>>
      BY <1>2 DEF GoesOn
    <3>2. PhaseOf(r)' = PhaseOf(r) /\ StatusOf(r)' = StatusOf(r)
      BY <1>2 DEF GoesOn, Submitting, PhaseOf, StatusOf, InTransaction
    <3>3. /\ DoneBy(r)' = DoneBy(r) /\ SilencedBy(r)' = SilencedBy(r) /\ LeftIn(r)' = LeftIn(r)
          /\ WatchedIn(answer[r].bkvcAt)' = WatchedIn(answer[r].bkvcAt)
          /\ WatchedIn(answer[r].historyAt)' = WatchedIn(answer[r].historyAt)
      BY <1>2 DEF GoesOn, DoneBy, SilencedBy, LeftIn, WatchedIn
    <3> QED
      BY <1>2, <3>2, <3>3 DEF GoesOn, Visit
  <2> QED
    BY <1>2, <2>1, VisitSimulated DEF GoesOn
<1>3. CASE \E outcome \in Outcomes : Alone(r) /\ Finishes(r, outcome)
  BY <1>3, FinishSimulated
<1>4. CASE \/ BeginPanics(r) \/ AnswerAnonymous(r) \/ FindSession(r) \/ ReadAccount(r)
           \/ NoAccount(r) \/ AccountUnavailable(r) \/ HistoryRead(r) \/ HistoryUnavailable(r)
  <2>1. Alone(r) /\ ledger' = ledger
    BY <1>4, AnsweringMoves
  <2>2. CASE r \notin Own
    BY <2>1, <2>2, VisitSimulated
  <2>3. ASSUME r \in Own PROVE ServerStill /\ Visits' = [Visits EXCEPT ![r] = Visit(r)']
    BY <2>1, <2>3, VisitSimulated
  <2>4. CASE r \in Own /\ (AnswerAnonymous(r) \/ FindSession(r))
    <3>1. \E next \in {"submitted", "answered"} : Service!FinishBatch(r, next)
      BY <1>0, <2>3, <2>4, FinishBatchVisits, FinishBatchSimulated
    <3> QED
      BY <2>4, <3>1 DEF Service!Next
  <2>5. CASE r \in Own /\ (ReadAccount(r) \/ HistoryRead(r))
    <3>1. Service!ReadAccount(r) \/ \E lost \in SUBSET Watched : Service!ReadHistory(r, lost)
      BY <1>0, <2>3, <2>5, ReadingVisits, ReadingSimulated
    <3> QED
      BY <2>5, <3>1 DEF Service!Next
  <2>6. CASE r \in Own /\ (BeginPanics(r) \/ NoAccount(r) \/ AccountUnavailable(r)
                             \/ HistoryUnavailable(r))
    <3>1. Service!GiveUp(r)
      BY <1>0, <2>3, <2>6, GiveUpVisits, GiveUpSimulated
    <3> QED
      BY <2>6, <3>1 DEF Service!Next
  <2> QED
    BY <1>4, <2>2, <2>4, <2>5, <2>6
<1> QED
  BY <1>1, <1>2, <1>3, <1>4, HandlerMoves

\* Seen by the phone of one user, whichever TAMs and requests are that user's, the
\* sync handlers, their transactions, faults and crashes are SyncService: what
\* Client assumes of the server is what the server does.
THEOREM ImplementsService == Spec => ServiceSpec
<1>1. ASSUME Init PROVE Service!Init
  <2>1. ledger = <<>> /\ Settled = {} /\ WatchedIn(0) = 0
    BY <1>1, NothingWatched DEF Init, Settled
  <2>2. /\ WatchedIn(Len(ledger)) = 0
        /\ [t \in Watched |-> NumberOf(t)] = [t \in Watched |-> 0]
        /\ [t \in Watched |-> BegunAt(t)] = [t \in Watched |-> 0]
    BY <2>1 DEF NumberOf, BegunAt
  <2>3. ASSUME NEW r \in Own PROVE Visit(r) = Service!Unvisited
    <3>1. /\ pc[r] = "idle" /\ todo[r] = <<>> /\ replies[r] = <<>> /\ hasError[r] = FALSE
          /\ answer[r] = Unanswered
      BY <1>1, <2>3, ServiceAssumption DEF Init
    <3>2. /\ PhaseOf(r) = "idle" /\ StatusOf(r) = "none"
          /\ answer[r].bkvcAt = 0 /\ answer[r].historyAt = 0 /\ answer[r].unread = {}
      BY <3>1 DEF PhaseOf, StatusOf, Unanswered, InTransaction
    <3>3. DoneBy(r) = {} /\ SilencedBy(r) = {} /\ LeftIn(r) = {}
      BY <3>1 DEF DoneBy, SilencedBy, LeftIn
    <3> QED
      BY <2>1, <3>1, <3>2, <3>3 DEF Visit, Service!Unvisited
  <2> QED
    BY <2>2, <2>3 DEF Service!Init
<1>2. ASSUME IInv, StampsPast, VisitsKnown, [Next]_vars
      PROVE  [Service!Next]_(Service!vars)
  <2>1. CASE \E r \in Requests : Receive(r) \/ Handle(r) \/ Fault(r) \/ DeadlockVictim(r)
    BY <1>2, <2>1, HandlerSimulated
  <2>2. CASE ServerCrash
    BY <1>2, <2>2, CrashSimulated DEF Service!Next
  <2>3. CASE \/ \E u \in Rotating : DeactivateKey(u) \/ InsertKey(u)
             \/ \E t \in Ageing : Expire(t)
             \/ UNCHANGED vars
    <3>1. UNCHANGED <<ledger, pc, todo, replies, hasError, answer>>
      BY <2>3 DEF DeactivateKey, InsertKey, Expire, vars, dbVars
    <3>2. \A r \in Own : Visit(r)' = Visit(r)
      BY <1>2, <3>1, VisitStays, ServiceAssumption DEF VisitsKnown
    <3>3. ServerStill
      BY <3>1, SameLedgerStill
    <3> QED
      BY <3>2, <3>3 DEF ServerStill, Service!vars, Service!server
  <2> QED
    BY <1>2, <2>1, <2>2, <2>3, LedgerAssumption DEF Next, Environment
<1> QED
  BY <1>1, <1>2, Invariance, StampsPastInvariance, VisitsKnownInvariance, PTL DEF Spec, ServiceSpec, Service!Spec

=============================================================================
