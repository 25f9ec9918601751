---------------------------- MODULE AccountProofs ----------------------------
(***************************************************************************)
(* Proofs about accounts, for all values of the constants: what waiting    *)
(* clients are told adds up to their balance, and away from the last pair  *)
(* of a deck a bet is settled once, whatever clients do and whatever fails.*)
(*                                                                         *)
(* The sum over the answers to a set of bets is a fold.  A set of requests *)
(* whose sum went wrong and that is minimal with this would lose a request *)
(* and go right, so there is none; and a table of the sums of all sets of  *)
(* requests is kept up with every step.                                    *)
(***************************************************************************)
EXTENDS RefinementProofs, BalanceProofs

-----------------------------------------------------------------------------
(***************************************************************************)
(* Sums over sets of requests.                                             *)
(***************************************************************************)
\* total[s] is the sum of gain over the requests in s.
Totals(total, gain) ==
  /\ gain \in [Requests -> Int] /\ total \in [SUBSET Requests -> Int]
  /\ total[{}] = 0
  /\ \A s \in SUBSET Requests, r \in Requests :
       r \in s => total[s] = gain[r] + total[s \ {r}]

LEMMA ZeroTotals ==
  Totals([s \in SUBSET Requests |-> 0], [r \in Requests |-> 0])
BY DEF Totals

\* One request gains something.
LEMMA TotalsUpdated ==
  ASSUME NEW total, NEW gain, Totals(total, gain), NEW r \in Requests, NEW n \in Int
  PROVE  Totals([s \in SUBSET Requests |->
                   total[s] + (IF r \in s THEN n - gain[r] ELSE 0)],
                [gain EXCEPT ![r] = n])
<1> DEFINE more == [gain EXCEPT ![r] = n]
           sum(s) == total[s] + (IF r \in s THEN n - gain[r] ELSE 0)
           new == [s \in SUBSET Requests |-> sum(s)]
<1>1. /\ gain \in [Requests -> Int] /\ total \in [SUBSET Requests -> Int]
      /\ total[{}] = 0 /\ gain[r] \in Int
  BY DEF Totals
<1>2. more \in [Requests -> Int]
  BY <1>1
<1>3. \A s \in SUBSET Requests : sum(s) \in Int
  BY <1>1
<1>4. sum({}) = 0
  BY <1>1
<1>5. ASSUME NEW s \in SUBSET Requests, NEW o \in s
      PROVE  sum(s) = more[o] + sum(s \ {o})
  <2>1. /\ total[s] = gain[o] + total[s \ {o}] /\ gain[o] \in Int
        /\ total[s] \in Int /\ total[s \ {o}] \in Int
    BY <1>1 DEF Totals
  <2>2. more[o] = IF o = r THEN n ELSE gain[o]
    BY <1>1
  <2>3. r \in s \ {o} <=> r \in s /\ o # r
    OBVIOUS
  <2> HIDE DEF more
  <2> QED BY <1>1, <2>1, <2>2, <2>3
<1> HIDE DEF sum, more
<1>6. \A s \in SUBSET Requests, o \in Requests :
        o \in s => new[s] = more[o] + new[s \ {o}]
  BY <1>5
<1>7. new \in [SUBSET Requests -> Int] /\ new[{}] = 0
  BY <1>3, <1>4
<1>8. Totals(new, more)
  <2> HIDE DEF new
  <2> QED BY <1>2, <1>6, <1>7 DEF Totals
<1> QED BY <1>8 DEF new, more, sum

\* A minimal element of a set of subsets of a finite set.
LEMMA Minimal ==
  ASSUME NEW S, IsFiniteSet(S), NEW T \in SUBSET (SUBSET S), T # {}
  PROVE  \E s \in T : \A x \in s : s \ {x} \notin T
<1>1. T \subseteq FiniteSubsetsOf(S)
  BY FS_Subset DEF FiniteSubsetsOf
<1>2. PICK s \in T : \A t \in T : <<t, s>> \notin StrictSubsetOrdering(S)
  BY <1>1, FS_StrictSubsetOrderingWellFounded, WFMin
<1>3. ASSUME NEW x \in s PROVE s \ {x} \notin T
  <2>1. s \ {x} # s /\ s \ {x} \subseteq s /\ s \in SUBSET S
    OBVIOUS
  <2>2. <<s \ {x}, s>> \in StrictSubsetOrdering(S)
    BY <2>1 DEF StrictSubsetOrdering
  <2> QED BY <1>2, <2>2
<1> QED BY <1>3

\* The sum that the answers to the requests in B name, and its recursion.
AnswerSum(B) == MapThenSumSet(AnsweredGain, B)

Fold(it, B) ==
  [s \in SUBSET B |->
     IF s = {} THEN 0
     ELSE AnsweredGain(CHOOSE x \in s : TRUE) + it[s \ {CHOOSE x \in s : TRUE}]]

\* The fold is the total of what the requests of B gain.
LEMMA SumIsTotal ==
  ASSUME IsFiniteSet(Requests), NEW total, NEW gain, Totals(total, gain),
         NEW B \in SUBSET Requests, \A r \in B : gain[r] = AnsweredGain(r)
  PROVE  AnswerSum(B) = total[B]
<1> DEFINE First(s) == CHOOSE x \in s : TRUE
<1>1. AnswerSum(B) = (CHOOSE it : it = Fold(it, B))[B]
  BY DEF AnswerSum, MapThenSumSet, MapThenFoldSet, Fold
<1>2. \A s : s # {} => First(s) \in s
  OBVIOUS
<1>3. \A s \in SUBSET B, x \in B :
        x \in s => total[s] = AnsweredGain(x) + total[s \ {x}]
  BY DEF Totals
<1> DEFINE rest == [s \in SUBSET B |-> total[s]]
<1>4. rest = Fold(rest, B)
  <2>1. total[{}] = 0
    BY DEF Totals
  <2>2. \A s \in SUBSET B : s # {} =>
          total[s] = AnsweredGain(First(s)) + total[s \ {First(s)}]
    <3> HIDE DEF First
    <3> QED BY <1>2, <1>3
  <2> QED BY <2>1, <2>2 DEF Fold
<1>5. PICK it : it = (CHOOSE f : f = Fold(f, B)) /\ it = Fold(it, B)
  BY <1>4
<1>6. it[{}] = 0 /\ \A s \in SUBSET B : s # {} =>
        it[s] = AnsweredGain(First(s)) + it[s \ {First(s)}]
  BY <1>5 DEF Fold
<1> DEFINE Wrong == {s \in SUBSET B : it[s] # total[s]}
<1>7. ASSUME Wrong # {} PROVE FALSE
  <2>1. IsFiniteSet(B)
    BY FS_Subset
  <2>2. PICK s \in Wrong : \A x \in s : s \ {x} \notin Wrong
    BY <1>7, <2>1, Minimal
  <2>3. s # {}
    BY <1>6 DEF Totals
  <2>4. First(s) \in s /\ s \in SUBSET B
    BY <1>2, <2>3
  <2> HIDE DEF First
  <2>5. it[s \ {First(s)}] = total[s \ {First(s)}]
    BY <2>2, <2>4
  <2> QED BY <1>3, <1>6, <2>2, <2>3, <2>4, <2>5
<1> QED BY <1>1, <1>5, <1>7

-----------------------------------------------------------------------------
(***************************************************************************)
(* Arithmetic that wraps.                                                  *)
(***************************************************************************)
\* The number of whole turns, and what is left.
LEMMA Quotient ==
  ASSUME NEW d \in Nat \ {0}, NEW x \in Int
  PROVE  /\ x % d \in 0 .. d - 1 /\ x \div d \in Int
         /\ x = (x \div d) * d + (x % d)
OBVIOUS

\* What is left is determined.
LEMMA OneRemainder ==
  ASSUME NEW d \in Nat \ {0}, NEW j \in Int, NEW k \in Int,
         NEW m \in 0 .. d - 1, NEW n \in 0 .. d - 1, j * d + m = k * d + n
  PROVE  m = n
<1>1. j * d \in Int /\ k * d \in Int
  OBVIOUS
<1>2. CASE j = k
  BY <1>1, <1>2
<1>3. CASE j >= k + 1
  <2>1. j * d >= (k + 1) * d
    BY <1>3
  <2>2. (k + 1) * d = k * d + d
    OBVIOUS
  <2> QED BY <1>1, <2>1, <2>2
<1>4. CASE k >= j + 1
  <2>1. k * d >= (j + 1) * d
    BY <1>4
  <2>2. (j + 1) * d = j * d + d
    OBVIOUS
  <2> QED BY <1>1, <2>1, <2>2
<1> QED BY <1>2, <1>3, <1>4

\* Whole turns leave nothing.
LEMMA ShiftedRemainder ==
  ASSUME NEW d \in Nat \ {0}, NEW k \in Int, NEW x \in Int
  PROVE  (k * d + x) % d = x % d
<1> DEFINE y == k * d + x
<1>1. y \in Int
  OBVIOUS
<1>2. /\ y % d \in 0 .. d - 1 /\ y \div d \in Int
      /\ y = (y \div d) * d + (y % d)
  BY <1>1, Quotient
<1>3. /\ x % d \in 0 .. d - 1 /\ x \div d \in Int
      /\ x = (x \div d) * d + (x % d)
  BY Quotient
<1>4. y = (k + (x \div d)) * d + (x % d)
  <2> DEFINE c == x \div d
             m == x % d
  <2>1. c \in Int /\ m \in Int /\ x = c * d + m
    BY <1>3
  <2> HIDE DEF c, m
  <2>2. k * d + x = (k + c) * d + m
    BY <2>1
  <2> QED BY <2>2 DEF c, m
<1>5. y % d = x % d
  <2> HIDE DEF y
  <2>1. k + (x \div d) \in Int
    BY <1>3
  <2> QED BY <1>2, <1>3, <1>4, <2>1, OneRemainder
<1> QED BY <1>5

\* Wrapping in between does not change where a sum ends up.
LEMMA WrapTwice ==
  ASSUME NEW a \in Int, NEW b \in Int
  PROVE  Wrap(Wrap(a) + b) = Wrap(a + b)
<1> DEFINE d == 2 * IntLimit
           m == (a + IntLimit) % d
           c == (a + IntLimit) \div d
<1>1. d \in Nat \ {0} /\ IntLimit \in Int
  BY IntLimitAssumption
<1>2. m \in Int /\ c \in Int /\ a + IntLimit = c * d + m
  <2> HIDE DEF d
  <2> QED BY <1>1, Quotient
<1>3. /\ Wrap(a) = m - IntLimit
      /\ Wrap(Wrap(a) + b) = ((Wrap(a) + b + IntLimit) % d) - IntLimit
      /\ Wrap(a + b) = ((a + b + IntLimit) % d) - IntLimit
  BY DEF Wrap
<1> HIDE DEF d, m, c
<1>4. Wrap(a) + b + IntLimit = m + b
  BY <1>1, <1>2, <1>3
<1>5. a + b + IntLimit = c * d + (m + b)
  <2>1. c * d \in Int
    BY <1>1, <1>2
  <2> QED BY <1>1, <1>2, <2>1
<1>6. (c * d + (m + b)) % d = (m + b) % d
  <2> DEFINE x == m + b
  <2>1. x \in Int
    BY <1>2
  <2> HIDE DEF x
  <2>2. (c * d + x) % d = x % d
    BY <1>1, <1>2, <2>1, ShiftedRemainder
  <2> QED BY <2>2 DEF x
<1> QED BY <1>3, <1>4, <1>5, <1>6

-----------------------------------------------------------------------------
(***************************************************************************)
(* The books: what each request has moved so far.                          *)
(***************************************************************************)
\* n is what r has done to the tokens of its player: what its answer says, and
\* nothing before the first half of its settlement that concerns the player.
Credited(r, n) ==
  /\ answer[r] # None => n = AnsweredGain(r)
  /\ answer[r] = None /\ SettlementsOf(r) = {} => n = 0
  /\ \A s \in SettlementsOf(r) :
       n = IF "player" \in s.todo THEN 0 ELSE s.reply.value

\* The balance of a player who got no other tokens is accounted for.
Balanced(p, total) ==
  player[p] # Absent =>
    /\ StartTokens[p] # Absent
    /\ TopUpsOf(p) = {} => player[p] = Wrap(StartTokens[p] + total[BetsOf(p)])

Books(gain, total) ==
  /\ Totals(total, gain)
  /\ \A r \in Requests : Credited(r, gain[r])
  /\ \A p \in Players : Balanced(p, total)

\* Somebody could keep such books.
AInv ==
  /\ \A s \in settlements : Repays(s)
  /\ \E gain, total : Books(gain, total)

-----------------------------------------------------------------------------
(***************************************************************************)
(* What a step leaves as it was.                                           *)
(***************************************************************************)
\* A step of one request leaves the credit of another, and a step that pays
\* nobody leaves the books.
LEMMA CreditKept ==
  ASSUME NEW r \in Requests, OnlyTouches(r), NEW o \in Requests, o # r,
         NEW n, Credited(o, n)
  PROVE  Credited(o, n)'
<1>1. SettlementsOf(o)' = SettlementsOf(o) /\ answer'[o] = answer[o]
  BY UntouchedSame DEF SameRequest
<1> QED BY <1>1 DEF Credited, AnsweredGain

LEMMA BooksKept ==
  ASSUME NEW r \in Requests, OnlyTouches(r), UNCHANGED <<player, input>>,
         NEW gain, NEW total, Books(gain, total), Credited(r, gain[r])'
  PROVE  Books(gain, total)'
<1>1. \A o \in Requests : Credited(o, gain[o])'
  BY CreditKept DEF Books
<1>2. \A p \in Players : Balanced(p, total)'
  BY DEF Books, Balanced, TopUpsOf, BetsOf
<1> QED BY <1>1, <1>2 DEF Books, Totals

\* A request that has neither an answer nor a settlement.
LEMMA NothingYet ==
  ASSUME NEW r, answer[r] = None, SettlementsOf(r) = {}, NEW n, Credited(r, n)
  PROVE  n = 0
BY DEF Credited

-----------------------------------------------------------------------------
(***************************************************************************)
(* The steps of one request.                                               *)
(***************************************************************************)
LEMMA SubmitBooks ==
  ASSUME RInv, NEW r \in Requests, NEW in \in Inputs, NEW awaited,
         Submit(r, in, awaited), NEW gain, NEW total, Books(gain, total)
  PROVE  Books(gain, total)'
<1>1. /\ TypeOK /\ input[r] = None /\ SettlementsOf(r) = {} /\ answer[r] = None
  <2>1. /\ SInv /\ IInv /\ input[r] = None /\ ~ Open(r) /\ FlightOK(r)
    BY DEF RInv, SInv, FInv, Submit, Open
  <2> QED BY <2>1, InFlightOpen DEF IInv, FlightOK, Unsent
<1>2. /\ input'[r] = in
      /\ \A o \in Requests : o # r => input'[o] = input[o]
      /\ UNCHANGED <<player, settlements, answer>>
  BY <1>1 DEF Submit, TypeOK
<1>3. Totals(total, gain) /\ gain[r] = 0
  BY <1>1, NothingYet DEF Books
<1>4. \A o \in Requests : Credited(o, gain[o])'
  BY <1>2 DEF Books, Credited, AnsweredGain, SettlementsOf
<1>5. ASSUME NEW p \in Players PROVE Balanced(p, total)'
  <2>1. BetsOf(p)' = BetsOf(p) \/ BetsOf(p)' = BetsOf(p) \cup {r}
    <3>1. \A o \in Requests : o # r => (o \in BetsOf(p)' <=> o \in BetsOf(p))
      BY <1>2 DEF BetsOf
    <3>2. /\ r \notin BetsOf(p) /\ BetsOf(p) \subseteq Requests
          /\ BetsOf(p)' \subseteq Requests
      BY <1>1 DEF BetsOf
    <3>3. CASE r \in BetsOf(p)'
      BY <3>1, <3>2, <3>3
    <3>4. CASE r \notin BetsOf(p)'
      BY <3>1, <3>2, <3>4
    <3> QED BY <3>3, <3>4
  <2>2. r \notin BetsOf(p) /\ BetsOf(p) \in SUBSET Requests
    BY <1>1 DEF BetsOf
  <2>3. TopUpsOf(p)' = {} => TopUpsOf(p) = {}
    BY <1>1, <1>2 DEF TopUpsOf
  <2>4. total[BetsOf(p) \cup {r}] = total[BetsOf(p)]
    <3> DEFINE s == BetsOf(p) \cup {r}
    <3>1. s \in SUBSET Requests /\ r \in s /\ s \ {r} = BetsOf(p)
      BY <2>2
    <3>2. total[s \ {r}] \in Int
      BY <1>3, <3>1 DEF Totals
    <3> HIDE DEF s
    <3>3. total[s] = gain[r] + total[s \ {r}]
      BY <1>3, <3>1 DEF Totals
    <3>4. total[s \ {r}] = total[BetsOf(p)]
      BY <3>1
    <3>5. total[s] = total[BetsOf(p)]
      BY <1>3, <3>2, <3>3, <3>4
    <3> QED BY <3>5 DEF s
  <2>5. total[BetsOf(p)'] = total[BetsOf(p)]
    BY <2>1, <2>4
  <2> QED BY <1>2, <2>3, <2>5 DEF Books, Balanced
<1> QED BY <1>3, <1>4, <1>5 DEF Books, Totals

\* A step of a request that moves no tokens and answers none.
LEMMA UnpaidKept ==
  ASSUME NEW r \in Requests, OnlyTouches(r), UNCHANGED <<player, input>>,
         answer[r] = None, SettlementsOf(r) = {},
         \A s \in SettlementsOf(r)' : "player" \in s.todo,
         answer'[r] # None => AnsweredGain(r)' = 0,
         NEW gain, NEW total, Books(gain, total)
  PROVE  Books(gain, total)'
<1>1. gain[r] = 0
  BY NothingYet DEF Books
<1>2. Credited(r, gain[r])'
  BY <1>1 DEF Credited
<1> QED BY <1>2, BooksKept

\* An error moves nothing, nor does a won war that is answered at once.
LEMMA FreeAnswers ==
  ASSUME NEW r, NEW response, answer'[r] = response,
         response.status # 200 \/ WonWar(response) \/ response.value = 0
  PROVE  AnsweredGain(r)' = 0
BY DEF AnsweredGain, WonWar

\* A bet is answered by its handler only when no tokens move.
LEMMA HandlerAnswers ==
  ASSUME TypeOK, NEW r \in Requests, Open(r), NEW rest,
         answer' = answer \/ Refusing(r, rest) \/ WarReplies(r, rest)
  PROVE  answer'[r] # None => AnsweredGain(r)' = 0
<1>1. CASE answer' = answer
  BY <1>1 DEF Open
<1>2. CASE Refusing(r, rest)
  <2>1. answer'[r] = ErrorResponse(409)
    BY <1>2, FixedResponses, RespondOnce DEF Refusing, Open
  <2>2. ErrorResponse(409).status # 200
    BY DEF ErrorResponse
  <2> QED BY <2>1, <2>2, FreeAnswers
<1>3. ASSUME NEW response \in Answers, Respond(r, response), WonWar(response)
      PROVE  AnsweredGain(r)' = 0
  <2>1. answer'[r] = response
    BY <1>3, RespondOnce DEF Open
  <2> QED BY <1>3, <2>1, FreeAnswers
<1> QED BY <1>1, <1>2, <1>3 DEF WarReplies

LEMMA ArriveBooks ==
  ASSUME RInv, NoneHalfDone, NEW q \in reads, NEW now, ReadOK(now), now.req = q.req,
         Arrive(q, now), UNCHANGED <<player, game, input, lost, faults>>,
         NEW gain, NEW total, Books(gain, total)
  PROVE  /\ Books(gain, total)'
         /\ \A s \in settlements' \ settlements : Repays(s)
<1> DEFINE r == q.req
<1>1. /\ TypeOK /\ FlightOK(r) /\ r \in Requests /\ q \in ReadsOf(r)
  BY DEF RInv, SInv, FInv, IInv, ReadOK, ReadRecords, ReadsOf
<1>2. /\ Open(r) /\ answer[r] = None /\ input[r] \in Inputs /\ SettlementsOf(r) = {}
  BY <1>1, InFlightOpen DEF FlightOK, ReadsAlone, Open
<1>3. \A s \in SettlementsOf(r)' : "player" \in s.todo
  BY <1>2 DEF NoneHalfDone, SettlementsOf, Parts
<1>4. ASSUME OnlyTouches(r), answer'[r] # None => AnsweredGain(r)' = 0
      PROVE  Books(gain, total)'
  BY <1>1, <1>2, <1>3, <1>4, UnpaidKept
<1>5. CASE now.game = Pending \/ now.player = Pending
  <2>1. /\ reads' = (reads \ {q}) \cup {now}
        /\ UNCHANGED <<extensions, settlements, topUps, answer>>
    BY <1>5 DEF Arrive
  <2>2. OnlyTouches(r)
    BY <2>1 DEF OnlyTouches
  <2> QED BY <1>2, <1>4, <2>1, <2>2
<1>6. CASE now.game # Pending /\ now.player # Pending /\ input[r].kind = "bet"
  <2>1. reads' = reads \ {q} /\ ServeBet(r, now.game, now.player)
    BY <1>6 DEF Arrive
  <2>2. /\ now.game \in Row \cup {Absent} /\ now.player \in Int32 \cup {Absent}
        /\ now.game # Absent => RowOK(now.game)
        /\ input[r] \in BetInputs
    BY <1>2, <1>6 DEF ReadOK, ReadRecords, Inputs, TopUpInputs
  <2>3. \/ Nothing(extensions)
        \/ Refusing(r, extensions)
        \/ Serving(r, now.game, extensions)
    BY <1>1, <2>1, <2>2, ServeBetReplies
  <2>4. \A p \in reads \cup reads' : p.req # r => (p \in reads' <=> p \in reads)
    BY <2>1
  <2>5. OnlyTouches(r)
    <3>1. CASE Nothing(extensions)
      BY <2>1, <3>1 DEF Nothing, OnlyTouches
    <3>2. CASE Refusing(r, extensions)
      <4>1. \A o \in Requests : o # r => answer'[o] = answer[o]
        BY <1>1, <3>2, FixedResponses, RespondOnce DEF Refusing
      <4> QED BY <2>1, <3>2, <4>1 DEF Refusing, OnlyTouches
    <3>3. CASE Serving(r, now.game, extensions)
      <4> DEFINE gm == now.game
      <4>1. RoundStep(r, gm, extensions) \/ WarStep(r, gm, extensions)
        BY <3>3 DEF Serving
      <4> QED BY <1>1, <2>4, <4>1, HandlerTouches
    <3> QED BY <2>3, <3>1, <3>2, <3>3
  <2>6. answer' = answer \/ Refusing(r, extensions) \/ WarReplies(r, extensions)
    BY <2>3 DEF Nothing, Serving, RoundStep
  <2>7. answer'[r] # None => AnsweredGain(r)' = 0
    BY <1>1, <1>2, <2>6, HandlerAnswers
  <2>8. \A s \in settlements' \ settlements : Repays(s)
    <3>1. \/ settlements' = settlements
          \/ \E gm, tokens : \/ HandleBet(r, gm, tokens, extensions)
                             \/ HandleWar(r, gm, tokens, extensions)
                             \/ HandleForfeit(r, gm, tokens)
      BY <2>1 DEF ServeBet
    <3> QED BY <3>1, HandlersRepay
  <2> QED BY <1>4, <2>5, <2>7, <2>8
<1>7. CASE now.game # Pending /\ now.player # Pending /\ input[r].kind = "topUp"
  <2>1. /\ reads' = reads \ {q} /\ UNCHANGED <<extensions, settlements>>
        /\ answer' = answer \/ Respond(r, ErrorResponse(404))
    BY <1>7 DEF Arrive, ServeTopUp
  <2>2. /\ \A o \in Requests : o # r => answer'[o] = answer[o]
        /\ answer'[r] \in {None, ErrorResponse(404)}
    BY <1>1, <1>2, <2>1, FixedResponses, RespondOnce DEF Open
  <2>3. OnlyTouches(r)
    BY <2>1, <2>2 DEF OnlyTouches
  <2>4. answer'[r] # None => AnsweredGain(r)' = 0
    <3>1. ErrorResponse(404).status # 200
      BY DEF ErrorResponse
    <3> QED BY <2>2, <3>1, FreeAnswers
  <2> QED BY <1>4, <2>1, <2>3, <2>4
<1> QED BY <1>5, <1>6, <1>7 DEF Arrive

LEMMA UpdateGameDeckBooks ==
  ASSUME RInv, NoneHalfDone, NEW e \in extensions, UpdateGameDeck(e),
         NEW gain, NEW total, Books(gain, total)
  PROVE  /\ Books(gain, total)'
         /\ \A s \in settlements' \ settlements : Repays(s)
<1> DEFINE r == e.req
           rest == extensions \ {e}
<1>1. /\ SInv /\ FInv /\ IInv /\ TypeOK /\ r \in Requests /\ ExtensionOK(e)
      /\ e \in ExtensionsOf(r) /\ r \notin lost
  BY ExtensionTypes DEF RInv, SInv, FInv, IInv, ExtensionsOf
<1>2. Open(r) /\ SettlementsOf(r) = {} /\ answer[r] = None
  BY <1>1, InFlightOpen DEF RInv, AtomicOK, OneAtATime, Open
<1>3. OnlyTouches(r) /\ UNCHANGED <<player, input>>
  BY <1>1, UpdateGameDeckSerial DEF UpdateGameDeck
<1>4. \A s \in SettlementsOf(r)' : "player" \in s.todo
  BY <1>2 DEF NoneHalfDone, SettlementsOf, Parts
<1>5. \/ HandleBet(r, e.row, e.tokens, rest)
      \/ HandleWar(r, e.row, e.tokens, rest)
  BY <1>1 DEF UpdateGameDeck
<1>6. answer' = answer \/ WarReplies(r, rest)
  <2>1. Handling(r, e.row, e.tokens)
    BY <1>1 DEF Handling, ExtensionOK, ExtensionRecords
  <2> QED BY <1>5, <2>1, HandleWarReplies DEF HandleBet
<1> HIDE DEF rest
<1>7. answer'[r] # None => AnsweredGain(r)' = 0
  BY <1>1, <1>2, <1>6, HandlerAnswers
<1> QED BY <1>1, <1>2, <1>3, <1>4, <1>5, <1>7, UnpaidKept, HandlersRepay

\* The two halves of a settlement: the one that concerns the player moves the
\* tokens, and the later one answers.
LEMMA SettledCredit ==
  ASSUME RInv, NEW s \in settlements, NEW part \in Parts, part \in s.todo,
         Settle(s, part), OnlyTouches(s.req), input' = input, NEW n,
         n = IF "player" \in s.todo \ {part} THEN 0 ELSE s.reply.value
  PROVE  Credited(s.req, n)'
<1> DEFINE r == s.req
<1>1. /\ r \in Requests /\ Open(r) /\ SettlementsOf(r) = {s} /\ answer[r] = None
  BY SettlementAlone DEF Open
<1>2. /\ SInv /\ IInv /\ TypeOK /\ s \in SettlementRecords /\ SettlementShape(s)
      /\ s.reply \in Answers
  <2>1. SInv /\ FInv /\ IInv /\ s \in SettlementRecords
    BY SettlementTypes DEF RInv, SInv, FInv, SettlementOK
  <2>2. SerialOK(r)
    BY <1>1, <2>1 DEF SInv
  <2> QED BY <1>1, <2>1, <2>2 DEF IInv, SerialOK, SettlementRecords
<1>3. CASE s.todo \ {part} = {}
  <2>1. settlements' = settlements \ {s} /\ Respond(r, s.reply)
    BY <1>3 DEF Settle
  <2>2. SettlementsOf(r)' = {} /\ answer'[r] = s.reply
    BY <1>1, <1>2, <2>1, RespondOnce DEF SettlementsOf, Open
  <2>3. AnsweredGain(r)' = s.reply.value /\ s.reply # None
    BY <1>2, <2>2, NoAnswerAssumption DEF AnsweredGain, SettlementShape, WonWar
  <2> QED BY <1>3, <2>2, <2>3 DEF Credited
<1>4. CASE s.todo \ {part} # {}
  <2>1. PICK t : /\ t = [s EXCEPT !.todo = s.todo \ {part}]
                 /\ settlements' = (settlements \ {s}) \cup {t}
                 /\ answer' = answer
    BY <1>4 DEF Settle
  <2>2. t.req = r /\ t.reply = s.reply /\ t.todo = s.todo \ {part}
    BY <1>2, <2>1 DEF SettlementRecords
  <2>3. SettlementsOf(r)' = {t} /\ answer'[r] = None
    BY <1>1, <2>1, <2>2 DEF SettlementsOf
  <2> QED BY <2>2, <2>3 DEF Credited
<1> QED BY <1>3, <1>4

LEMMA UpdateGameBooks ==
  ASSUME RInv, NEW s \in settlements, UpdateGame(s),
         NEW gain, NEW total, Books(gain, total)
  PROVE  Books(gain, total)'
<1> DEFINE r == s.req
<1>1. /\ r \in Requests /\ SettlementsOf(r) = {s} /\ OnlyTouches(r)
      /\ "game" \in s.todo /\ Settle(s, "game") /\ UNCHANGED <<player, input>>
  BY SettlementAlone, UpdateSettlementSerial DEF RInv, UpdateGame
<1>2. Credited(r, gain[r])
  BY <1>1 DEF Books
<1>3. gain[r] = IF "player" \in s.todo \ {"game"} THEN 0 ELSE s.reply.value
  BY <1>1, <1>2 DEF Credited
<1>4. Credited(r, gain[r])'
  BY <1>1, <1>3, SettledCredit DEF Parts
<1> QED BY <1>1, <1>4, BooksKept

LEMMA UpdatePlayerBooks ==
  ASSUME RInv, NEW s \in settlements, UpdatePlayer(s), Repays(s),
         NEW gain, NEW total, Books(gain, total)
  PROVE  \E more, sum : Books(more, sum)'
<1> DEFINE r == s.req
           p == s.player
           n == s.reply.value
           more == [gain EXCEPT ![r] = n]
           sum == [b \in SUBSET Requests |->
                     total[b] + (IF r \in b THEN n - gain[r] ELSE 0)]
<1>1. /\ r \in Requests /\ Open(r) /\ input[r] \in BetInputs
      /\ SettlementsOf(r) = {s} /\ p = input[r].player /\ p \in Players
      /\ SettlementHits(s) /\ OnlyTouches(r)
  BY SettlementAlone, UpdateSettlementSerial DEF RInv
<1>2. /\ "player" \in s.todo /\ Settle(s, "player") /\ input' = input
      /\ player' = [player EXCEPT ![p] = s.to] /\ player[p] = s.from
  BY <1>1, HalvesMatch DEF UpdatePlayer, SettlementHits
<1>3. s \in SettlementRecords /\ TypeOK /\ s.from \in Int32 /\ n \in Int
  <2>1. s \in SettlementRecords /\ TypeOK
    BY SettlementTypes DEF RInv, SInv, FInv, SettlementOK
  <2> QED BY <2>1 DEF SettlementRecords, Answers, Int32
<1>4. Credited(r, gain[r]) /\ Totals(total, gain) /\ gain \in [Requests -> Int]
  BY <1>1 DEF Books, Totals
<1>5. gain[r] = 0
  BY <1>1, <1>2, <1>4 DEF Credited
<1>6. Totals(sum, more)
  BY <1>1, <1>3, <1>4, TotalsUpdated
<1>7. \A b \in SUBSET Requests : sum[b] = IF r \in b THEN total[b] + n ELSE total[b]
  <2>1. \A b \in SUBSET Requests : total[b] \in Int
    BY <1>4 DEF Totals
  <2> QED BY <1>3, <1>5, <2>1
<1>8. more[r] = n /\ \A o \in Requests : o # r => more[o] = gain[o]
  BY <1>1, <1>4
<1> HIDE DEF sum, more, n
<1>9. \A o \in Requests : Credited(o, more[o])'
  <2>1. Credited(r, more[r])'
    BY <1>1, <1>2, <1>8, SettledCredit DEF Parts, n
  <2> QED BY <1>1, <1>8, <2>1, CreditKept DEF Books
<1>10. ASSUME NEW o \in Players PROVE Balanced(o, sum)'
  <2>1. /\ Balanced(o, total) /\ BetsOf(o)' = BetsOf(o) /\ TopUpsOf(o)' = TopUpsOf(o)
        /\ BetsOf(o) \in SUBSET Requests
    BY <1>2 DEF Books, BetsOf, TopUpsOf
  <2>2. CASE o # p
    <3>1. r \notin BetsOf(o)
      BY <1>1, <2>2 DEF BetsOf
    <3>2. player'[o] = player[o]
      BY <1>2, <1>3, <2>2 DEF TypeOK, RepositoryTypeOK
    <3>3. sum[BetsOf(o)] = total[BetsOf(o)]
      BY <1>7, <2>1, <3>1
    <3> QED BY <2>1, <3>2, <3>3 DEF Balanced
  <2>3. CASE o = p
    <3>1. r \in BetsOf(o)
      BY <1>1, <2>3, NoneAssumption DEF BetsOf, BetInputs, Inputs
    <3>2. player'[o] = s.to /\ player[o] # Absent
      BY <1>1, <1>2, <1>3, <2>3, RepositoryAssumption
         DEF TypeOK, RepositoryTypeOK, Int32
    <3>3. StartTokens[o] # Absent /\ StartTokens[o] \in Int
      BY <2>1, <3>2, RepositoryAssumption DEF Balanced, Int32
    <3>4. ASSUME TopUpsOf(o) = {}
          PROVE  s.to = Wrap(StartTokens[o] + sum[BetsOf(o)])
      <4> DEFINE start == StartTokens[o]
                 old == total[BetsOf(o)]
      <4>1. s.from = Wrap(start + old)
        BY <1>2, <2>1, <2>3, <3>2, <3>4 DEF Balanced
      <4>2. s.to = Wrap(s.from + n)
        BY DEF Repays, n
      <4>3. sum[BetsOf(o)] = old + n /\ old \in Int /\ n \in Int /\ start \in Int
        BY <1>3, <1>4, <1>7, <2>1, <3>1, <3>3 DEF Totals, n
      <4> HIDE DEF start, old
      <4>4. Wrap(Wrap(start + old) + n) = Wrap((start + old) + n)
        <5>1. start + old \in Int
          BY <4>3
        <5> QED BY <4>3, <5>1, WrapTwice
      <4>5. (start + old) + n = start + (old + n)
        BY <4>3
      <4> QED BY <4>1, <4>2, <4>3, <4>4, <4>5 DEF start
    <3> QED BY <2>1, <3>2, <3>3, <3>4 DEF Balanced
  <2> QED BY <2>2, <2>3
<1>11. Books(more, sum)'
  BY <1>6, <1>9, <1>10 DEF Books, Totals
<1> QED BY <1>11

LEMMA UpdateTokensBooks ==
  ASSUME RInv, RInv', NEW u \in topUps, UpdateTokens(u),
         NEW gain, NEW total, Books(gain, total)
  PROVE  Books(gain, total)'
<1> DEFINE r == u.req
<1>1. /\ SInv /\ TypeOK /\ r \in Requests /\ Open(r) /\ input[r] \in TopUpInputs
      /\ SettlementsOf(r) = {} /\ u.player = input[r].player
      /\ player[u.player] = u.from
  BY TokenUpdateAlone DEF TokenUpdateHits, RInv, SInv, FInv, IInv
<1>2. /\ UNCHANGED <<input, reads, extensions, settlements, lost>>
      /\ Respond(r, TopUpResponse)
      /\ player' = [player EXCEPT ![u.player] = u.to]
  BY <1>1 DEF UpdateTokens, CasPlayer
<1>3. OnlyTouches(r) /\ answer'[r] = TopUpResponse
  BY <1>1, <1>2, FixedResponses, RespondOnce DEF OnlyTouches, Open
<1>4. Credited(r, gain[r])'
  <2>1. gain[r] = 0
    BY <1>1, NothingYet DEF Books, Open
  <2>2. AnsweredGain(r)' = 0
    <3>1. TopUpResponse.value = 0
      BY DEF TopUpResponse
    <3> QED BY <1>3, <3>1, FreeAnswers
  <2>3. SettlementsOf(r)' = {} /\ answer'[r] # None
    BY <1>1, <1>2, <1>3, FixedResponses, NoAnswerAssumption DEF SettlementsOf
  <2> QED BY <2>1, <2>2, <2>3 DEF Credited
<1>5. \A o \in Requests : Credited(o, gain[o])'
  BY <1>1, <1>3, <1>4, CreditKept DEF Books
<1>6. ASSUME NEW p \in Players PROVE Balanced(p, total)'
  <2>1. BetsOf(p)' = BetsOf(p) /\ TopUpsOf(p)' = TopUpsOf(p) /\ Balanced(p, total)
    BY <1>2 DEF BetsOf, TopUpsOf, Books
  <2>2. CASE p = u.player
    <3>1. r \in TopUpsOf(p)
      BY <1>1, <2>2, NoneAssumption DEF TopUpsOf, TopUpInputs, Inputs
    <3>2. player[p] # Absent
      BY <1>1, <2>2, RepositoryAssumption DEF TypeOK, TopUpRecords, Int32
    <3> QED BY <2>1, <3>1, <3>2 DEF Balanced
  <2>3. CASE p # u.player
    <3>1. player'[p] = player[p]
      BY <1>1, <1>2, <2>3 DEF TypeOK, RepositoryTypeOK
    <3> QED BY <2>1, <3>1 DEF Balanced
  <2> QED BY <2>2, <2>3
<1> QED BY <1>5, <1>6 DEF Books, Totals

LEMMA InitAInv == Init => AInv
<1> SUFFICES ASSUME Init PROVE AInv
  OBVIOUS
<1> DEFINE gain == [r \in Requests |-> 0]
           total == [b \in SUBSET Requests |-> 0]
<1>1. Totals(total, gain)
  BY ZeroTotals
<1>2. \A r \in Requests : Credited(r, gain[r])
  BY DEF Init, Credited, SettlementsOf
<1>3. ASSUME NEW p \in Players, player[p] # Absent PROVE Balanced(p, total)
  <2>1. player[p] = StartTokens[p] /\ player[p] \in Int32
    BY <1>3, RepositoryAssumption DEF Init, RepositoryInit
  <2>2. total[BetsOf(p)] = 0
    BY DEF BetsOf
  <2> HIDE DEF total
  <2>3. StartTokens[p] + total[BetsOf(p)] = StartTokens[p]
    BY <2>1, <2>2 DEF Int32
  <2> QED BY <1>3, <2>1, <2>3, WrapExact DEF Balanced
<1>4. \A p \in Players : Balanced(p, total)
  BY <1>3 DEF Balanced
<1>5. Books(gain, total)
  BY <1>1, <1>2, <1>4 DEF Books
<1> QED BY <1>5 DEF AInv, Init

LEMMA NextAInv ==
  ASSUME WaitingClients, NeverAtLastPair, RInv, AInv, [Next]_vars
  PROVE  AInv'
<1>1. RInv' /\ SInv /\ SInv'
  BY NextRInv DEF RInv
<1>2. PICK gain, total : Books(gain, total)
  BY DEF AInv
<1>3. \A s \in settlements : Repays(s)
  BY DEF AInv
<1>4. CASE Arrivals
  <2>1. PICK r \in Requests, in \in Inputs : \E awaited : Submit(r, in, awaited)
    BY <1>4 DEF Arrivals, RequestBet, UpdatePlayerToken, Inputs
  <2>2. Books(gain, total)' /\ settlements' = settlements
    BY <1>2, <2>1, SubmitBooks DEF Submit
  <2> QED BY <1>3, <2>2 DEF AInv
<1>5. ASSUME NEW q \in reads, GetGame(q) \/ GetPlayer(q) PROVE AInv'
  <2>1. PICK now : /\ ReadOK(now) /\ now.req = q.req
                   /\ now.game \notin {Absent, Pending} =>
                        now.game = game[input[q.req].game]
                   /\ now.player \notin {Absent, Pending} =>
                        now.player = player[input[q.req].player]
                   /\ Arrive(q, now)
                   /\ UNCHANGED <<player, game, input, lost, faults>>
    BY <1>5, ReadsStored
  <2>2. NoneHalfDone
    BY <1>1, <2>1, ArriveAtomic
  <2>3. Books(gain, total)' /\ \A s \in settlements' \ settlements : Repays(s)
    BY <1>2, <2>1, <2>2, ArriveBooks
  <2> QED BY <1>3, <2>3 DEF AInv
<1>6. ASSUME NEW e \in extensions, UpdateGameDeck(e) PROVE AInv'
  <2>1. NoneHalfDone
    BY <1>1, <1>6, UpdateGameDeckAtomic
  <2>2. Books(gain, total)' /\ \A s \in settlements' \ settlements : Repays(s)
    BY <1>2, <1>6, <2>1, UpdateGameDeckBooks
  <2> QED BY <1>3, <2>2 DEF AInv
<1>7. ASSUME NEW s \in settlements, UpdatePlayer(s) \/ UpdateGame(s) PROVE AInv'
  <2>1. \E more, sum : Books(more, sum)'
    BY <1>2, <1>3, <1>7, UpdateGameBooks, UpdatePlayerBooks
  <2>2. \A t \in settlements' : t \in settlements \/ Repays(t)
    <3>1. PICK part : Settle(s, part)
      BY <1>7 DEF UpdatePlayer, UpdateGame
    <3>2. \A t \in settlements' :
            t \in settlements \/ t = [s EXCEPT !.todo = s.todo \ {part}]
      BY <3>1 DEF Settle
    <3>3. s \in SettlementRecords /\ Repays(s)
      BY <1>1, <1>3, SettlementTypes DEF SInv, FInv, SettlementOK
    <3>4. Repays([s EXCEPT !.todo = s.todo \ {part}])
      BY <3>3 DEF SettlementRecords, Repays
    <3> QED BY <3>2, <3>4
  <2> QED BY <1>3, <2>1, <2>2 DEF AInv
<1>8. ASSUME NEW u \in topUps, UpdateTokens(u) PROVE AInv'
  <2>1. Books(gain, total)' /\ settlements' = settlements
    BY <1>1, <1>2, <1>8, UpdateTokensBooks DEF UpdateTokens
  <2> QED BY <1>3, <2>1 DEF AInv
<1>9. CASE StatementFaults \/ Crash
  <2>1. ~ Fault
    BY <1>1, NoFault DEF SInv
  <2> QED
    BY <1>9, <2>1
       DEF StatementFaults, FailRead, FailExtension, FailSettlement, FailTokens, Crash
<1>10. CASE UNCHANGED vars
  <2>1. UNCHANGED <<player, input, settlements, answer>>
    BY <1>10 DEF vars
  <2>2. \A r \in Requests : Credited(r, gain[r])'
    BY <1>2, <2>1 DEF Books, Credited, AnsweredGain, SettlementsOf
  <2>3. \A p \in Players : Balanced(p, total)'
    BY <1>2, <2>1 DEF Books, Balanced, BetsOf, TopUpsOf
  <2>4. Books(gain, total)'
    BY <1>2, <2>2, <2>3 DEF Books, Totals
  <2> QED BY <1>3, <2>1, <2>4 DEF AInv
<1> QED BY <1>4, <1>5, <1>6, <1>7, <1>8, <1>9, <1>10 DEF Next, Statements

\* When all bets of a player are answered, their gains are the answers'.
LEMMA BooksMatch ==
  ASSUME IsFiniteSet(Requests), AInv PROVE BalanceMatchesAnswers
<1>1. PICK gain, total : Books(gain, total)
  BY DEF AInv
<1> SUFFICES ASSUME NEW p \in Players, player[p] # Absent, TopUpsOf(p) = {},
                    \A r \in BetsOf(p) : answer[r] # None /\ answer[r].status # 500
             PROVE  player[p] = Wrap(StartTokens[p] + AnswerSum(BetsOf(p)))
  BY DEF BalanceMatchesAnswers, AnswerSum, MapThenSumSet, MapThenFoldSet
<1>2. BetsOf(p) \in SUBSET Requests
  BY DEF BetsOf
<1>3. Totals(total, gain) /\ \A r \in BetsOf(p) : gain[r] = AnsweredGain(r)
  BY <1>1, <1>2 DEF Books, Credited
<1>4. AnswerSum(BetsOf(p)) = total[BetsOf(p)]
  BY <1>2, <1>3, SumIsTotal
<1> QED BY <1>1, <1>4 DEF Books, Balanced

-----------------------------------------------------------------------------
\* At every moment, also between the two UPDATEs of a bet, the balance of a
\* player whose tokens nobody asked to set is what it started with and what its
\* bets have moved so far; and the UPDATE of the player stores the tokens that
\* its answer will name.
THEOREM BooksAreKept ==
  ASSUME WaitingClients
  PROVE  Spec /\ []NeverAtLastPair => []AInv
<1>1. Spec /\ []NeverAtLastPair => []RInv
  BY AtomicInvariance
<1>2. NeverAtLastPair /\ RInv /\ AInv /\ [Next]_vars => AInv'
  BY NextAInv
<1> QED BY <1>1, <1>2, InitAInv, PTL DEF Spec

\* Clients that wait for their answers (Exclusive), of a server whose
\* statements succeed (MaxFaults = 0), can keep their own accounts: when all
\* bets of a player are answered, and nobody set its tokens, its balance is
\* the first one plus the tokens of the answers, as an Int.  As long as no
\* game is between two rounds with one pair of cards left: there handleBet
\* settles twice, and the UPDATE of the player that is left over may run once
\* later bets have brought the balance back, and charge or pay the bet again.
THEOREM AnswersAddUp ==
  ASSUME WaitingClients, IsFiniteSet(Requests)
  PROVE  Spec /\ []NeverAtLastPair => []BalanceMatchesAnswers
<1>1. Spec /\ []NeverAtLastPair => []AInv
  BY BooksAreKept
<1>2. AInv => BalanceMatchesAnswers
  BY BooksMatch
<1> QED BY <1>1, <1>2, PTL

-----------------------------------------------------------------------------
(***************************************************************************)
(* What the last pair does not spoil, whatever clients do and whatever     *)
(* fails: a bet is settled at most once.                                   *)
(***************************************************************************)
\* No copy of a row is at the last pair, the deck of an extension is long ...
ReadAway(q) ==
  q.game \notin {Absent, Pending} /\ q.game.table = 0 =>
    q.game.top + 2 # Len(q.game.deck)

ExtensionCarries(e) ==
  /\ input[e.req].bet <= e.tokens
  /\ e.row.table > 0 => input[e.req].bet = e.row.table
  /\ e.row.top + 4 < Len(e.row.deck)

\* ... and a request has one settlement or one extension, or neither once it is
\* accepted.
Single(r) ==
  /\ \A s1, s2 \in SettlementsOf(r) : s1 = s2
  /\ SettlementsOf(r) # {} => ExtensionsOf(r) = {}
  /\ Accepted(r) => ExtensionsOf(r) = {} /\ SettlementsOf(r) = {}

\* With what the statements of one request have to do with each other.
OInv ==
  /\ FInv
  /\ \A q \in reads : ReadAway(q)
  /\ \A e \in extensions : ExtensionCarries(e)
  /\ \A r \in Requests : Single(r)

\* It suffices to look at the request that moves, and at the new copies.
LEMMA SinglePreserves ==
  ASSUME OInv, FInv', InputStep, NEW r \in Requests, OnlyTouches(r), Single(r)',
         \A q \in reads' : ReadAway(q),
         \A e \in extensions' : input[e.req] \in BetInputs /\ ExtensionCarries(e)
  PROVE  OInv'
<1>1. ASSUME NEW o \in Requests, o # r PROVE Single(o)'
  <2>1. SameRequest(o) /\ Single(o)
    BY <1>1, UntouchedSame DEF OInv
  <2> QED BY <2>1 DEF SameRequest, Single, Accepted
<1>2. \A q \in reads' : ReadAway(q)'
  BY DEF ReadAway
<1>3. ASSUME NEW e \in extensions' PROVE ExtensionCarries(e)'
  <2>1. e.req \in Requests /\ input[e.req] \in Inputs
    <3>1. IInv'
      BY DEF FInv
    <3> QED BY <1>3, <3>1 DEF IInv, ExtensionOK, ExtensionRecords, Inputs
  <2>2. input'[e.req] = input[e.req]
    BY <2>1 DEF InputStep
  <2> QED BY <1>3, <2>2 DEF ExtensionCarries
<1> QED BY <1>1, <1>2, <1>3 DEF OInv

\* Statements end, a settlement by halves.
LEMMA FewerSingle ==
  ASSUME OInv, FInv', input' = input,
         reads' \subseteq reads, extensions' \subseteq extensions,
         \/ settlements' \subseteq settlements
         \/ \E s \in settlements : \E t :
              t.req = s.req /\ settlements' = (settlements \ {s}) \cup {t},
         \A r \in Requests : Accepted(r)' =>
           Accepted(r) \/ (ExtensionsOf(r)' = {} /\ SettlementsOf(r)' = {})
  PROVE  OInv'
<1>1. ASSUME NEW r \in Requests PROVE Single(r)'
  <2>1. Single(r)
    BY DEF OInv
  <2>2. ExtensionsOf(r)' \subseteq ExtensionsOf(r)
    BY DEF ExtensionsOf
  <2>3. CASE settlements' \subseteq settlements
    <3>1. SettlementsOf(r)' \subseteq SettlementsOf(r)
      BY <2>3 DEF SettlementsOf
    <3> QED BY <2>1, <2>2, <3>1 DEF Single
  <2>4. ASSUME NEW s \in settlements, NEW t, t.req = s.req,
               settlements' = (settlements \ {s}) \cup {t}
        PROVE  Single(r)'
    <3>1. CASE s.req # r
      <4>1. SettlementsOf(r)' = SettlementsOf(r)
        BY <2>4, <3>1 DEF SettlementsOf
      <4> QED BY <2>1, <2>2, <4>1 DEF Single
    <3>2. CASE s.req = r
      <4>1. SettlementsOf(r) = {s} /\ ExtensionsOf(r) = {} /\ ~ Accepted(r)
        BY <2>1, <3>2 DEF Single, SettlementsOf
      <4>2. SettlementsOf(r)' = {t}
        BY <2>4, <3>2, <4>1 DEF SettlementsOf
      <4> QED BY <2>2, <4>1, <4>2 DEF Single
    <3> QED BY <3>1, <3>2
  <2> QED BY <2>3, <2>4
<1>2. \A q \in reads' : ReadAway(q)'
  BY DEF ReadAway, OInv
<1>3. \A e \in extensions' : ExtensionCarries(e)'
  BY DEF ExtensionCarries, OInv
<1> QED BY <1>1, <1>2, <1>3 DEF OInv

\* A handler that is not at the last pair goes on with one thing.
LEMMA ContinuesSingle ==
  ASSUME NEW r \in Requests, NEW gm, NEW tokens, NEW rest,
         Continues(r, gm, tokens, rest),
         \A e \in rest : e.req # r, SettlementsOf(r) = {}, ~ Accepted(r)
  PROVE  Single(r)'
<1>1. CASE extensions' = rest /\ settlements' = settlements
  <2>1. ExtensionsOf(r)' = {} /\ SettlementsOf(r)' = {}
    BY <1>1 DEF ExtensionsOf, SettlementsOf
  <2> QED BY <2>1 DEF Single
<1>2. CASE /\ \E e : CoveredExtension(e, r, gm, tokens) /\ extensions' = rest \cup {e}
           /\ settlements' = settlements /\ answer' = answer
  <2>1. SettlementsOf(r)' = {} /\ ~ Accepted(r)'
    BY <1>2 DEF SettlementsOf, Accepted
  <2> QED BY <2>1 DEF Single
<1>3. CASE /\ extensions' = rest /\ answer' = answer
           /\ \E s : /\ CoveredSettlement(s, r, gm, tokens)
                     /\ settlements' = settlements \cup {s}
  <2>1. ExtensionsOf(r)' = {} /\ ~ Accepted(r)'
    BY <1>3 DEF ExtensionsOf, Accepted
  <2>2. \A s1, s2 \in SettlementsOf(r)' : s1 = s2
    BY <1>3 DEF SettlementsOf
  <2> QED BY <2>1, <2>2 DEF Single
<1> QED BY <1>1, <1>2, <1>3 DEF Continues

LEMMA ContinuesCarries ==
  ASSUME OInv, NEW r \in Requests, input[r] \in BetInputs,
         NEW gm, NEW tokens, NEW rest \in SUBSET extensions,
         Continues(r, gm, tokens, rest)
  PROVE  \A e \in extensions' : input[e.req] \in BetInputs /\ ExtensionCarries(e)
<1>1. \A e \in rest : input[e.req] \in BetInputs /\ ExtensionCarries(e)
  BY ExtensionRequest DEF OInv, FInv, ExtensionOK
<1>2. \A e : CoveredExtension(e, r, gm, tokens) =>
        input[e.req] \in BetInputs /\ ExtensionCarries(e)
  BY DEF CoveredExtension, ExtensionCarries
<1> QED BY <1>1, <1>2 DEF Continues

LEMMA ArriveSingle ==
  ASSUME OInv, FInv', NEW q \in reads, NEW now, ReadOK(now), now.req = q.req,
         ReadAway(now), Arrive(q, now), UNCHANGED <<player, game, input, lost>>
  PROVE  OInv'
<1> DEFINE r == q.req
<1>1. /\ FInv /\ IInv /\ TypeOK /\ FlightOK(r) /\ r \in Requests
      /\ input[r] \in Inputs /\ q \in ReadsOf(r) /\ InputStep
  BY InputUnchanged DEF OInv, FInv, IInv, ReadOK, ReadRecords, ReadsOf
<1>2. /\ ReadsOf(r) = {q} /\ ExtensionsOf(r) = {} /\ SettlementsOf(r) = {}
      /\ ~ Accepted(r)
  BY <1>1 DEF FlightOK, ReadsAlone, Accepted
<1>3. \A p \in reads' : ReadAway(p)
  BY DEF OInv, Arrive
<1>4. \A e \in extensions : input[e.req] \in BetInputs /\ ExtensionCarries(e)
  BY <1>1, ExtensionRequest DEF OInv, ExtensionOK
<1>5. \A p \in reads \cup reads' : p.req # r => (p \in reads' <=> p \in reads)
  BY DEF Arrive
<1>6. ASSUME UNCHANGED <<extensions, settlements>>,
             answer' = answer \/ \E response \in Answers : Respond(r, response)
      PROVE  OInv'
  <2>1. ExtensionsOf(r)' = {} /\ SettlementsOf(r)' = {}
    BY <1>2, <1>6 DEF ExtensionsOf, SettlementsOf
  <2>2. Single(r)'
    BY <2>1 DEF Single
  <2>3. \A o \in Requests : o # r => answer'[o] = answer[o]
    BY <1>1, <1>6, RespondOnce
  <2>4. OnlyTouches(r)
    BY <1>5, <1>6, <2>3 DEF OnlyTouches
  <2> QED BY <1>1, <1>3, <1>4, <1>6, <2>2, <2>4, SinglePreserves
<1>7. CASE now.game = Pending \/ now.player = Pending
  BY <1>6, <1>7 DEF Arrive
<1>8. CASE ServeTopUp(r, now.player) /\ UNCHANGED <<extensions, settlements>>
  BY <1>6, <1>8, FixedResponses DEF ServeTopUp
<1>9. CASE /\ now.game # Pending /\ now.player # Pending
           /\ input[r].kind = "bet" /\ ServeBet(r, now.game, now.player)
  <2>1. input[r] \in BetInputs
    BY <1>1, <1>9 DEF Inputs, TopUpInputs
  <2>2. /\ now.game \in Row \cup {Absent} /\ now.player \in Int32 \cup {Absent}
        /\ now.game # Absent => RowOK(now.game)
        /\ now.game # Absent /\ now.game.table = 0 =>
             now.game.top + 2 # Len(now.game.deck)
    BY <1>9 DEF ReadOK, ReadRecords, ReadAway
  <2>3. \/ UNCHANGED <<extensions, settlements, answer>>
        \/ Continues(r, now.game, now.player, extensions)
    BY <1>1, <1>9, <2>1, <2>2, ServeBetContinues
  <2>4. CASE Continues(r, now.game, now.player, extensions)
    <3>1. \A e \in extensions : e.req # r
      BY <1>2 DEF ExtensionsOf
    <3>2. Single(r)'
      BY <1>1, <1>2, <2>4, <3>1, ContinuesSingle
    <3>3. OnlyTouches(r)
      BY <1>1, <1>5, <2>4, ContinuesTouches
    <3>4. \A e \in extensions' : input[e.req] \in BetInputs /\ ExtensionCarries(e)
      BY <1>1, <2>1, <2>4, ContinuesCarries
    <3> QED BY <1>1, <1>3, <3>2, <3>3, <3>4, SinglePreserves
  <2> QED BY <1>6, <2>3, <2>4
<1> QED BY <1>7, <1>8, <1>9 DEF Arrive

LEMMA ReadsSingle ==
  ASSUME NeverAtLastPair, OInv, FInv', NEW q \in reads, GetGame(q) \/ GetPlayer(q)
  PROVE  OInv'
<1>1. /\ IInv /\ ReadOK(q) /\ ReadAway(q)
      /\ UNCHANGED <<player, game, input, lost>>
  BY DEF OInv, FInv, IInv, GetGame, GetPlayer
<1>2. CASE GetGame(q)
  <2> DEFINE g == input[q.req].game
             now == [q EXCEPT !.game = game[g]]
  <2>1. q.game = Pending /\ input[q.req] \in BetInputs /\ g \in Games
    BY <1>1, <1>2, AbsentNotRow DEF GetGame, ReadOK, BetInputs
  <2>2. /\ now.req = q.req /\ now.game = game[g] /\ now.player = q.player
        /\ now \in ReadRecords
    BY <1>1, <2>1 DEF ReadOK, ReadRecords, IInv, TypeOK, RepositoryTypeOK
  <2>3. Arrive(q, now)
    BY <1>2 DEF GetGame
  <2> HIDE DEF now
  <2>4. ReadOK(now)
    <3>1. game[g] # Absent => RowOK(game[g]) /\ game[g].top <= game[g].top
      BY <1>1, <2>1 DEF IInv, RowOK, Row
    <3>2. game[g] # Absent => CopyOf(game[g], game[g].top, g)
      BY <3>1 DEF CopyOf, SameCards
    <3> QED BY <1>1, <2>1, <2>2, <3>1, <3>2 DEF ReadOK
  <2>5. ReadAway(now)
    BY <2>1, <2>2 DEF ReadAway, NeverAtLastPair, StoredRows
  <2> QED BY <1>1, <2>2, <2>3, <2>4, <2>5, ArriveSingle
<1>3. CASE GetPlayer(q)
  <2> DEFINE p == input[q.req].player
             now == [q EXCEPT !.player = player[p]]
  <2>1. p \in Players
    BY <1>1 DEF ReadOK, Inputs, BetInputs, TopUpInputs
  <2>2. /\ now.req = q.req /\ now.game = q.game /\ now.player = player[p]
        /\ now \in ReadRecords
    BY <1>1, <2>1 DEF ReadOK, ReadRecords, IInv, TypeOK, RepositoryTypeOK
  <2>3. Arrive(q, now)
    BY <1>3 DEF GetPlayer
  <2> HIDE DEF now
  <2>4. ReadOK(now) /\ ReadAway(now)
    BY <1>1, <2>2 DEF ReadOK, ReadAway
  <2> QED BY <1>1, <2>2, <2>3, <2>4, ArriveSingle
<1> QED BY <1>2, <1>3

LEMMA UpdateGameDeckSingle ==
  ASSUME OInv, FInv', NEW e \in extensions, UpdateGameDeck(e)
  PROVE  OInv'
<1> DEFINE r == e.req
           rest == extensions \ {e}
<1>1. /\ FInv /\ IInv /\ TypeOK /\ FlightOK(r) /\ r \in Requests /\ ExtensionOK(e)
      /\ e \in ExtensionsOf(r) /\ Single(r) /\ ExtensionCarries(e)
  BY ExtensionTypes DEF OInv, FInv, IInv, ExtensionsOf
<1>2. /\ SettlementsOf(r) = {} /\ ~ Accepted(r) /\ \A x \in rest : x.req # r
  BY <1>1 DEF Single, FlightOK, BetFits, ExtensionsOf
<1>3. UNCHANGED <<player, input, reads, topUps, lost>>
  BY DEF UpdateGameDeck
<1>4. CASE r \in lost
  <2>1. extensions' = rest /\ UNCHANGED <<settlements, answer>>
    BY <1>4 DEF UpdateGameDeck
  <2>2. \A o \in Requests : Accepted(o)' => Accepted(o)
    BY <2>1 DEF Accepted
  <2> QED BY <1>3, <2>1, <2>2, FewerSingle
<1>5. CASE r \notin lost
  <2>1. /\ Handling(r, e.row, e.tokens) /\ input[r] \in BetInputs
        /\ e.row.table \in Nat /\ e.row.top \in Nat /\ Len(e.row.deck) \in Nat
    BY <1>1, IntLimitAssumption, LenProperties
       DEF Handling, ExtensionOK, ExtensionRecords, RowOK, Row, NatInt32
  <2>2. e.row.top + 2 # Len(e.row.deck)
    BY <1>1, <2>1 DEF ExtensionCarries
  <2>3. Continues(r, e.row, e.tokens, rest)
    <3>1. \/ e.row.table = 0 /\ HandleBet(r, e.row, e.tokens, rest)
          \/ e.row.table > 0 /\ HandleWar(r, e.row, e.tokens, rest)
      BY <1>5 DEF UpdateGameDeck
    <3> QED
      BY <1>1, <2>1, <2>2, <3>1, RoundContinues, WarContinues DEF ExtensionCarries
  <2>4. rest \in SUBSET extensions /\ \A x \in extensions \ rest : x.req = r
    OBVIOUS
  <2>5. Single(r)'
    BY <1>1, <1>2, <2>3, ContinuesSingle
  <2>6. OnlyTouches(r)
    BY <1>1, <1>3, <2>3, <2>4, ContinuesTouches
  <2>7. \A x \in extensions' : input[x.req] \in BetInputs /\ ExtensionCarries(x)
    BY <1>1, <2>1, <2>3, <2>4, ContinuesCarries
  <2>8. InputStep /\ \A q \in reads' : ReadAway(q)
    BY <1>1, <1>3, InputUnchanged DEF OInv
  <2> QED BY <1>1, <2>5, <2>6, <2>7, <2>8, SinglePreserves
<1> QED BY <1>4, <1>5

\* A statement that failed is not answered with 200.
LEMMA ErrorSingle ==
  ASSUME TypeOK, NEW r \in Requests, Respond(r, ErrorResponse(500)),
         UNCHANGED input, lost' \in {lost, lost \cup {r}}
  PROVE  \A o \in Requests : Accepted(o)' => Accepted(o)
BY ErrorFlight DEF Accepted

LEMMA HalfSingle ==
  ASSUME OInv, FInv', NEW s \in settlements, NEW part,
         \/ UpdatePlayer(s) \/ UpdateGame(s) \/ FailSettlement(s, part)
  PROVE  OInv'
<1> DEFINE r == s.req
<1>1. /\ IInv /\ TypeOK /\ r \in Requests /\ s \in SettlementRecords /\ Single(r)
      /\ s.reply \in Answers
  BY SettlementTypes DEF OInv, FInv, IInv, SettlementOK, SettlementRecords
<1>2. SettlementsOf(r) = {s} /\ ExtensionsOf(r) = {}
  BY <1>1 DEF Single, SettlementsOf
<1>3. UNCHANGED <<input, reads, extensions, lost>>
  BY DEF UpdatePlayer, UpdateGame, FailSettlement
<1>4. \/ settlements' \subseteq settlements
      \/ \E t : t.req = r /\ settlements' = (settlements \ {s}) \cup {t}
  <2>1. \A left : [s EXCEPT !.todo = left].req = r
    BY <1>1 DEF SettlementRecords
  <2>2. CASE UpdatePlayer(s)
    BY <2>1, <2>2 DEF UpdatePlayer, Settle
  <2>3. CASE UpdateGame(s)
    BY <2>1, <2>3 DEF UpdateGame, Settle
  <2>4. CASE FailSettlement(s, part)
    BY <2>1, <2>4 DEF FailSettlement
  <2> QED BY <2>2, <2>3, <2>4
<1>5. ASSUME NEW o \in Requests, Accepted(o)', ~ Accepted(o)
      PROVE  ExtensionsOf(o)' = {} /\ SettlementsOf(o)' = {}
  <2>1. ~ FailSettlement(s, part)
    BY <1>1, <1>3, <1>5, ErrorSingle DEF FailSettlement
  <2>2. settlements' = settlements \ {s} /\ Respond(r, s.reply)
    BY <1>5, <2>1 DEF UpdatePlayer, UpdateGame, Settle, Accepted
  <2>3. o = r
    BY <1>1, <1>5, <2>2, RespondOnce DEF Accepted
  <2> QED BY <1>2, <1>3, <2>2, <2>3 DEF ExtensionsOf, SettlementsOf
<1> QED BY <1>3, <1>4, <1>5, FewerSingle

LEMMA TopUpSingle ==
  ASSUME OInv, FInv', NEW u \in topUps, UpdateTokens(u) \/ FailTokens(u)
  PROVE  OInv'
<1> DEFINE r == u.req
<1>1. /\ TypeOK /\ r \in Requests /\ FlightOK(r) /\ input[r] \in TopUpInputs
  BY DEF OInv, FInv, IInv, TypeOK, TopUpRecords
<1>2. ExtensionsOf(r) = {} /\ SettlementsOf(r) = {}
  BY <1>1 DEF FlightOK, BetFits, BetInputs, TopUpInputs
<1>3. UNCHANGED <<input, reads, extensions, settlements, lost>>
  BY DEF UpdateTokens, FailTokens
<1>4. \A o \in Requests : Accepted(o)' => Accepted(o) \/ o = r
  BY <1>1, FixedResponses, RespondOnce DEF UpdateTokens, FailTokens, Accepted
<1>5. ExtensionsOf(r)' = {} /\ SettlementsOf(r)' = {}
  BY <1>2, <1>3 DEF ExtensionsOf, SettlementsOf
<1> QED BY <1>3, <1>4, <1>5, FewerSingle

LEMMA SubmitSingle ==
  ASSUME OInv, FInv', NEW r \in Requests, NEW in \in Inputs,
         NEW awaited \in {Absent, Pending}, Submit(r, in, awaited)
  PROVE  OInv'
<1> DEFINE q == [req |-> r, game |-> awaited, player |-> Pending]
<1>1. /\ FInv /\ IInv /\ TypeOK /\ FlightOK(r) /\ input[r] = None
  BY DEF OInv, FInv, IInv, Submit
<1>2. /\ reads' = reads \cup {q} /\ input' = [input EXCEPT ![r] = in]
      /\ UNCHANGED <<extensions, settlements, answer, lost>>
  BY DEF Submit
<1>3. InputStep /\ OnlyTouches(r)
  BY <1>1, <1>2, NoneAssumption DEF InputStep, OnlyTouches, TypeOK
<1>4. Single(r)'
  BY <1>1, <1>2
     DEF FlightOK, Unsent, Single, ExtensionsOf, SettlementsOf
<1>5. \A p \in reads' : ReadAway(p)
  BY <1>2 DEF OInv, ReadAway
<1>6. \A e \in extensions' : input[e.req] \in BetInputs /\ ExtensionCarries(e)
  BY <1>1, <1>2, ExtensionRequest DEF OInv, ExtensionOK
<1> QED BY <1>1, <1>3, <1>4, <1>5, <1>6, SinglePreserves

LEMMA InitOInv == Init => OInv
<1> SUFFICES ASSUME Init PROVE OInv
  OBVIOUS
<1>1. FInv
  BY InitFInv
<1>2. \A r \in Requests : Single(r)
  BY DEF Init, Single, ExtensionsOf, SettlementsOf
<1> QED BY <1>1, <1>2 DEF Init, OInv

LEMMA NextOInv == NeverAtLastPair /\ OInv /\ [Next]_vars => OInv'
<1> SUFFICES ASSUME NeverAtLastPair, OInv, [Next]_vars PROVE OInv'
  OBVIOUS
<1>1. FInv' /\ TypeOK
  BY NextFInv DEF OInv, FInv, IInv
<1>2. CASE Arrivals
  BY <1>1, <1>2, SubmitSingle DEF Arrivals, RequestBet, UpdatePlayerToken, Inputs
<1>3. CASE Statements
  BY <1>1, <1>3, ReadsSingle, UpdateGameDeckSingle, HalfSingle, TopUpSingle
     DEF Statements
<1>4. ASSUME reads' \subseteq reads, extensions' \subseteq extensions,
             UNCHANGED <<input, settlements>>,
             \A r \in Requests : Accepted(r)' => Accepted(r)
      PROVE  OInv'
  BY <1>1, <1>4, FewerSingle
<1>5. ASSUME NEW q \in reads, FailRead(q) PROVE OInv'
  <2>1. q.req \in Requests
    BY <1>1 DEF TypeOK, ReadRecords
  <2> QED BY <1>1, <1>4, <1>5, <2>1, ErrorSingle DEF FailRead
<1>6. ASSUME NEW e \in extensions, FailExtension(e) PROVE OInv'
  <2>1. e.req \in Requests
    BY <1>1 DEF TypeOK, ExtensionRecords
  <2> QED BY <1>1, <1>4, <1>6, <2>1, ErrorSingle DEF FailExtension
<1>7. CASE StatementFaults
  BY <1>1, <1>5, <1>6, <1>7, HalfSingle, TopUpSingle DEF StatementFaults
<1>8. CASE Crash
  BY <1>4, <1>8 DEF Crash, Accepted
<1>9. CASE UNCHANGED vars
  BY <1>4, <1>9 DEF vars, Accepted
<1> QED BY <1>2, <1>3, <1>7, <1>8, <1>9 DEF Next

\* Clients may do what they like and statements may fail: as long as no game is
\* between two rounds with one pair of cards left, a bet has at most one
\* settlement, and none of it is in flight once it is answered with a 200.  So
\* its player is charged or paid once.
THEOREM AnsweredLeavesTokensAlone ==
  Spec /\ []NeverAtLastPair => []AnsweredBetLeavesTokensAlone
<1>1. NeverAtLastPair /\ OInv /\ [Next]_vars => OInv'
  BY NextOInv
<1>2. OInv => AnsweredBetLeavesTokensAlone
  BY DEF OInv, Single, Accepted, SettlementsOf, AnsweredBetLeavesTokensAlone
<1> QED BY <1>1, <1>2, InitOInv, PTL DEF Spec
=============================================================================
