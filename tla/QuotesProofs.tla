----------------------------- MODULE QuotesProofs -----------------------------
(***************************************************************************)
(* That a quote is billed once and for what it says, to the cent, that an  *)
(* answer stands and that no save replaces what its editor had not seen:   *)
(* for any quotes, requests, figures and instalment plans.                 *)
(***************************************************************************)
EXTENDS Quotes, SequenceTheorems, WellFoundedInduction, TLAPS

RequestRecord ==
  [stage : {"idle", "editing", "mailing", "accepting", "reading", "raising"},
   quote : Quotes \cup {NoQuote},
   read : Seq(Figures),
   plan : {<<>>} \cup Plans,
   claims : BOOLEAN, moved : BOOLEAN, saved : BOOLEAN]

InvoiceRecord ==
  [plan : {<<>>} \cup Plans, from : Saying, undisturbed : BOOLEAN,
   parts : Seq(Int)]

(* A request is about a quote that was raised, and has read of it what its
   stage says: the row, and then the lines or the bands. *)
RequestOK(w) ==
  /\ w.stage # "idle" => w.quote \in Quotes /\ status[w.quote] # "none"
  /\ w.stage = "idle" => w.quote = NoQuote
  /\ w.stage = "reading" => Len(w.read) = 1
  /\ w.stage = "raising" => Len(w.read) = 2
  /\ w.saved => w.moved

TypesInv ==
  /\ TypeOK
  /\ \A r \in Requests : RequestOK(request[r])

(* What a conversion has read is still so while the figures were not edited:
   an edit of the quote marks the request it disturbs. *)
ReadRight(w) ==
  w.stage \in {"reading", "raising"} /\ ~w.saved =>
    \A k \in 1 .. Len(w.read) : w.read[k] = says[w.quote].row

ReadsInv ==
  /\ \A q \in Quotes : says[q] = Alike(says[q].row)
  /\ \A r \in Requests : ReadRight(request[r])

(* A quote is converted when it was accepted, and then it has its invoices. *)
ConvertedInv ==
  \A q \in Quotes :
    /\ converted[q] <=> status[q] = "accepted"
    /\ ConvertedOnce(q)

QuotesInv ==
  TypesInv /\ ReadsInv /\ ConvertedInv /\ \A q \in Quotes : InvoicedAsQuoted(q)

-----------------------------------------------------------------------------
(* Sums of a sequence, one term at a time. *)
LEMMA NatMin ==
  ASSUME NEW S, S \subseteq Nat, S # {}
  PROVE  \E x \in S : \A y \in S : x <= y
<1> DEFINE R == OpToRel(<, Nat)
<1>1. IsWellFoundedOn(R, Nat)
  BY NatLessThanWellFounded
<1> HIDE DEF R
<1>2. PICK x \in S : \A y \in S : ~(<<y, x>> \in R)
  BY <1>1, WFMin, Zenon
<1>3. ASSUME NEW y \in S PROVE x <= y
  <2>1. <<y, x>> \notin R
    BY <1>2
  <2>2. ~(y < x)
    BY <2>1 DEF R, OpToRel
  <2> QED
    BY <2>2
<1> QED
  BY <1>3

(* f is the sum of g's first terms, for each number of them up to n. *)
SumsUpTo(f, g, n) ==
  f = [k \in 0 .. n |-> IF k = 0 THEN 0 ELSE f[k - 1] + g[k]]

LEMMA SumsSteps ==
  ASSUME NEW n \in Nat, NEW f, NEW g, SumsUpTo(f, g, n)
  PROVE  f[0] = 0 /\ \A k \in 1 .. n : f[k] = f[k - 1] + g[k]
<1>1. f = [k \in 0 .. n |-> IF k = 0 THEN 0 ELSE f[k - 1] + g[k]]
  BY DEF SumsUpTo
<1>2. \A k \in 0 .. n : f[k] = IF k = 0 THEN 0 ELSE f[k - 1] + g[k]
  BY <1>1, Zenon
<1>3. 0 \in 0 .. n
  OBVIOUS
<1>4. ASSUME NEW k \in 1 .. n PROVE f[k] = f[k - 1] + g[k]
  <2>1. k \in 0 .. n /\ k # 0
    OBVIOUS
  <2> QED
    BY <1>2, <2>1
<1> QED
  BY <1>2, <1>3, <1>4

(* There is such a sum: the least number of terms that had none would have
   that of one term fewer and its last term. *)
LEMMA SumsExist ==
  ASSUME NEW n \in Nat, NEW g, \A k \in 1 .. n : g[k] \in Int
  PROVE  \E f \in [0 .. n -> Int] : SumsUpTo(f, g, n)
<1> DEFINE None == {m \in Nat : m <= n /\ ~\E f \in [0 .. m -> Int] : SumsUpTo(f, g, m)}
<1>1. SUFFICES ASSUME None # {} PROVE FALSE
  OBVIOUS
<1>2. None \subseteq Nat
  OBVIOUS
<1>3. PICK m \in None : \A l \in None : m <= l
  <2> HIDE DEF None
  <2> QED
    BY <1>1, <1>2, NatMin
<1>4. m \in Nat /\ m <= n
  OBVIOUS
<1>5. CASE m = 0
  <2>1. PICK f : f = [k \in 0 .. 0 |-> 0]
    OBVIOUS
  <2>2. f = [k \in 0 .. 0 |-> IF k = 0 THEN 0 ELSE f[k - 1] + g[k]]
    BY <2>1
  <2>3. f \in [0 .. 0 -> Int] /\ SumsUpTo(f, g, 0)
    BY <2>1, <2>2 DEF SumsUpTo
  <2> QED
    BY <1>5, <2>3
<1>6. CASE m # 0
  <2>1. m - 1 \in Nat /\ m - 1 <= n /\ m - 1 \notin None
    BY <1>3, <1>4, <1>6
  <2>2. PICK e \in [0 .. m - 1 -> Int] : SumsUpTo(e, g, m - 1)
    BY <2>1
  <2>3. e[0] = 0 /\ \A k \in 1 .. m - 1 : e[k] = e[k - 1] + g[k]
    BY <2>1, <2>2, SumsSteps
  <2>4. PICK f : f = [k \in 0 .. m |-> IF k = m THEN e[m - 1] + g[m] ELSE e[k]]
    OBVIOUS
  <2>5. g[m] \in Int /\ e[m - 1] \in Int
    BY <1>4, <1>6, <2>1
  <2>6. f \in [0 .. m -> Int]
    <3>1. ASSUME NEW k \in 0 .. m PROVE f[k] \in Int
      <4>1. k # m => k \in 0 .. m - 1
        BY <1>4
      <4>2. f[k] = IF k = m THEN e[m - 1] + g[m] ELSE e[k]
        BY <2>4
      <4> QED
        BY <2>5, <4>1, <4>2
    <3> QED
      BY <2>4, <3>1
  <2>7. ASSUME NEW k \in 0 .. m
        PROVE  f[k] = IF k = 0 THEN 0 ELSE f[k - 1] + g[k]
    <3>1. CASE k = 0
      BY <1>6, <2>3, <2>4, <3>1
    <3>2. CASE k # 0 /\ k = m
      <4>1. f[k - 1] = e[m - 1]
        BY <2>4, <1>4, <3>2
      <4> QED
        BY <2>4, <3>2, <4>1
    <3>3. CASE k # 0 /\ k # m
      <4>1. k \in 1 .. m - 1 /\ k - 1 \in 0 .. m /\ k - 1 # m
        BY <1>4, <3>3
      <4>2. f[k - 1] = e[k - 1] /\ f[k] = e[k]
        BY <2>4, <3>3, <4>1
      <4> QED
        BY <2>3, <3>3, <4>1, <4>2
    <3> QED
      BY <3>1, <3>2, <3>3
  <2>8. SumsUpTo(f, g, m)
    <3>1. f = [k \in 0 .. m |-> f[k]]
      BY <2>4
    <3> QED
      BY <2>7, <3>1 DEF SumsUpTo
  <2> QED
    BY <1>3, <2>6, <2>8
<1> QED
  BY <1>5, <1>6

(* ... and one only: two would differ first at some term. *)
LEMMA OneSum ==
  ASSUME NEW n \in Nat, NEW g, NEW e, SumsUpTo(e, g, n), NEW f, SumsUpTo(f, g, n)
  PROVE  \A k \in 0 .. n : e[k] = f[k]
<1> DEFINE Differ == {k \in 0 .. n : e[k] # f[k]}
<1>1. SUFFICES ASSUME Differ # {} PROVE FALSE
  OBVIOUS
<1>2. Differ \subseteq Nat
  OBVIOUS
<1>3. PICK k \in Differ : \A j \in Differ : k <= j
  <2> HIDE DEF Differ
  <2> QED
    BY <1>1, <1>2, NatMin
<1>4. /\ e[0] = 0 /\ \A j \in 1 .. n : e[j] = e[j - 1] + g[j]
      /\ f[0] = 0 /\ \A j \in 1 .. n : f[j] = f[j - 1] + g[j]
  BY SumsSteps
<1>5. k \in 1 .. n
  BY <1>3, <1>4
<1>6. k - 1 \in 0 .. n /\ k - 1 \notin Differ
  BY <1>3, <1>5
<1>7. e[k - 1] = f[k - 1]
  BY <1>6
<1> QED
  BY <1>3, <1>4, <1>5, <1>7

LEMMA SharesOfIs ==
  ASSUME NEW n \in Nat, NEW g, NEW f, SumsUpTo(f, g, n)
  PROVE  SharesOf(g, n) = f[n]
<1>1. SharesOf(g, n) = (CHOOSE e : SumsUpTo(e, g, n))[n]
  BY Zenon DEF SharesOf, SumsUpTo
<1>2. PICK e : e = CHOOSE d : SumsUpTo(d, g, n)
  OBVIOUS
<1>3. SumsUpTo(e, g, n)
  BY <1>2
<1>4. e[n] = f[n]
  BY <1>3, OneSum
<1> QED
  BY <1>1, <1>2, <1>4

-----------------------------------------------------------------------------
(* Apportioning: every share but the last is rounded on its own, and the last
   is what they leave. *)
RoundsUpTo(f, total, plan) ==
  f = [k \in 0 .. Len(plan) |->
         IF k = 0 THEN 0 ELSE f[k - 1] + Rounded(total, plan[k])]

LEMMA ApportionIs ==
  ASSUME NEW total, NEW plan
  PROVE  Apportion(total, plan) =
           [k \in 1 .. Len(plan) |->
              IF k < Len(plan) THEN Rounded(total, plan[k])
              ELSE total
                   - (CHOOSE f : RoundsUpTo(f, total, plan))[Len(plan) - 1]]
BY Zenon DEF Apportion, RoundsUpTo

LEMMA RoundedIsInt ==
  ASSUME NEW total \in Int, NEW bp \in Int
  PROVE  Rounded(total, bp) \in Int
<1>1. PICK p \in Int : p = 2 * total * bp + WHOLE
  BY DEF WHOLE
<1>2. p \div 20000 \in Int
  OBVIOUS
<1> QED
  BY <1>1, <1>2 DEF Rounded, WHOLE

LEMMA Apportioned ==
  ASSUME NEW total \in Int, NEW n \in Nat \ {0}, NEW plan \in Seq(Int), n = Len(plan)
  PROVE  \E f \in [0 .. n -> Int] :
           /\ f[0] = 0
           /\ Apportion(total, plan) \in [1 .. n -> Int]
           /\ \A k \in 1 .. n : Apportion(total, plan)[k] =
                IF k < n THEN f[k] - f[k - 1] ELSE total - f[n - 1]
<1>1. PICK g : g = [k \in 1 .. n |-> Rounded(total, plan[k])]
  OBVIOUS
<1>2. \A k \in 1 .. n : g[k] = Rounded(total, plan[k]) /\ g[k] \in Int
  <2>1. ASSUME NEW k \in 1 .. n PROVE g[k] = Rounded(total, plan[k]) /\ g[k] \in Int
    <3>1. plan[k] \in Int
      BY ElementOfSeq
    <3> QED
      BY <1>1, <3>1, RoundedIsInt
  <2> QED
    BY <2>1
<1>3. PICK f \in [0 .. n -> Int] : SumsUpTo(f, g, n)
  BY <1>2, SumsExist
<1>4. \A e : RoundsUpTo(e, total, plan) <=> SumsUpTo(e, g, n)
  <2>1. ASSUME NEW e PROVE RoundsUpTo(e, total, plan) <=> SumsUpTo(e, g, n)
    <3>1. [k \in 0 .. n |-> IF k = 0 THEN 0 ELSE e[k - 1] + Rounded(total, plan[k])]
            = [k \in 0 .. n |-> IF k = 0 THEN 0 ELSE e[k - 1] + g[k]]
      <4>1. \A k \in 0 .. n : k # 0 => k \in 1 .. n
        OBVIOUS
      <4> QED
        BY <1>2, <4>1
    <3> QED
      BY <3>1 DEF RoundsUpTo, SumsUpTo
  <2> QED
    BY <2>1
<1>5. PICK e : e = CHOOSE d : RoundsUpTo(d, total, plan)
  OBVIOUS
<1>6. SumsUpTo(e, g, n)
  <2>1. RoundsUpTo(f, total, plan)
    BY <1>3, <1>4
  <2>2. RoundsUpTo(e, total, plan)
    BY <1>5, <2>1
  <2> QED
    BY <1>4, <2>2
<1>7. e[n - 1] = f[n - 1]
  <2>1. n - 1 \in 0 .. n
    OBVIOUS
  <2> QED
    BY <1>3, <1>6, <2>1, OneSum
<1>8. Apportion(total, plan) =
        [k \in 1 .. n |-> IF k < n THEN Rounded(total, plan[k]) ELSE total - f[n - 1]]
  <2>1. Apportion(total, plan) =
          [k \in 1 .. n |-> IF k < n THEN Rounded(total, plan[k])
                            ELSE total - e[n - 1]]
    <3>1. Apportion(total, plan) =
            [k \in 1 .. Len(plan) |->
               IF k < Len(plan) THEN Rounded(total, plan[k])
               ELSE total
                    - (CHOOSE d : RoundsUpTo(d, total, plan))[Len(plan) - 1]]
      BY ApportionIs
    <3> QED
      BY <1>5, <3>1, Zenon
  <2> QED
    BY <1>7, <2>1, Zenon
<1>9. f[0] = 0 /\ \A k \in 1 .. n : f[k] = f[k - 1] + g[k]
  BY <1>3, SumsSteps
<1>10. ASSUME NEW k \in 1 .. n
       PROVE  /\ Apportion(total, plan)[k] =
                   IF k < n THEN f[k] - f[k - 1] ELSE total - f[n - 1]
              /\ Apportion(total, plan)[k] \in Int
  <2>1. Apportion(total, plan)[k] =
          IF k < n THEN g[k] ELSE total - f[n - 1]
    BY <1>2, <1>8
  <2>2. f[k] \in Int /\ f[k - 1] \in Int /\ f[n - 1] \in Int /\ g[k] \in Int
    <3>1. k \in 0 .. n /\ k - 1 \in 0 .. n /\ n - 1 \in 0 .. n
      OBVIOUS
    <3>2. g[k] \in Int
      BY <1>2
    <3> QED
      BY <3>1, <3>2
  <2>3. f[k] - f[k - 1] = g[k]
    BY <1>9, <2>2
  <2> QED
    BY <2>1, <2>2, <2>3
<1>11. Apportion(total, plan) \in [1 .. n -> Int]
  BY <1>8, <1>10
<1> QED
  BY <1>9, <1>10, <1>11

LEMMA PlanTyped ==
  ASSUME NEW plan \in Plans
  PROVE  plan \in Seq(Int) /\ Len(plan) \in Nat \ {0} /\ plan # <<>>
<1>1. plan \in Seq(Nat \ {0}) /\ Len(plan) \in 2 .. 24
  BY PlansAssumption
<1>2. Nat \ {0} \subseteq Int
  OBVIOUS
<1>3. plan \in Seq(Int)
  BY <1>1, <1>2, SeqMonotonic
<1>4. Len(plan) \in Nat \ {0}
  <2>1. \A n \in 2 .. 24 : n \in Nat \ {0}
    OBVIOUS
  <2>2. Len(plan) \in 2 .. 24
    BY PlansAssumption, Zenon
  <2> QED
    BY <2>1, <2>2, Zenon
<1>5. plan # <<>>
  <2>1. Len(plan) # 0
    BY <1>4
  <2>2. Len(<<>>) = 0
    BY EmptySeq
  <2> QED
    BY <2>1, <2>2, Zenon
<1> QED
  BY <1>4, <1>3, <1>5

LEMMA InstalmentsTyped ==
  ASSUME NEW net \in Int, NEW banded \in Int, NEW plan \in Plans
  PROVE  /\ Instalments(net, banded, plan) \in [1 .. Len(plan) -> Int]
         /\ Instalments(net, banded, plan) \in Seq(Int)
         /\ Len(Instalments(net, banded, plan)) = Len(plan)
<1>1. PICK n \in Nat \ {0} : n = Len(plan)
  BY PlanTyped
<1>2. plan \in Seq(Int)
  BY PlanTyped
<1>3. \A t \in Int : Apportion(t, plan) \in [1 .. n -> Int]
  BY <1>1, <1>2, Apportioned
<1>4. PICK a : a = Instalments(net, banded, plan)
  OBVIOUS
<1>5. a \in [1 .. n -> Int]
  <2>1. CASE banded > net
    BY <1>3, <1>4, <2>1 DEF Instalments
  <2>2. CASE ~(banded > net)
    <3>1. PICK b \in [1 .. n -> Int] : b = Apportion(banded, plan)
      BY <1>3
    <3>2. PICK c \in [1 .. n -> Int] : c = Apportion(net - banded, plan)
      <4>1. net - banded \in Int
        OBVIOUS
      <4> QED
        BY <1>3, <4>1
    <3>3. a = [k \in 1 .. Len(plan) |->
                 Apportion(banded, plan)[k] + Apportion(net - banded, plan)[k]]
      BY <1>4, <2>2, Zenon DEF Instalments
    <3>4. a = [k \in 1 .. n |-> b[k] + c[k]]
      BY <1>1, <3>1, <3>2, <3>3
    <3> QED
      BY <3>4
  <2> QED
    BY <2>1, <2>2
<1>6. a \in Seq(Int) /\ Len(a) = n
  BY <1>5, SeqDef, LenProperties
<1> QED
  BY <1>1, <1>4, <1>5, <1>6

(* However the shares round, the instalments of a quote whose bands are its
   row's come to the whole of it. *)
LEMMA InstalmentsComeToTheWhole ==
  ASSUME NEW net \in Int, NEW plan \in Plans
  PROVE  SharesOf(Instalments(net, net, plan), Len(plan)) = net
<1>1. PICK n \in Nat \ {0} : n = Len(plan)
  BY PlanTyped
<1>2. plan \in Seq(Int)
  BY PlanTyped
<1>3. PICK e \in [0 .. n -> Int] :
        /\ e[0] = 0
        /\ Apportion(net, plan) \in [1 .. n -> Int]
        /\ \A k \in 1 .. n : Apportion(net, plan)[k] =
             IF k < n THEN e[k] - e[k - 1] ELSE net - e[n - 1]
  BY <1>1, <1>2, Apportioned
<1>4. PICK f \in [0 .. n -> Int] :
        /\ f[0] = 0
        /\ Apportion(0, plan) \in [1 .. n -> Int]
        /\ \A k \in 1 .. n : Apportion(0, plan)[k] =
             IF k < n THEN f[k] - f[k - 1] ELSE 0 - f[n - 1]
  <2>1. PICK zero \in Int : zero = 0
    OBVIOUS
  <2>2. \E d \in [0 .. n -> Int] :
          /\ d[0] = 0
          /\ Apportion(zero, plan) \in [1 .. n -> Int]
          /\ \A k \in 1 .. n : Apportion(zero, plan)[k] =
               IF k < n THEN d[k] - d[k - 1] ELSE zero - d[n - 1]
    BY <1>1, <1>2, Apportioned
  <2> QED
    BY <2>1, <2>2, Zenon
<1>5. PICK a : a = Instalments(net, net, plan)
  OBVIOUS
<1>6. \A k \in 1 .. n : a[k] = Apportion(net, plan)[k] + Apportion(0, plan)[k]
  <2>1. ~(net > net) /\ net - net = 0
    OBVIOUS
  <2>2. a = [k \in 1 .. Len(plan) |->
               Apportion(net, plan)[k] + Apportion(net - net, plan)[k]]
    BY <1>5, <2>1, Zenon DEF Instalments
  <2> QED
    BY <1>1, <2>1, <2>2
<1>7. PICK h : h = [k \in 0 .. n |-> IF k < n THEN e[k] + f[k] ELSE net]
  OBVIOUS
<1>8. ASSUME NEW k \in 0 .. n
      PROVE  h[k] = IF k = 0 THEN 0 ELSE h[k - 1] + a[k]
  <2>1. CASE k = 0
    BY <1>3, <1>4, <1>7, <2>1
  <2>2. CASE k # 0
    <3>1. k \in 1 .. n /\ k - 1 \in 0 .. n /\ k - 1 < n
      BY <2>2
    <3>2. h[k - 1] = e[k - 1] + f[k - 1]
      BY <1>7, <3>1
    <3>3. e[k - 1] \in Int /\ f[k - 1] \in Int /\ e[k] \in Int /\ f[k] \in Int
      BY <3>1
    <3>4. a[k] = Apportion(net, plan)[k] + Apportion(0, plan)[k]
      BY <1>6, <3>1
    <3>5. CASE k < n
      <4>1. h[k] = e[k] + f[k]
        BY <1>7, <3>5
      <4>2. a[k] = (e[k] - e[k - 1]) + (f[k] - f[k - 1])
        BY <1>3, <1>4, <3>1, <3>4, <3>5
      <4> QED
        BY <2>2, <3>2, <3>3, <4>1, <4>2
    <3>6. CASE k = n
      <4>1. h[k] = net
        BY <1>7, <3>6
      <4>2. a[k] = (net - e[k - 1]) + (0 - f[k - 1])
        BY <1>3, <1>4, <3>1, <3>4, <3>6
      <4> QED
        BY <2>2, <3>2, <3>3, <4>1, <4>2
    <3> QED
      BY <3>1, <3>5, <3>6
  <2> QED
    BY <2>1, <2>2
<1>9. SumsUpTo(h, a, n)
  <2>1. h = [k \in 0 .. n |-> h[k]]
    BY <1>7
  <2> QED
    BY <1>8, <2>1 DEF SumsUpTo
<1>10. SharesOf(a, n) = h[n]
  BY <1>9, SharesOfIs
<1>11. h[n] = net
  BY <1>7
<1> QED
  BY <1>1, <1>5, <1>10, <1>11

(* One invoice is the whole. *)
LEMMA OneInvoiceIsTheWhole ==
  ASSUME NEW net \in Int
  PROVE  SharesOf(<<net>>, 1) = net
<1>1. PICK f : f = [k \in 0 .. 1 |-> IF k = 0 THEN 0 ELSE net]
  OBVIOUS
<1>2. ASSUME NEW k \in 0 .. 1
      PROVE  f[k] = IF k = 0 THEN 0 ELSE f[k - 1] + <<net>>[k]
  <2>1. CASE k = 0
    BY <1>1, <2>1
  <2>2. CASE k = 1
    BY <1>1, <2>2
  <2> QED
    BY <2>1, <2>2
<1>3. SumsUpTo(f, <<net>>, 1)
  <2>1. f = [k \in 0 .. 1 |-> f[k]]
    BY <1>1
  <2> QED
    BY <1>2, <2>1 DEF SumsUpTo
<1>4. SharesOf(<<net>>, 1) = f[1]
  BY <1>3, SharesOfIs
<1> QED
  BY <1>1, <1>4

-----------------------------------------------------------------------------
(* The types. *)
LEMMA IdleTyped ==
  /\ Idle \in RequestRecord
  /\ Idle.stage = "idle" /\ Idle.quote = NoQuote /\ Idle.plan = <<>>
  /\ Idle.claims = FALSE /\ Idle.moved = FALSE /\ Idle.saved = FALSE
<1>1. <<>> \in Seq(Figures)
  BY EmptySeq
<1> QED
  BY <1>1 DEF Idle, RequestRecord

LEMMA IdleOK == RequestOK(Idle) /\ RequestOK(Idle)' /\ ReadRight(Idle)'
BY IdleTyped DEF RequestOK, ReadRight

LEMMA Typed ==
  ASSUME TypesInv
  PROVE  /\ status \in [Quotes -> {"none", "draft", "sent", "accepted"}]
         /\ filed \in [Quotes -> BOOLEAN]
         /\ says \in [Quotes -> Saying]
         /\ converted \in [Quotes -> BOOLEAN]
         /\ raised \in [Quotes -> Seq(InvoiceRecord)]
         /\ request \in [Requests -> RequestRecord]
         /\ \A r \in Requests : request[r] \in RequestRecord /\ RequestOK(request[r])
BY DEF TypesInv, TypeOK, RequestRecord, InvoiceRecord

LEMMA AlikeTyped ==
  ASSUME NEW c \in Figures
  PROVE  Alike(c) \in Saying /\ Alike(c).row = c
BY DEF Alike, Saying

(* A request at work is about a quote that was raised. *)
LEMMA AtWork ==
  ASSUME TypesInv, NEW r \in Requests, request[r].stage # "idle"
  PROVE  request[r].quote \in Quotes /\ status[request[r].quote] # "none"
BY DEF TypesInv, RequestOK

(* The requests e after a write of q: the ones about it are told. *)
Told(e, q, edited) ==
  /\ e \in [Requests -> RequestRecord]
  /\ \A x \in Requests :
       /\ e[x].stage = request[x].stage
       /\ e[x].quote = request[x].quote
       /\ e[x].read = request[x].read
       /\ e[x].claims = request[x].claims
       /\ request[x].quote = q =>
            e[x].moved = TRUE /\ e[x].saved = (request[x].saved \/ edited)
       /\ request[x].quote # q => e[x] = request[x]

LEMMA AfterIs ==
  ASSUME TypesInv, NEW q \in Quotes, NEW edited \in BOOLEAN,
         NEW e, e = After(q, edited)
  PROVE  Told(e, q, edited)
<1>1. ASSUME NEW x \in Requests
      PROVE  /\ e[x] \in RequestRecord
             /\ e[x].stage = request[x].stage
             /\ e[x].quote = request[x].quote
             /\ e[x].read = request[x].read
             /\ e[x].claims = request[x].claims
             /\ request[x].quote = q =>
                  e[x].moved = TRUE /\ e[x].saved = (request[x].saved \/ edited)
             /\ request[x].quote # q => e[x] = request[x]
  <2>1. PICK w \in RequestRecord : w = request[x]
    BY Typed
  <2>2. CASE w.quote = q
    <3>1. PICK new : new = [w EXCEPT !.moved = TRUE, !.saved = @ \/ edited]
      OBVIOUS
    <3>2. e[x] = new
      BY <2>1, <2>2, <3>1 DEF After
    <3>3. new \in RequestRecord
      BY <3>1 DEF RequestRecord
    <3>4. /\ new.stage = w.stage /\ new.quote = w.quote
          /\ new.read = w.read /\ new.claims = w.claims
      BY <3>1 DEF RequestRecord
    <3>5. new.moved = TRUE /\ new.saved = (w.saved \/ edited)
      BY <3>1 DEF RequestRecord
    <3> QED
      BY <2>1, <2>2, <3>2, <3>3, <3>4, <3>5
  <2>3. CASE w.quote # q
    <3>1. e[x] = request[x]
      BY <2>1, <2>3 DEF After
    <3> QED
      BY <2>1, <2>3, <3>1
  <2> QED
    BY <2>2, <2>3
<1>2. e = [x \in Requests |-> e[x]]
  BY DEF After
<1>3. e \in [Requests -> RequestRecord]
  BY <1>1, <1>2
<1> QED
  BY <1>1, <1>3 DEF Told

(* No quote goes back to never having been raised. *)
StaysRaised == \A q \in Quotes : status[q] # "none" => status'[q] # "none"

RequestsTyped ==
  /\ request \in [Requests -> RequestRecord]
  /\ \A r \in Requests : RequestOK(request[r])

LEMMA RequestStaysOK ==
  ASSUME StaysRaised, NEW w, NEW v, RequestOK(w),
         v.stage = w.stage, v.quote = w.quote, v.read = w.read, v.saved => v.moved
  PROVE  RequestOK(v)'
BY DEF StaysRaised, RequestOK

LEMMA RequestsKept ==
  ASSUME TypesInv, StaysRaised, UNCHANGED request
  PROVE  RequestsTyped'
<1>1. ASSUME NEW x \in Requests PROVE RequestOK(request[x])'
  <2>1. PICK w : w = request[x]
    OBVIOUS
  <2>2. RequestOK(w) /\ (w.saved => w.moved)
    BY <2>1 DEF TypesInv, RequestOK
  <2>3. RequestOK(w)'
    BY <2>2, RequestStaysOK
  <2> QED
    BY <2>1, <2>3
<1> QED
  BY <1>1, Typed DEF RequestsTyped

LEMMA OneRequest ==
  ASSUME TypesInv, StaysRaised, NEW r \in Requests, NEW w \in RequestRecord,
         RequestOK(w)', request' = [request EXCEPT ![r] = w]
  PROVE  RequestsTyped'
<1>1. ASSUME NEW x \in Requests PROVE RequestOK(request[x])'
  <2>1. CASE x = r
    <3>1. request'[x] = w
      BY <2>1, Typed
    <3> QED
      BY <3>1
  <2>2. CASE x # r
    <3>1. PICK v : v = request[x]
      OBVIOUS
    <3>2. request'[x] = v
      BY <2>2, <3>1, Typed
    <3>3. RequestOK(v) /\ (v.saved => v.moved)
      BY <3>1 DEF TypesInv, RequestOK
    <3>4. RequestOK(v)'
      BY <3>3, RequestStaysOK
    <3> QED
      BY <3>2, <3>4
  <2> QED
    BY <2>1, <2>2
<1>2. request' \in [Requests -> RequestRecord]
  BY Typed
<1> QED
  BY <1>1, <1>2 DEF RequestsTyped

LEMMA RequestsAfter ==
  ASSUME TypesInv, StaysRaised, NEW q \in Quotes, NEW edited \in BOOLEAN
  PROVE  /\ request' = After(q, edited) => RequestsTyped'
         /\ \A r \in Requests : EndWriting(r, q, edited) => RequestsTyped'
<1>1. PICK e : e = After(q, edited)
  OBVIOUS
<1>2. Told(e, q, edited)
  BY <1>1, AfterIs
<1>3. e \in [Requests -> RequestRecord]
  BY <1>2 DEF Told
<1>4. ASSUME NEW x \in Requests PROVE RequestOK(e[x])'
  <2>1. PICK v : v = e[x]
    OBVIOUS
  <2>2. PICK w : w = request[x]
    OBVIOUS
  <2>3. RequestOK(w) /\ (w.saved => w.moved)
    BY <2>2 DEF TypesInv, RequestOK
  <2>4. /\ e[x].stage = request[x].stage
        /\ e[x].quote = request[x].quote
        /\ e[x].read = request[x].read
        /\ request[x].quote = q => e[x].moved = TRUE
        /\ request[x].quote # q => e[x] = request[x]
    BY <1>2, Zenon DEF Told
  <2>5. v.saved => v.moved
    BY <2>1, <2>2, <2>3, <2>4, Zenon
  <2>6. RequestOK(v)'
    BY <2>1, <2>2, <2>3, <2>4, <2>5, RequestStaysOK
  <2> QED
    BY <2>1, <2>6
<1>5. ASSUME request' = After(q, edited) PROVE RequestsTyped'
  <2>1. request' = e
    BY <1>1, <1>5
  <2> QED
    BY <1>4, <1>3, <2>1 DEF RequestsTyped
<1>6. ASSUME NEW r \in Requests, EndWriting(r, q, edited) PROVE RequestsTyped'
  <2>1. request' = [e EXCEPT ![r] = Idle]
    BY <1>1, <1>6 DEF EndWriting
  <2>2. ASSUME NEW x \in Requests PROVE RequestOK(request[x])'
    <3>1. CASE x = r
      <4>1. request'[x] = Idle
        BY <1>3, <2>1, <3>1
      <4> QED
        BY <4>1, IdleOK
    <3>2. CASE x # r
      <4>1. request'[x] = e[x]
        BY <1>3, <2>1, <3>2
      <4> QED
        BY <1>4, <4>1
    <3> QED
      BY <3>1, <3>2
  <2>3. request' \in [Requests -> RequestRecord]
    BY <1>3, <2>1, IdleTyped
  <2> QED
    BY <2>2, <2>3 DEF RequestsTyped
<1> QED
  BY <1>5, <1>6

(* What an invoice is made of. *)
LEMMA InvoiceTyped ==
  ASSUME TypesInv, NEW r \in Requests, request[r].stage = "raising"
  PROVE  InvoiceFrom(r) \in InvoiceRecord
<1>1. PICK w \in RequestRecord : w = request[r]
  BY Typed
<1>2. w.quote \in Quotes
  BY <1>1, AtWork
<1>3. w.read \in Seq(Figures) /\ Len(w.read) = 2
  BY <1>1, Typed DEF RequestOK, RequestRecord
<1>4. PICK net \in Figures : net = w.read[1]
  BY <1>3, ElementOfSeq
<1>5. PICK then \in Figures : then = w.read[2]
  BY <1>3, ElementOfSeq
<1>6. net \in Int /\ then \in Int
  BY QuotesAssumption
<1>7. PICK s \in Saying : s = says[w.quote]
  BY <1>2, Typed
<1>8. w.plan \in {<<>>} \cup Plans /\ w.saved \in BOOLEAN
  BY DEF RequestRecord
<1>9. PICK v : v = InvoiceFrom(r)
  OBVIOUS
<1>10. CASE w.plan = <<>>
  <2>1. v = [plan |-> <<>>, undisturbed |-> ~w.saved,
             from |-> [row |-> net, lines |-> then, bands |-> s.bands],
             parts |-> <<net>>]
    BY <1>1, <1>4, <1>5, <1>7, <1>9, <1>10 DEF InvoiceFrom
  <2>2. [row |-> net, lines |-> then, bands |-> s.bands] \in Saying
    BY DEF Saying
  <2>3. <<net>> \in Seq(Int)
    BY <1>6
  <2> QED
    BY <1>8, <1>9, <2>1, <2>2, <2>3 DEF InvoiceRecord
<1>11. CASE w.plan # <<>>
  <2>1. v = [plan |-> w.plan, undisturbed |-> ~w.saved,
             from |-> [row |-> net, lines |-> net, bands |-> then],
             parts |-> Instalments(net, then, w.plan)]
    BY <1>1, <1>4, <1>5, <1>7, <1>9, <1>11 DEF InvoiceFrom
  <2>2. [row |-> net, lines |-> net, bands |-> then] \in Saying
    BY DEF Saying
  <2>3. Instalments(net, then, w.plan) \in Seq(Int)
    BY <1>6, <1>8, <1>11, InstalmentsTyped
  <2> QED
    BY <1>8, <1>9, <2>1, <2>2, <2>3 DEF InvoiceRecord
<1> QED
  BY <1>10, <1>11

(* A reading goes on by one figure. *)
LEMMA ReadsOn ==
  ASSUME NEW s \in Seq(Figures), Len(s) = 1, NEW x \in Figures
  PROVE  /\ s \o <<x>> \in Seq(Figures) /\ Len(s \o <<x>>) = 2
         /\ (s \o <<x>>)[1] = s[1] /\ (s \o <<x>>)[2] = x
<1>1. <<x>> \in Seq(Figures) /\ Len(<<x>>) = 1 /\ <<x>>[1] = x
  OBVIOUS
<1>2. /\ s \o <<x>> \in Seq(Figures)
      /\ Len(s \o <<x>>) = Len(s) + Len(<<x>>)
      /\ \A i \in 1 .. Len(s) + Len(<<x>>) : (s \o <<x>>)[i] =
           IF i <= Len(s) THEN s[i] ELSE <<x>>[i - Len(s)]
  BY <1>1, ConcatProperties
<1> QED
  BY <1>1, <1>2

-----------------------------------------------------------------------------
LEMMA TypesStart == Init => TypesInv
<1> SUFFICES ASSUME Init PROVE TypesInv
  OBVIOUS
<1>1. status \in [Quotes -> {"none", "draft", "sent", "accepted"}]
  BY DEF Init
<1>2. filed \in [Quotes -> BOOLEAN] /\ converted \in [Quotes -> BOOLEAN]
  BY DEF Init
<1>3. says \in [Quotes -> Saying]
  <2>1. PICK c \in Figures : c = CHOOSE d \in Figures : TRUE
    BY QuotesAssumption
  <2> QED
    BY <2>1, AlikeTyped DEF Init
<1>4. raised \in [Quotes -> Seq(InvoiceRecord)]
  <2>1. <<>> \in Seq(InvoiceRecord)
    BY EmptySeq
  <2> QED
    BY <2>1 DEF Init
<1>5. RequestsTyped
  <2>1. \A r \in Requests : request[r] = Idle
    BY DEF Init
  <2> QED
    BY <2>1, IdleTyped, IdleOK DEF Init, RequestsTyped
<1> QED
  BY <1>1, <1>2, <1>3, <1>4, <1>5
  DEF TypesInv, TypeOK, RequestsTyped, RequestRecord, InvoiceRecord

(* The types of all but the requests. *)
RowsTyped ==
  /\ status \in [Quotes -> {"none", "draft", "sent", "accepted"}]
  /\ filed \in [Quotes -> BOOLEAN]
  /\ says \in [Quotes -> Saying]
  /\ converted \in [Quotes -> BOOLEAN]
  /\ raised \in [Quotes -> Seq(InvoiceRecord)]

LEMMA TypesAre == TypesInv <=> RowsTyped /\ RequestsTyped
BY DEF TypesInv, TypeOK, RowsTyped, RequestsTyped, RequestRecord, InvoiceRecord

LEMMA RowsKept ==
  ASSUME TypesInv, UNCHANGED <<status, filed, says, converted, raised>>
  PROVE  RowsTyped' /\ StaysRaised
BY Typed DEF RowsTyped, StaysRaised

(* A request that begins. *)
LEMMA Begins ==
  ASSUME TypesInv, NEW r \in Requests, NEW q \in Quotes, Raised(q),
         NEW entry \in RequestRecord, Begin(r, q, entry), UNCHANGED status,
         entry.stage # "idle", entry.stage # "raising", entry.saved = FALSE,
         entry.stage = "reading" => Len(entry.read) = 1
  PROVE  RequestsTyped'
<1>1. PICK w : w = [entry EXCEPT !.quote = q]
  OBVIOUS
<1>2. w \in RequestRecord
  BY <1>1 DEF RequestRecord
<1>3. /\ w.stage = entry.stage /\ w.quote = q /\ w.read = entry.read
      /\ w.saved = FALSE
  BY <1>1 DEF RequestRecord
<1>4. RequestOK(w)'
  BY <1>3 DEF RequestOK, Raised
<1>5. request' = [request EXCEPT ![r] = w]
  BY <1>1 DEF Begin
<1>6. StaysRaised
  BY DEF StaysRaised
<1> QED
  BY <1>2, <1>4, <1>5, <1>6, OneRequest

LEMMA Ends ==
  ASSUME TypesInv, StaysRaised, NEW r \in Requests, End(r)
  PROVE  RequestsTyped'
BY IdleTyped, IdleOK, OneRequest DEF End

LEMMA Entries ==
  /\ \A st \in {"mailing", "accepting"} :
       LET e == [Idle EXCEPT !.stage = st]
       IN  e \in RequestRecord /\ e.stage = st /\ e.saved = FALSE
  /\ \A claims \in BOOLEAN :
       LET e == [Idle EXCEPT !.stage = "editing", !.claims = claims]
       IN  e \in RequestRecord /\ e.stage = "editing" /\ e.saved = FALSE
BY IdleTyped DEF RequestRecord

LEMMA ReadingEntry ==
  ASSUME NEW plan \in {<<>>} \cup Plans, NEW c \in Figures,
         NEW e, e = [Idle EXCEPT !.stage = "reading", !.plan = plan, !.read = <<c>>]
  PROVE  /\ e \in RequestRecord /\ e.stage = "reading" /\ e.saved = FALSE
         /\ e.read = <<c>>
<1>1. <<c>> \in Seq(Figures)
  OBVIOUS
<1> QED
  BY <1>1, IdleTyped DEF RequestRecord

(* Each step keeps the types. *)
LEMMA TypesStep == TypesInv /\ [Next]_vars => TypesInv'
<1> SUFFICES ASSUME TypesInv, [Next]_vars PROVE TypesInv'
  OBVIOUS
<1>1. SUFFICES RowsTyped' /\ RequestsTyped'
  <2>1. TypesInv' <=> RowsTyped' /\ RequestsTyped'
    BY TypesAre, PTL
  <2> QED
    BY <2>1
<1>2. CASE UNCHANGED vars
  <2>1. UNCHANGED <<status, filed, says, converted, raised>> /\ UNCHANGED request
    BY <1>2 DEF vars
  <2> QED
    BY <2>1, RowsKept, RequestsKept
<1>3. ASSUME NEW q \in Quotes, NEW c \in Figures, WriteQuote(q, c)
      PROVE  RowsTyped' /\ RequestsTyped'
  <2>1. StaysRaised
    BY <1>3, Typed DEF WriteQuote, StaysRaised
  <2>2. UNCHANGED <<filed, converted, raised>> /\ UNCHANGED request
    BY <1>3 DEF WriteQuote
  <2>3. status' \in [Quotes -> {"none", "draft", "sent", "accepted"}]
    BY <1>3, Typed DEF WriteQuote
  <2>4. says' \in [Quotes -> Saying]
    BY <1>3, Typed, AlikeTyped DEF WriteQuote
  <2> QED
    BY <2>1, <2>2, <2>3, <2>4, Typed, RequestsKept DEF RowsTyped
<1>4. ASSUME NEW q \in Quotes, FileQuote(q) \/ RestoreQuote(q)
      PROVE  RowsTyped' /\ RequestsTyped'
  <2>1. UNCHANGED <<status, says, converted, raised>>
    BY <1>4 DEF FileQuote, RestoreQuote
  <2>2. request' = After(q, FALSE)
    BY <1>4 DEF FileQuote, RestoreQuote
  <2>3. filed' \in [Quotes -> BOOLEAN]
    BY <1>4, Typed DEF FileQuote, RestoreQuote
  <2>4. StaysRaised
    BY <2>1 DEF StaysRaised
  <2>5. RequestsTyped'
    BY <2>2, <2>4, RequestsAfter
  <2> QED
    BY <2>1, <2>3, <2>5, Typed DEF RowsTyped
<1>5. ASSUME NEW r \in Requests, NEW q \in Quotes, StartSend(r, q) \/ Accept(r, q)
      PROVE  RowsTyped' /\ RequestsTyped'
  <2>1. UNCHANGED <<status, filed, says, converted, raised>>
    BY <1>5 DEF StartSend, Accept
  <2>2. Raised(q)
    BY <1>5 DEF StartSend, Accept, Raised
  <2>3. PICK st \in {"mailing", "accepting"} :
          Begin(r, q, [Idle EXCEPT !.stage = st])
    BY <1>5 DEF StartSend, Accept
  <2>4. PICK e \in RequestRecord :
          e = [Idle EXCEPT !.stage = st] /\ e.stage = st /\ e.saved = FALSE
    BY Entries
  <2>5. RequestsTyped'
    BY <2>1, <2>2, <2>3, <2>4, Begins
  <2> QED
    BY <2>1, <2>5, RowsKept
<1>6. ASSUME NEW r \in Requests, NEW q \in Quotes, NEW claims \in BOOLEAN,
             StartEdit(r, q, claims)
      PROVE  RowsTyped' /\ RequestsTyped'
  <2>1. UNCHANGED <<status, filed, says, converted, raised>> /\ Raised(q)
    BY <1>6 DEF StartEdit
  <2>2. PICK e \in RequestRecord :
          /\ e = [Idle EXCEPT !.stage = "editing", !.claims = claims]
          /\ e.stage = "editing" /\ e.saved = FALSE
    BY Entries
  <2>3. Begin(r, q, e)
    BY <1>6, <2>2 DEF StartEdit
  <2>4. RequestsTyped'
    BY <2>1, <2>2, <2>3, Begins
  <2> QED
    BY <2>1, <2>4, RowsKept
<1>7. ASSUME NEW r \in Requests, NEW q \in Quotes, NEW plan \in {<<>>} \cup Plans,
             StartConvert(r, q, plan)
      PROVE  RowsTyped' /\ RequestsTyped'
  <2>1. UNCHANGED <<status, filed, says, converted, raised>> /\ Raised(q)
    BY <1>7 DEF StartConvert, Convertible
  <2>2. PICK c \in Figures : c = says[q].row
    BY Typed DEF Saying
  <2>3. PICK e : e = [Idle EXCEPT !.stage = "reading", !.plan = plan, !.read = <<c>>]
    OBVIOUS
  <2>4. /\ e \in RequestRecord /\ e.stage = "reading" /\ e.saved = FALSE
        /\ e.read = <<c>>
    BY <2>3, ReadingEntry
  <2>5. Begin(r, q, e)
    BY <1>7, <2>2, <2>3 DEF StartConvert
  <2>6. Len(e.read) = 1
    BY <2>4
  <2>7. RequestsTyped'
    BY <2>1, <2>5, <2>6, <2>4, Begins
  <2> QED
    BY <2>1, <2>7, RowsKept
<1>8. ASSUME NEW r \in Requests, MarkSent(r)
      PROVE  RowsTyped' /\ RequestsTyped'
  <2>1. request[r].stage = "mailing" /\ UNCHANGED <<filed, says, converted, raised>>
    BY <1>8 DEF MarkSent
  <2>2. PICK q \in Quotes : q = request[r].quote /\ status[q] # "none"
    BY <2>1, AtWork
  <2>3. CASE status[q] \in {"draft", "sent"}
    <3>1. status' = [status EXCEPT ![q] = "sent"] /\ EndWriting(r, q, FALSE)
      BY <1>8, <2>2, <2>3 DEF MarkSent
    <3>2. status' \in [Quotes -> {"none", "draft", "sent", "accepted"}]
      BY <3>1, Typed
    <3>3. StaysRaised
      BY <3>1, Typed DEF StaysRaised
    <3>4. RequestsTyped'
      BY <3>1, <3>3, RequestsAfter
    <3> QED
      BY <2>1, <3>2, <3>4, Typed DEF RowsTyped
  <2>4. CASE status[q] \notin {"draft", "sent"}
    <3>1. UNCHANGED <<status, filed, says, converted, raised>> /\ End(r)
      BY <1>8, <2>2, <2>4 DEF MarkSent
    <3> QED
      BY <3>1, RowsKept, Ends
  <2> QED
    BY <2>3, <2>4
<1>9. ASSUME NEW r \in Requests, EditLost(r)
      PROVE  RowsTyped' /\ RequestsTyped'
  BY <1>9, RowsKept, Ends DEF EditLost
<1>10. ASSUME NEW r \in Requests, NEW c \in Figures, SaveEdit(r, c)
      PROVE  RowsTyped' /\ RequestsTyped'
  <2>1. request[r].stage = "editing" /\ UNCHANGED <<status, filed, converted, raised>>
    BY <1>10 DEF SaveEdit, Write
  <2>2. PICK q \in Quotes : q = request[r].quote
    BY <2>1, AtWork
  <2>3. PICK edited \in BOOLEAN : EndWriting(r, q, edited)
    BY <1>10, <2>2 DEF SaveEdit, Write
  <2>4. StaysRaised
    BY <2>1 DEF StaysRaised
  <2>5. RequestsTyped'
    BY <2>3, <2>4, RequestsAfter
  <2>6. says' \in [Quotes -> Saying]
    BY <1>10, <2>2, Typed, AlikeTyped DEF SaveEdit, Write
  <2> QED
    BY <2>1, <2>5, <2>6, Typed DEF RowsTyped
<1>11. ASSUME NEW r \in Requests, StartAccepted(r)
       PROVE  RowsTyped' /\ RequestsTyped'
  <2>1. /\ request[r].stage = "accepting"
        /\ UNCHANGED <<status, filed, says, converted, raised>>
    BY <1>11 DEF StartAccepted
  <2>2. PICK q \in Quotes : q = request[r].quote /\ status[q] # "none"
    BY <2>1, AtWork
  <2>3. RowsTyped' /\ StaysRaised
    BY <2>1, RowsKept
  <2>4. CASE Convertible(q)
    <3>1. PICK c \in Figures : c = says[q].row
      BY Typed DEF Saying
    <3>2. PICK w \in RequestRecord : w = request[r]
      BY Typed
    <3>3. PICK v : v = [w EXCEPT !.stage = "reading", !.read = <<c>>, !.saved = FALSE]
      OBVIOUS
    <3>4. request' = [request EXCEPT ![r].stage = "reading",
                                     ![r].read = <<says[q].row>>,
                                     ![r].saved = FALSE]
      BY <1>11, <2>2, <2>4 DEF StartAccepted
    <3>5. request' = [request EXCEPT ![r] = v]
      BY <3>1, <3>2, <3>3, <3>4, Typed
    <3>6. <<c>> \in Seq(Figures) /\ Len(<<c>>) = 1
      OBVIOUS
    <3>7. v \in RequestRecord
      BY <3>3, <3>6 DEF RequestRecord
    <3>8. v.stage = "reading" /\ v.quote = q /\ v.read = <<c>> /\ v.saved = FALSE
      BY <2>2, <3>2, <3>3 DEF RequestRecord
    <3>9. RequestOK(v)'
      BY <2>1, <2>2, <3>6, <3>8 DEF RequestOK
    <3> QED
      BY <2>3, <3>5, <3>7, <3>9, OneRequest
  <2>5. CASE ~Convertible(q)
    BY <1>11, <2>2, <2>3, <2>5, Ends DEF StartAccepted
  <2> QED
    BY <2>4, <2>5
<1>12. ASSUME NEW r \in Requests, ReadOn(r)
       PROVE  RowsTyped' /\ RequestsTyped'
  <2>1. /\ request[r].stage = "reading"
        /\ UNCHANGED <<status, filed, says, converted, raised>>
    BY <1>12 DEF ReadOn
  <2>2. PICK q \in Quotes : q = request[r].quote /\ status[q] # "none"
    BY <2>1, AtWork
  <2>3. RowsTyped' /\ StaysRaised
    BY <2>1, RowsKept
  <2>4. PICK w \in RequestRecord : w = request[r]
    BY Typed
  <2>5. PICK c \in Figures :
          c = IF w.plan = <<>> THEN says[q].lines ELSE says[q].bands
    BY Typed DEF Saying
  <2>6. PICK v : v = [w EXCEPT !.stage = "raising", !.read = @ \o <<c>>]
    OBVIOUS
  <2>7. request' = [request EXCEPT ![r].stage = "raising",
           ![r].read = @ \o <<IF request[r].plan = <<>> THEN says[q].lines
                              ELSE says[q].bands>>]
    BY <1>12, <2>2 DEF ReadOn
  <2>8. request' = [request EXCEPT ![r] = v]
    BY <2>4, <2>5, <2>6, <2>7, Typed
  <2>9. w.read \in Seq(Figures) /\ Len(w.read) = 1 /\ (w.saved => w.moved)
    BY <2>1, <2>4, Typed DEF RequestOK, RequestRecord
  <2>10. w.read \o <<c>> \in Seq(Figures) /\ Len(w.read \o <<c>>) = 2
    BY <2>9, ReadsOn
  <2>11. v \in RequestRecord
    BY <2>6, <2>10 DEF RequestRecord
  <2>12. /\ v.stage = "raising" /\ v.quote = q /\ v.read = w.read \o <<c>>
         /\ v.saved = w.saved /\ v.moved = w.moved
    BY <2>2, <2>4, <2>6 DEF RequestRecord
  <2>13. RequestOK(v)'
    BY <2>1, <2>2, <2>9, <2>10, <2>12 DEF RequestOK
  <2> QED
    BY <2>3, <2>8, <2>11, <2>13, OneRequest
<1>13. ASSUME NEW r \in Requests, Raise(r)
       PROVE  RowsTyped' /\ RequestsTyped'
  <2>1. request[r].stage = "raising" /\ UNCHANGED <<filed, says>>
    BY <1>13 DEF Raise
  <2>2. PICK q \in Quotes : q = request[r].quote /\ status[q] # "none"
    BY <2>1, AtWork
  <2>3. CASE converted[q]
    <3>1. UNCHANGED <<status, filed, says, converted, raised>> /\ End(r)
      BY <1>13, <2>1, <2>2, <2>3 DEF Raise
    <3> QED
      BY <3>1, RowsKept, Ends
  <2>4. CASE ~converted[q]
    <3>1. /\ raised' = [raised EXCEPT ![q] = Append(@, InvoiceFrom(r))]
          /\ converted' = [converted EXCEPT ![q] = TRUE]
          /\ status' = [status EXCEPT ![q] = "accepted"]
          /\ EndWriting(r, q, FALSE)
      BY <1>13, <2>2, <2>4 DEF Raise
    <3>2. status' \in [Quotes -> {"none", "draft", "sent", "accepted"}]
      BY <3>1, Typed
    <3>3. converted' \in [Quotes -> BOOLEAN]
      BY <3>1, Typed
    <3>4. raised' \in [Quotes -> Seq(InvoiceRecord)]
      <4>1. PICK v \in InvoiceRecord : v = InvoiceFrom(r)
        BY <2>1, InvoiceTyped
      <4>2. Append(raised[q], v) \in Seq(InvoiceRecord)
        BY Typed
      <4> QED
        BY <3>1, <4>1, <4>2, Typed
    <3>5. StaysRaised
      BY <3>1, Typed DEF StaysRaised
    <3>6. RequestsTyped'
      BY <3>1, <3>5, RequestsAfter
    <3> QED
      BY <2>1, <3>2, <3>3, <3>4, <3>6, Typed DEF RowsTyped
  <2> QED
    BY <2>3, <2>4
<1> QED
  BY <1>2, <1>3, <1>4, <1>5, <1>6, <1>7, <1>8, <1>9, <1>10, <1>11, <1>12, <1>13
  DEF Next

-----------------------------------------------------------------------------
(* What is read stays so, or the request is told. *)
RequestsRight == \A x \in Requests : ReadRight(request[x])

LEMMA RightKept ==
  ASSUME NEW w, NEW v, ReadRight(w), w.saved => v.saved,
         v.stage = w.stage, v.quote = w.quote, v.read = w.read,
         says'[w.quote].row = says[w.quote].row
  PROVE  ReadRight(v)'
BY DEF ReadRight

LEMMA OneRight ==
  ASSUME TypesInv, RequestsRight, NEW r \in Requests, NEW w, ReadRight(w)',
         request' = [request EXCEPT ![r] = w], UNCHANGED says
  PROVE  RequestsRight'
<1>1. ASSUME NEW x \in Requests PROVE ReadRight(request[x])'
  <2>1. CASE x = r
    <3>1. request'[x] = w
      BY <2>1, Typed
    <3> QED
      BY <3>1
  <2>2. CASE x # r
    <3>1. PICK v : v = request[x]
      OBVIOUS
    <3>2. request'[x] = v
      BY <2>2, <3>1, Typed
    <3>3. ReadRight(v)
      BY <3>1 DEF RequestsRight
    <3>4. ReadRight(v)'
      BY <3>3, RightKept
    <3> QED
      BY <3>2, <3>4
  <2> QED
    BY <2>1, <2>2
<1> QED
  BY <1>1 DEF RequestsRight

(* A write that says which figures it changed leaves every reader right or
   told. *)
LEMMA AfterRight ==
  ASSUME TypesInv, RequestsRight, NEW q \in Quotes, NEW edited \in BOOLEAN,
         \A p \in Quotes : says'[p].row = says[p].row \/ (p = q /\ edited)
  PROVE  /\ request' = After(q, edited) => RequestsRight'
         /\ \A r \in Requests : EndWriting(r, q, edited) => RequestsRight'
<1>1. PICK e : e = After(q, edited)
  OBVIOUS
<1>2. Told(e, q, edited)
  BY <1>1, AfterIs
<1>3. ASSUME NEW x \in Requests PROVE ReadRight(e[x])'
  <2>1. PICK v : v = e[x]
    OBVIOUS
  <2>2. PICK w \in RequestRecord : w = request[x]
    BY Typed
  <2>3. ReadRight(w)
    BY <2>2 DEF RequestsRight
  <2>4. v.stage = w.stage /\ v.quote = w.quote /\ v.read = w.read
    BY <1>2, <2>1, <2>2, Zenon DEF Told
  <2>5. w.quote # q => v.saved = w.saved
    BY <1>2, <2>1, <2>2, Zenon DEF Told
  <2>6. w.quote = q => v.saved = (w.saved \/ edited)
    BY <1>2, <2>1, <2>2, Zenon DEF Told
  <2>7. w.saved => v.saved
    BY <2>5, <2>6
  <2>8. CASE w.stage \notin {"reading", "raising"}
    BY <2>1, <2>4, <2>8 DEF ReadRight
  <2>9. CASE w.stage \in {"reading", "raising"}
    <3>1. w.quote \in Quotes
      BY <2>2, <2>9, AtWork
    <3>2. CASE says'[w.quote].row = says[w.quote].row
      BY <2>1, <2>3, <2>4, <2>7, <3>2, RightKept
    <3>3. CASE w.quote = q /\ edited
      <4>1. v.saved = TRUE
        BY <2>6, <3>3
      <4> QED
        BY <2>1, <4>1 DEF ReadRight
    <3> QED
      BY <3>1, <3>2, <3>3
  <2> QED
    BY <2>8, <2>9
<1>4. ASSUME request' = After(q, edited) PROVE RequestsRight'
  <2>1. request' = e
    BY <1>1, <1>4
  <2> QED
    BY <1>3, <2>1 DEF RequestsRight
<1>5. ASSUME NEW r \in Requests, EndWriting(r, q, edited) PROVE RequestsRight'
  <2>1. request' = [e EXCEPT ![r] = Idle]
    BY <1>1, <1>5 DEF EndWriting
  <2>2. e \in [Requests -> RequestRecord]
    BY <1>2 DEF Told
  <2>3. ASSUME NEW x \in Requests PROVE ReadRight(request[x])'
    <3>1. CASE x = r
      <4>1. request'[x] = Idle
        BY <2>1, <2>2, <3>1
      <4> QED
        BY <4>1, IdleOK
    <3>2. CASE x # r
      <4>1. request'[x] = e[x]
        BY <2>1, <2>2, <3>2
      <4> QED
        BY <1>3, <4>1
    <3> QED
      BY <3>1, <3>2
  <2> QED
    BY <2>3 DEF RequestsRight
<1> QED
  BY <1>4, <1>5

LEMMA ReadsAre == ReadsInv <=> (\A q \in Quotes : says[q] = Alike(says[q].row)) /\ RequestsRight
BY DEF ReadsInv, RequestsRight

LEMMA ReadsStart == Init /\ TypesInv => ReadsInv
<1> SUFFICES ASSUME Init, TypesInv PROVE ReadsInv
  OBVIOUS
<1>1. \A q \in Quotes : says[q] = Alike(says[q].row)
  <2>1. PICK c \in Figures : c = CHOOSE d \in Figures : TRUE
    BY QuotesAssumption
  <2> QED
    BY <2>1, AlikeTyped DEF Init
<1>2. \A r \in Requests : ReadRight(request[r])
  BY IdleTyped DEF Init, ReadRight
<1> QED
  BY <1>1, <1>2 DEF ReadsInv

LEMMA ReadsStep == TypesInv /\ ReadsInv /\ [Next]_vars => ReadsInv'
<1> SUFFICES ASSUME TypesInv, ReadsInv, [Next]_vars PROVE ReadsInv'
  OBVIOUS
<1> DEFINE AlikeStill == \A q \in Quotes : says'[q] = Alike(says'[q].row)
<1>1. RequestsRight /\ \A q \in Quotes : says[q] = Alike(says[q].row)
  BY ReadsAre
<1>2. SUFFICES AlikeStill /\ RequestsRight'
  BY DEF ReadsInv, RequestsRight
<1>3. UNCHANGED says => AlikeStill
  BY <1>1
<1> HIDE DEF AlikeStill
<1>4. ASSUME NEW r \in Requests, End(r), UNCHANGED says PROVE RequestsRight'
  BY <1>1, <1>4, IdleOK, OneRight DEF End
<1>5. CASE UNCHANGED vars
  <2>1. UNCHANGED says /\ UNCHANGED request
    BY <1>5 DEF vars
  <2>2. ASSUME NEW x \in Requests PROVE ReadRight(request[x])'
    <3>1. PICK w : w = request[x]
      OBVIOUS
    <3>2. ReadRight(w)'
      BY <1>1, <2>1, <3>1, RightKept DEF RequestsRight
    <3> QED
      BY <2>1, <3>1, <3>2
  <2> QED
    BY <1>3, <2>1, <2>2 DEF RequestsRight
<1>6. ASSUME NEW q \in Quotes, NEW c \in Figures, WriteQuote(q, c)
      PROVE  AlikeStill /\ RequestsRight'
  <2>1. UNCHANGED request /\ status[q] = "none"
    BY <1>6 DEF WriteQuote, Raised
  <2>2. says' = [says EXCEPT ![q] = Alike(c)]
    BY <1>6 DEF WriteQuote
  <2>3. AlikeStill
    BY <1>1, <2>2, Typed, AlikeTyped DEF AlikeStill
  <2>4. ASSUME NEW x \in Requests PROVE ReadRight(request[x])'
    <3>1. PICK w : w = request[x]
      OBVIOUS
    <3>2. ReadRight(w)
      BY <1>1, <3>1 DEF RequestsRight
    <3>3. CASE w.stage \notin {"reading", "raising"}
      BY <2>1, <3>1, <3>3 DEF ReadRight
    <3>4. CASE w.stage \in {"reading", "raising"}
      <4>1. w.quote \in Quotes /\ w.quote # q
        BY <2>1, <3>1, <3>4, AtWork
      <4>2. says'[w.quote] = says[w.quote]
        BY <2>2, <4>1, Typed
      <4>3. ReadRight(w)'
        BY <3>2, <4>2, RightKept
      <4> QED
        BY <2>1, <3>1, <4>3
    <3> QED
      BY <3>3, <3>4
  <2> QED
    BY <2>3, <2>4 DEF RequestsRight
<1>7. ASSUME NEW q \in Quotes, FileQuote(q) \/ RestoreQuote(q)
      PROVE  AlikeStill /\ RequestsRight'
  <2>1. UNCHANGED says /\ request' = After(q, FALSE)
    BY <1>7 DEF FileQuote, RestoreQuote
  <2>2. RequestsRight'
    BY <1>1, <2>1, AfterRight
  <2> QED
    BY <1>3, <2>1, <2>2
<1>8. ASSUME NEW r \in Requests, NEW q \in Quotes,
             \/ StartSend(r, q)
             \/ Accept(r, q)
             \/ \E claims \in BOOLEAN : StartEdit(r, q, claims)
      PROVE  AlikeStill /\ RequestsRight'
  <2>1. UNCHANGED says
    BY <1>8 DEF StartSend, Accept, StartEdit
  <2>2. PICK w : /\ request' = [request EXCEPT ![r] = w]
                 /\ w.stage \notin {"reading", "raising"}
    <3>1. CASE StartSend(r, q) \/ Accept(r, q)
      <4>1. PICK st \in {"mailing", "accepting"} :
              Begin(r, q, [Idle EXCEPT !.stage = st])
        BY <3>1 DEF StartSend, Accept
      <4>2. PICK e \in RequestRecord : e = [Idle EXCEPT !.stage = st] /\ e.stage = st
        BY Entries
      <4>3. PICK w : w = [e EXCEPT !.quote = q]
        OBVIOUS
      <4>4. w.stage = st
        BY <4>2, <4>3 DEF RequestRecord
      <4>5. request' = [request EXCEPT ![r] = w]
        BY <4>1, <4>2, <4>3 DEF Begin
      <4> QED
        BY <4>4, <4>5
    <3>2. CASE \E claims \in BOOLEAN : StartEdit(r, q, claims)
      <4>1. PICK claims \in BOOLEAN : StartEdit(r, q, claims)
        BY <3>2
      <4>2. PICK e \in RequestRecord :
              /\ e = [Idle EXCEPT !.stage = "editing", !.claims = claims]
              /\ e.stage = "editing"
        BY Entries
      <4>3. PICK w : w = [e EXCEPT !.quote = q]
        OBVIOUS
      <4>4. w.stage = "editing"
        BY <4>2, <4>3 DEF RequestRecord
      <4>5. request' = [request EXCEPT ![r] = w]
        BY <4>1, <4>2, <4>3 DEF StartEdit, Begin
      <4> QED
        BY <4>4, <4>5
    <3> QED
      BY <1>8, <3>1, <3>2
  <2>3. ReadRight(w)'
    BY <2>2 DEF ReadRight
  <2>4. RequestsRight'
    BY <1>1, <2>1, <2>2, <2>3, OneRight
  <2> QED
    BY <1>3, <2>1, <2>4
<1>9. ASSUME NEW r \in Requests, NEW q \in Quotes, NEW plan \in {<<>>} \cup Plans,
             StartConvert(r, q, plan)
      PROVE  AlikeStill /\ RequestsRight'
  <2>1. UNCHANGED says
    BY <1>9 DEF StartConvert
  <2>2. PICK c \in Figures : c = says[q].row
    BY Typed DEF Saying
  <2>3. PICK e : e = [Idle EXCEPT !.stage = "reading", !.plan = plan, !.read = <<c>>]
    OBVIOUS
  <2>4. e \in RequestRecord /\ e.read = <<c>>
    BY <2>3, ReadingEntry
  <2>5. PICK w : w = [e EXCEPT !.quote = q]
    OBVIOUS
  <2>6. w.quote = q /\ w.read = <<c>>
    BY <2>4, <2>5 DEF RequestRecord
  <2>7. request' = [request EXCEPT ![r] = w]
    BY <1>9, <2>2, <2>3, <2>5 DEF StartConvert, Begin
  <2>8. ReadRight(w)'
    <3>1. \A k \in 1 .. Len(<<c>>) : <<c>>[k] = c
      OBVIOUS
    <3> QED
      BY <2>1, <2>2, <2>6, <3>1 DEF ReadRight
  <2>9. RequestsRight'
    BY <1>1, <2>1, <2>7, <2>8, OneRight
  <2> QED
    BY <1>3, <2>1, <2>9
<1>10. ASSUME NEW r \in Requests, MarkSent(r)
      PROVE  AlikeStill /\ RequestsRight'
  <2>1. UNCHANGED says /\ request[r].stage = "mailing"
    BY <1>10 DEF MarkSent
  <2>2. PICK q \in Quotes : q = request[r].quote
    BY <2>1, AtWork
  <2>3. EndWriting(r, q, FALSE) \/ End(r)
    BY <1>10, <2>2 DEF MarkSent
  <2>4. RequestsRight'
    BY <1>1, <1>4, <2>1, <2>3, AfterRight
  <2> QED
    BY <1>3, <2>1, <2>4
<1>11. ASSUME NEW r \in Requests, EditLost(r)
      PROVE  AlikeStill /\ RequestsRight'
  BY <1>3, <1>4, <1>11 DEF EditLost
<1>12. ASSUME NEW r \in Requests, NEW c \in Figures, SaveEdit(r, c)
      PROVE  AlikeStill /\ RequestsRight'
  <2>1. request[r].stage = "editing"
    BY <1>12 DEF SaveEdit
  <2>2. PICK q \in Quotes : q = request[r].quote
    BY <2>1, AtWork
  <2>3. says' = [says EXCEPT ![q] = Alike(c)]
    BY <1>12, <2>2 DEF SaveEdit, Write
  <2>4. PICK edited \in BOOLEAN : edited = (c # says[q].row)
    OBVIOUS
  <2>5. EndWriting(r, q, edited)
    BY <1>12, <2>2, <2>4 DEF SaveEdit, Write
  <2>6. ASSUME NEW p \in Quotes
        PROVE  says'[p].row = says[p].row \/ (p = q /\ edited)
    BY <2>3, <2>4, Typed, AlikeTyped
  <2>7. AlikeStill
    BY <1>1, <2>3, Typed, AlikeTyped DEF AlikeStill
  <2>8. RequestsRight'
    BY <1>1, <2>5, <2>6, AfterRight
  <2> QED
    BY <2>7, <2>8
<1>13. ASSUME NEW r \in Requests, StartAccepted(r)
      PROVE  AlikeStill /\ RequestsRight'
  <2>1. UNCHANGED says /\ request[r].stage = "accepting"
    BY <1>13 DEF StartAccepted
  <2>2. PICK q \in Quotes : q = request[r].quote
    BY <2>1, AtWork
  <2>3. CASE Convertible(q)
    <3>1. PICK c \in Figures : c = says[q].row
      BY Typed DEF Saying
    <3>2. PICK w \in RequestRecord : w = request[r]
      BY Typed
    <3>3. PICK v : v = [w EXCEPT !.stage = "reading", !.read = <<c>>, !.saved = FALSE]
      OBVIOUS
    <3>4. request' = [request EXCEPT ![r].stage = "reading",
                                     ![r].read = <<says[q].row>>,
                                     ![r].saved = FALSE]
      BY <1>13, <2>2, <2>3 DEF StartAccepted
    <3>5. request' = [request EXCEPT ![r] = v]
      BY <3>1, <3>2, <3>3, <3>4, Typed
    <3>6. v.quote = q /\ v.read = <<c>>
      BY <2>2, <3>2, <3>3 DEF RequestRecord
    <3>7. ReadRight(v)'
      <4>1. \A k \in 1 .. Len(<<c>>) : <<c>>[k] = c
        OBVIOUS
      <4> QED
        BY <2>1, <3>1, <3>6, <4>1 DEF ReadRight
    <3>8. RequestsRight'
      BY <1>1, <2>1, <3>5, <3>7, OneRight
    <3> QED
      BY <1>3, <2>1, <3>8
  <2>4. CASE ~Convertible(q)
    BY <1>13, <1>3, <1>4, <2>1, <2>2, <2>4 DEF StartAccepted
  <2> QED
    BY <2>3, <2>4
<1>14. ASSUME NEW r \in Requests, ReadOn(r)
       PROVE  AlikeStill /\ RequestsRight'
  <2>1. UNCHANGED says /\ request[r].stage = "reading"
    BY <1>14 DEF ReadOn
  <2>2. PICK q \in Quotes : q = request[r].quote
    BY <2>1, AtWork
  <2>3. PICK w \in RequestRecord : w = request[r]
    BY Typed
  <2>4. PICK c \in Figures : c = says[q].row
    BY Typed DEF Saying
  <2>5. c = IF w.plan = <<>> THEN says[q].lines ELSE says[q].bands
    <3>1. says[q] = Alike(c)
      BY <1>1, <2>4
    <3>2. says[q].lines = c /\ says[q].bands = c
      BY <3>1 DEF Alike
    <3> QED
      BY <3>2
  <2>6. PICK v : v = [w EXCEPT !.stage = "raising", !.read = @ \o <<c>>]
    OBVIOUS
  <2>7. request' = [request EXCEPT ![r].stage = "raising",
           ![r].read = @ \o <<IF request[r].plan = <<>> THEN says[q].lines
                              ELSE says[q].bands>>]
    BY <1>14, <2>2 DEF ReadOn
  <2>8. request' = [request EXCEPT ![r] = v]
    BY <2>3, <2>5, <2>6, <2>7, Typed
  <2>9. w.read \in Seq(Figures) /\ Len(w.read) = 1
    BY <2>1, <2>3, Typed DEF RequestOK, RequestRecord
  <2>10. v.quote = q /\ v.read = w.read \o <<c>> /\ v.saved = w.saved
    BY <2>2, <2>3, <2>6 DEF RequestRecord
  <2>11. ReadRight(v)'
    <3>1. ~w.saved => w.read[1] = c
      BY <1>1, <2>1, <2>2, <2>3, <2>4, <2>9 DEF RequestsRight, ReadRight
    <3>2. /\ Len(w.read \o <<c>>) = 2
          /\ (w.read \o <<c>>)[1] = w.read[1] /\ (w.read \o <<c>>)[2] = c
      BY <2>9, ReadsOn
    <3>3. PICK s : s = w.read \o <<c>>
      OBVIOUS
    <3>4. ~w.saved => \A k \in 1 .. Len(s) : s[k] = c
      <4>1. \A k \in 1 .. 2 : k = 1 \/ k = 2
        OBVIOUS
      <4> QED
        BY <3>1, <3>2, <3>3, <4>1
    <3> QED
      BY <2>1, <2>4, <2>10, <3>3, <3>4 DEF ReadRight
  <2>12. RequestsRight'
    BY <1>1, <2>1, <2>8, <2>11, OneRight
  <2> QED
    BY <1>3, <2>1, <2>12
<1>15. ASSUME NEW r \in Requests, Raise(r)
       PROVE  AlikeStill /\ RequestsRight'
  <2>1. UNCHANGED says /\ request[r].stage = "raising"
    BY <1>15 DEF Raise
  <2>2. PICK q \in Quotes : q = request[r].quote
    BY <2>1, AtWork
  <2>3. EndWriting(r, q, FALSE) \/ End(r)
    BY <1>15, <2>2 DEF Raise
  <2>4. RequestsRight'
    BY <1>1, <1>4, <2>1, <2>3, AfterRight
  <2> QED
    BY <1>3, <2>1, <2>4
<1> QED
  BY <1>5, <1>6, <1>7, <1>8, <1>9, <1>10, <1>11, <1>12, <1>13, <1>14, <1>15 DEF Next

-----------------------------------------------------------------------------
(* A quote is billed once, and for what it says. *)
LEMMA BilledRight ==
  ASSUME TypesInv, ReadsInv, NEW r \in Requests, NEW q \in Quotes,
         request[r].stage = "raising", q = request[r].quote,
         NEW v, v = InvoiceFrom(r), v.undisturbed
  PROVE  v.from = says[q] /\ SharesOf(v.parts, Len(v.parts)) = says[q].row
<1>1. PICK w \in RequestRecord : w = request[r]
  BY Typed
<1>2. Len(w.read) = 2
  BY <1>1, Typed DEF RequestOK
<1>3. PICK c \in Figures : c = says[q].row
  BY Typed DEF Saying
<1>4. says[q] = [row |-> c, lines |-> c, bands |-> c]
  BY <1>3 DEF ReadsInv, Alike
<1>5. says[q].bands = c
  BY <1>4
<1>6. v.undisturbed = ~w.saved
  BY <1>1 DEF InvoiceFrom
<1>7. \A k \in 1 .. 2 : w.read[k] = c
  <2>1. ~w.saved
    BY <1>6
  <2>2. ReadRight(w)
    BY <1>1 DEF ReadsInv
  <2>3. \A k \in 1 .. Len(w.read) : w.read[k] = c
    BY <1>1, <1>3, <2>1, <2>2 DEF ReadRight
  <2> QED
    BY <1>2, <2>3
<1>8. w.read[1] = c /\ w.read[2] = c
  BY <1>7
<1>9. c \in Int
  BY QuotesAssumption
<1>10. CASE w.plan = <<>>
  <2>1. v.from = [row |-> c, lines |-> c, bands |-> c] /\ v.parts = <<c>>
    BY <1>1, <1>5, <1>8, <1>10 DEF InvoiceFrom
  <2>2. SharesOf(<<c>>, 1) = c
    BY <1>9, OneInvoiceIsTheWhole
  <2>3. Len(<<c>>) = 1
    OBVIOUS
  <2> QED
    BY <1>3, <1>4, <2>1, <2>2, <2>3
<1>11. CASE w.plan # <<>>
  <2>1. /\ v.from = [row |-> c, lines |-> c, bands |-> c]
        /\ v.parts = Instalments(c, c, w.plan)
    BY <1>1, <1>8, <1>11 DEF InvoiceFrom
  <2>2. w.plan \in Plans
    BY <1>11 DEF RequestRecord
  <2>3. Len(Instalments(c, c, w.plan)) = Len(w.plan)
    BY <1>9, <2>2, InstalmentsTyped
  <2>4. SharesOf(Instalments(c, c, w.plan), Len(w.plan)) = c
    BY <1>9, <2>2, InstalmentsComeToTheWhole
  <2> QED
    BY <1>3, <1>4, <2>1, <2>3, <2>4
<1> QED
  BY <1>10, <1>11

BilledOn(q) ==
  (converted[q] <=> status[q] = "accepted") /\ ConvertedOnce(q) /\ InvoicedAsQuoted(q)

LEMMA QuotesAre ==
  QuotesInv <=> TypesInv /\ ReadsInv /\ \A q \in Quotes : BilledOn(q)
BY DEF QuotesInv, ConvertedInv, BilledOn

LEMMA BilledStart == Init /\ TypesInv => \A q \in Quotes : BilledOn(q)
<1> SUFFICES ASSUME Init, TypesInv, NEW q \in Quotes PROVE BilledOn(q)
  OBVIOUS
<1>1. raised[q] = <<>> /\ ~converted[q] /\ status[q] = "none"
  BY DEF Init
<1>2. Len(<<>>) = 0
  BY EmptySeq
<1>3. ConvertedOnce(q)
  BY <1>1, <1>2 DEF ConvertedOnce
<1>4. InvoicedAsQuoted(q)
  <2>1. ~\E k \in 1 .. 0 : TRUE
    OBVIOUS
  <2> QED
    BY <1>1, <1>2, <2>1 DEF InvoicedAsQuoted
<1> QED
  BY <1>1, <1>3, <1>4 DEF BilledOn

(* One that has not been converted may say what it likes; one that has keeps
   what it says. *)
LEMMA BilledKept ==
  ASSUME NEW q \in Quotes, BilledOn(q), converted'[q] = converted[q],
         raised'[q] = raised[q], status'[q] = "accepted" <=> status[q] = "accepted",
         converted[q] => says'[q] = says[q]
  PROVE  BilledOn(q)'
<1>1. converted'[q] <=> status'[q] = "accepted"
  BY DEF BilledOn
<1>2. ConvertedOnce(q)'
  BY DEF BilledOn, ConvertedOnce
<1>3. InvoicedAsQuoted(q)'
  <2>1. CASE converted[q]
    BY <2>1 DEF BilledOn, InvoicedAsQuoted
  <2>2. CASE ~converted[q]
    <3>1. raised'[q] = <<>> /\ Len(<<>>) = 0
      BY <2>2, EmptySeq DEF BilledOn, ConvertedOnce
    <3>2. ~\E k \in 1 .. 0 : TRUE
      OBVIOUS
    <3> QED
      BY <3>1, <3>2 DEF InvoicedAsQuoted
  <2> QED
    BY <2>1, <2>2
<1> QED
  BY <1>1, <1>2, <1>3 DEF BilledOn

LEMMA BilledStep ==
  QuotesInv /\ [Next]_vars => (\A q \in Quotes : BilledOn(q))'
<1> SUFFICES ASSUME QuotesInv, [Next]_vars, NEW q \in Quotes PROVE BilledOn(q)'
  OBVIOUS
<1>1. TypesInv /\ ReadsInv /\ BilledOn(q)
  BY QuotesAre
<1>2. ASSUME UNCHANGED <<status, says, converted, raised>> PROVE BilledOn(q)'
  BY <1>1, <1>2, BilledKept
<1>3. CASE UNCHANGED vars
  BY <1>2, <1>3 DEF vars
<1>4. ASSUME NEW p \in Quotes, NEW c \in Figures, WriteQuote(p, c)
      PROVE  BilledOn(q)'
  <2>1. UNCHANGED <<converted, raised>> /\ status[p] = "none"
    BY <1>4 DEF WriteQuote, Raised
  <2>2. status' = [status EXCEPT ![p] = "draft"] /\ says' = [says EXCEPT ![p] = Alike(c)]
    BY <1>4 DEF WriteQuote
  <2>3. status'[q] = "accepted" <=> status[q] = "accepted"
    BY <1>1, <2>1, <2>2, Typed
  <2>4. converted[q] => says'[q] = says[q]
    <3>1. converted[q] => q # p
      BY <1>1, <2>1 DEF BilledOn
    <3> QED
      BY <1>1, <2>2, <3>1, Typed
  <2> QED
    BY <1>1, <2>1, <2>3, <2>4, BilledKept
<1>5. ASSUME NEW p \in Quotes, FileQuote(p) \/ RestoreQuote(p)
      PROVE  BilledOn(q)'
  BY <1>2, <1>5 DEF FileQuote, RestoreQuote
<1>6. ASSUME NEW r \in Requests, NEW p \in Quotes,
             \/ StartSend(r, p)
             \/ Accept(r, p)
             \/ \E claims \in BOOLEAN : StartEdit(r, p, claims)
             \/ \E plan \in {<<>>} \cup Plans : StartConvert(r, p, plan)
      PROVE  BilledOn(q)'
  BY <1>2, <1>6 DEF StartSend, Accept, StartEdit, StartConvert
<1>7. ASSUME NEW r \in Requests, MarkSent(r)
      PROVE  BilledOn(q)'
  <2>1. UNCHANGED <<says, converted, raised>> /\ request[r].stage = "mailing"
    BY <1>7 DEF MarkSent
  <2>2. PICK p \in Quotes : p = request[r].quote
    BY <1>1, <2>1, AtWork
  <2>3. \/ status[p] \in {"draft", "sent"} /\ status' = [status EXCEPT ![p] = "sent"]
        \/ UNCHANGED status
    BY <1>7, <2>2 DEF MarkSent
  <2>4. status'[q] = "accepted" <=> status[q] = "accepted"
    BY <1>1, <2>3, Typed
  <2> QED
    BY <1>1, <2>1, <2>4, BilledKept
<1>8. ASSUME NEW r \in Requests, EditLost(r) \/ StartAccepted(r) \/ ReadOn(r)
      PROVE  BilledOn(q)'
  BY <1>2, <1>8 DEF EditLost, StartAccepted, ReadOn
<1>9. ASSUME NEW r \in Requests, NEW c \in Figures, SaveEdit(r, c)
      PROVE  BilledOn(q)'
  <2>1. /\ UNCHANGED <<status, converted, raised>>
        /\ request[r].stage = "editing" /\ ~converted[request[r].quote]
    BY <1>9 DEF SaveEdit, Write
  <2>2. says' = [says EXCEPT ![request[r].quote] = Alike(c)]
    BY <1>9 DEF SaveEdit, Write
  <2>3. converted[q] => says'[q] = says[q]
    <3>1. converted[q] => q # request[r].quote
      BY <2>1
    <3> QED
      BY <1>1, <2>2, <3>1, Typed
  <2> QED
    BY <1>1, <2>1, <2>3, BilledKept
<1>10. ASSUME NEW r \in Requests, Raise(r)
      PROVE  BilledOn(q)'
  <2>1. UNCHANGED says /\ request[r].stage = "raising"
    BY <1>10 DEF Raise
  <2>2. PICK p \in Quotes : p = request[r].quote
    BY <1>1, <2>1, AtWork
  <2>3. CASE converted[p]
    <3>1. UNCHANGED <<status, says, converted, raised>>
      BY <1>10, <2>1, <2>2, <2>3 DEF Raise
    <3> QED
      BY <1>2, <3>1
  <2>4. CASE ~converted[p]
    <3>1. PICK v \in InvoiceRecord : v = InvoiceFrom(r)
      BY <1>1, <2>1, InvoiceTyped
    <3>2. /\ raised' = [raised EXCEPT ![p] = Append(@, v)]
          /\ converted' = [converted EXCEPT ![p] = TRUE]
          /\ status' = [status EXCEPT ![p] = "accepted"]
      BY <1>10, <2>2, <2>4, <3>1 DEF Raise
    <3>3. CASE q # p
      <4>1. /\ raised'[q] = raised[q] /\ converted'[q] = converted[q]
            /\ status'[q] = status[q]
        BY <1>1, <3>2, <3>3, Typed
      <4> QED
        BY <1>1, <2>1, <4>1, BilledKept
    <3>4. CASE q = p
      <4>1. raised[q] = <<>>
        BY <1>1, <2>4, <3>4 DEF BilledOn, ConvertedOnce
      <4>2. raised'[q] = Append(raised[q], v)
        BY <1>1, <3>2, <3>4, Typed
      <4>3. raised'[q] = <<v>>
        BY <4>1, <4>2
      <4>4. Len(<<v>>) = 1 /\ <<v>>[1] = v /\ <<v>> # <<>>
        OBVIOUS
      <4>5. converted'[q] /\ status'[q] = "accepted"
        BY <1>1, <3>2, <3>4, Typed
      <4>6. ConvertedOnce(q)'
        BY <4>3, <4>4, <4>5 DEF ConvertedOnce
      <4>7. v.undisturbed =>
              v.from = says[q] /\ SharesOf(v.parts, Len(v.parts)) = says[q].row
        BY <1>1, <2>1, <2>2, <3>1, <3>4, BilledRight
      <4>8. InvoicedAsQuoted(q)'
        <5>1. \A k \in 1 .. 1 : k = 1
          OBVIOUS
        <5> QED
          BY <2>1, <4>3, <4>4, <4>7, <5>1 DEF InvoicedAsQuoted
      <4> QED
        BY <4>5, <4>6, <4>8 DEF BilledOn
    <3> QED
      BY <3>3, <3>4
  <2> QED
    BY <2>3, <2>4
<1> QED
  BY <1>3, <1>4, <1>5, <1>6, <1>7, <1>8, <1>9, <1>10 DEF Next

-----------------------------------------------------------------------------
(* The invariant holds throughout. *)
LEMMA QuotesInvStart == Init => QuotesInv
BY TypesStart, ReadsStart, BilledStart, QuotesAre

LEMMA QuotesInvStep == QuotesInv /\ [Next]_vars => QuotesInv'
<1> SUFFICES ASSUME QuotesInv, [Next]_vars PROVE QuotesInv'
  OBVIOUS
<1>1. TypesInv /\ ReadsInv
  BY QuotesAre
<1>2. TypesInv'
  BY <1>1, TypesStep
<1>3. ReadsInv'
  BY <1>1, ReadsStep
<1>4. (\A q \in Quotes : BilledOn(q))'
  BY BilledStep
<1>5. QuotesInv' <=> TypesInv' /\ ReadsInv' /\ (\A q \in Quotes : BilledOn(q))'
  BY QuotesAre, PTL
<1> QED
  BY <1>2, <1>3, <1>4, <1>5

LEMMA QuotesInvariant == Spec => []QuotesInv
BY QuotesInvStart, QuotesInvStep, PTL DEF Spec

(* Quotes, invoices and requests keep their types. *)
THEOREM QuotesTypes == Spec => []TypeOK
<1>1. QuotesInv => TypeOK
  BY DEF QuotesInv, TypesInv
<1> QED
  BY <1>1, QuotesInvariant, PTL

(* convertQuoteToInvoice and convertQuoteToInstalments (db/src/documents.ts):
   however many conversions and edits of a quote overlap, it becomes one
   invoice or one plan; and unless its figures were edited meanwhile its
   invoices bill what it says, to the cent, whatever the shares. *)
THEOREM QuotesAreBilledOnce == Spec => []BilledOnceAsQuoted
<1>1. QuotesInv => BilledOnceAsQuoted
  BY DEF QuotesInv, ConvertedInv, BilledOnceAsQuoted
<1> QED
  BY <1>1, QuotesInvariant, PTL

-----------------------------------------------------------------------------
(* The customer has answered: markQuoteSent's condition holds the mail that
   was on its way off the quote. *)
AnswerStep == \A q \in Quotes : status[q] = "accepted" => status'[q] = "accepted"

LEMMA AnswerKept == QuotesInv /\ [Next]_vars => AnswerStep
<1> SUFFICES ASSUME QuotesInv, [Next]_vars, NEW q \in Quotes, status[q] = "accepted"
             PROVE  status'[q] = "accepted"
  BY DEF AnswerStep
<1>1. TypesInv
  BY QuotesAre
<1>2. CASE UNCHANGED status
  BY <1>2
<1>3. ASSUME NEW p \in Quotes, NEW c \in Figures, WriteQuote(p, c)
      PROVE  status'[q] = "accepted"
  BY <1>1, <1>3, Typed DEF WriteQuote, Raised
<1>4. ASSUME NEW r \in Requests, MarkSent(r)
      PROVE  status'[q] = "accepted"
  BY <1>1, <1>4, Typed DEF MarkSent
<1>5. ASSUME NEW r \in Requests, Raise(r)
      PROVE  status'[q] = "accepted"
  BY <1>1, <1>5, Typed DEF Raise
<1>6. ASSUME NEW p \in Quotes, FileQuote(p) \/ RestoreQuote(p)
      PROVE  UNCHANGED status
  BY <1>6 DEF FileQuote, RestoreQuote
<1>7. ASSUME NEW r \in Requests, NEW p \in Quotes,
             \/ StartSend(r, p)
             \/ Accept(r, p)
             \/ \E claims \in BOOLEAN : StartEdit(r, p, claims)
             \/ \E plan \in {<<>>} \cup Plans : StartConvert(r, p, plan)
      PROVE  UNCHANGED status
  BY <1>7 DEF StartSend, Accept, StartEdit, StartConvert
<1>8. ASSUME NEW r \in Requests,
             \/ EditLost(r) \/ StartAccepted(r) \/ ReadOn(r)
             \/ \E c \in Figures : SaveEdit(r, c)
      PROVE  UNCHANGED status
  BY <1>8 DEF EditLost, StartAccepted, ReadOn, SaveEdit, Write
<1>9. UNCHANGED vars => UNCHANGED status
  BY DEF vars
<1> QED
  BY <1>2, <1>3, <1>4, <1>5, <1>6, <1>7, <1>8, <1>9 DEF Next

(* A quote the customer accepted is never put back on offer. *)
THEOREM AnswersStand == Spec => AnswerStands
<1>1. QuotesInv /\ [Next]_vars => [AnswerStep]_status
  BY AnswerKept
<1>2. Spec => [][AnswerStep]_status
  BY <1>1, QuotesInvariant, PTL DEF Spec
<1>3. AnswerStands <=> [][AnswerStep]_status
  BY PTL DEF AnswerStands, AnswerStep
<1> QED
  BY <1>2, <1>3

SavedUnseen ==
  /\ \A q \in Quotes : converted[q] => says'[q] = says[q]
  /\ \A r \in Requests :
       request[r].claims /\ request[r].saved => request'[r] # Idle

LEMMA SavesKept == QuotesInv /\ [Next]_vars => [SavedUnseen]_says
<1> SUFFICES ASSUME QuotesInv, [Next]_vars, says' # says PROVE SavedUnseen
  OBVIOUS
<1>1. TypesInv /\ \A q \in Quotes : BilledOn(q)
  BY QuotesAre
<1>2. \A x \in Requests : request[x].claims => request[x] # Idle
  BY IdleTyped
<1>3. ASSUME NEW p \in Quotes, NEW c \in Figures, WriteQuote(p, c)
      PROVE  SavedUnseen
  <2>1. UNCHANGED request /\ status[p] = "none"
    BY <1>3 DEF WriteQuote, Raised
  <2>2. ASSUME NEW q \in Quotes, converted[q] PROVE says'[q] = says[q]
    <3>1. q # p
      BY <1>1, <2>1, <2>2 DEF BilledOn
    <3> QED
      BY <1>3, <1>1, <3>1, Typed DEF WriteQuote
  <2> QED
    BY <1>2, <2>1, <2>2 DEF SavedUnseen
<1>4. ASSUME NEW r \in Requests, NEW c \in Figures, SaveEdit(r, c)
      PROVE  SavedUnseen
  <2>1. request[r].stage = "editing"
    BY <1>4 DEF SaveEdit
  <2>2. PICK p \in Quotes : p = request[r].quote
    BY <1>1, <2>1, AtWork
  <2>3. ~converted[p] /\ says' = [says EXCEPT ![p] = Alike(c)]
    BY <1>4, <2>2 DEF SaveEdit, Write
  <2>4. ASSUME NEW q \in Quotes, converted[q] PROVE says'[q] = says[q]
    BY <1>1, <2>3, <2>4, Typed
  <2>5. PICK edited \in BOOLEAN : EndWriting(r, p, edited)
    BY <1>4, <2>2 DEF SaveEdit, Write
  <2>6. PICK e : e = After(p, edited)
    OBVIOUS
  <2>7. Told(e, p, edited)
    BY <1>1, <2>6, AfterIs
  <2>8. request' = [e EXCEPT ![r] = Idle] /\ e \in [Requests -> RequestRecord]
    BY <2>5, <2>6, <2>7 DEF EndWriting, Told
  <2>9. ASSUME NEW x \in Requests, request[x].claims, request[x].saved
        PROVE  request'[x] # Idle
    <3>1. CASE x # r
      <4>1. request'[x] = e[x]
        BY <2>8, <3>1
      <4>2. e[x].claims = request[x].claims
        BY <2>7, Zenon DEF Told
      <4>3. e[x].claims
        BY <2>9, <4>2
      <4> QED
        BY <4>1, <4>3, IdleTyped
    <3>2. CASE x = r
      <4>1. request[r].moved
        BY <1>1, <2>9, <3>2, Typed DEF RequestOK
      <4>2. ~request[r].moved
        BY <1>4, <2>9, <3>2 DEF SaveEdit
      <4> QED
        BY <4>1, <4>2
    <3> QED
      BY <3>1, <3>2
  <2> QED
    BY <2>4, <2>9 DEF SavedUnseen
<1>5. ASSUME NEW p \in Quotes, FileQuote(p) \/ RestoreQuote(p)
      PROVE  UNCHANGED says
  BY <1>5 DEF FileQuote, RestoreQuote
<1>6. ASSUME NEW r \in Requests, NEW p \in Quotes,
             \/ StartSend(r, p)
             \/ Accept(r, p)
             \/ \E claims \in BOOLEAN : StartEdit(r, p, claims)
             \/ \E plan \in {<<>>} \cup Plans : StartConvert(r, p, plan)
      PROVE  UNCHANGED says
  BY <1>6 DEF StartSend, Accept, StartEdit, StartConvert
<1>7. ASSUME NEW r \in Requests,
             \/ MarkSent(r) \/ EditLost(r)
             \/ StartAccepted(r) \/ ReadOn(r) \/ Raise(r)
      PROVE  UNCHANGED says
  BY <1>7 DEF MarkSent, EditLost, StartAccepted, ReadOn, Raise
<1>8. UNCHANGED vars => UNCHANGED says
  BY DEF vars
<1> QED
  BY <1>3, <1>4, <1>5, <1>6, <1>7, <1>8 DEF Next

(* What an invoice was copied from is not edited afterwards, whoever had it
   open; and a save that says which version it edited never replaces figures
   that were written after its editor read them. *)
THEOREM SavesReplaceOnlyWhatWasSeen == Spec => SavesReplaceNothingUnseen
<1>1. Spec => [][SavedUnseen]_says
  BY SavesKept, QuotesInvariant, PTL DEF Spec
<1>2. SavesReplaceNothingUnseen <=> [][SavedUnseen]_says
  BY PTL DEF SavesReplaceNothingUnseen, SavedUnseen
<1> QED
  BY <1>1, <1>2
=============================================================================
