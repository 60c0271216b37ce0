------------------------- MODULE BlockRefinementProofs -------------------------
(***************************************************************************)
(* Proofs that the block endpoints give, for every transaction and         *)
(* receipt, the operations that BlockApi defines, that they implement      *)
(* BlockApi, and what the amounts of an answer add up to.                  *)
(*                                                                         *)
(* BlockApi says what a transaction and its receipt move and numbers the   *)
(* moves by their places.  The handlers get there over the fee step, the   *)
(* log loop and the status; what they have at each turn of the loop is the *)
(* moves of the transaction and of the logs read so far (MovesTo), written *)
(* as operations (Written).                                                *)
(***************************************************************************)
EXTENDS BlockRefinement, BlockServiceProofs, FiniteSetTheorems, WellFoundedInduction

-------------------------------------------------------------------------------
(* Lists of lists. *)

\* Induction, on the members of a set.
LEMMA SetInduction ==
  ASSUME NEW S, 0 \in S, \A n \in Nat : n \in S => n + 1 \in S
  PROVE  Nat \subseteq S
PROOF
<1> DEFINE T == {n \in Nat : n \notin S}
<1> SUFFICES ASSUME T # {} PROVE FALSE
  OBVIOUS
<1>1. PICK x \in T : \A y \in T : ~(<<y, x>> \in OpToRel(<, Nat))
  BY NatLessThanWellFounded, WFMin, T \subseteq Nat
<1>2. x \in Nat /\ x # 0 /\ x - 1 \in Nat /\ x - 1 < x
  OBVIOUS
<1>3. x - 1 \notin T
  BY <1>1, <1>2 DEF OpToRel
<1>4. x - 1 \in S /\ (x - 1) + 1 = x
  BY <1>2, <1>3
<1> QED
  BY <1>2, <1>4

\* What the first i of some sequences are together.
Flatten(seqs) ==
  CHOOSE f : f = [i \in 1..Len(seqs) |-> IF i = 1 THEN seqs[i] ELSE f[i-1] \o seqs[i]]

LEMMA FlattenExists ==
  ASSUME NEW seqs, Len(seqs) \in Nat
  PROVE  Flatten(seqs) = [i \in 1..Len(seqs) |->
                            IF i = 1 THEN seqs[i] ELSE Flatten(seqs)[i-1] \o seqs[i]]
PROOF
<1> DEFINE Is(f, n) == f = [i \in 1..n |-> IF i = 1 THEN seqs[i] ELSE f[i-1] \o seqs[i]]
           S == {n \in Nat : \E f : Is(f, n)}
<1>1. 0 \in S
  <2>1. Is(<<>>, 0)
    OBVIOUS
  <2> QED
    BY <2>1
<1>2. ASSUME NEW n \in Nat, n \in S
      PROVE  n + 1 \in S
  <2>1. PICK f : Is(f, n)
    BY <1>2
  <2> DEFINE last == IF n = 0 THEN seqs[1] ELSE f[n] \o seqs[n+1]
             g == [i \in 1..(n+1) |-> IF i = n + 1 THEN last ELSE f[i]]
  <2>2. DOMAIN g = 1..(n+1)
    OBVIOUS
  <2>3. ASSUME NEW i \in 1..(n+1)
        PROVE  g[i] = IF i = 1 THEN seqs[i] ELSE g[i-1] \o seqs[i]
    <3>1. CASE i = n + 1
      BY <3>1
    <3>2. CASE i # n + 1
      <4>1. i \in 1..n /\ i - 1 # n + 1 /\ (i # 1 => i - 1 \in 1..(n+1))
        BY <3>2
      <4>2. f[i] = IF i = 1 THEN seqs[i] ELSE f[i-1] \o seqs[i]
        BY <2>1, <4>1
      <4> QED
        BY <3>2, <4>1, <4>2
    <3> QED
      BY <3>1, <3>2
  <2> HIDE DEF last
  <2>4. Is(g, n + 1)
    BY <2>2, <2>3
  <2>5. n + 1 \in Nat
    OBVIOUS
  <2> HIDE DEF g, Is
  <2> QED
    BY <2>4, <2>5
<1>3. Len(seqs) \in S
  <2> HIDE DEF S
  <2> QED
    BY <1>1, <1>2, SetInduction
<1>4. \E f : Is(f, Len(seqs))
  BY <1>3
<1> QED
  BY <1>4 DEF Flatten

\* The community modules' FlattenSeq is the last of them.
LEMMA FlattenSeqIs ==
  ASSUME NEW seqs, Len(seqs) \in Nat
  PROVE  /\ Len(seqs) = 0 => Api!FlattenSeq(seqs) = seqs
         /\ Len(seqs) > 0 => Api!FlattenSeq(seqs) = Flatten(seqs)[Len(seqs)]
BY DEF Api!FlattenSeq, Flatten

First(seqs, k) == IF k = 0 THEN <<>> ELSE Flatten(seqs)[k]

LEMMA FirstSteps ==
  ASSUME NEW V, NEW seqs \in Seq(Seq(V))
  PROVE  /\ First(seqs, 0) = <<>>
         /\ \A k \in 0..Len(seqs) : First(seqs, k) \in Seq(V)
         /\ \A k \in 1..Len(seqs) : First(seqs, k) = First(seqs, k - 1) \o seqs[k]
         /\ Api!FlattenSeq(seqs) = First(seqs, Len(seqs))
PROOF
<1>1. Len(seqs) \in Nat /\ DOMAIN seqs = 1..Len(seqs)
  OBVIOUS
<1>2. ASSUME NEW k \in 1..Len(seqs)
      PROVE  First(seqs, k) = First(seqs, k - 1) \o seqs[k]
  <2>1. Flatten(seqs)[k] = IF k = 1 THEN seqs[k] ELSE Flatten(seqs)[k-1] \o seqs[k]
    BY <1>1, FlattenExists
  <2>2. seqs[k] \in Seq(V)
    BY <1>1
  <2>3. <<>> \o seqs[k] = seqs[k]
    BY <2>2
  <2>4. CASE k = 1
    BY <2>1, <2>3, <2>4 DEF First
  <2>5. CASE k # 1
    <3>1. k # 0 /\ k - 1 # 0
      BY <1>1, <2>5
    <3> QED
      BY <2>1, <2>5, <3>1 DEF First
  <2> QED
    BY <2>4, <2>5
<1> DEFINE S == {k \in Nat : k <= Len(seqs) => First(seqs, k) \in Seq(V)}
<1>3. 0 \in S
  BY DEF First
<1>4. ASSUME NEW n \in Nat, n \in S
      PROVE  n + 1 \in S
  <2> SUFFICES ASSUME n + 1 <= Len(seqs)
               PROVE  First(seqs, n + 1) \in Seq(V)
    OBVIOUS
  <2>1. First(seqs, n) \in Seq(V) /\ n + 1 \in 1..Len(seqs) /\ (n + 1) - 1 = n
    BY <1>1, <1>4
  <2>2. First(seqs, n + 1) = First(seqs, n) \o seqs[n + 1]
    BY <1>2, <2>1
  <2>3. seqs[n + 1] \in Seq(V)
    BY <1>1, <2>1
  <2> HIDE DEF S
  <2>4. \A s, t \in Seq(V) : s \o t \in Seq(V)
    OBVIOUS
  <2> QED
    BY <2>1, <2>2, <2>3, <2>4
<1>5. \A k \in 0..Len(seqs) : First(seqs, k) \in Seq(V)
  <2> HIDE DEF S
  <2>1. Nat \subseteq S
    BY <1>3, <1>4, SetInduction
  <2> QED
    BY <1>1, <2>1 DEF S
<1>6. Api!FlattenSeq(seqs) = First(seqs, Len(seqs))
  <2>1. CASE Len(seqs) = 0
    <3>1. seqs = <<>>
      BY <2>1
    <3> QED
      BY <2>1, <3>1, FlattenSeqIs DEF First
  <2>2. CASE Len(seqs) # 0
    BY <1>1, <2>2, FlattenSeqIs DEF First
  <2> QED
    BY <2>1, <2>2
<1> QED
  BY <1>2, <1>5, <1>6 DEF First

-------------------------------------------------------------------------------
(* Moves, and the operations that are written for them. *)

Moved == [type : OperationTypes \cup {"WITHDRAWN"}, account : Address \cup {None},
          amount : Int \cup {None}, paired : BOOLEAN]

\* The i-th operation, before the receipt's status is known.
WrittenAt(move, i) ==
  [index |-> i - 1, related |-> IF move.paired THEN {i - 2} ELSE {},
   type |-> move.type, status |-> SuccessStatus,
   account |-> move.account, amount |-> move.amount]

Written(moves) == [i \in DOMAIN moves |-> WrittenAt(moves[i], i)]

LEMMA MoveType ==
  ASSUME NEW type \in OperationTypes \cup {"WITHDRAWN"},
         NEW account \in Address \cup {None}, NEW amount \in Int \cup {None}
  PROVE  /\ Api!Move(type, account, amount) \in Moved
         /\ Api!Credit(type, account, amount) \in Moved
BY DEF Api!Move, Api!Credit, Moved

LEMMA SeqIsFunction ==
  ASSUME NEW V, NEW s \in Seq(V)
  PROVE  s = [i \in 1..Len(s) |-> s[i]]
OBVIOUS

LEMMA Concatenated ==
  ASSUME NEW V, NEW s \in Seq(V), NEW t \in Seq(V)
  PROVE  /\ s \o t \in Seq(V) /\ Len(s \o t) = Len(s) + Len(t)
         /\ \A i \in 1..Len(s) : (s \o t)[i] = s[i]
         /\ \A i \in 1..Len(t) : (s \o t)[Len(s) + i] = t[i]
OBVIOUS

LEMMA FourTogether ==
  ASSUME NEW a, NEW b, NEW c, NEW d
  PROVE  << a, b >> \o << c, d >> = << a, b, c, d >>
PROOF
<1> DEFINE V == {a, b, c, d}
           s == << a, b >>
           t == << c, d >>
           x == s \o t
<1>1. s \in Seq(V) /\ t \in Seq(V) /\ Len(s) = 2 /\ Len(t) = 2
  OBVIOUS
<1>2. s[1] = a /\ s[2] = b /\ t[1] = c /\ t[2] = d
  OBVIOUS
<1> HIDE DEF V, s, t
<1>3. /\ x \in Seq(V) /\ Len(x) = 4
      /\ \A i \in 1..2 : x[i] = s[i]
      /\ \A i \in 1..2 : x[2 + i] = t[i]
  <2>1. /\ s \o t \in Seq(V) /\ Len(s \o t) = Len(s) + Len(t)
        /\ \A i \in 1..Len(s) : (s \o t)[i] = s[i]
        /\ \A i \in 1..Len(t) : (s \o t)[Len(s) + i] = t[i]
    <3>1. s \in Seq(V) /\ t \in Seq(V)
      BY <1>1
    <3> QED
      BY <3>1, Concatenated
  <2> QED
    BY <1>1, <2>1
<1> HIDE DEF x
<1>4. x[1] = a /\ x[2] = b /\ x[2 + 1] = c /\ x[2 + 2] = d
  BY <1>2, <1>3
<1>5. x = [i \in 1..4 |-> x[i]]
  BY <1>3, SeqIsFunction
<1>6. x = << a, b, c, d >>
  BY <1>4, <1>5
<1> QED
  BY <1>6 DEF x, s, t

\* Writing more moves appends operations.
LEMMA WrittenAppended ==
  ASSUME NEW m \in Seq(Moved), NEW lm \in Seq(Moved), NEW ops,
         DOMAIN ops = 1..Len(lm), ops = [i \in DOMAIN ops |-> ops[i]],
         \A i \in 1..Len(lm) : ops[i] = WrittenAt(lm[i], Len(m) + i)
  PROVE  Written(m) \o ops = Written(m \o lm)
PROOF
<1> DEFINE V == {WrittenAt(x, i) : x \in Moved, i \in Int}
<1>1. /\ Len(m) \in Nat /\ DOMAIN m = 1..Len(m) /\ \A i \in 1..Len(m) : m[i] \in Moved
      /\ Len(lm) \in Nat /\ DOMAIN lm = 1..Len(lm) /\ \A i \in 1..Len(lm) : lm[i] \in Moved
  OBVIOUS
<1> DEFINE w == Written(m)
<1>2. DOMAIN w = 1..Len(m) /\ \A i \in 1..Len(m) : w[i] = WrittenAt(m[i], i)
  BY <1>1 DEF Written
<1>3. w \in Seq(V) /\ Len(w) = Len(m)
  <2>1. \A i \in 1..Len(m) : w[i] \in V
    BY <1>1, <1>2
  <2>2. w = [i \in 1..Len(m) |-> w[i]]
    BY <1>1 DEF Written
  <2> HIDE DEF w, V
  <2>3. w \in Seq(V)
    BY <1>1, <2>1, <2>2
  <2> QED
    BY <1>1, <1>2, <2>3
<1>4. ops \in Seq(V) /\ Len(ops) = Len(lm)
  <2>1. \A i \in 1..Len(lm) : ops[i] \in V
    BY <1>1
  <2> HIDE DEF w, V
  <2>2. ops \in Seq(V)
    BY <1>1, <2>1
  <2> QED
    BY <1>1, <2>2
<1> DEFINE n == m \o lm
<1>5. /\ n \in Seq(Moved) /\ Len(n) = Len(m) + Len(lm) /\ DOMAIN n = 1..(Len(m) + Len(lm))
      /\ \A i \in 1..Len(m) : n[i] = m[i]
      /\ \A i \in 1..Len(lm) : n[Len(m) + i] = lm[i]
  BY <1>1
<1> HIDE DEF w, V
<1> DEFINE x == w \o ops
<1>6. /\ x \in Seq(V) /\ Len(x) = Len(m) + Len(lm)
      /\ \A i \in 1..Len(m) : x[i] = w[i]
      /\ \A i \in 1..Len(lm) : x[Len(m) + i] = ops[i]
  <2>1. x = w \o ops
    OBVIOUS
  <2> HIDE DEF x, w, V
  <2>2. w \in Seq(V) /\ ops \in Seq(V)
    BY <1>3, <1>4
  <2>3. /\ w \o ops \in Seq(V) /\ Len(w \o ops) = Len(w) + Len(ops)
        /\ \A i \in 1..Len(w) : (w \o ops)[i] = w[i]
        /\ \A i \in 1..Len(ops) : (w \o ops)[Len(w) + i] = ops[i]
    BY <2>2, Concatenated
  <2> QED
    BY <1>3, <1>4, <2>1, <2>3
<1> HIDE DEF n, x
<1>7. ASSUME NEW i \in 1..(Len(m) + Len(lm))
      PROVE  x[i] = WrittenAt(n[i], i)
  <2>1. CASE i \in 1..Len(m)
    BY <1>2, <1>5, <1>6, <2>1
  <2>2. CASE i \notin 1..Len(m)
    <3>1. i - Len(m) \in 1..Len(lm) /\ Len(m) + (i - Len(m)) = i
      BY <1>1, <2>2
    <3> QED
      BY <1>5, <1>6, <3>1
  <2> QED
    BY <2>1, <2>2
<1>8. x = [i \in 1..(Len(m) + Len(lm)) |-> x[i]]
  BY <1>6, SeqIsFunction
<1>9. Written(n) = [i \in 1..(Len(m) + Len(lm)) |-> WrittenAt(n[i], i)]
  BY <1>5 DEF Written
<1>10. x = Written(n)
  BY <1>7, <1>8, <1>9
<1> QED
  BY <1>10 DEF w, n, x

\* What GetOperations appends for a log are the moves of the log, written behind
\* the operations there are.
LEMMA LogWritten ==
  ASSUME NEW fa \in Address, NEW el \in EventLog, NEW m \in Seq(Moved)
  PROVE  /\ Api!LogMoves(fa, el) \in Seq(Moved)
         /\ Written(m) \o LogOps(fa, el, Len(m) - 1) = Written(m \o Api!LogMoves(fa, el))
PROOF
<1> DEFINE last == Len(m) - 1
           lm == Api!LogMoves(fa, el)
           ops == LogOps(fa, el, last)
           Good == /\ lm \in Seq(Moved)
                   /\ DOMAIN ops = 1..Len(lm)
                   /\ ops = [i \in DOMAIN ops |-> ops[i]]
                   /\ \A i \in 1..Len(lm) : ops[i] = WrittenAt(lm[i], Len(m) + i)
<1>1. ASSUME NEW a \in Moved, lm = << a >>, ops = << WrittenAt(a, Len(m) + 1) >>
      PROVE  Good
  BY <1>1
<1>2. ASSUME NEW a \in Moved, NEW b \in Moved, lm = << a, b >>,
             ops = << WrittenAt(a, Len(m) + 1), WrittenAt(b, Len(m) + 2) >>
      PROVE  Good
  BY <1>2
<1>3. /\ SystemScore \in Address /\ Treasury \in Address
      /\ {"ICXTRANSFER", "ISSUE", "CLAIM", "BURN"} \subseteq OperationTypes
  BY AddressAssumption DEF OperationTypes
<1>4. ASSUME NEW type \in OperationTypes \cup {"WITHDRAWN"},
             NEW account \in Address, NEW amount \in Int \cup {None}
      PROVE  /\ Api!Move(type, account, amount) \in Moved
             /\ Api!Credit(type, account, amount) \in Moved
             /\ Op(last + 1, {}, type, account, amount)
                  = WrittenAt(Api!Move(type, account, amount), Len(m) + 1)
             /\ Op(last + 2, {last + 1}, type, account, amount)
                  = WrittenAt(Api!Credit(type, account, amount), Len(m) + 2)
  <2>1. /\ Api!Move(type, account, amount) \in Moved
        /\ Api!Credit(type, account, amount) \in Moved
    BY MoveType
  <2>2. Op(last + 1, {}, type, account, amount)
          = WrittenAt(Api!Move(type, account, amount), Len(m) + 1)
    BY DEF Api!Move, WrittenAt, Op
  <2>3. Op(last + 2, {last + 1}, type, account, amount)
          = WrittenAt(Api!Credit(type, account, amount), Len(m) + 2)
    BY DEF Api!Move, Api!Credit, WrittenAt, Op
  <2> QED
    BY <2>1, <2>2, <2>3
<1> HIDE DEF lm, ops, Good, last
<1>5. Good
  <2>1. CASE el.sig = "ICXTransfer(Address,Address,int)"
    <3>1. el.indexed[1] \in Address /\ el.indexed[2] \in Address /\ el.indexed[3] \in Nat
      BY <2>1 DEF EventLog, Claims, Burns
    <3>2. ops = << Op(last + 1, {}, "ICXTRANSFER", el.indexed[1], -el.indexed[3]),
                   Op(last + 2, {last + 1}, "ICXTRANSFER", el.indexed[2], el.indexed[3]) >>
      BY <2>1 DEF LogOps, icxTransferOps, Claims, Burns, ops
    <3>3. lm = << Api!Move("ICXTRANSFER", el.indexed[1], -el.indexed[3]),
                  Api!Credit("ICXTRANSFER", el.indexed[2], el.indexed[3]) >>
      BY <2>1 DEF Api!LogMoves, Api!Claims, Api!Burns, lm
    <3>4. /\ -el.indexed[3] \in Int \cup {None} /\ el.indexed[3] \in Int \cup {None}
          /\ "ICXTRANSFER" \in OperationTypes \cup {"WITHDRAWN"}
      BY <1>3, <3>1
    <3>5. /\ Api!Move("ICXTRANSFER", el.indexed[1], -el.indexed[3]) \in Moved
          /\ Api!Credit("ICXTRANSFER", el.indexed[2], el.indexed[3]) \in Moved
          /\ Op(last + 1, {}, "ICXTRANSFER", el.indexed[1], -el.indexed[3])
               = WrittenAt(Api!Move("ICXTRANSFER", el.indexed[1], -el.indexed[3]), Len(m) + 1)
          /\ Op(last + 2, {last + 1}, "ICXTRANSFER", el.indexed[2], el.indexed[3])
               = WrittenAt(Api!Credit("ICXTRANSFER", el.indexed[2], el.indexed[3]), Len(m) + 2)
      BY <1>3, <1>4, <3>1, <3>4
    <3> QED
      BY <1>2, <3>2, <3>3, <3>5
  <2>2. CASE el.sig = "ICXIssued(int,int,int,int)"
    <3>1. el.data[3] \in Nat
      BY <2>2 DEF EventLog, Claims, Burns
    <3>2. ops = << Op(last + 1, {}, "ISSUE", Treasury, el.data[3]) >>
      BY <2>2 DEF LogOps, issueOps, Claims, Burns, ops
    <3>3. lm = << Api!Move("ISSUE", Treasury, el.data[3]) >>
      BY <2>2 DEF Api!LogMoves, Api!Claims, Api!Burns, lm
    <3> QED
      BY <1>1, <1>3, <1>4, <3>1, <3>2, <3>3
  <2>3. CASE el.sig \in Claims
    <3>1. el.data[2] \in Nat
      BY <2>3 DEF EventLog, Claims, Burns
    <3>2. ops = << Op(last + 1, {}, "CLAIM", Treasury, -el.data[2]),
                   Op(last + 2, {last + 1}, "CLAIM", fa, el.data[2]) >>
      BY <2>3 DEF LogOps, getClaimOps, Claims, Burns, ops
    <3>3. lm = << Api!Move("CLAIM", Treasury, -el.data[2]),
                  Api!Credit("CLAIM", fa, el.data[2]) >>
      BY <2>3 DEF Api!LogMoves, Api!Claims, Api!Burns, lm, Claims, Burns
    <3>4. /\ -el.data[2] \in Int \cup {None} /\ el.data[2] \in Int \cup {None}
          /\ "CLAIM" \in OperationTypes \cup {"WITHDRAWN"}
      BY <1>3, <3>1
    <3>5. /\ Api!Move("CLAIM", Treasury, -el.data[2]) \in Moved
          /\ Api!Credit("CLAIM", fa, el.data[2]) \in Moved
          /\ Op(last + 1, {}, "CLAIM", Treasury, -el.data[2])
               = WrittenAt(Api!Move("CLAIM", Treasury, -el.data[2]), Len(m) + 1)
          /\ Op(last + 2, {last + 1}, "CLAIM", fa, el.data[2])
               = WrittenAt(Api!Credit("CLAIM", fa, el.data[2]), Len(m) + 2)
      BY <1>3, <1>4, <3>1, <3>4
    <3> QED
      BY <1>2, <3>2, <3>3, <3>5
  <2>4. CASE el.sig \in Burns
    <3>1. el.data[1] \in Nat
      <4>1. el.data \in Seq(Nat) /\ el.data # <<>>
        BY <2>4 DEF EventLog, Claims, Burns
      <4> QED
        BY <4>1
    <3>2. ops = << Op(last + 1, {}, "BURN", SystemScore, -el.data[1]) >>
      BY <2>4 DEF LogOps, getBurnOps, Claims, Burns, ops
    <3>3. lm = << Api!Move("BURN", SystemScore, -el.data[1]) >>
      BY <2>4 DEF Api!LogMoves, Api!Claims, Api!Burns, lm, Claims, Burns
    <3> QED
      BY <1>1, <1>3, <1>4, <3>1, <3>2, <3>3
  <2>5. CASE el.sig = "DepositWithdrawn(bytes,Address,int,int)"
    <3>1. el.indexed[2] \in Address /\ el.data[1] \in Nat
      BY <2>5 DEF EventLog, Claims, Burns
    <3>2. ops = << Op(last + 1, {}, "WITHDRAWN", el.indexed[2], el.data[1]) >>
      BY <2>5 DEF LogOps, getDepositWithdrawn, Claims, Burns, ops
    <3>3. lm = << Api!Move("WITHDRAWN", el.indexed[2], el.data[1]) >>
      BY <2>5 DEF Api!LogMoves, Api!Claims, Api!Burns, lm, Claims, Burns
    <3>4. /\ Api!Move("WITHDRAWN", el.indexed[2], el.data[1]) \in Moved
          /\ Op(last + 1, {}, "WITHDRAWN", el.indexed[2], el.data[1])
               = WrittenAt(Api!Move("WITHDRAWN", el.indexed[2], el.data[1]), Len(m) + 1)
      <4>1. /\ el.data[1] \in Int \cup {None}
            /\ "WITHDRAWN" \in OperationTypes \cup {"WITHDRAWN"}
        BY <3>1
      <4> QED
        BY <1>4, <3>1, <4>1
    <3> QED
      BY <1>1, <3>2, <3>3, <3>4
  <2>6. CASE el.sig = "other"
    <3>1. ops = <<>> /\ lm = <<>>
      BY <2>6 DEF LogOps, Api!LogMoves, Api!Claims, Api!Burns, Claims, Burns, ops, lm
    <3> QED
      BY <3>1 DEF Good
  <2>7. \/ el.sig = "ICXTransfer(Address,Address,int)"
        \/ el.sig = "ICXIssued(int,int,int,int)"
        \/ el.sig \in Claims
        \/ el.sig \in Burns
        \/ el.sig = "DepositWithdrawn(bytes,Address,int,int)"
        \/ el.sig = "other"
    BY DEF EventLog
  <2> QED
    BY <2>1, <2>2, <2>3, <2>4, <2>5, <2>6, <2>7
<1>6. Written(m) \o ops = Written(m \o lm)
  BY <1>5, WrittenAppended DEF Good
<1> QED
  BY <1>5, <1>6 DEF Good, lm, ops, last

-------------------------------------------------------------------------------
(* The operations of one transaction, at each turn of the log loop. *)

LogSeq(claimant, logs) == [i \in DOMAIN logs |-> Api!LogMoves(claimant, logs[i])]

ClaimantOf(tx) == IF IsBase(tx) THEN SystemScore ELSE tx.from

\* What the transaction and the first k logs of its receipt move.
MovesTo(tx, receipt, k) ==
  Api!OwnMoves(tx, receipt) \o First(LogSeq(ClaimantOf(tx), receipt.eventLogs), k)

\* BlockApi extends Operations too; its operators are these.
LEMMA SameOperators ==
  /\ \A tx : Api!IsBase(tx) = IsBase(tx)
  /\ \A tx : Api!Values(tx) = Values(tx)
  /\ \A from, details : Api!GetUserStep(from, details) = GetUserStep(from, details)
  /\ \A receipt : Api!StatusFlag(receipt) = StatusFlag(receipt)
  /\ Api!SuccessStatus = SuccessStatus
  /\ Api!ParseGenesisOperationsV2(GenesisAccounts) = ParseGenesisOperationsV2(GenesisAccounts)
PROOF
<1>1. \A tx : Api!IsBase(tx) = IsBase(tx)
  BY DEF Api!IsBase, IsBase, Api!GetDataType, GetDataType, Api!DataTypes, DataTypes
<1>2. \A tx : Api!Values(tx) = Values(tx)
  BY DEF Api!Values, Values
<1>3. \A from, details : Api!GetUserStep(from, details) = GetUserStep(from, details)
  BY DEF Api!GetUserStep, GetUserStep
<1>4. \A receipt : Api!StatusFlag(receipt) = StatusFlag(receipt)
  BY DEF Api!StatusFlag, StatusFlag, Api!SuccessStatus, SuccessStatus,
         Api!FailureStatus, FailureStatus
<1>5. Api!SuccessStatus = SuccessStatus
  BY DEF Api!SuccessStatus, SuccessStatus
<1>6. Api!ParseGenesisOperationsV2(GenesisAccounts) = ParseGenesisOperationsV2(GenesisAccounts)
  BY DEF Api!ParseGenesisOperationsV2, ParseGenesisOperationsV2, Api!Op, Op,
         Api!SuccessStatus, SuccessStatus
<1> QED
  BY <1>1, <1>2, <1>3, <1>4, <1>5, <1>6

\* The fee step makes of the parsed operations the moves of the transaction.
LEMMA OwnWritten ==
  ASSUME NEW tx \in Transaction, NEW receipt \in TransactionResult
  PROVE  /\ Api!OwnMoves(tx, receipt) \in Seq(Moved)
         /\ RewriteFees(ParseTransaction(tx), receipt) = Written(Api!OwnMoves(tx, receipt))
PROOF
<1> DEFINE own == Api!OwnMoves(tx, receipt)
           ops == RewriteFees(ParseTransaction(tx), receipt)
<1>1. /\ tx.from \in Address /\ tx.to \in Address /\ tx.version \in {2, 3}
      /\ Values(tx) \in Nat /\ tx.stepLimit \in Nat /\ tx.fee \in Nat
  BY DEF Transaction, Values
<1>2. /\ receipt.stepUsed \in Nat /\ receipt.stepPrice \in Nat
      /\ GetUserStep(tx.from, receipt.stepDetails) \in Nat
  BY <1>1 DEF TransactionResult, GetUserStep
<1>3. {"BASE", "TRANSFER", "FEE"} \subseteq OperationTypes \cup {"WITHDRAWN"}
  BY DEF OperationTypes
<1>4. CASE IsBase(tx)
  <2>1. own = << Api!Move("BASE", None, None) >>
    BY <1>4, SameOperators DEF Api!OwnMoves
  <2>2. ops = << Op(0, {}, "BASE", None, None) >>
    BY <1>4 DEF RewriteFees, IsGeneral, ParseTransaction, ParseOperationsV3,
                MakeBaseOperations, IsBase
  <2>3. Api!Move("BASE", None, None) \in Moved
    BY <1>3, MoveType
  <2>4. Written(own) = << WrittenAt(Api!Move("BASE", None, None), 1) >>
    BY <2>1 DEF Written
  <2>5. WrittenAt(Api!Move("BASE", None, None), 1) = Op(0, {}, "BASE", None, None)
    BY DEF Api!Move, WrittenAt, Op
  <2> QED
    BY <2>1, <2>2, <2>3, <2>4, <2>5
<1>5. CASE ~IsBase(tx)
  <2> DEFINE provisional == IF tx.version = 3 THEN tx.stepLimit ELSE tx.fee
             counted == receipt.stepUsed > 0
             paid == receipt.stepUsed * receipt.stepPrice
             owed == -(GetUserStep(tx.from, receipt.stepDetails) * receipt.stepPrice)
             debit == IF counted THEN owed ELSE -provisional
             credit == IF counted THEN paid ELSE provisional
             v == Values(tx)
             m1 == Api!Move("TRANSFER", tx.from, -v)
             m2 == Api!Credit("TRANSFER", tx.to, v)
             m3 == Api!Credit("FEE", tx.from, debit)
             m4 == Api!Credit("FEE", Treasury, credit)
             o1 == Op(0, {},  "TRANSFER", tx.from,  -v)
             o2 == Op(1, {0}, "TRANSFER", tx.to,    v)
             o3 == Op(2, {1}, "FEE",      tx.from,  debit)
             o4 == Op(3, {2}, "FEE",      Treasury, credit)
  <2>1. own = << m1, m2, m3, m4 >>
    <3>1. Api!FeeMoves(tx, receipt) = << m3, m4 >>
      BY SameOperators DEF Api!FeeMoves
    <3>2. own = << m1, m2 >> \o << m3, m4 >>
      BY <1>5, <3>1, SameOperators DEF Api!OwnMoves
    <3> HIDE DEF m1, m2, m3, m4, own
    <3> QED
      BY <3>2, FourTogether
  <2>2. ops = << o1, o2, o3, o4 >>
    <3> DEFINE p3 == Op(2, {1}, "FEE", tx.from,  -provisional)
               p4 == Op(3, {2}, "FEE", Treasury, provisional)
               parsed == ParseTransaction(tx)
    <3>1. parsed = << o1, o2, p3, p4 >>
      BY <1>1, <1>5 DEF ParseTransaction, ParseOperationsV3, ParseOperationsV2, TransferAndFee
    <3>2. Len(parsed) = 4 /\ parsed[3].account = tx.from
      <4>1. p3.account = tx.from
        BY DEF Op
      <4> HIDE DEF o1, o2, p3, p4
      <4> QED
        BY <3>1, <4>1
    <3>3. CASE counted
      <4>1. /\ [p3 EXCEPT !.amount = owed] = o3
            /\ [p4 EXCEPT !.amount = paid] = o4
        BY <3>3 DEF Op
      <4> DEFINE q3 == [parsed[3] EXCEPT !.amount = owed]
                 q4 == [parsed[4] EXCEPT !.amount = paid]
      <4>2. ops = [parsed EXCEPT ![4] = q4, ![3] = q3]
        BY <1>2, <3>2, <3>3 DEF RewriteFees, IsGeneral
      <4>3. parsed[3] = p3 /\ parsed[4] = p4
        <5> HIDE DEF o1, o2, p3, p4, parsed
        <5> QED
          BY <3>1
      <4>4. q3 = o3 /\ q4 = o4
        BY <4>1, <4>3
      <4> HIDE DEF o1, o2, o3, o4, p3, p4, q3, q4, parsed, ops
      <4> QED
        BY <3>1, <4>2, <4>4
    <3>4. CASE ~counted
      <4>1. receipt.stepUsed = 0
        BY <1>2, <3>4
      <4>2. ops = parsed
        BY <4>1 DEF RewriteFees
      <4> QED
        BY <3>1, <3>4, <4>2
    <3> QED
      BY <3>3, <3>4
  <2>3. /\ -v \in Int \cup {None} /\ v \in Int \cup {None}
        /\ debit \in Int \cup {None} /\ credit \in Int \cup {None}
        /\ tx.from \in Address \cup {None} /\ tx.to \in Address \cup {None}
        /\ Treasury \in Address \cup {None}
    <3>1. provisional \in Nat
      BY <1>1
    <3>2. paid \in Nat
      BY <1>2
    <3>3. owed \in Int
      BY <1>2
    <3>4. -provisional \in Int
      BY <3>1
    <3> HIDE DEF provisional, paid, owed, counted, v
    <3>5. debit \in Int /\ credit \in Int
      BY <3>1, <3>2, <3>3, <3>4
    <3>6. v \in Nat
      BY <1>1 DEF v
    <3> QED
      BY <1>1, <3>5, <3>6, AddressAssumption
  <2> HIDE DEF v, debit, credit
  <2>4. m1 \in Moved /\ m2 \in Moved /\ m3 \in Moved /\ m4 \in Moved
    BY <1>3, <2>3, MoveType
  <2>5. /\ WrittenAt(m1, 1) = o1 /\ WrittenAt(m2, 2) = o2
        /\ WrittenAt(m3, 3) = o3 /\ WrittenAt(m4, 4) = o4
    BY DEF Api!Move, Api!Credit, WrittenAt, Op
  <2> HIDE DEF own, ops, m1, m2, m3, m4, o1, o2, o3, o4
  <2>6. own \in Seq(Moved)
    BY <2>1, <2>4
  <2>7. Written(own) = << o1, o2, o3, o4 >>
    BY <2>1, <2>5 DEF Written
  <2> QED
    BY <2>2, <2>6, <2>7 DEF own, ops
<1> QED
  BY <1>4, <1>5

\* The moves made so far are a list; one more log adds its moves; all of them are
\* those that BlockApi has.
LEMMA MovesSteps ==
  ASSUME NEW tx \in Transaction, NEW receipt \in TransactionResult
  PROVE  LET logs == receipt.eventLogs
         IN /\ MovesTo(tx, receipt, 0) = Api!OwnMoves(tx, receipt)
            /\ \A k \in 0..Len(logs) : MovesTo(tx, receipt, k) \in Seq(Moved)
            /\ \A k \in 1..Len(logs) :
                 MovesTo(tx, receipt, k) =
                   MovesTo(tx, receipt, k - 1) \o Api!LogMoves(ClaimantOf(tx), logs[k])
            /\ MovesTo(tx, receipt, Len(logs)) = Api!Moves(tx, receipt)
PROOF
<1> DEFINE logs == receipt.eventLogs
           fa == ClaimantOf(tx)
           seqs == LogSeq(fa, logs)
           own == Api!OwnMoves(tx, receipt)
<1>1. logs \in Seq(EventLog)
  BY DEF TransactionResult
<1>2. own \in Seq(Moved)
  BY OwnWritten
<1>3. fa \in Address
  BY AddressAssumption DEF ClaimantOf, Transaction
<1>4. DOMAIN logs = 1..Len(logs) /\ Len(logs) \in Nat
  BY <1>1
<1>5. seqs = [i \in 1..Len(logs) |-> Api!LogMoves(fa, logs[i])]
  BY <1>4 DEF LogSeq
<1>6. \A i \in 1..Len(logs) : Api!LogMoves(fa, logs[i]) \in Seq(Moved)
  <2>1. << >> \in Seq(Moved)
    OBVIOUS
  <2>2. \A i \in 1..Len(logs) : logs[i] \in EventLog
    BY <1>1
  <2> HIDE DEF logs, fa
  <2> QED
    BY <1>3, <2>1, <2>2, LogWritten
<1> HIDE DEF logs, fa, seqs, own
<1>7. seqs \in Seq(Seq(Moved)) /\ Len(seqs) = Len(logs)
  <2>1. DOMAIN seqs = 1..Len(logs) /\ \A i \in 1..Len(logs) : seqs[i] \in Seq(Moved)
    BY <1>5, <1>6
  <2>2. seqs = [i \in 1..Len(logs) |-> seqs[i]]
    BY <1>5
  <2>3. seqs \in Seq(Seq(Moved))
    BY <1>4, <2>1, <2>2
  <2> QED
    BY <1>4, <2>1, <2>3
<1>8. /\ First(seqs, 0) = <<>>
      /\ \A k \in 0..Len(logs) : First(seqs, k) \in Seq(Moved)
      /\ \A k \in 1..Len(logs) : First(seqs, k) = First(seqs, k - 1) \o seqs[k]
      /\ Api!FlattenSeq(seqs) = First(seqs, Len(logs))
  BY <1>7, FirstSteps
<1>9. \A k : MovesTo(tx, receipt, k) = own \o First(seqs, k)
  BY DEF MovesTo, own, seqs, logs, fa
<1>10. MovesTo(tx, receipt, 0) = own
  <2>1. own \o <<>> = own
    BY <1>2
  <2> QED
    BY <1>8, <1>9, <2>1
<1>11. ASSUME NEW k \in 0..Len(logs)
       PROVE  MovesTo(tx, receipt, k) \in Seq(Moved)
  <2>1. First(seqs, k) \in Seq(Moved)
    BY <1>8
  <2>2. own \o First(seqs, k) \in Seq(Moved)
    BY <1>2, <2>1
  <2> QED
    BY <1>9, <2>2
<1>12. ASSUME NEW k \in 1..Len(logs)
       PROVE  MovesTo(tx, receipt, k) =
                MovesTo(tx, receipt, k - 1) \o Api!LogMoves(fa, logs[k])
  <2>1. First(seqs, k - 1) \in Seq(Moved) /\ seqs[k] \in Seq(Moved)
    <3>1. k - 1 \in 0..Len(logs)
      BY <1>4
    <3> QED
      BY <1>5, <1>6, <1>8, <3>1
  <2>2. \A a, b, c \in Seq(Moved) : a \o (b \o c) = (a \o b) \o c
    OBVIOUS
  <2>3. own \o (First(seqs, k - 1) \o seqs[k]) = (own \o First(seqs, k - 1)) \o seqs[k]
    BY <1>2, <2>1, <2>2
  <2>4. seqs[k] = Api!LogMoves(fa, logs[k])
    BY <1>5
  <2> QED
    BY <1>8, <1>9, <2>3, <2>4
<1>13. MovesTo(tx, receipt, Len(logs)) = Api!Moves(tx, receipt)
  <2>1. Api!Moves(tx, receipt) = own \o Api!FlattenSeq(seqs)
    BY SameOperators DEF Api!Moves, own, seqs, fa, LogSeq, ClaimantOf, logs
  <2> QED
    BY <1>8, <1>9, <2>1
<1> QED
  BY <1>10, <1>11, <1>12, <1>13 DEF own, logs, fa

\* With the status, what is written are the operations that BlockApi has.
LEMMA StatusWritten ==
  ASSUME NEW tx \in Transaction, NEW receipt \in TransactionResult
  PROVE  SetTransferStatus(Written(Api!Moves(tx, receipt)), receipt)
           = Api!OperationsOf(tx, receipt)
PROOF
<1> DEFINE moves == Api!Moves(tx, receipt)
           set == SetTransferStatus(Written(moves), receipt)
<1>1. set = [i \in DOMAIN moves |->
               IF moves[i].type = "TRANSFER"
               THEN [WrittenAt(moves[i], i) EXCEPT !.status = StatusFlag(receipt)]
               ELSE WrittenAt(moves[i], i)]
  BY DEF SetTransferStatus, Written, WrittenAt
<1>2. Api!OperationsOf(tx, receipt) =
        [i \in DOMAIN moves |->
           [index   |-> i - 1,
            related |-> IF moves[i].paired THEN {i - 2} ELSE {},
            type    |-> moves[i].type,
            status  |-> IF moves[i].type = "TRANSFER" THEN StatusFlag(receipt)
                        ELSE SuccessStatus,
            account |-> moves[i].account,
            amount  |-> moves[i].amount]]
  BY SameOperators DEF Api!OperationsOf
<1> HIDE DEF moves, set
<1>3. set = Api!OperationsOf(tx, receipt)
  BY <1>1, <1>2 DEF WrittenAt
<1> QED
  BY <1>3 DEF set, moves

-------------------------------------------------------------------------------
(* The invariant of the refinement: what every handler has made so far of  *)
(* the block or transaction it is at.  It is proved on top of IInv.        *)

ReceiptIn(c, hash) == c[hash.block + 1].receipts[hash.position]

HasReceiptIn(c, hash) ==
  /\ hash.position \in DOMAIN c[hash.block + 1].receipts
  /\ ReceiptIn(c, hash).wellFormed

GenesisOps == ParseGenesisOperationsV2(GenesisAccounts)

\* The transaction as it is answered.
Complete(tx, c) ==
  IF tx.hash.block = 0 THEN tx.operations = GenesisOps
  ELSE /\ HasReceiptIn(c, tx.hash)
       /\ tx.operations = Api!OperationsOf(RawIn(c, tx.hash), ReceiptIn(c, tx.hash))

\* The transaction and its receipt when k logs have been read.
ReadTo(tx, receipt, k, c) ==
  IF tx.hash.block = 0 THEN tx.operations = GenesisOps
  ELSE /\ HasReceiptIn(c, tx.hash)
       /\ receipt = ReceiptIn(c, tx.hash)
       /\ k \in 0..Len(receipt.eventLogs)
       /\ tx.operations = Written(MovesTo(RawIn(c, tx.hash), receipt, k))

ErrorMade(l) == l.pc # "failed" => l.error = None

BlockMade(l, c) ==
  /\ HasBlock(l) => c[l.id.index + 1].version \in SupportedVersions
  /\ HasBlock(l) /\ l.id.index = 0 => Len(l.txs) = 1
  /\ HasReceipts(l) => \A t \in DOMAIN l.txs : t < l.n => Complete(l.txs[t], c)

LogsMade(l, c) ==
  l.pc = "logs" => ReadTo(l.txs[l.n], l.receipts[l.n], l.k - 1, c)

\* At a step, or at the answer, of /block/transaction.
OfTransaction(l) ==
  \/ l.pc \in {"getTransaction", "getTransactionResult", "txFees"}
  \/ l.pc \in {"logs", "answered"} /\ l.want.endpoint = "transaction"

TransactionMade(l, c) ==
  OfTransaction(l) =>
    /\ l.id = None /\ l.parent = None
    /\ l.pc # "getTransaction" => RawIn(c, l.want.hash).wellFormed
    /\ l.pc = "txFees" =>
         /\ l.want.hash.position \in DOMAIN c[l.want.hash.block + 1].receipts
         /\ l.receipts = << ParseTransactionResult(ReceiptIn(c, l.want.hash)) >>
    /\ l.pc = "answered" =>
         /\ Len(l.txs) = 1
         /\ l.txs[1].hash = l.want.hash
         /\ l.want.hash.block > 0
         /\ Complete(l.txs[1], c)

MadeOK(l, c) ==
  /\ ErrorMade(l)
  /\ BlockMade(l, c)
  /\ LogsMade(l, c)
  /\ TransactionMade(l, c)

MInv == \A r \in Requests : MadeOK(req[r], chain)

-------------------------------------------------------------------------------
(* Each part of the loop body brings a transaction one stage further. *)

\* Where the transaction of a hash and its receipt come from.
LEMMA FromChain ==
  ASSUME NEW c, ChainOK(c), NEW hash \in TxHashes, InChain(c, hash), hash.block # 0
  PROVE  /\ RawIn(c, hash) \in Transaction
         /\ ClaimantIn(c, hash) = ClaimantOf(RawIn(c, hash))
         /\ HasReceiptIn(c, hash) => ReceiptIn(c, hash) \in TransactionResult
PROOF
<1>1. hash.block \in Nat /\ hash.block > 0
  BY DEF TxHashes
<1>2. hash.block + 1 \in DOMAIN c /\ hash.position \in DOMAIN c[hash.block + 1].txs
  BY <1>1 DEF InChain
<1>3. /\ c[hash.block + 1].txs \in Seq(Transaction)
      /\ c[hash.block + 1].receipts \in Seq(TransactionResult)
  BY <1>2, BodyFields
<1> QED
  BY <1>2, <1>3 DEF RawIn, ReceiptIn, HasReceiptIn, ClaimantIn, ClaimantOf

\* The genesis operations have no transfer, so no receipt changes their status.
LEMMA GenesisKept ==
  ASSUME NEW receipt
  PROVE  /\ SetTransferStatus(GenesisOps, receipt) = GenesisOps
         /\ receipt.stepUsed = 0 => RewriteFees(GenesisOps, receipt) = GenesisOps
PROOF
<1>1. GenesisOps \in Seq(Operation)
  BY BlockAssumption, GenesisOperations DEF GenesisOps
<1>2. ASSUME NEW i \in DOMAIN GenesisOps
      PROVE  GenesisOps[i].type # "TRANSFER"
  <2> DEFINE accounts == GenesisAccounts
             balances == [j \in 1..Len(accounts) |->
                            Op(j - 1, {}, "GENESIS", accounts[j].address, accounts[j].balance)]
             message == Op(Len(accounts), {}, "MESSAGE", None, None)
             V == {Op(j - 1, {}, "GENESIS", accounts[j].address, accounts[j].balance) :
                     j \in 1..Len(accounts)}
  <2>1. Len(accounts) \in Nat
    BY BlockAssumption
  <2>2. GenesisOps = Append(balances, message)
    BY DEF GenesisOps, ParseGenesisOperationsV2
  <2>3. balances \in Seq(V) /\ Len(balances) = Len(accounts)
    BY <2>1
  <2>4. \A v \in V : v.type # "TRANSFER"
    BY DEF Op
  <2>5. message.type # "TRANSFER"
    BY DEF Op
  <2> HIDE DEF balances, message, V
  <2>6. /\ GenesisOps[i] = message \/ GenesisOps[i] \in V
    BY <2>1, <2>2, <2>3
  <2> QED
    BY <2>4, <2>5, <2>6
<1>3. SetTransferStatus(GenesisOps, receipt) = [i \in DOMAIN GenesisOps |-> GenesisOps[i]]
  BY <1>2 DEF SetTransferStatus
<1>4. GenesisOps = [i \in DOMAIN GenesisOps |-> GenesisOps[i]]
  <2> HIDE DEF GenesisOps
  <2> QED
    BY <1>1
<1> QED
  BY <1>3, <1>4 DEF RewriteFees

\* After the fees no log has been read yet.
LEMMA FeesMade ==
  ASSUME NEW c, ChainOK(c), NEW tx \in RosettaTransaction, InChain(c, tx.hash),
         Fresh(tx, c), NEW receipt,
         IF tx.hash.block = 0 THEN receipt.stepUsed = 0
         ELSE HasReceiptIn(c, tx.hash) /\ receipt = ReceiptIn(c, tx.hash),
         NEW new, new.hash = tx.hash,
         new.operations = RewriteFees(tx.operations, receipt)
  PROVE  ReadTo(new, receipt, 0, c)
PROOF
<1>1. CASE tx.hash.block = 0
  BY <1>1, GenesisKept DEF Fresh, ReadTo, GenesisOps
<1>2. CASE tx.hash.block # 0
  <2> DEFINE raw == RawIn(c, tx.hash)
  <2>1. raw \in Transaction /\ receipt \in TransactionResult
    BY <1>2, FromChain DEF RosettaTransaction
  <2>2. new.operations = RewriteFees(ParseTransaction(raw), receipt)
    BY <1>2 DEF Fresh
  <2> HIDE DEF raw
  <2>3. new.operations = Written(MovesTo(raw, receipt, 0))
    BY <2>1, <2>2, OwnWritten, MovesSteps
  <2>4. 0 \in 0..Len(receipt.eventLogs)
    <3>1. receipt.eventLogs \in Seq(EventLog)
      BY <2>1 DEF TransactionResult
    <3> QED
      BY <3>1
  <2> QED
    BY <1>2, <2>3, <2>4 DEF ReadTo, raw
<1> QED
  BY <1>1, <1>2

\* A turn of the log loop reads one more.
LEMMA LogMade ==
  ASSUME NEW c, ChainOK(c), NEW tx \in RosettaTransaction, InChain(c, tx.hash),
         tx.hash.block # 0, NEW receipt, NEW k \in Nat, ReadTo(tx, receipt, k, c),
         k + 1 \in DOMAIN receipt.eventLogs,
         NEW new, new.hash = tx.hash,
         NEW fa, fa = ClaimantIn(c, tx.hash),
         NEW last, last = Len(tx.operations) - 1,
         new.operations = tx.operations \o LogOps(fa, receipt.eventLogs[k + 1], last)
  PROVE  ReadTo(new, receipt, k + 1, c)
PROOF
<1> DEFINE raw == RawIn(c, tx.hash)
           logs == receipt.eventLogs
           m == MovesTo(raw, receipt, k)
           el == logs[k + 1]
<1>1. raw \in Transaction /\ receipt \in TransactionResult /\ fa = ClaimantOf(raw)
  BY FromChain DEF RosettaTransaction, ReadTo
<1>2. logs \in Seq(EventLog)
  BY <1>1 DEF TransactionResult
<1>3. fa \in Address
  BY <1>1, AddressAssumption DEF ClaimantOf, Transaction
<1>4. tx.operations = Written(m) /\ k \in 0..Len(logs) /\ HasReceiptIn(c, tx.hash)
      /\ receipt = ReceiptIn(c, tx.hash)
  BY DEF ReadTo
<1> HIDE DEF raw
<1>5. /\ m \in Seq(Moved)
      /\ MovesTo(raw, receipt, k + 1) = m \o Api!LogMoves(fa, el)
  <2>1. k + 1 \in 1..Len(logs) /\ (k + 1) - 1 = k
    BY <1>2
  <2> QED
    BY <1>1, <1>4, <2>1, MovesSteps
<1>6. el \in EventLog
  BY <1>2
<1> HIDE DEF m, el, logs
<1>7. Len(Written(m)) = Len(m)
  BY <1>5 DEF Written
<1>8. Written(m) \o LogOps(fa, el, Len(m) - 1) = Written(m \o Api!LogMoves(fa, el))
  BY <1>3, <1>5, <1>6, LogWritten
<1>9. new.operations = Written(MovesTo(raw, receipt, k + 1))
  BY <1>4, <1>5, <1>7, <1>8 DEF el, logs
<1>10. k + 1 \in 0..Len(logs)
  BY <1>2 DEF logs
<1> QED
  BY <1>4, <1>9, <1>10 DEF ReadTo, raw, logs

\* With all logs read, the status completes the transaction.
LEMMA StatusMade ==
  ASSUME NEW c, ChainOK(c), NEW tx \in RosettaTransaction, InChain(c, tx.hash),
         NEW receipt, NEW k, ReadTo(tx, receipt, k, c),
         tx.hash.block # 0 => k = Len(receipt.eventLogs),
         NEW new, new.hash = tx.hash,
         new.operations = SetTransferStatus(tx.operations, receipt)
  PROVE  Complete(new, c)
PROOF
<1>1. CASE tx.hash.block = 0
  BY <1>1, GenesisKept DEF ReadTo, Complete
<1>2. CASE tx.hash.block # 0
  <2> DEFINE raw == RawIn(c, tx.hash)
  <2>1. raw \in Transaction /\ receipt \in TransactionResult
    BY <1>2, FromChain DEF RosettaTransaction, ReadTo
  <2>2. tx.operations = Written(MovesTo(raw, receipt, k)) /\ HasReceiptIn(c, tx.hash)
        /\ receipt = ReceiptIn(c, tx.hash)
    BY <1>2 DEF ReadTo
  <2> HIDE DEF raw
  <2>3. MovesTo(raw, receipt, k) = Api!Moves(raw, receipt)
    BY <1>2, <2>1, MovesSteps
  <2>4. new.operations = Api!OperationsOf(raw, receipt)
    BY <2>1, <2>2, <2>3, StatusWritten
  <2> QED
    BY <1>2, <2>2, <2>4 DEF Complete, raw
<1> QED
  BY <1>1, <1>2

-------------------------------------------------------------------------------
(* MInv in every step. *)

LEMMA GrownMade ==
  ASSUME NEW c, ChainOK(c), NEW d, DOMAIN c \subseteq DOMAIN d,
         \A h \in DOMAIN c : d[h] = c[h],
         NEW l, HandlerOK(l, c), MadeOK(l, c)
  PROVE  MadeOK(l, d)
PROOF
<1>1. ASSUME NEW t \in DOMAIN l.txs
      PROVE  d[l.txs[t].hash.block + 1] = c[l.txs[t].hash.block + 1]
  BY DEF HandlerOK, TransactionsOK, InChain
<1>2. HasBlock(l) => d[l.id.index + 1] = c[l.id.index + 1]
  BY DEF HandlerOK, BlockOK
<1>3. BlockMade(l, d)
  BY <1>1, <1>2
  DEF MadeOK, BlockMade, Complete, HasReceiptIn, ReceiptIn, RawIn, HasReceipts
<1>4. LogsMade(l, d)
  BY <1>1 DEF HandlerOK, LogsOK, MadeOK, LogsMade, ReadTo, HasReceiptIn, ReceiptIn, RawIn
<1>5. TransactionMade(l, d)
  <2> SUFFICES ASSUME OfTransaction(l)
               PROVE  /\ l.pc # "getTransaction" =>
                           d[l.want.hash.block + 1] = c[l.want.hash.block + 1]
                      /\ l.pc = "answered" => 1 \in DOMAIN l.txs
    BY <1>1
    DEF MadeOK, TransactionMade, Complete, HasReceiptIn, ReceiptIn, RawIn
  <2>1. l.txs \in Seq(RosettaTransaction)
    BY DEF HandlerOK, Handler
  <2>2. CASE l.pc = "answered"
    BY <1>1, <2>1, <2>2 DEF MadeOK, TransactionMade
  <2>3. CASE l.pc # "answered" /\ l.pc # "getTransaction"
    <3>1. HasTransaction(l)
      BY <2>3 DEF OfTransaction, HasTransaction
    <3>2. Len(l.txs) = 1 /\ l.txs[1].hash = l.want.hash
      BY <3>1 DEF HandlerOK, ReceiptsOK
    <3> QED
      BY <1>1, <2>1, <2>3, <3>2
  <2> QED
    BY <2>2, <2>3
<1> QED
  BY <1>3, <1>4, <1>5 DEF MadeOK

LEMMA GrowingKeepsMInv ==
  ASSUME IInv, MInv, ProduceBlock
  PROVE  MInv'
PROOF
<1>1. PICK body \in Bodies : chain' = Append(chain, body)
  BY DEF ProduceBlock
<1>2. ChainOK(chain)
  BY DEF IInv
<1>3. /\ DOMAIN chain \subseteq DOMAIN chain'
      /\ \A h \in DOMAIN chain : chain'[h] = chain[h]
  BY <1>1, <1>2, GrownChain
<1>4. \A r \in Requests : MadeOK(req[r], chain')
  BY <1>2, <1>3, GrownMade DEF IInv, MInv
<1> QED
  BY <1>4 DEF MInv, ProduceBlock

LEMMA OneMade ==
  ASSUME IInv, MInv, NEW r \in Requests, NEW l, MadeOK(l, chain), Become(r, l)
  PROVE  MInv'
PROOF
<1>1. chain' = chain /\ req' = [req EXCEPT ![r] = l]
  BY DEF Become
<1>2. ASSUME NEW s \in Requests
      PROVE  MadeOK(req'[s], chain)
  <2>1. CASE s = r
    BY <1>1, <2>1 DEF IInv
  <2>2. CASE s # r
    BY <1>1, <2>2 DEF IInv, MInv
  <2> QED
    BY <2>1, <2>2
<1> QED
  BY <1>1, <1>2 DEF MInv

LEMMA IdleMade ==
  ASSUME NEW c
  PROVE  MadeOK(Idle, c)
BY DEF Idle, MadeOK, ErrorMade, BlockMade, LogsMade, TransactionMade, HasBlock, HasReceipts,
       OfTransaction

LEMMA EndedMade ==
  ASSUME NEW c, NEW new, \/ new.pc = "failed"
                         \/ new.pc = "aborted" /\ new.error = None
  PROVE  MadeOK(new, c)
BY DEF MadeOK, ErrorMade, BlockMade, LogsMade, TransactionMade, HasBlock, HasReceipts,
       OfTransaction

LEMMA FailKeepsMInv ==
  ASSUME IInv, MInv, NEW r \in Requests, NEW e, Fail(r, e)
  PROVE  MInv'
PROOF
<1> DEFINE new == [req[r] EXCEPT !.pc = "failed", !.error = e]
<1>1. new.pc = "failed"
  BY DEF IInv, HandlerOK, Handler
<1>2. MadeOK(new, chain)
  BY <1>1, EndedMade
<1> QED
  BY <1>2, OneMade DEF Fail

LEMMA AbortKeepsMInv ==
  ASSUME IInv, MInv, NEW r \in Requests, Abort(r), req[r].pc \in Steps
  PROVE  MInv'
PROOF
<1> DEFINE new == [req[r] EXCEPT !.pc = "aborted"]
<1>1. req[r] \in Handler /\ req[r].error = None
  BY DEF IInv, HandlerOK, MInv, MadeOK, ErrorMade, Steps
<1>2. new.pc = "aborted" /\ new.error = None
  BY <1>1 DEF Handler
<1>3. MadeOK(new, chain)
  BY <1>2, EndedMade
<1> QED
  BY <1>3, OneMade DEF Abort

LEMMA DeliverKeepsMInv ==
  ASSUME IInv, MInv, NEW r \in Requests, Deliver(r)
  PROVE  MInv'
BY IdleMade, OneMade DEF Deliver

LEMMA AcceptKeepsMInv ==
  ASSUME IInv, MInv, NEW r \in Requests, NEW want, NEW pc, Accept(r, want, pc),
         pc \in {"getBlock", "getTransaction"}
  PROVE  MInv'
PROOF
<1> DEFINE arrived == [Idle EXCEPT !.want = want, !.since = Len(chain) - 1]
           new == IF mode = "ONLINE" THEN [arrived EXCEPT !.pc = pc]
                  ELSE [arrived EXCEPT !.pc = "failed",
                                       !.error = "ErrUnavailableOffline"]
<1>1. CASE mode = "ONLINE"
  <2>1. new.pc = pc /\ new.error = None /\ new.id = None /\ new.parent = None
    BY <1>1 DEF Idle
  <2> HIDE DEF new
  <2>2. MadeOK(new, chain)
    BY <2>1 DEF MadeOK, ErrorMade, BlockMade, LogsMade, TransactionMade, HasBlock,
                HasReceipts, OfTransaction
  <2> QED
    BY <2>2, OneMade DEF Accept, new
<1>2. CASE mode # "ONLINE"
  <2>1. new.pc = "failed"
    BY <1>2 DEF Idle
  <2> HIDE DEF new
  <2>2. MadeOK(new, chain)
    BY <2>1, EndedMade
  <2> QED
    BY <2>2, OneMade DEF Accept, new
<1> QED
  BY <1>1, <1>2

LEMMA GetBlockKeepsMInv ==
  ASSUME IInv, MInv, NEW r \in Requests, GetBlock(r)
  PROVE  MInv'
PROOF
<1> DEFINE l == req[r]
           h == RequestedHeight(l.want)
           new == [l EXCEPT !.pc = "getBlockReceipts",
                            !.id = ParseBlock(h).id,
                            !.parent = ParseBlock(h).parent,
                            !.txs = ParseBlock(h).transactions]
<1>1. CASE Fail(r, "ErrWrongBlockHash")
  BY <1>1, FailKeepsMInv
<1>2. CASE h \in Height /\ BlockAt(h).version \in SupportedVersions /\ Become(r, new)
  <2>1. l \in Handler /\ l.pc = "getBlock" /\ l.want \in BlockRequest /\ l.error = None
    BY DEF GetBlock, IInv, HandlerOK, WantsOK, MInv, MadeOK, ErrorMade
  <2>2. /\ new.pc = "getBlockReceipts" /\ new.want = l.want /\ new.error = None
        /\ new.id = ParseBlock(h).id /\ new.txs = ParseBlock(h).transactions
    BY <2>1 DEF Handler
  <2>3. new.id.index = h
    BY <2>2 DEF ParseBlock, Identifier
  <2>4. h = 0 => Len(new.txs) = 1
    BY <2>2 DEF ParseBlock, ParseGenesisTransaction
  <2> HIDE DEF h, new
  <2>5. BlockMade(new, chain)
    BY <1>2, <2>2, <2>3, <2>4 DEF BlockMade, HasReceipts, BlockAt
  <2>6. MadeOK(new, chain)
    BY <2>2, <2>5 DEF MadeOK, ErrorMade, LogsMade, TransactionMade, OfTransaction
  <2> QED
    BY <1>2, <2>6, OneMade
<1> QED
  BY <1>1, <1>2 DEF GetBlock

LEMMA GetBlockReceiptsKeepsMInv ==
  ASSUME IInv, MInv, NEW r \in Requests, GetBlockReceipts(r)
  PROVE  MInv'
PROOF
<1> DEFINE l == req[r]
           h == l.id.hash.block
           receipts == ParseTransactionResults(chain[h + 1].receipts)
           new == [l EXCEPT !.pc = "blockFees", !.receipts = receipts]
<1>1. CASE Fail(r, "ErrWrongBlockHash")
  BY <1>1, FailKeepsMInv
<1>2. CASE Become(r, new)
  <2>1. /\ l \in Handler /\ l.pc = "getBlockReceipts" /\ l.n = 1 /\ HasBlock(l)
        /\ l.error = None /\ BlockMade(l, chain)
    BY DEF GetBlockReceipts, IInv, HandlerOK, LoopOK, Steps, HasBlock, MInv, MadeOK, ErrorMade
  <2>2. /\ new.pc = "blockFees" /\ new.error = None /\ new.id = l.id /\ new.txs = l.txs
        /\ new.n = 1
    BY <2>1 DEF Handler
  <2>3. l.txs \in Seq(RosettaTransaction)
    BY <2>1 DEF Handler
  <2> HIDE DEF new
  <2>4. BlockMade(new, chain)
    BY <2>1, <2>2, <2>3 DEF BlockMade
  <2>5. MadeOK(new, chain)
    BY <2>2, <2>4 DEF MadeOK, ErrorMade, LogsMade, TransactionMade, OfTransaction
  <2> QED
    BY <1>2, <2>5, OneMade
<1> QED
  BY <1>1, <1>2 DEF GetBlockReceipts, BlockAt

LEMMA AnswerBlockKeepsMInv ==
  ASSUME IInv, MInv, NEW r \in Requests, AnswerBlock(r)
  PROVE  MInv'
PROOF
<1> DEFINE l == req[r]
           new == [l EXCEPT !.pc = "answered"]
<1>1. /\ l \in Handler /\ l.pc = "blockFees" /\ l.want \in BlockRequest
      /\ l.error = None /\ BlockMade(l, chain)
  BY DEF AnswerBlock, IInv, HandlerOK, WantsOK, MInv, MadeOK, ErrorMade
<1>2. /\ new.pc = "answered" /\ new.error = None /\ new.id = l.id /\ new.txs = l.txs
      /\ new.n = l.n /\ new.want = l.want /\ new.want.endpoint = "block"
  BY <1>1 DEF Handler, BlockRequest
<1> HIDE DEF new
<1>3. HasBlock(l) /\ HasReceipts(l)
  BY <1>1 DEF HasBlock, HasReceipts
<1>4. BlockMade(new, chain)
  BY <1>1, <1>2, <1>3 DEF BlockMade
<1>5. MadeOK(new, chain)
  BY <1>2, <1>4 DEF MadeOK, ErrorMade, LogsMade, TransactionMade, OfTransaction
<1> QED
  BY <1>5, OneMade DEF AnswerBlock, new

\* New operations for one transaction of a list.
LEMMA ReplacedOne ==
  ASSUME NEW txs \in Seq(RosettaTransaction), NEW n \in DOMAIN txs, NEW ops,
         NEW new, new = Replaced(txs, n, ops)
  PROVE  /\ DOMAIN new = DOMAIN txs /\ Len(new) = Len(txs)
         /\ new[n].operations = ops
         /\ \A t \in DOMAIN txs : new[t].hash = txs[t].hash
         /\ \A t \in DOMAIN txs : t # n => new[t] = txs[t]
PROOF
<1> DEFINE tx == [txs[n] EXCEPT !.operations = ops]
           V == RosettaTransaction \cup {tx}
<1>1. txs[n] \in RosettaTransaction
  OBVIOUS
<1>2. tx.operations = ops /\ tx.hash = txs[n].hash
  BY <1>1 DEF RosettaTransaction
<1>3. new = [txs EXCEPT ![n] = tx]
  BY DEF Replaced
<1>4. txs \in Seq(V) /\ tx \in V
  OBVIOUS
<1> HIDE DEF tx, V
<1> QED
  BY <1>2, <1>3, <1>4

\* The receipt that a fee step uses is the one of its transaction.
LEMMA FittingReceipt ==
  ASSUME IInv, MInv, NEW r \in Requests, req[r].pc \in {"blockFees", "txFees"},
         req[r].n \in DOMAIN req[r].txs, req[r].n \in DOMAIN req[r].receipts,
         req[r].receipts[req[r].n] # None
  PROVE  LET hash == req[r].txs[req[r].n].hash
             receipt == req[r].receipts[req[r].n]
         IN IF hash.block = 0 THEN receipt.stepUsed = 0
            ELSE HasReceiptIn(chain, hash) /\ receipt = ReceiptIn(chain, hash)
PROOF
<1> DEFINE l == req[r]
           hash == l.txs[l.n].hash
           receipt == l.receipts[l.n]
<1>1. HandlerOK(l, chain) /\ MadeOK(l, chain) /\ ChainOK(chain)
  BY DEF IInv, MInv
<1>2. CASE l.pc = "blockFees"
  <2>1. HasBlock(l) /\ HasReceipts(l)
    BY <1>2 DEF HasBlock, HasReceipts
  <2>2. /\ hash = TxHash(l.id.index, l.n)
        /\ l.receipts = ParseTransactionResults(chain[l.id.index + 1].receipts)
    BY <1>1, <2>1 DEF HandlerOK, BlockOK, ReceiptsOK
  <2>3. hash.block = l.id.index /\ hash.position = l.n
    BY <2>2 DEF TxHash
  <2>4. HasReceiptIn(chain, hash) /\ receipt = ReceiptIn(chain, hash)
    BY <2>2, <2>3 DEF HasReceiptIn, ReceiptIn, ParseTransactionResults,
                      ParseTransactionResult
  <2>5. hash.block = 0 => receipt = GenesisReceipt
    <3>1. hash.block = 0 => chain[hash.block + 1].receipts = << GenesisReceipt >>
      BY <1>1 DEF ChainOK, Genesis
    <3>2. /\ hash.position \in DOMAIN chain[hash.block + 1].receipts
          /\ receipt = chain[hash.block + 1].receipts[hash.position]
      BY <2>4 DEF HasReceiptIn, ReceiptIn
    <3> HIDE DEF hash, receipt
    <3> QED
      BY <3>1, <3>2
  <2> QED
    BY <2>4, <2>5 DEF GenesisReceipt
<1>3. CASE l.pc = "txFees"
  <2>1. HasTransaction(l) /\ OfTransaction(l)
    BY <1>3 DEF HasTransaction, OfTransaction
  <2>2. l.n = 1 /\ hash = l.want.hash /\ hash.block > 0
    BY <1>1, <2>1 DEF HandlerOK, ReceiptsOK
  <2>3. /\ hash.position \in DOMAIN chain[hash.block + 1].receipts
        /\ receipt = ParseTransactionResult(ReceiptIn(chain, hash))
    BY <1>1, <1>3, <2>1, <2>2 DEF MadeOK, TransactionMade
  <2> QED
    BY <2>2, <2>3 DEF HasReceiptIn, ParseTransactionResult
<1> QED
  BY <1>2, <1>3

LEMMA FeesTakenKeepsMInv ==
  ASSUME IInv, MInv, NEW r \in Requests, req[r].pc \in {"blockFees", "txFees"},
         req[r].n \in DOMAIN req[r].txs,
         ReceiptFits(req[r].txs[req[r].n].operations, req[r].receipts, req[r].n),
         Become(r, FeesTaken(req[r]))
  PROVE  MInv'
PROOF
<1> DEFINE l == req[r]
           ops == l.txs[l.n].operations
           receipt == l.receipts[l.n]
           txs == Replaced(l.txs, l.n, RewriteFees(ops, receipt))
           new == [l EXCEPT !.pc = "logs", !.k = 1, !.txs = txs,
                            !.fa = ClaimAccount(ops, l.fa), !.last = Len(ops) - 1]
<1>1. /\ HandlerOK(l, chain) /\ MadeOK(l, chain) /\ l \in Handler /\ ChainOK(chain)
      /\ l.pc \in {"blockFees", "txFees"} /\ l.n \in DOMAIN l.txs
      /\ l.txs \in Seq(RosettaTransaction) /\ l.n \in Nat /\ l.error = None
  BY DEF IInv, HandlerOK, Handler, MInv, MadeOK, ErrorMade
<1>2. /\ l.pc = "blockFees" => HasBlock(l) /\ HasReceipts(l) /\ l.want \in BlockRequest
      /\ l.pc = "txFees" => HasTransaction(l) /\ OfTransaction(l)
                            /\ l.want \in TransactionRequest
  BY <1>1 DEF HandlerOK, WantsOK, HasBlock, HasReceipts, HasTransaction, OfTransaction
<1>3. l.txs[l.n] \in RosettaTransaction /\ InChain(chain, l.txs[l.n].hash)
  BY <1>1 DEF HandlerOK, TransactionsOK
<1>4. Fresh(l.txs[l.n], chain)
  BY <1>1, <1>2 DEF HandlerOK, Unfinished
<1>5. IF l.txs[l.n].hash.block = 0 THEN receipt.stepUsed = 0
      ELSE HasReceiptIn(chain, l.txs[l.n].hash) /\ receipt = ReceiptIn(chain, l.txs[l.n].hash)
  BY <1>1, FittingReceipt DEF ReceiptFits
<1>6. /\ DOMAIN txs = DOMAIN l.txs /\ Len(txs) = Len(l.txs)
      /\ txs[l.n].operations = RewriteFees(ops, receipt)
      /\ \A t \in DOMAIN l.txs : txs[t].hash = l.txs[t].hash
      /\ \A t \in DOMAIN l.txs : t # l.n => txs[t] = l.txs[t]
  <2> DEFINE priced == RewriteFees(ops, receipt)
  <2>1. txs = Replaced(l.txs, l.n, priced)
    OBVIOUS
  <2> HIDE DEF txs, priced
  <2>2. l.n \in DOMAIN l.txs /\ l.txs \in Seq(RosettaTransaction)
    BY <1>1
  <2>3. /\ DOMAIN txs = DOMAIN l.txs /\ Len(txs) = Len(l.txs)
        /\ txs[l.n].operations = priced
        /\ \A t \in DOMAIN l.txs : txs[t].hash = l.txs[t].hash
        /\ \A t \in DOMAIN l.txs : t # l.n => txs[t] = l.txs[t]
    BY <2>1, <2>2, ReplacedOne
  <2> QED
    BY <2>3 DEF priced
<1> HIDE DEF txs
<1>7. ReadTo(txs[l.n], receipt, 0, chain)
  <2> DEFINE tx == l.txs[l.n]
             done == txs[l.n]
  <2>1. done.hash = tx.hash /\ done.operations = RewriteFees(tx.operations, receipt)
    BY <1>1, <1>6
  <2>2. /\ tx \in RosettaTransaction /\ InChain(chain, tx.hash) /\ Fresh(tx, chain)
        /\ ChainOK(chain)
        /\ IF tx.hash.block = 0 THEN receipt.stepUsed = 0
           ELSE HasReceiptIn(chain, tx.hash) /\ receipt = ReceiptIn(chain, tx.hash)
    BY <1>1, <1>3, <1>4, <1>5
  <2> HIDE DEF tx, done, receipt
  <2> QED
    BY <2>1, <2>2, FeesMade DEF done
<1>8. Become(r, new)
  BY DEF FeesTaken, Replaced, txs
<1>9. /\ new.pc = "logs" /\ new.k = 1 /\ new.txs = txs /\ new.n = l.n
      /\ new.receipts = l.receipts /\ new.want = l.want /\ new.id = l.id
      /\ new.parent = l.parent /\ new.error = None
  BY <1>1 DEF Handler
<1> HIDE DEF new
<1>10. /\ HasBlock(new) => HasBlock(l) /\ HasReceipts(l)
       /\ OfTransaction(new) => OfTransaction(l) /\ l.pc = "txFees"
  BY <1>1, <1>2, <1>9
  DEF HasBlock, OfTransaction, BlockRequest, TransactionRequest
<1>11. BlockMade(new, chain)
  <2>1. \A t \in DOMAIN txs : t < l.n => txs[t] = l.txs[t]
    BY <1>1, <1>6
  <2> QED
    BY <1>1, <1>6, <1>9, <1>10, <2>1 DEF MadeOK, BlockMade, HasReceipts
<1>12. LogsMade(new, chain)
  BY <1>7, <1>9 DEF LogsMade
<1>13. TransactionMade(new, chain)
  BY <1>1, <1>9, <1>10 DEF MadeOK, TransactionMade
<1>14. MadeOK(new, chain)
  BY <1>9, <1>11, <1>12, <1>13 DEF MadeOK, ErrorMade
<1> QED
  BY <1>8, <1>14, OneMade

LEMMA BlockFeesKeepsMInv ==
  ASSUME IInv, MInv, NEW r \in Requests, BlockFees(r)
  PROVE  MInv'
PROOF
<1>1. CASE Abort(r)
  BY <1>1, AbortKeepsMInv DEF BlockFees, Steps
<1>2. CASE ~Abort(r)
  <2>1. /\ req[r].pc = "blockFees" /\ req[r].n \in DOMAIN req[r].txs
        /\ ReceiptFits(req[r].txs[req[r].n].operations, req[r].receipts, req[r].n)
        /\ Become(r, FeesTaken(req[r]))
    BY <1>2 DEF BlockFees, FeesTaken
  <2> QED
    BY <2>1, FeesTakenKeepsMInv
<1> QED
  BY <1>1, <1>2

LEMMA TransactionFeesKeepsMInv ==
  ASSUME IInv, MInv, NEW r \in Requests, TransactionFees(r)
  PROVE  MInv'
PROOF
<1>1. CASE Abort(r)
  BY <1>1, AbortKeepsMInv DEF TransactionFees, Steps
<1>2. CASE ~Abort(r)
  <2>1. req[r].pc = "txFees" /\ HandlerOK(req[r], chain)
    BY DEF TransactionFees, IInv
  <2>2. req[r].n = 1 /\ Len(req[r].txs) = 1 /\ req[r].txs \in Seq(RosettaTransaction)
    BY <2>1 DEF HandlerOK, ReceiptsOK, HasTransaction, Handler
  <2>3. req[r].n \in DOMAIN req[r].txs
    BY <2>2
  <2>4. /\ ReceiptFits(req[r].txs[req[r].n].operations, req[r].receipts, req[r].n)
        /\ Become(r, FeesTaken(req[r]))
    BY <1>2, <2>2 DEF TransactionFees, FeesTaken
  <2> QED
    BY <2>1, <2>3, <2>4, FeesTakenKeepsMInv
<1> QED
  BY <1>1, <1>2

LEMMA AppendLogKeepsMInv ==
  ASSUME IInv, MInv, NEW r \in Requests, AppendLog(r)
  PROVE  MInv'
PROOF
<1> DEFINE l == req[r]
           hash == l.txs[l.n].hash
           ops == l.txs[l.n].operations
           receipt == l.receipts[l.n]
           el == receipt.eventLogs[l.k]
           logged == ops \o LogOps(l.fa, el, l.last)
           txs == Replaced(l.txs, l.n, logged)
           new == [l EXCEPT !.txs = txs, !.last = l.last + LogAdvance(el),
                            !.k = l.k + 1]
<1>1. l.pc = "logs" /\ l.k \in DOMAIN receipt.eventLogs
  BY DEF AppendLog
<1>2. /\ HandlerOK(l, chain) /\ l \in Handler
      /\ l.txs \in Seq(RosettaTransaction)
      /\ l.n \in DOMAIN l.txs
      /\ l.n \in Nat /\ l.k \in Nat /\ l.k > 0
      /\ hash \in TxHashes
      /\ InChain(chain, hash)
  BY <1>1, AtLogs
<1>3. MadeOK(l, chain) /\ l.error = None /\ ChainOK(chain)
  BY <1>1 DEF IInv, MInv, MadeOK, ErrorMade
<1>4. Become(r, new)
  BY DEF AppendLog, Replaced
<1>5. /\ l.last = Len(ops) - 1
      /\ hash.block # 0
      /\ l.fa = ClaimantIn(chain, hash)
  <2>1. /\ l.last = Len(ops) - 1
        /\ IF hash.block = 0 THEN receipt.eventLogs = <<>>
           ELSE l.fa = ClaimantIn(chain, hash)
    BY <1>1, <1>2 DEF HandlerOK, LogsOK
  <2> QED
    BY <1>1, <2>1
<1>6. l.txs[l.n] \in RosettaTransaction
  BY <1>2
<1>7. /\ DOMAIN txs = DOMAIN l.txs /\ Len(txs) = Len(l.txs)
      /\ txs[l.n].operations = logged
      /\ \A t \in DOMAIN l.txs : txs[t].hash = l.txs[t].hash
      /\ \A t \in DOMAIN l.txs : t # l.n => txs[t] = l.txs[t]
  <2>1. txs = Replaced(l.txs, l.n, logged)
    OBVIOUS
  <2>2. l.n \in DOMAIN l.txs /\ l.txs \in Seq(RosettaTransaction)
    BY <1>2
  <2> HIDE DEF txs, logged
  <2> QED
    BY <2>1, <2>2, ReplacedOne
<1> HIDE DEF txs
<1>8. ReadTo(txs[l.n], receipt, l.k, chain)
  <2> DEFINE tx == l.txs[l.n]
             done == txs[l.n]
             k == l.k - 1
             fa == l.fa
             last == l.last
  <2>1. k \in Nat /\ k + 1 = l.k
    BY <1>2
  <2>2. done.hash = tx.hash
    BY <1>2, <1>7
  <2>3. done.operations = tx.operations \o LogOps(fa, receipt.eventLogs[k + 1], last)
    BY <1>7, <2>1
  <2>4. ReadTo(tx, receipt, k, chain)
    BY <1>1, <1>3 DEF MadeOK, LogsMade
  <2>5. k + 1 \in DOMAIN receipt.eventLogs
    BY <1>1, <2>1
  <2>6. /\ tx \in RosettaTransaction /\ InChain(chain, tx.hash) /\ tx.hash.block # 0
        /\ last = Len(tx.operations) - 1 /\ fa = ClaimantIn(chain, tx.hash)
    BY <1>2, <1>5, <1>6
  <2> HIDE DEF tx, done, k, fa, last, receipt
  <2>7. ReadTo(done, receipt, k + 1, chain)
    BY <1>3, <2>1, <2>2, <2>3, <2>4, <2>5, <2>6, LogMade
  <2> QED
    BY <2>1, <2>7 DEF done
<1>9. /\ new.pc = "logs" /\ new.k = l.k + 1 /\ new.txs = txs /\ new.n = l.n
      /\ new.receipts = l.receipts /\ new.want = l.want /\ new.id = l.id
      /\ new.parent = l.parent /\ new.error = None
  BY <1>1, <1>2, <1>3 DEF Handler
<1>10. new.k - 1 = l.k
  BY <1>2, <1>9
<1> HIDE DEF new
<1>11. /\ HasBlock(new) => HasBlock(l) /\ HasReceipts(l)
       /\ OfTransaction(new) => OfTransaction(l)
  BY <1>1, <1>9 DEF HasBlock, HasReceipts, OfTransaction
<1>12. BlockMade(new, chain)
  <2>1. ASSUME NEW t \in DOMAIN txs, t < l.n
        PROVE  txs[t] = l.txs[t]
    <3>1. t \in DOMAIN l.txs
      BY <1>7
    <3>2. t # l.n
      <4>1. l.n \in Nat
        BY <1>2
      <4> HIDE DEF l, txs
      <4> QED
        BY <2>1, <4>1
    <3> QED
      BY <1>7, <3>1, <3>2
  <2> QED
    BY <1>3, <1>7, <1>9, <1>11, <2>1 DEF MadeOK, BlockMade, HasReceipts
<1>13. LogsMade(new, chain)
  BY <1>8, <1>9, <1>10 DEF LogsMade
<1>14. TransactionMade(new, chain)
  BY <1>1, <1>3, <1>9, <1>11 DEF MadeOK, TransactionMade
<1>15. MadeOK(new, chain)
  BY <1>9, <1>12, <1>13, <1>14 DEF MadeOK, ErrorMade
<1> QED
  BY <1>4, <1>15, OneMade

\* The status step of both endpoints completes the transaction at n.
LEMMA StatusCompletes ==
  ASSUME IInv, MInv, NEW r \in Requests, req[r].pc = "logs",
         req[r].k \notin DOMAIN req[r].receipts[req[r].n].eventLogs
  PROVE  LET l == req[r]
             txs == Replaced(l.txs, l.n,
                      SetTransferStatus(l.txs[l.n].operations, l.receipts[l.n]))
         IN /\ DOMAIN txs = DOMAIN l.txs /\ Len(txs) = Len(l.txs)
            /\ \A t \in DOMAIN l.txs : txs[t].hash = l.txs[t].hash
            /\ \A t \in DOMAIN l.txs : t # l.n => txs[t] = l.txs[t]
            /\ Complete(txs[l.n], chain)
PROOF
<1> DEFINE l == req[r]
           receipt == l.receipts[l.n]
           tx == l.txs[l.n]
           status == SetTransferStatus(tx.operations, receipt)
           txs == Replaced(l.txs, l.n, status)
           done == txs[l.n]
           k == l.k - 1
<1>1. /\ l.txs \in Seq(RosettaTransaction)
      /\ l.n \in DOMAIN l.txs
      /\ l.k \in Nat /\ l.k > 0
      /\ InChain(chain, tx.hash)
      /\ receipt.eventLogs \in Seq(EventLog)
  BY AtLogs
<1>2. MadeOK(l, chain) /\ ChainOK(chain)
  BY DEF IInv, MInv
<1>3. tx \in RosettaTransaction
  BY <1>1
<1>4. ReadTo(tx, receipt, k, chain)
  BY <1>2 DEF MadeOK, LogsMade
<1>5. /\ DOMAIN txs = DOMAIN l.txs /\ Len(txs) = Len(l.txs)
      /\ txs[l.n].operations = status
      /\ \A t \in DOMAIN l.txs : txs[t].hash = l.txs[t].hash
      /\ \A t \in DOMAIN l.txs : t # l.n => txs[t] = l.txs[t]
  <2>1. txs = Replaced(l.txs, l.n, status)
    OBVIOUS
  <2>2. l.n \in DOMAIN l.txs /\ l.txs \in Seq(RosettaTransaction)
    BY <1>1
  <2> HIDE DEF txs, status
  <2> QED
    BY <2>1, <2>2, ReplacedOne
<1>6. tx.hash.block # 0 => k = Len(receipt.eventLogs)
  <2>1. tx.hash.block # 0 => k \in 0..Len(receipt.eventLogs)
    BY <1>4 DEF ReadTo
  <2>2. k + 1 \notin 1..Len(receipt.eventLogs) /\ Len(receipt.eventLogs) \in Nat
    <3>1. k + 1 = l.k
      BY <1>1
    <3>2. receipt.eventLogs \in Seq(EventLog)
      BY <1>1
    <3> HIDE DEF receipt
    <3>3. /\ DOMAIN receipt.eventLogs = 1..Len(receipt.eventLogs)
          /\ Len(receipt.eventLogs) \in Nat
      BY <3>2
    <3>4. l.k \notin DOMAIN receipt.eventLogs
      BY DEF receipt
    <3> HIDE DEF k
    <3> QED
      BY <3>1, <3>3, <3>4
  <2> QED
    BY <2>1, <2>2
<1>7. done.hash = tx.hash /\ done.operations = SetTransferStatus(tx.operations, receipt)
  BY <1>1, <1>5
<1>8. Complete(done, chain)
  <2> HIDE DEF tx, done, k, receipt
  <2> QED
    BY <1>1, <1>2, <1>3, <1>4, <1>6, <1>7, StatusMade
<1> QED
  BY <1>5, <1>8

LEMMA FinishBlockTransactionKeepsMInv ==
  ASSUME IInv, MInv, NEW r \in Requests, FinishBlockTransaction(r)
  PROVE  MInv'
PROOF
<1> DEFINE l == req[r]
           receipt == l.receipts[l.n]
           txs == Replaced(l.txs, l.n,
                    SetTransferStatus(l.txs[l.n].operations, receipt))
           new == [l EXCEPT !.pc = "blockFees", !.txs = txs, !.n = l.n + 1]
<1>1. /\ l.pc = "logs" /\ l.want.endpoint = "block"
      /\ l.k \notin DOMAIN receipt.eventLogs
      /\ Become(r, new)
  BY DEF FinishBlockTransaction, Replaced
<1>2. /\ l \in Handler /\ l.n \in DOMAIN l.txs
      /\ l.n \in Nat /\ l.n > 0 /\ l.txs \in Seq(RosettaTransaction)
  BY <1>1, AtLogs
<1>3. MadeOK(l, chain) /\ l.error = None
  BY <1>1 DEF MInv, MadeOK, ErrorMade
<1>4. /\ DOMAIN txs = DOMAIN l.txs /\ Len(txs) = Len(l.txs)
      /\ \A t \in DOMAIN l.txs : t # l.n => txs[t] = l.txs[t]
      /\ Complete(txs[l.n], chain)
  BY <1>1, StatusCompletes
<1> HIDE DEF txs
<1>5. HasBlock(l) /\ HasReceipts(l)
  BY <1>1 DEF HasBlock, HasReceipts
<1>6. /\ new.pc = "blockFees" /\ new.txs = txs /\ new.n = l.n + 1
      /\ new.id = l.id /\ new.error = None
  BY <1>2, <1>3 DEF Handler
<1> HIDE DEF new
<1>7. BlockMade(new, chain)
  <2>1. ASSUME NEW t \in DOMAIN txs, t < l.n + 1
        PROVE  Complete(txs[t], chain)
    <3>1. CASE t = l.n
      BY <1>4, <3>1
    <3>2. CASE t # l.n
      <4>1. t \in DOMAIN l.txs /\ t < l.n /\ txs[t] = l.txs[t]
        BY <1>2, <1>4, <2>1, <3>2
      <4> QED
        BY <1>3, <1>5, <4>1 DEF MadeOK, BlockMade
    <3> QED
      BY <3>1, <3>2
  <2> QED
    BY <1>3, <1>4, <1>5, <1>6, <2>1 DEF MadeOK, BlockMade
<1>8. MadeOK(new, chain)
  BY <1>6, <1>7 DEF MadeOK, ErrorMade, LogsMade, TransactionMade, OfTransaction
<1> QED
  BY <1>1, <1>8, OneMade

LEMMA AnswerTransactionKeepsMInv ==
  ASSUME IInv, MInv, NEW r \in Requests, AnswerTransaction(r)
  PROVE  MInv'
PROOF
<1> DEFINE l == req[r]
           receipt == l.receipts[l.n]
           txs == Replaced(l.txs, l.n,
                    SetTransferStatus(l.txs[l.n].operations, receipt))
           new == [l EXCEPT !.pc = "answered", !.txs = txs]
<1>1. l.pc = "logs" /\ l.want.endpoint = "transaction"
  BY DEF AnswerTransaction
<1>2. /\ HandlerOK(l, chain) /\ l \in Handler /\ l.txs \in Seq(RosettaTransaction)
      /\ MadeOK(l, chain) /\ l.error = None
  BY <1>1, AtLogs DEF MInv, MadeOK, ErrorMade
<1>3. HasTransaction(l) /\ OfTransaction(l)
  BY <1>1 DEF HasTransaction, OfTransaction
<1>4. /\ l.n = 1 /\ Len(l.txs) = 1 /\ l.txs[1].hash = l.want.hash
      /\ l.want.hash.block > 0
  BY <1>2, <1>3 DEF HandlerOK, ReceiptsOK
<1>5. l.k \notin DOMAIN receipt.eventLogs /\ Become(r, new)
  BY <1>4 DEF AnswerTransaction, Replaced
<1>6. /\ Len(txs) = Len(l.txs)
      /\ \A t \in DOMAIN l.txs : txs[t].hash = l.txs[t].hash
      /\ Complete(txs[l.n], chain)
  BY <1>1, <1>5, StatusCompletes
<1> HIDE DEF txs
<1>7. Len(txs) = 1 /\ txs[1].hash = l.want.hash /\ Complete(txs[1], chain)
  <2>1. 1 \in DOMAIN l.txs
    BY <1>2, <1>4
  <2> QED
    BY <1>4, <1>6, <2>1
<1>8. /\ new.pc = "answered" /\ new.txs = txs /\ new.want = l.want
      /\ new.id = l.id /\ new.parent = l.parent /\ new.error = None
  BY <1>2 DEF Handler
<1> HIDE DEF new
<1>9. TransactionMade(new, chain)
  BY <1>1, <1>2, <1>3, <1>4, <1>7, <1>8 DEF MadeOK, TransactionMade
<1>10. MadeOK(new, chain)
  BY <1>1, <1>8, <1>9 DEF MadeOK, ErrorMade, BlockMade, LogsMade, HasBlock, HasReceipts
<1> QED
  BY <1>5, <1>10, OneMade

LEMMA GetTransactionKeepsMInv ==
  ASSUME IInv, MInv, NEW r \in Requests, GetTransaction(r)
  PROVE  MInv'
PROOF
<1> DEFINE l == req[r]
           hash == l.want.hash
           raw == BlockAt(hash.block).txs[hash.position]
           txs == << [hash |-> hash, operations |-> ParseTransaction(raw)] >>
           new == [l EXCEPT !.pc = "getTransactionResult", !.txs = txs]
<1>1. CASE Fail(r, "ErrWrongBlockHash")
  BY <1>1, FailKeepsMInv
<1>2. CASE Abort(r)
  BY <1>2, AbortKeepsMInv DEF GetTransaction, Steps
<1>3. CASE raw.wellFormed /\ Become(r, new)
  <2>1. /\ l \in Handler /\ l.pc = "getTransaction" /\ OfTransaction(l)
        /\ MadeOK(l, chain) /\ l.error = None
    BY DEF GetTransaction, IInv, HandlerOK, MInv, MadeOK, ErrorMade, OfTransaction
  <2>2. RawIn(chain, hash).wellFormed
    BY <1>3 DEF RawIn, BlockAt
  <2> HIDE DEF txs
  <2>3. /\ new.pc = "getTransactionResult" /\ new.want = l.want
        /\ new.id = l.id /\ new.parent = l.parent /\ new.error = None
    BY <2>1 DEF Handler
  <2> HIDE DEF new
  <2>4. TransactionMade(new, chain)
    BY <2>1, <2>2, <2>3 DEF MadeOK, TransactionMade
  <2>5. MadeOK(new, chain)
    BY <2>3, <2>4 DEF MadeOK, ErrorMade, BlockMade, LogsMade, HasBlock, HasReceipts
  <2> QED
    BY <1>3, <2>5, OneMade
<1> QED
  BY <1>1, <1>2, <1>3 DEF GetTransaction

LEMMA GetTransactionResultKeepsMInv ==
  ASSUME IInv, MInv, NEW r \in Requests, GetTransactionResult(r)
  PROVE  MInv'
PROOF
<1> DEFINE l == req[r]
           hash == l.want.hash
           raw == BlockAt(hash.block).receipts[hash.position]
           receipts == << ParseTransactionResult(raw) >>
           new == [l EXCEPT !.pc = "txFees", !.receipts = receipts]
<1>1. CASE Fail(r, "ErrWrongBlockHash")
  BY <1>1, FailKeepsMInv
<1>2. CASE hash.position \in DOMAIN BlockAt(hash.block).receipts /\ Become(r, new)
  <2>1. /\ l \in Handler /\ l.pc = "getTransactionResult" /\ OfTransaction(l)
        /\ MadeOK(l, chain) /\ l.error = None
    BY DEF GetTransactionResult, IInv, HandlerOK, MInv, MadeOK, ErrorMade, OfTransaction
  <2>2. /\ hash.position \in DOMAIN chain[hash.block + 1].receipts
        /\ raw = ReceiptIn(chain, hash)
    BY <1>2 DEF ReceiptIn, BlockAt
  <2> HIDE DEF raw
  <2>3. /\ new.pc = "txFees" /\ new.want = l.want /\ new.receipts = receipts
        /\ new.id = l.id /\ new.parent = l.parent /\ new.error = None
    BY <2>1 DEF Handler
  <2> HIDE DEF new
  <2>4. TransactionMade(new, chain)
    BY <2>1, <2>2, <2>3 DEF MadeOK, TransactionMade
  <2>5. MadeOK(new, chain)
    BY <2>3, <2>4 DEF MadeOK, ErrorMade, BlockMade, LogsMade, HasBlock, HasReceipts
  <2> QED
    BY <1>2, <2>5, OneMade
<1> QED
  BY <1>1, <1>2 DEF GetTransactionResult

LEMMA NextKeepsMInv == IInv /\ MInv /\ [Next]_vars => MInv'
PROOF
<1> SUFFICES ASSUME IInv, MInv, [Next]_vars
             PROVE  MInv'
  OBVIOUS
<1>1. CASE ProduceBlock
  BY <1>1, GrowingKeepsMInv
<1>2. ASSUME NEW r \in Requests, Block(r) \/ BlockTransaction(r)
      PROVE  MInv'
  BY <1>2, AcceptKeepsMInv DEF Block, BlockTransaction
<1>3. ASSUME NEW r \in Requests, Handle(r)
      PROVE  MInv'
  BY <1>3, GetBlockKeepsMInv, GetBlockReceiptsKeepsMInv, BlockFeesKeepsMInv,
     AppendLogKeepsMInv, FinishBlockTransactionKeepsMInv, AnswerBlockKeepsMInv,
     GetTransactionKeepsMInv, GetTransactionResultKeepsMInv,
     TransactionFeesKeepsMInv, AnswerTransactionKeepsMInv
  DEF Handle
<1>4. ASSUME NEW r \in Requests, Deliver(r)
      PROVE  MInv'
  BY <1>4, DeliverKeepsMInv
<1>5. CASE UNCHANGED vars
  BY <1>5 DEF vars, MInv
<1> QED
  BY <1>1, <1>2, <1>3, <1>4, <1>5 DEF Next

\* What a handler has made of a transaction is, at every turn of the log loop,
\* the operations of the moves read so far, whatever runs in between.
THEOREM Making == Spec => []MInv
PROOF
<1>1. Init => MInv
  BY IdleMade DEF Init, MInv
<1> QED
  BY <1>1, Invariance, NextKeepsMInv, PTL DEF Spec

\* Both endpoints give one transaction the same operations: each gives it the
\* ones that its receipt calls for.
THEOREM Agree == Spec => []EndpointsAgree
PROOF
<1>1. IInv /\ MInv => EndpointsAgree
  <2> SUFFICES ASSUME IInv, MInv, NEW r1 \in Requests, NEW r2 \in Requests,
                      req[r1].pc = "answered", req[r1].want.endpoint = "block",
                      req[r2].pc = "answered", req[r2].want.endpoint = "transaction",
                      NEW t \in DOMAIN req[r1].txs,
                      req[r1].txs[t].hash = req[r2].want.hash
               PROVE  req[r1].txs[t] = req[r2].txs[1]
    BY DEF EndpointsAgree
  <2> DEFINE a == req[r1].txs[t]
             b == req[r2].txs[1]
  <2>1. OfTransaction(req[r2]) /\ HasReceipts(req[r1])
    BY DEF OfTransaction, HasReceipts, HasBlock
  <2>2. /\ Len(req[r2].txs) = 1 /\ b.hash = req[r2].want.hash
        /\ b.hash.block > 0 /\ Complete(b, chain)
    BY <2>1 DEF MInv, MadeOK, TransactionMade
  <2>3. /\ req[r1].txs \in Seq(RosettaTransaction)
        /\ req[r2].txs \in Seq(RosettaTransaction)
        /\ req[r1].n \in Nat
        /\ req[r1].n > 0 /\ req[r1].n \notin DOMAIN req[r1].txs
    BY DEF IInv, HandlerOK, Handler, LoopOK
  <2>4. a \in RosettaTransaction /\ b \in RosettaTransaction /\ t < req[r1].n
    BY <2>2, <2>3
  <2>5. Complete(a, chain)
    BY <2>1, <2>4 DEF MInv, MadeOK, BlockMade
  <2>6. a.hash = b.hash /\ a.operations = b.operations
    BY <2>2, <2>5 DEF Complete
  <2> QED
    BY <2>4, <2>6 DEF RosettaTransaction
<1> QED
  BY <1>1, Invariance, Making, PTL

-------------------------------------------------------------------------------
(* Every step is a step of BlockApi or changes nothing that callers see.   *)

LEMMA CallShape ==
  ASSUME NEW l
  PROVE  /\ l.pc = "idle" => CallOf(l) =
              [status |-> "free", want |-> l.want, answer |-> Api!NoAnswer, error |-> l.error]
         /\ l.pc \in Steps => CallOf(l) =
              [status |-> "pending", want |-> l.want, answer |-> Api!NoAnswer, error |-> l.error]
         /\ l.pc \in {"failed", "aborted"} => CallOf(l) =
              [status |-> l.pc, want |-> l.want, answer |-> Api!NoAnswer, error |-> l.error]
         /\ l.pc = "answered" => CallOf(l) =
              [status |-> "answered", want |-> l.want,
               answer |-> [id |-> l.id, parent |-> l.parent, txs |-> l.txs],
               error |-> l.error]
BY DEF CallOf, CallStatus, Steps, Api!NoAnswer

LEMMA OneCall ==
  ASSUME NEW r \in Requests, IInv, NEW new, Become(r, new)
  PROVE  /\ Calls[r] = CallOf(req[r])
         /\ Calls' = [Calls EXCEPT ![r] = CallOf(new)]
         /\ chain' = chain /\ mode' = mode
PROOF
<1>1. req' = [req EXCEPT ![r] = new] /\ DOMAIN req = Requests
  BY DEF Become, IInv
<1>2. \A s \in Requests : req'[s] = IF s = r THEN new ELSE req[s]
  BY <1>1
<1>3. Calls' = [s \in Requests |-> CallOf(req'[s])]
  BY DEF Calls, CallOf
<1>4. [Calls EXCEPT ![r] = CallOf(new)]
        = [s \in Requests |-> IF s = r THEN CallOf(new) ELSE CallOf(req[s])]
  BY DEF Calls
<1>5. \A s \in Requests :
        CallOf(req'[s]) = IF s = r THEN CallOf(new) ELSE CallOf(req[s])
  BY <1>2
<1>6. Calls' = [Calls EXCEPT ![r] = CallOf(new)]
  BY <1>3, <1>4, <1>5
<1> QED
  BY <1>6 DEF Become, Calls

\* Work that the caller does not see.
LEMMA SilentStep ==
  ASSUME IInv, NEW r \in Requests, NEW new, Become(r, new),
         req[r].pc \in Steps, new.pc \in Steps,
         new.want = req[r].want, new.error = req[r].error
  PROVE  UNCHANGED Api!vars
PROOF
<1>1. /\ Calls[r] = CallOf(req[r])
      /\ Calls' = [Calls EXCEPT ![r] = CallOf(new)]
      /\ chain' = chain /\ mode' = mode
  BY OneCall
<1>2. CallOf(new) = CallOf(req[r])
  BY CallShape
<1>3. Calls = [s \in Requests |-> Calls[s]]
  BY DEF Calls
<1>4. Calls' = Calls
  BY <1>1, <1>2, <1>3
<1> QED
  BY <1>1, <1>4 DEF Api!vars

\* The step that decides a call.
LEMMA DecidingStep ==
  ASSUME IInv, NEW r \in Requests, NEW new, Become(r, new), req[r].pc \in Steps,
         NEW status, NEW answer, NEW error,
         CallOf(new) = [status |-> status, want |-> req[r].want,
                        answer |-> answer, error |-> error]
  PROVE  /\ Calls[r].status = "pending"
         /\ Calls[r].want = req[r].want
         /\ Api!Decide(r, status, answer, error)
PROOF
<1>1. /\ Calls[r] = CallOf(req[r])
      /\ Calls' = [Calls EXCEPT ![r] = CallOf(new)]
      /\ chain' = chain /\ mode' = mode
  BY OneCall
<1>2. /\ Calls[r].status = "pending"
      /\ Calls[r].want = req[r].want
  BY <1>1, CallShape
<1>3. Calls' = [Calls EXCEPT ![r] = [status |-> status, want |-> Calls[r].want,
                                     answer |-> answer, error |-> error]]
  BY <1>1, <1>2
<1> QED
  BY <1>1, <1>2, <1>3 DEF Api!Decide

LEMMA GrowsApi ==
  ASSUME ProduceBlock
  PROVE  Api!Grow
PROOF
<1>1. req' = req /\ mode' = mode /\ \E body \in Bodies : chain' = Append(chain, body)
  BY DEF ProduceBlock
<1>2. Calls' = Calls
  BY <1>1 DEF Calls
<1> QED
  BY <1>1, <1>2 DEF Api!Grow

\* How a call starts, and how it is refused.
LEMMA CallStarted ==
  ASSUME NEW status, NEW want
  PROVE  [Api!Free EXCEPT !.status = status, !.want = want]
           = [status |-> status, want |-> want, answer |-> Api!NoAnswer, error |-> None]
PROOF
<1> DEFINE none == Api!NoAnswer
           S == [status : {"free", status}, want : {None, want}, answer : {none},
                 error : {None}]
           free == Api!Free
           new == [free EXCEPT !.status = status, !.want = want]
<1>1. free \in S
  BY DEF Api!Free
<1> HIDE DEF none, free
<1>2. new \in S /\ new.status = status /\ new.want = want
  BY <1>1
<1> HIDE DEF new
<1>3. new = [status |-> status, want |-> want, answer |-> none, error |-> None]
  BY <1>2
<1> QED
  BY <1>3 DEF none, new, free

LEMMA CallRefused ==
  ASSUME NEW status, NEW want, NEW error
  PROVE  [Api!Free EXCEPT !.status = status, !.want = want, !.error = error]
           = [status |-> status, want |-> want, answer |-> Api!NoAnswer, error |-> error]
PROOF
<1> DEFINE none == Api!NoAnswer
           S == [status : {"free", status}, want : {None, want}, answer : {none},
                 error : {None, error}]
           free == Api!Free
           new == [free EXCEPT !.status = status, !.want = want, !.error = error]
<1>1. free \in S
  BY DEF Api!Free
<1> HIDE DEF none, free
<1>2. new \in S /\ new.status = status /\ new.want = want /\ new.error = error
  BY <1>1
<1> HIDE DEF new
<1>3. new = [status |-> status, want |-> want, answer |-> none, error |-> error]
  BY <1>2
<1> QED
  BY <1>3 DEF none, new, free

LEMMA AcceptSubmits ==
  ASSUME IInv, NEW r \in Requests, NEW want \in BlockWants \cup TransactionWants,
         NEW pc \in {"getBlock", "getTransaction"}, Accept(r, want, pc), MInv
  PROVE  Api!Submit(r) \/ Api!Refuse(r)
PROOF
<1> DEFINE arrived == [Idle EXCEPT !.want = want, !.since = Len(chain) - 1]
           new == IF mode = "ONLINE" THEN [arrived EXCEPT !.pc = pc]
                  ELSE [arrived EXCEPT !.pc = "failed",
                                       !.error = "ErrUnavailableOffline"]
<1>1. Become(r, new) /\ req[r].pc = "idle"
  BY DEF Accept
<1>2. /\ mode = "ONLINE" => new.pc = pc /\ new.error = None
      /\ mode # "ONLINE" => new.pc = "failed" /\ new.error = "ErrUnavailableOffline"
      /\ new.want = want
  BY DEF Idle
<1> HIDE DEF new
<1>3. /\ Calls[r] = CallOf(req[r])
      /\ Calls' = [Calls EXCEPT ![r] = CallOf(new)]
      /\ chain' = chain /\ mode' = mode
  BY <1>1, OneCall
<1>4. Calls[r].status = "free"
  BY <1>1, <1>3, CallShape
<1>5. CASE mode = "ONLINE"
  <2>1. CallOf(new) = [status |-> "pending", want |-> want, answer |-> Api!NoAnswer,
                       error |-> None]
    BY <1>2, <1>5, CallShape DEF Steps
  <2>2. CallOf(new) = [Api!Free EXCEPT !.status = "pending", !.want = want]
    BY <2>1, CallStarted
  <2> QED
    BY <1>3, <1>4, <1>5, <2>2 DEF Api!Submit
<1>6. CASE mode # "ONLINE"
  <2>1. CallOf(new) = [status |-> "failed", want |-> want, answer |-> Api!NoAnswer,
                       error |-> "ErrUnavailableOffline"]
    BY <1>2, <1>6, CallShape
  <2>2. CallOf(new) = [Api!Free EXCEPT !.status = "failed", !.want = want,
                                       !.error = "ErrUnavailableOffline"]
    <3> DEFINE status == "failed"
               error == "ErrUnavailableOffline"
    <3>1. CallOf(new) = [status |-> status, want |-> want, answer |-> Api!NoAnswer,
                         error |-> error]
      BY <2>1
    <3> HIDE DEF status, error
    <3>2. CallOf(new) = [Api!Free EXCEPT !.status = status, !.want = want, !.error = error]
      <4> HIDE DEF new
      <4>1. [Api!Free EXCEPT !.status = status, !.want = want, !.error = error]
              = [status |-> status, want |-> want, answer |-> Api!NoAnswer, error |-> error]
        BY CallRefused
      <4> QED
        BY <3>1, <4>1
    <3> QED
      BY <3>2 DEF status, error
  <2>3. mode = "OFFLINE"
    BY <1>6 DEF IInv
  <2> QED
    BY <1>3, <1>4, <2>2, <2>3 DEF Api!Refuse
<1> QED
  BY <1>5, <1>6

LEMMA FailFails ==
  ASSUME IInv, NEW r \in Requests, req[r].pc \in Steps, Fail(r, "ErrWrongBlockHash")
  PROVE  Api!Fail(r)
PROOF
<1> DEFINE new == [req[r] EXCEPT !.pc = "failed", !.error = "ErrWrongBlockHash"]
<1>1. new.pc = "failed" /\ new.error = "ErrWrongBlockHash" /\ new.want = req[r].want
  BY DEF IInv, HandlerOK, Handler
<1>2. Become(r, new)
  BY DEF Fail
<1> HIDE DEF new
<1>3. CallOf(new) = [status |-> "failed", want |-> req[r].want, answer |-> Api!NoAnswer,
                     error |-> "ErrWrongBlockHash"]
  BY <1>1, CallShape
<1> QED
  BY <1>2, <1>3, DecidingStep DEF Api!Fail

LEMMA AbortAborts ==
  ASSUME IInv, MInv, NEW r \in Requests, req[r].pc \in Steps, Abort(r)
  PROVE  /\ Calls[r].status = "pending"
         /\ Calls[r].want = req[r].want
         /\ Api!Decide(r, "aborted", Api!NoAnswer, None)
PROOF
<1> DEFINE new == [req[r] EXCEPT !.pc = "aborted"]
<1>1. req[r].error = None /\ req[r] \in Handler
  BY DEF IInv, HandlerOK, MInv, MadeOK, ErrorMade, Steps
<1>2. new.pc = "aborted" /\ new.error = None /\ new.want = req[r].want
  BY <1>1 DEF Handler
<1>3. Become(r, new)
  BY DEF Abort
<1> HIDE DEF new
<1>4. CallOf(new) = [status |-> "aborted", want |-> req[r].want, answer |-> Api!NoAnswer,
                     error |-> None]
  BY <1>2, CallShape
<1> QED
  BY <1>3, <1>4, DecidingStep

LEMMA DeliverReturns ==
  ASSUME IInv, NEW r \in Requests, Deliver(r)
  PROVE  Api!Return(r)
PROOF
<1>1. Become(r, Idle) /\ req[r].pc \in {"answered", "failed", "aborted"}
  BY DEF Deliver, Outcomes
<1>2. /\ Calls[r] = CallOf(req[r])
      /\ Calls' = [Calls EXCEPT ![r] = CallOf(Idle)]
      /\ chain' = chain /\ mode' = mode
  BY <1>1, OneCall
<1>3. Calls[r].status \in {"answered", "failed", "aborted"}
  BY <1>1, <1>2, CallShape
<1>4. Idle.pc = "idle" /\ Idle.want = None /\ Idle.error = None
  BY DEF Idle
<1>5. CallOf(Idle) = Api!Free
  BY <1>4, CallShape DEF Api!Free
<1> QED
  BY <1>2, <1>3, <1>5 DEF Api!Return

\* A receipt that there is and that parses fits a freshly parsed transaction.
LEMMA FeesFit ==
  ASSUME NEW c, ChainOK(c), NEW tx \in RosettaTransaction, InChain(c, tx.hash),
         tx.hash.block # 0, Fresh(tx, c), HasReceiptIn(c, tx.hash),
         NEW receipts, NEW n \in DOMAIN receipts,
         receipts[n] = ParseTransactionResult(ReceiptIn(c, tx.hash))
  PROVE  ReceiptFits(tx.operations, receipts, n)
PROOF
<1> DEFINE raw == RawIn(c, tx.hash)
<1>1. raw \in Transaction /\ ReceiptIn(c, tx.hash) \in TransactionResult
  BY FromChain DEF RosettaTransaction
<1>2. receipts[n] # None
  BY <1>1, BlockAssumption DEF ParseTransactionResult, HasReceiptIn
<1>3. tx.operations = ParseTransaction(raw)
  BY DEF Fresh
<1> HIDE DEF raw
<1>4. IsGeneral(tx.operations) => tx.operations[4].amount # None
  <2>1. CASE IsBase(raw)
    <3>1. tx.operations = << MakeBaseOperations >>
      BY <1>3, <2>1 DEF ParseTransaction, ParseOperationsV3, IsBase
    <3> QED
      BY <3>1 DEF IsGeneral
  <2>2. CASE ~IsBase(raw)
    <3>1. /\ Len(tx.operations) = 4
          /\ tx.operations[4].amount = IF raw.version = 3 THEN raw.stepLimit ELSE raw.fee
      BY <1>3, <2>2 DEF ParseTransaction, ParseOperationsV3, ParseOperationsV2,
                        TransferAndFee, Op
    <3> QED
      BY <1>1, <3>1, AddressAssumption DEF Transaction
  <2> QED
    BY <2>1, <2>2
<1> QED
  BY <1>2, <1>4 DEF ReceiptFits

LEMMA BlockFeesAborts ==
  ASSUME IInv, MInv, NEW r \in Requests, BlockFees(r), Abort(r),
         ~ReceiptFits(req[r].txs[req[r].n].operations, req[r].receipts, req[r].n)
  PROVE  Api!Abort(r)
PROOF
<1> DEFINE l == req[r]
           h == l.id.index
<1>1. /\ HandlerOK(l, chain) /\ MadeOK(l, chain) /\ ChainOK(chain) /\ l \in Handler
      /\ l.pc = "blockFees" /\ l.n \in DOMAIN l.txs /\ l.want \in BlockRequest
      /\ HasBlock(l) /\ HasReceipts(l)
  BY DEF IInv, MInv, BlockFees, HandlerOK, WantsOK, HasBlock, HasReceipts
<1>2. /\ l.txs \in Seq(RosettaTransaction) /\ l.n \in Nat
      /\ h \in Nat /\ h + 1 \in DOMAIN chain
      /\ Requested(l) /\ l.id = Identifier(h)
      /\ h > 0 => Len(l.txs) =
           IF \A i \in DOMAIN chain[h + 1].txs : chain[h + 1].txs[i].wellFormed
           THEN Len(chain[h + 1].txs) ELSE 0
      /\ l.txs[l.n].hash = TxHash(h, l.n)
      /\ l.receipts = ParseTransactionResults(chain[h + 1].receipts)
      /\ Fresh(l.txs[l.n], chain) /\ InChain(chain, l.txs[l.n].hash)
  BY <1>1 DEF HandlerOK, Handler, BlockOK, BlockIdentifier, ReceiptsOK, Unfinished,
              TransactionsOK
<1>3. /\ Calls[r].status = "pending" /\ Calls[r].want = l.want
      /\ Api!Decide(r, "aborted", Api!NoAnswer, None)
  BY <1>1, AbortAborts DEF Steps
<1>4. h # 0
  <2> SUFFICES ASSUME h = 0 PROVE FALSE
    OBVIOUS
  <2>1. l.n = 1
    BY <1>1, <1>2 DEF MadeOK, BlockMade
  <2>2. chain[h + 1].receipts = << GenesisReceipt >>
    BY <1>1 DEF ChainOK, Genesis
  <2>3. GenesisReceipt # None
    <3>1. GenesisReceipt \in TransactionResult
      <4>1. Genesis.receipts \in Seq(TransactionResult)
        BY GenesisIsBody DEF Body
      <4>2. Genesis.receipts = << GenesisReceipt >>
        BY DEF Genesis
      <4> HIDE DEF GenesisReceipt
      <4> QED
        BY <4>1, <4>2
    <3> QED
      BY <3>1, BlockAssumption
  <2>4. GenesisReceipt.wellFormed /\ GenesisReceipt.stepUsed = 0
    BY DEF GenesisReceipt
  <2>5. 1 \in DOMAIN l.receipts /\ l.receipts[1] = GenesisReceipt
    BY <1>2, <2>2, <2>4 DEF ParseTransactionResults, ParseTransactionResult
  <2> QED
    BY <2>1, <2>3, <2>4, <2>5 DEF ReceiptFits
<1>5. h \in 1..(Len(chain) - 1)
  BY <1>1, <1>2, <1>4 DEF ChainOK
<1>6. Api!Meets(l.want, h)
  BY <1>2 DEF Requested, Api!Meets, Api!BlockHash, Identifier, BlockHash
<1>7. chain[h + 1].txs \in Seq(Transaction)
  BY <1>1, <1>2, BodyFields
<1>8. Api!Parsed(h) /\ l.n \in DOMAIN chain[h + 1].txs
  BY <1>1, <1>2, <1>4, <1>7 DEF Api!Parsed
<1>9. ~Api!Fits(h, l.n)
  <2> SUFFICES ASSUME Api!Fits(h, l.n) PROVE FALSE
    OBVIOUS
  <2> DEFINE tx == l.txs[l.n]
             receipts == l.receipts
             n == l.n
  <2>1. tx.hash.block = h /\ tx.hash.position = n
    BY <1>2 DEF TxHash
  <2>2. HasReceiptIn(chain, tx.hash)
    BY <2>1 DEF Api!Fits, HasReceiptIn, ReceiptIn
  <2>3. /\ n \in DOMAIN receipts
        /\ receipts[n] = ParseTransactionResult(ReceiptIn(chain, tx.hash))
    BY <1>2, <2>1, <2>2 DEF ParseTransactionResults, HasReceiptIn, ReceiptIn
  <2>4. /\ tx \in RosettaTransaction /\ InChain(chain, tx.hash) /\ tx.hash.block # 0
        /\ Fresh(tx, chain)
    BY <1>1, <1>2, <1>4, <2>1
  <2>5. ~ReceiptFits(tx.operations, receipts, n)
    OBVIOUS
  <2> HIDE DEF tx, receipts, n
  <2> QED
    BY <1>1, <2>2, <2>3, <2>4, <2>5, FeesFit
<1>10. l.want.endpoint = "block"
  BY <1>1 DEF BlockRequest
<1> HIDE DEF h
<1> QED
  BY <1>3, <1>5, <1>6, <1>8, <1>9, <1>10 DEF Api!Abort

\* Where the transaction asked for is.
LEMMA AskedTransaction ==
  ASSUME IInv, NEW r \in Requests, HasTransaction(req[r])
  PROVE  LET l == req[r]
             h == l.want.hash.block
             i == l.want.hash.position
         IN /\ l.want \in TransactionRequest /\ l.want.endpoint = "transaction"
            /\ l.want.hash \in TxHashes /\ InChain(chain, l.want.hash)
            /\ h \in Nat /\ h # 0 /\ h < Len(chain)
            /\ i \in DOMAIN chain[h + 1].txs
            /\ l.txs[1].hash = l.want.hash /\ Len(l.txs) = 1 /\ l.n = 1
            /\ l.txs[1] \in RosettaTransaction
PROOF
<1> DEFINE l == req[r]
<1>1. HandlerOK(l, chain) /\ l \in Handler /\ ChainOK(chain)
  BY DEF IInv, HandlerOK
<1>2. l.want \in TransactionRequest
  BY <1>1 DEF HandlerOK, WantsOK, HasTransaction, BlockRequest
<1>3. /\ l.txs \in Seq(RosettaTransaction) /\ Len(l.txs) = 1 /\ l.n = 1
      /\ l.txs[1].hash = l.want.hash /\ l.want.hash.block > 0
  BY <1>1 DEF Handler, HandlerOK, ReceiptsOK
<1>4. l.txs[1] \in RosettaTransaction /\ InChain(chain, l.want.hash)
  BY <1>1, <1>3 DEF HandlerOK, TransactionsOK
<1>5. l.want.hash \in TxHashes /\ l.want.endpoint = "transaction"
  BY <1>2 DEF TransactionRequest
<1>6. l.want.hash.block \in Nat
  BY <1>5 DEF TxHashes
<1>7. /\ l.want.hash.block + 1 \in 1..Len(chain)
      /\ l.want.hash.position \in DOMAIN chain[l.want.hash.block + 1].txs
      /\ Len(chain) \in Nat
  BY <1>1, <1>3, <1>4 DEF InChain, ChainOK
<1>8. l.want.hash.block # 0 /\ l.want.hash.block < Len(chain)
  <2> DEFINE h == l.want.hash.block
  <2>1. h \in Nat /\ h > 0 /\ h + 1 \in 1..Len(chain)
    BY <1>3, <1>6, <1>7
  <2> HIDE DEF h
  <2>2. h # 0 /\ h < Len(chain)
    BY <1>7, <2>1
  <2> QED
    BY <2>2 DEF h
<1> QED
  BY <1>2, <1>3, <1>4, <1>5, <1>6, <1>7, <1>8

LEMMA TransactionFeesAborts ==
  ASSUME IInv, MInv, NEW r \in Requests, TransactionFees(r), Abort(r),
         ~ReceiptFits(req[r].txs[1].operations, req[r].receipts, 1)
  PROVE  Api!Abort(r)
PROOF
<1> DEFINE l == req[r]
           hash == l.want.hash
           h == hash.block
           i == hash.position
<1>1. /\ HandlerOK(l, chain) /\ MadeOK(l, chain) /\ ChainOK(chain)
      /\ l.pc = "txFees" /\ HasTransaction(l) /\ OfTransaction(l)
  BY DEF IInv, MInv, TransactionFees, HasTransaction, OfTransaction
<1>2. /\ l.want.endpoint = "transaction" /\ InChain(chain, hash)
      /\ h # 0 /\ h < Len(chain) /\ i \in DOMAIN chain[h + 1].txs
      /\ l.txs[1].hash = hash /\ Len(l.txs) = 1 /\ l.txs[1] \in RosettaTransaction
  BY <1>1, AskedTransaction
<1>3. /\ Calls[r].status = "pending" /\ Calls[r].want = l.want
      /\ Api!Decide(r, "aborted", Api!NoAnswer, None)
  BY <1>1, AbortAborts DEF Steps
<1>4. l.receipts = << ParseTransactionResult(ReceiptIn(chain, hash)) >>
  BY <1>1 DEF MadeOK, TransactionMade
<1>5. Fresh(l.txs[1], chain)
  BY <1>1, <1>2 DEF HandlerOK, Unfinished
<1>6. ~Api!Fits(h, i)
  <2> SUFFICES ASSUME Api!Fits(h, i) PROVE FALSE
    OBVIOUS
  <2> DEFINE tx == l.txs[1]
             receipts == l.receipts
  <2>1. HasReceiptIn(chain, tx.hash)
    BY <1>2 DEF Api!Fits, HasReceiptIn, ReceiptIn
  <2>2. 1 \in DOMAIN receipts /\ receipts[1] = ParseTransactionResult(ReceiptIn(chain, tx.hash))
    BY <1>2, <1>4
  <2>3. /\ tx \in RosettaTransaction /\ InChain(chain, tx.hash) /\ tx.hash.block # 0
        /\ Fresh(tx, chain) /\ ~ReceiptFits(tx.operations, receipts, 1)
    BY <1>2, <1>5
  <2> HIDE DEF tx, receipts
  <2> QED
    BY <1>1, <2>1, <2>2, <2>3, FeesFit
<1> QED
  BY <1>2, <1>3, <1>6 DEF Api!Abort

LEMMA GetTransactionAborts ==
  ASSUME IInv, MInv, NEW r \in Requests, GetTransaction(r), Abort(r),
         InBlock(req[r].want.hash),
         ~BlockAt(req[r].want.hash.block).txs[req[r].want.hash.position].wellFormed
  PROVE  Api!Abort(r)
PROOF
<1> DEFINE l == req[r]
<1>1. l.pc = "getTransaction" /\ l.want \in TransactionRequest
  BY DEF GetTransaction, IInv, HandlerOK, WantsOK
<1>2. l.want.endpoint = "transaction" /\ l.want.hash.block \in Nat
  BY <1>1 DEF TransactionRequest, TxHashes
<1>3. /\ Calls[r].status = "pending" /\ Calls[r].want = l.want
      /\ Api!Decide(r, "aborted", Api!NoAnswer, None)
  BY <1>1, AbortAborts DEF Steps
<1>4. /\ l.want.hash.block < Len(chain)
      /\ l.want.hash.position \in DOMAIN chain[l.want.hash.block + 1].txs
      /\ ~chain[l.want.hash.block + 1].txs[l.want.hash.position].wellFormed
  <2>1. Len(chain) \in Nat
    BY DEF IInv, ChainOK
  <2> QED
    BY <1>2, <2>1 DEF InBlock, BlockAt, Height
<1> QED
  BY <1>2, <1>3, <1>4 DEF Api!Abort

LEMMA AnswerBlockAnswers ==
  ASSUME IInv, MInv, NEW r \in Requests, AnswerBlock(r)
  PROVE  Api!AnswerBlock(r)
PROOF
<1> DEFINE l == req[r]
           h == l.id.index
           block == chain[h + 1]
           new == [l EXCEPT !.pc = "answered"]
<1>1. /\ HandlerOK(l, chain) /\ MadeOK(l, chain) /\ ChainOK(chain) /\ l \in Handler
      /\ l.pc = "blockFees" /\ l.n \notin DOMAIN l.txs /\ l.want \in BlockRequest
      /\ HasBlock(l) /\ HasReceipts(l) /\ l.error = None
  BY DEF IInv, MInv, AnswerBlock, HandlerOK, WantsOK, HasBlock, HasReceipts, MadeOK, ErrorMade
<1>2. /\ l.txs \in Seq(RosettaTransaction) /\ l.n \in Nat /\ l.n > 0
      /\ h \in Nat /\ h + 1 \in DOMAIN chain
      /\ Requested(l) /\ l.id = Identifier(h) /\ l.parent = ParentIdentifier(h)
      /\ h > 0 => Len(l.txs) =
           IF \A i \in DOMAIN block.txs : block.txs[i].wellFormed
           THEN Len(block.txs) ELSE 0
      /\ \A t \in DOMAIN l.txs : l.txs[t].hash = TxHash(h, t)
  BY <1>1 DEF HandlerOK, Handler, BlockOK, BlockIdentifier, LoopOK
<1>3. /\ block.version \in SupportedVersions
      /\ h = 0 => Len(l.txs) = 1
      /\ \A t \in DOMAIN l.txs : Complete(l.txs[t], chain)
  <2>1. \A t \in DOMAIN l.txs : t < l.n
    BY <1>1, <1>2
  <2> QED
    BY <1>1, <2>1 DEF MadeOK, BlockMade
<1>4. ASSUME NEW t \in DOMAIN l.txs
      PROVE  l.txs[t] = [hash |-> TxHash(h, t), operations |-> l.txs[t].operations]
  <2>1. l.txs[t] \in RosettaTransaction /\ l.txs[t].hash = TxHash(h, t)
    BY <1>2
  <2> QED
    BY <2>1 DEF RosettaTransaction
<1>5. /\ new.pc = "answered" /\ new.want = l.want /\ new.id = l.id
      /\ new.parent = l.parent /\ new.txs = l.txs /\ new.error = None
  BY <1>1 DEF Handler
<1>6. Become(r, new)
  BY DEF AnswerBlock
<1> DEFINE answer == [id |-> l.id, parent |-> l.parent, txs |-> l.txs]
<1> HIDE DEF new
<1>7. CallOf(new) = [status |-> "answered", want |-> l.want, answer |-> answer, error |-> None]
  BY <1>5, CallShape
<1> HIDE DEF answer
<1>8. /\ Calls[r].status = "pending" /\ Calls[r].want = l.want
      /\ Api!Decide(r, "answered", answer, None)
  BY <1>1, <1>6, <1>7, DecidingStep DEF Steps
<1>9. block.txs \in Seq(Transaction)
  BY <1>1, <1>2, BodyFields
<1> HIDE DEF block
<1>10. Api!Parsed(h) = \A i \in DOMAIN block.txs : block.txs[i].wellFormed
  BY DEF Api!Parsed, block
<1>11. h # 0 /\ Api!Parsed(h) => DOMAIN l.txs = DOMAIN block.txs
  <2> SUFFICES ASSUME h # 0, Api!Parsed(h) PROVE DOMAIN l.txs = DOMAIN block.txs
    OBVIOUS
  <2>1. Len(l.txs) = Len(block.txs)
    <3>1. h > 0
      BY <1>2
    <3> QED
      BY <1>2, <1>10, <3>1 DEF block
  <2>2. DOMAIN l.txs = 1..Len(l.txs) /\ DOMAIN block.txs = 1..Len(block.txs)
    BY <1>2, <1>9
  <2> QED
    BY <2>1, <2>2
<1>12. ASSUME Api!Parsed(h), NEW i \in DOMAIN block.txs
       PROVE  Api!Fits(h, i)
  <2>1. h # 0
    <3>1. h = 0 => block.txs = <<>>
      BY <1>1 DEF ChainOK, Genesis, block
    <3> QED
      BY <3>1
  <2>2. i \in DOMAIN l.txs
    BY <1>12, <1>11, <2>1
  <2>3. l.txs[i].hash = TxHash(h, i) /\ Complete(l.txs[i], chain)
    BY <1>2, <1>3, <2>2
  <2> QED
    BY <2>1, <2>3 DEF Complete, HasReceiptIn, ReceiptIn, Api!Fits, TxHash
<1>13. l.txs = IF h = 0 THEN << Api!GenesisAnswer >>
               ELSE IF Api!Parsed(h)
               THEN [i \in DOMAIN block.txs |-> Api!AnswerTo(h, i)]
               ELSE <<>>
  <2>1. CASE h = 0
    <3>1. 1 \in DOMAIN l.txs /\ l.txs = << l.txs[1] >>
      BY <1>2, <1>3, <2>1
    <3>2. l.txs[1].operations = GenesisOps
      <4>1. Complete(l.txs[1], chain) /\ l.txs[1].hash = TxHash(h, 1)
        BY <1>2, <1>3, <3>1
      <4>2. l.txs[1].hash.block = 0
        BY <2>1, <4>1 DEF TxHash
      <4> QED
        BY <4>1, <4>2 DEF Complete
    <3>3. l.txs[1] = [hash |-> TxHash(0, 1), operations |-> GenesisOps]
      BY <1>4, <2>1, <3>1, <3>2
    <3>4. Api!GenesisAnswer = [hash |-> TxHash(0, 1), operations |-> GenesisOps]
      BY SameOperators DEF Api!GenesisAnswer, Api!TxHash, TxHash, GenesisOps
    <3> QED
      BY <2>1, <3>1, <3>3, <3>4
  <2>2. CASE h # 0 /\ Api!Parsed(h)
    <3>1. DOMAIN l.txs = DOMAIN block.txs
      BY <1>11, <2>2
    <3>2. ASSUME NEW i \in DOMAIN block.txs
          PROVE  l.txs[i] = Api!AnswerTo(h, i)
      <4>1. /\ i \in DOMAIN l.txs /\ Complete(l.txs[i], chain)
            /\ l.txs[i].hash = TxHash(h, i)
        BY <1>2, <1>3, <3>1
      <4>2. l.txs[i].operations = Api!OperationsOf(block.txs[i], block.receipts[i])
        BY <2>2, <4>1 DEF Complete, RawIn, ReceiptIn, TxHash, block
      <4>3. l.txs[i] = [hash |-> TxHash(h, i), operations |-> l.txs[i].operations]
        BY <1>4, <4>1
      <4> QED
        BY <4>2, <4>3 DEF Api!AnswerTo, Api!TxHash, TxHash, block
    <3>3. l.txs = [i \in DOMAIN l.txs |-> l.txs[i]]
      BY <1>2
    <3>4. l.txs = [i \in DOMAIN block.txs |-> Api!AnswerTo(h, i)]
      BY <3>1, <3>2, <3>3
    <3> QED
      BY <2>2, <3>4
  <2>3. CASE h # 0 /\ ~Api!Parsed(h)
    <3>1. Len(l.txs) = 0
      BY <1>2, <1>10, <2>3
    <3> QED
      BY <1>2, <2>3, <3>1
  <2> QED
    BY <2>1, <2>2, <2>3
<1>14. answer = Api!BlockAnswer(h)
  <2>1. /\ l.id = Api!Identifier(h)
        /\ l.parent = Api!Identifier(IF h = 0 THEN 0 ELSE h - 1)
    BY <1>2 DEF Identifier, ParentIdentifier, BlockHash, Api!Identifier, Api!BlockHash
  <2> QED
    BY <1>13, <2>1 DEF answer, Api!BlockAnswer, block
<1>15. Api!Meets(l.want, h)
  BY <1>2 DEF Requested, Api!Meets, Api!BlockHash, Identifier, BlockHash
<1>16. h \in 0..(Len(chain) - 1)
  BY <1>1, <1>2 DEF ChainOK
<1>17. l.want.endpoint = "block"
  BY <1>1 DEF BlockRequest
<1> HIDE DEF h
<1> QED
  BY <1>3, <1>8, <1>12, <1>14, <1>15, <1>16, <1>17 DEF Api!AnswerBlock, block

LEMMA AnswerTransactionAnswers ==
  ASSUME IInv, MInv, NEW r \in Requests, AnswerTransaction(r)
  PROVE  Api!AnswerTransaction(r)
PROOF
<1> DEFINE l == req[r]
           hash == l.want.hash
           h == hash.block
           i == hash.position
           txs == Replaced(l.txs, l.n,
                    SetTransferStatus(l.txs[l.n].operations, l.receipts[l.n]))
           new == [l EXCEPT !.pc = "answered", !.txs = txs]
<1>1. /\ HandlerOK(l, chain) /\ MadeOK(l, chain) /\ l \in Handler
      /\ l.pc = "logs" /\ l.want.endpoint = "transaction"
      /\ HasTransaction(l) /\ OfTransaction(l) /\ l.error = None
  BY DEF IInv, HandlerOK, MInv, AnswerTransaction, HasTransaction, OfTransaction, MadeOK,
         ErrorMade
<1>2. /\ hash \in TxHashes /\ h # 0 /\ h < Len(chain) /\ i \in DOMAIN chain[h + 1].txs
      /\ l.txs[1].hash = hash /\ Len(l.txs) = 1 /\ l.n = 1
      /\ l.txs \in Seq(RosettaTransaction)
  BY <1>1, AskedTransaction DEF Handler
<1>3. l.k \notin DOMAIN l.receipts[l.n].eventLogs /\ Become(r, new)
  BY <1>2 DEF AnswerTransaction, Replaced
<1>4. l.id = None /\ l.parent = None /\ chain[h + 1].txs[i].wellFormed
  BY <1>1 DEF MadeOK, TransactionMade, RawIn
<1>5. /\ DOMAIN txs = DOMAIN l.txs /\ Complete(txs[l.n], chain)
      /\ \A t \in DOMAIN l.txs : txs[t].hash = l.txs[t].hash
  BY <1>1, <1>3, StatusCompletes
<1>6. txs \in Seq(RosettaTransaction) /\ Len(txs) = Len(l.txs)
  BY <1>1, StatusStep
<1> HIDE DEF txs
<1>7. /\ txs = << txs[1] >> /\ txs[1] \in RosettaTransaction
      /\ txs[1].hash = hash /\ Complete(txs[1], chain)
  <2>1. 1 \in DOMAIN l.txs
    BY <1>2
  <2> QED
    BY <1>2, <1>5, <1>6, <2>1
<1>8. /\ Api!Fits(h, i)
      /\ txs[1].operations = Api!OperationsOf(chain[h + 1].txs[i], chain[h + 1].receipts[i])
  BY <1>2, <1>7 DEF Complete, HasReceiptIn, RawIn, ReceiptIn, Api!Fits
<1>9. txs[1] = Api!AnswerTo(h, i)
  <2>1. txs[1] = [hash |-> hash, operations |-> txs[1].operations]
    BY <1>7 DEF RosettaTransaction
  <2>2. hash = Api!TxHash(h, i)
    BY <1>2 DEF TxHashes, Api!TxHash
  <2> HIDE DEF hash, h, i
  <2> QED
    BY <1>8, <2>1, <2>2 DEF Api!AnswerTo
<1>10. /\ new.pc = "answered" /\ new.want = l.want /\ new.id = None
       /\ new.parent = None /\ new.txs = txs /\ new.error = None
  BY <1>1, <1>4 DEF Handler
<1> HIDE DEF new
<1> DEFINE answer == [id |-> None, parent |-> None, txs |-> << Api!AnswerTo(h, i) >>]
<1>11. CallOf(new) = [status |-> "answered", want |-> l.want, answer |-> answer,
                      error |-> None]
  BY <1>7, <1>9, <1>10, CallShape
<1>12. answer = [Api!NoAnswer EXCEPT !.txs = << Api!AnswerTo(h, i) >>]
  BY DEF Api!NoAnswer
<1> HIDE DEF answer
<1>13. /\ Calls[r].status = "pending" /\ Calls[r].want = l.want
       /\ Api!Decide(r, "answered", answer, None)
  BY <1>1, <1>3, <1>11, DecidingStep DEF Steps
<1> QED
  BY <1>1, <1>2, <1>4, <1>8, <1>12, <1>13 DEF Api!AnswerTransaction

LEMMA HandleRefines ==
  ASSUME IInv, MInv, NEW r \in Requests, Handle(r)
  PROVE  Api!Next \/ UNCHANGED Api!vars
PROOF
<1> DEFINE l == req[r]
<1>1. l \in Handler
  BY DEF IInv, HandlerOK
<1>2. ASSUME Fail(r, "ErrWrongBlockHash"), l.pc \in Steps
      PROVE  Api!Next
  BY <1>2, FailFails DEF Api!Next
<1>3. CASE GetBlock(r)
  <2>1. CASE Fail(r, "ErrWrongBlockHash")
    BY <1>2, <1>3, <2>1 DEF GetBlock, Steps
  <2>2. CASE ~Fail(r, "ErrWrongBlockHash")
    <3> DEFINE block == ParseBlock(RequestedHeight(l.want))
               new == [l EXCEPT !.pc = "getBlockReceipts", !.id = block.id,
                                !.parent = block.parent, !.txs = block.transactions]
    <3>1. Become(r, new) /\ l.pc \in Steps
      BY <1>3, <2>2 DEF GetBlock, Steps
    <3> HIDE DEF block
    <3>2. new.pc \in Steps /\ new.want = l.want /\ new.error = l.error
      BY <1>1 DEF Handler, Steps
    <3> HIDE DEF new
    <3> QED
      BY <3>1, <3>2, SilentStep
  <2> QED
    BY <2>1, <2>2
<1>4. CASE GetBlockReceipts(r)
  <2>1. CASE Fail(r, "ErrWrongBlockHash")
    BY <1>2, <1>4, <2>1 DEF GetBlockReceipts, Steps
  <2>2. CASE ~Fail(r, "ErrWrongBlockHash")
    <3> DEFINE receipts == ParseTransactionResults(BlockAt(l.id.hash.block).receipts)
               new == [l EXCEPT !.pc = "blockFees", !.receipts = receipts]
    <3>1. Become(r, new) /\ l.pc \in Steps
      BY <1>4, <2>2 DEF GetBlockReceipts, Steps
    <3> HIDE DEF receipts
    <3>2. new.pc \in Steps /\ new.want = l.want /\ new.error = l.error
      BY <1>1 DEF Handler, Steps
    <3> HIDE DEF new
    <3> QED
      BY <3>1, <3>2, SilentStep
  <2> QED
    BY <2>1, <2>2
<1>5. ASSUME l.pc \in Steps, Become(r, FeesTaken(l))
      PROVE  UNCHANGED Api!vars
  <2> DEFINE new == FeesTaken(l)
  <2>1. new.pc \in Steps /\ new.want = l.want /\ new.error = l.error
    BY <1>1 DEF FeesTaken, Handler, Steps
  <2> HIDE DEF new
  <2>2. Become(r, new)
    BY <1>5 DEF new
  <2> QED
    BY <1>5, <2>1, <2>2, SilentStep
<1>6. CASE BlockFees(r)
  <2>1. CASE Abort(r) /\ ~ReceiptFits(l.txs[l.n].operations, l.receipts, l.n)
    BY <1>6, <2>1, BlockFeesAborts DEF Api!Next
  <2>2. CASE Become(r, FeesTaken(l))
    BY <1>5, <1>6, <2>2 DEF BlockFees, Steps
  <2> QED
    BY <1>6, <2>1, <2>2 DEF BlockFees, FeesTaken
<1>7. CASE TransactionFees(r)
  <2>1. CASE Abort(r) /\ ~ReceiptFits(l.txs[1].operations, l.receipts, 1)
    BY <1>7, <2>1, TransactionFeesAborts DEF Api!Next
  <2>2. CASE Become(r, FeesTaken(l))
    BY <1>5, <1>7, <2>2 DEF TransactionFees, Steps
  <2>3. l.n = 1
    BY <1>7, AskedTransaction DEF TransactionFees, HasTransaction
  <2> QED
    BY <1>7, <2>1, <2>2, <2>3 DEF TransactionFees, FeesTaken
<1>8. CASE AppendLog(r)
  <2> DEFINE el == l.receipts[l.n].eventLogs[l.k]
             txs == [l.txs EXCEPT ![l.n].operations = @ \o LogOps(l.fa, el, l.last)]
             new == [l EXCEPT !.txs = txs, !.last = @ + LogAdvance(el), !.k = @ + 1]
  <2>1. Become(r, new) /\ l.pc = "logs"
    BY <1>8 DEF AppendLog
  <2> HIDE DEF txs, el
  <2>2. new.pc = "logs" /\ new.want = l.want /\ new.error = l.error
    BY <1>1, <2>1 DEF Handler
  <2> HIDE DEF new
  <2> QED
    BY <2>1, <2>2, SilentStep DEF Steps
<1>9. CASE FinishBlockTransaction(r)
  <2> DEFINE receipt == l.receipts[l.n]
             txs == [l.txs EXCEPT ![l.n].operations = SetTransferStatus(@, receipt)]
             new == [l EXCEPT !.pc = "blockFees", !.txs = txs, !.n = @ + 1]
  <2>1. Become(r, new) /\ l.pc \in Steps
    BY <1>9 DEF FinishBlockTransaction, Steps
  <2> HIDE DEF txs, receipt
  <2>2. new.pc \in Steps /\ new.want = l.want /\ new.error = l.error
    BY <1>1 DEF Handler, Steps
  <2> HIDE DEF new
  <2> QED
    BY <2>1, <2>2, SilentStep
<1>10. CASE AnswerBlock(r)
  BY <1>10, AnswerBlockAnswers DEF Api!Next
<1>11. CASE GetTransaction(r)
  <2> DEFINE hash == l.want.hash
             raw == BlockAt(hash.block).txs[hash.position]
             txs == << [hash |-> hash, operations |-> ParseTransaction(raw)] >>
             new == [l EXCEPT !.pc = "getTransactionResult", !.txs = txs]
  <2>1. CASE Fail(r, "ErrWrongBlockHash")
    BY <1>2, <1>11, <2>1 DEF GetTransaction, Steps
  <2>2. CASE InBlock(hash) /\ ~raw.wellFormed /\ Abort(r)
    BY <1>11, <2>2, GetTransactionAborts DEF Api!Next
  <2>3. CASE Become(r, new)
    <3>1. l.pc \in Steps
      BY <1>11 DEF GetTransaction, Steps
    <3> HIDE DEF txs
    <3>2. new.pc \in Steps /\ new.want = l.want /\ new.error = l.error
      BY <1>1 DEF Handler, Steps
    <3> HIDE DEF new
    <3> QED
      BY <2>3, <3>1, <3>2, SilentStep
  <2> QED
    BY <1>11, <2>1, <2>2, <2>3 DEF GetTransaction
<1>12. CASE GetTransactionResult(r)
  <2> DEFINE hash == l.want.hash
             raw == BlockAt(hash.block).receipts[hash.position]
             receipts == << ParseTransactionResult(raw) >>
             new == [l EXCEPT !.pc = "txFees", !.receipts = receipts]
  <2>1. CASE Fail(r, "ErrWrongBlockHash")
    BY <1>2, <1>12, <2>1 DEF GetTransactionResult, Steps
  <2>2. CASE Become(r, new)
    <3>1. l.pc \in Steps
      BY <1>12 DEF GetTransactionResult, Steps
    <3> HIDE DEF receipts
    <3>2. new.pc \in Steps /\ new.want = l.want /\ new.error = l.error
      BY <1>1 DEF Handler, Steps
    <3> HIDE DEF new
    <3> QED
      BY <2>2, <3>1, <3>2, SilentStep
  <2> QED
    BY <1>12, <2>1, <2>2 DEF GetTransactionResult
<1>13. CASE AnswerTransaction(r)
  BY <1>13, AnswerTransactionAnswers DEF Api!Next
<1> QED
  BY <1>3, <1>4, <1>6, <1>7, <1>8, <1>9, <1>10, <1>11, <1>12, <1>13 DEF Handle

LEMMA StepRefines ==
  ASSUME IInv, MInv, [Next]_vars
  PROVE  [Api!Next]_(Api!vars)
PROOF
<1>1. CASE ProduceBlock
  BY <1>1, GrowsApi DEF Api!Next
<1>2. ASSUME NEW r \in Requests, Block(r)
      PROVE  Api!Next
  BY <1>2, AcceptSubmits DEF Block, Api!Next
<1>3. ASSUME NEW r \in Requests, BlockTransaction(r)
      PROVE  Api!Next
  BY <1>3, AcceptSubmits DEF BlockTransaction, Api!Next
<1>4. ASSUME NEW r \in Requests, Handle(r)
      PROVE  [Api!Next]_(Api!vars)
  BY <1>4, HandleRefines
<1>5. ASSUME NEW r \in Requests, Deliver(r)
      PROVE  Api!Next
  BY <1>5, DeliverReturns DEF Api!Next
<1>6. CASE UNCHANGED vars
  BY <1>6 DEF vars, Api!vars, Calls
<1> QED
  BY <1>1, <1>2, <1>3, <1>4, <1>5, <1>6 DEF Next

\* Two calls to a node whose chain grows between them, a loop over transactions
\* and a loop over their logs, in any number of handlers at a time: what callers
\* see of it is one answer decided in one step, from one block.
THEOREM Refinement == Spec => ImplementsApi
PROOF
<1>1. Init => Api!Init
  <2> SUFFICES ASSUME Init PROVE Api!Init
    OBVIOUS
  <2>1. CallOf(Idle) = Api!Free
    BY CallShape DEF Idle, Api!Free
  <2>2. Calls = [r \in Requests |-> Api!Free]
    BY <2>1 DEF Init, Calls
  <2> QED
    BY <2>2 DEF Init, Api!Init
<1>2. IInv /\ MInv /\ [Next]_vars => [Api!Next]_(Api!vars)
  BY StepRefines
<1> QED
  BY <1>1, <1>2, Invariance, Making, PTL DEF Spec, ImplementsApi, Api!Spec

-------------------------------------------------------------------------------
(* Sums.  MapThenSumSet takes the members of a set in an order of its own; *)
(* a list is summed in its order.  Both come to the same.                  *)

\* The function that MapThenSumSet computes with.
IsSum(sum, S, f) ==
  sum = [s \in SUBSET S |->
           IF s = {} THEN 0
           ELSE f[CHOOSE x \in s : TRUE] + sum[s \ {CHOOSE x \in s : TRUE}]]

LEMMA SumExists ==
  ASSUME NEW S, IsFiniteSet(S), NEW f
  PROVE  \E sum : IsSum(sum, S, f)
PROOF
<1> DEFINE Small(n) == {s \in SUBSET S : Cardinality(s) <= n}
           Chosen(s) == CHOOSE x \in s : TRUE
           Is(sum, n) == sum = [s \in Small(n) |->
             IF s = {} THEN 0 ELSE f[Chosen(s)] + sum[s \ {Chosen(s)}]]
           N == {n \in Nat : \E sum : Is(sum, n)}
<1>1. ASSUME NEW s \in SUBSET S
      PROVE  /\ IsFiniteSet(s) /\ Cardinality(s) \in Nat
             /\ s # {} => /\ Chosen(s) \in s
                          /\ Cardinality(s) > 0
                          /\ s \ {Chosen(s)} \in SUBSET S
                          /\ Cardinality(s \ {Chosen(s)}) = Cardinality(s) - 1
  <2>1. IsFiniteSet(s) /\ Cardinality(s) \in Nat
    BY FS_Subset, FS_CardinalityType
  <2>2. s # {} => Chosen(s) \in s
    OBVIOUS
  <2>3. s # {} => Cardinality(s) > 0
    BY <2>1, FS_EmptySet
  <2>4. Chosen(s) \in s => Cardinality(s \ {Chosen(s)}) = Cardinality(s) - 1
    BY <2>1, FS_RemoveElement
  <2> QED
    BY <2>1, <2>2, <2>3, <2>4
<1> HIDE DEF Chosen
<1>2. 0 \in N
  <2> DEFINE zero == [s \in Small(0) |-> 0]
  <2>1. ASSUME NEW s \in Small(0) PROVE s = {}
    <3>1. Cardinality(s) \in Nat /\ Cardinality(s) <= 0 /\ s \in SUBSET S
      BY <1>1
    <3>2. ~(Cardinality(s) > 0)
      BY <3>1
    <3> QED
      BY <1>1, <3>1, <3>2
  <2>2. Is(zero, 0)
    <3> HIDE DEF Small
    <3> QED
      BY <2>1
  <2> HIDE DEF zero, Is
  <2> QED
    BY <2>2
<1>3. ASSUME NEW n \in Nat, n \in N
      PROVE  n + 1 \in N
  <2>1. PICK sum : Is(sum, n)
    BY <1>3
  <2> DEFINE next == [s \in Small(n + 1) |->
               IF s = {} THEN 0 ELSE f[Chosen(s)] + sum[s \ {Chosen(s)}]]
  <2>2. ASSUME NEW s \in Small(n + 1), s # {}
        PROVE  next[s \ {Chosen(s)}] = sum[s \ {Chosen(s)}]
    <3> DEFINE u == s \ {Chosen(s)}
    <3>1. u \in Small(n) /\ u \in Small(n + 1)
      BY <1>1, <2>2
    <3>2. sum[u] = IF u = {} THEN 0 ELSE f[Chosen(u)] + sum[u \ {Chosen(u)}]
      BY <2>1, <3>1
    <3> QED
      BY <3>1, <3>2
  <2>3. Is(next, n + 1)
    <3> DEFINE again == [s \in Small(n + 1) |->
               IF s = {} THEN 0 ELSE f[Chosen(s)] + next[s \ {Chosen(s)}]]
    <3>1. \A s \in Small(n + 1) : next[s] = again[s]
      BY <2>2
    <3>2. DOMAIN next = Small(n + 1) /\ DOMAIN again = Small(n + 1)
      OBVIOUS
    <3>3. next = [s \in Small(n + 1) |-> next[s]] /\ again = [s \in Small(n + 1) |-> again[s]]
      OBVIOUS
    <3>4. next = again
      <4> HIDE DEF next, again
      <4> QED
        BY <3>1, <3>3
    <3> QED
      BY <3>4
  <2>4. n + 1 \in Nat
    OBVIOUS
  <2> HIDE DEF Is, next
  <2> QED
    BY <2>3, <2>4
<1>4. Cardinality(S) \in N
  <2> HIDE DEF N
  <2>1. Nat \subseteq N
    BY <1>2, <1>3, SetInduction
  <2> QED
    BY <2>1, FS_CardinalityType
<1>5. Small(Cardinality(S)) = SUBSET S
  BY FS_Subset
<1>6. PICK sum : Is(sum, Cardinality(S))
  BY <1>4
<1> QED
  BY <1>5, <1>6 DEF IsSum, Chosen

\* Any member may be taken first.
AnyOrder(sum, S, f) ==
  /\ sum[{}] = 0
  /\ \A s \in SUBSET S : /\ sum[s] \in Int
                         /\ \A x \in s : sum[s] = f[x] + sum[s \ {x}]

LEMMA SumAny ==
  ASSUME NEW S, IsFiniteSet(S), NEW f \in [S -> Int], NEW sum, IsSum(sum, S, f)
  PROVE  AnyOrder(sum, S, f)
PROOF
<1> DEFINE Good(s) == /\ sum[s] \in Int
                      /\ \A x \in s : sum[s] = f[x] + sum[s \ {x}]
           N == {n \in Nat : \A s \in SUBSET S : Cardinality(s) <= n => Good(s)}
<1>1. sum[{}] = 0
  BY DEF IsSum
<1>2. ASSUME NEW s \in SUBSET S
      PROVE  /\ Cardinality(s) \in Nat
             /\ Cardinality(s) = 0 => s = {}
             /\ \A x \in s : /\ s \ {x} \in SUBSET S
                             /\ Cardinality(s \ {x}) = Cardinality(s) - 1
  <2>1. IsFiniteSet(s) /\ Cardinality(s) \in Nat
    BY FS_Subset, FS_CardinalityType
  <2>2. Cardinality(s) = 0 => s = {}
    BY <2>1, FS_EmptySet
  <2>3. \A x \in s : Cardinality(s \ {x}) = Cardinality(s) - 1
    BY <2>1, FS_RemoveElement
  <2> QED
    BY <2>1, <2>2, <2>3
<1>3. 0 \in N
  <2>1. ASSUME NEW s \in SUBSET S, Cardinality(s) <= 0
        PROVE  Good(s)
    <3>1. Cardinality(s) = 0
      BY <1>2, <2>1
    <3>2. s = {}
      BY <1>2, <3>1
    <3> QED
      BY <1>1, <3>2
  <2> QED
    BY <2>1
<1>4. ASSUME NEW n \in Nat, n \in N
      PROVE  n + 1 \in N
  <2> SUFFICES ASSUME NEW s \in SUBSET S, Cardinality(s) <= n + 1, s # {}
               PROVE  Good(s)
    <3>1. Good({})
      BY <1>1
    <3> HIDE DEF Good
    <3> QED
      BY <3>1
  <2> DEFINE y == CHOOSE x \in s : TRUE
  <2>2. y \in s /\ sum[s] = f[y] + sum[s \ {y}]
    BY DEF IsSum
  <2> HIDE DEF y
  <2>3. ASSUME NEW x \in s
        PROVE  s \ {x} \in SUBSET S /\ Good(s \ {x}) /\ f[x] \in Int
    <3>1. s \ {x} \in SUBSET S /\ Cardinality(s \ {x}) <= n
      BY <1>2
    <3> QED
      BY <1>4, <3>1
  <2>4. sum[s] \in Int
    <3>1. f[y] \in Int /\ sum[s \ {y}] \in Int
      BY <2>2, <2>3
    <3> QED
      BY <2>2, <3>1
  <2>5. ASSUME NEW x \in s, x # y
        PROVE  sum[s] = f[x] + sum[s \ {x}]
    <3> DEFINE rest == (s \ {y}) \ {x}
    <3>1. rest = (s \ {x}) \ {y}
      OBVIOUS
    <3>2. x \in s \ {y} /\ y \in s \ {x}
      BY <2>2, <2>5
    <3>3. sum[s \ {y}] = f[x] + sum[rest]
      BY <2>2, <2>3, <3>2
    <3>4. sum[s \ {x}] = f[y] + sum[rest]
      BY <2>3, <3>1, <3>2
    <3>5. rest \in SUBSET S /\ sum[rest] \in Int
      <4>1. s \ {y} \in SUBSET S /\ Cardinality(s \ {y}) <= n
        BY <1>2, <2>2
      <4>2. rest \in SUBSET S /\ Cardinality(rest) <= n
        <5>1. Cardinality(rest) = Cardinality(s \ {y}) - 1
          BY <1>2, <3>2, <4>1
        <5>2. Cardinality(s \ {y}) \in Nat
          BY <1>2, <4>1
        <5> QED
          BY <4>1, <5>1, <5>2
      <4> QED
        BY <1>4, <4>2
    <3>6. f[x] \in Int /\ f[y] \in Int
      BY <2>2, <2>3
    <3> HIDE DEF rest
    <3> QED
      BY <2>2, <3>3, <3>4, <3>5, <3>6
  <2> QED
    BY <2>2, <2>4, <2>5
<1>5. ASSUME NEW s \in SUBSET S
      PROVE  Good(s)
  <2>1. Cardinality(s) \in N
    <3> HIDE DEF N
    <3> QED
      BY <1>2, <1>3, <1>4, SetInduction
  <2>2. Cardinality(s) <= Cardinality(s)
    BY <1>2
  <2> HIDE DEF Good
  <2> QED
    BY <2>1, <2>2
<1> QED
  BY <1>1, <1>5 DEF AnyOrder

\* What the first k numbers of a list add up to.
IsRun(t, s) ==
  /\ t \in [0..Len(s) -> Int]
  /\ t[0] = 0
  /\ \A k \in 1..Len(s) : t[k] = t[k - 1] + s[k]

SumOf(s) == (CHOOSE t : IsRun(t, s))[Len(s)]

LEMMA RunsEqual ==
  ASSUME NEW s \in Seq(Int), NEW t, NEW u, IsRun(t, s), IsRun(u, s)
  PROVE  t[Len(s)] = u[Len(s)]
PROOF
<1> DEFINE N == {n \in Nat : n <= Len(s) => t[n] = u[n]}
<1>1. 0 \in N
  BY DEF IsRun
<1>2. ASSUME NEW n \in Nat, n \in N
      PROVE  n + 1 \in N
  <2>1. ASSUME n + 1 <= Len(s)
        PROVE  t[n + 1] = u[n + 1]
    <3>1. n + 1 \in 1..Len(s) /\ (n + 1) - 1 = n /\ n <= Len(s)
      BY <2>1
    <3> QED
      BY <1>2, <3>1 DEF IsRun
  <2> QED
    BY <2>1
<1>3. Len(s) \in N
  <2> HIDE DEF N
  <2> QED
    BY <1>1, <1>2, SetInduction
<1> QED
  BY <1>3

\* MapThenSumSet over some places of a list, as a run over all of them.
LEMMA SumRuns ==
  ASSUME NEW s \in Seq(Int), NEW S \in SUBSET (1..Len(s)),
         \A i \in (1..Len(s)) \ S : s[i] = 0,
         NEW f \in [S -> Int], \A i \in S : f[i] = s[i],
         NEW sum, IsSum(sum, S, f)
  PROVE  \E t : IsRun(t, s) /\ t[Len(s)] = sum[S]
PROOF
<1> DEFINE t == [k \in 0..Len(s) |-> sum[S \cap (1..k)]]
<1>1. Len(s) \in Nat /\ \A k \in 1..Len(s) : s[k] \in Int
  OBVIOUS
<1>2. IsFiniteSet(S)
  <2>1. IsFiniteSet(1..Len(s))
    BY <1>1, FS_Interval
  <2> QED
    BY <2>1, FS_Subset
<1>3. /\ sum[{}] = 0
      /\ \A s1 \in SUBSET S : /\ sum[s1] \in Int
                              /\ \A x \in s1 : sum[s1] = f[x] + sum[s1 \ {x}]
  <2> HIDE DEF t
  <2>1. AnyOrder(sum, S, f)
    BY <1>2, SumAny
  <2> QED
    BY <2>1 DEF AnyOrder
<1>4. t \in [0..Len(s) -> Int]
  <2>1. \A k : S \cap (1..k) \in SUBSET S
    OBVIOUS
  <2> QED
    BY <1>3, <2>1
<1>5. t[0] = 0
  <2>1. S \cap (1..0) = {} /\ 0 \in 0..Len(s)
    BY <1>1
  <2> QED
    BY <1>3, <2>1
<1>6. ASSUME NEW k \in 1..Len(s)
      PROVE  t[k] = t[k - 1] + s[k]
  <2>1. k \in 0..Len(s) /\ k - 1 \in 0..Len(s)
    BY <1>1
  <2>2. t[k] = sum[S \cap (1..k)] /\ t[k - 1] = sum[S \cap (1..(k - 1))]
    BY <2>1
  <2>3. t[k - 1] \in Int /\ s[k] \in Int
    BY <1>1, <1>4, <2>1
  <2> HIDE DEF t
  <2>4. CASE k \in S
    <3>1. (S \cap (1..k)) \ {k} = S \cap (1..(k - 1))
      BY <1>1
    <3>2. k \in S \cap (1..k) /\ S \cap (1..k) \in SUBSET S
      BY <1>1, <2>4
    <3>3. sum[S \cap (1..k)] = f[k] + sum[(S \cap (1..k)) \ {k}]
      BY <1>3, <3>2
    <3>4. t[k] = s[k] + t[k - 1]
      BY <2>2, <2>4, <3>1, <3>3
    <3> QED
      BY <2>3, <3>4
  <2>5. CASE k \notin S
    <3>1. S \cap (1..k) = S \cap (1..(k - 1))
      BY <1>1, <2>5
    <3>2. s[k] = 0
      BY <2>5
    <3>3. t[k] = t[k - 1]
      BY <2>2, <3>1
    <3> QED
      BY <2>3, <3>2, <3>3
  <2> QED
    BY <2>4, <2>5
<1>7. t[Len(s)] = sum[S]
  <2>1. S \cap (1..Len(s)) = S /\ Len(s) \in 0..Len(s)
    BY <1>1
  <2> QED
    BY <2>1
<1> HIDE DEF t
<1> QED
  BY <1>4, <1>5, <1>6, <1>7 DEF IsRun

LEMMA RunIsSum ==
  ASSUME NEW s \in Seq(Int)
  PROVE  /\ IsRun(CHOOSE t : IsRun(t, s), s)
         /\ SumOf(s) \in Int
         /\ \A t : IsRun(t, s) => t[Len(s)] = SumOf(s)
PROOF
<1> DEFINE S == 1..Len(s)
<1>1. Len(s) \in Nat /\ s \in [S -> Int]
  OBVIOUS
<1>2. IsFiniteSet(S)
  BY <1>1, FS_Interval
<1>3. PICK sum : IsSum(sum, S, s)
  BY <1>2, SumExists
<1>4. \E t : IsRun(t, s)
  <2>1. S \in SUBSET (1..Len(s)) /\ \A i \in (1..Len(s)) \ S : s[i] = 0
    OBVIOUS
  <2> HIDE DEF S
  <2> QED
    BY <1>1, <1>3, <2>1, SumRuns
<1>5. IsRun(CHOOSE t : IsRun(t, s), s)
  BY <1>4
<1>6. SumOf(s) \in Int
  <2> DEFINE u == CHOOSE t : IsRun(t, s)
  <2>1. u \in [0..Len(s) -> Int]
    BY <1>5 DEF IsRun
  <2>2. Len(s) \in 0..Len(s)
    BY <1>1
  <2>3. SumOf(s) = u[Len(s)]
    BY DEF SumOf
  <2> HIDE DEF u
  <2> QED
    BY <2>1, <2>2, <2>3
<1> QED
  BY <1>5, <1>6, RunsEqual DEF SumOf

LEMMA SumConcatenated ==
  ASSUME NEW s \in Seq(Int), NEW u \in Seq(Int)
  PROVE  SumOf(s \o u) = SumOf(s) + SumOf(u)
PROOF
<1> DEFINE t1 == CHOOSE t : IsRun(t, s)
           t2 == CHOOSE t : IsRun(t, u)
           m == Len(s)
           n == Len(u)
           both == [k \in 0..(m + n) |-> IF k <= m THEN t1[k] ELSE t1[m] + t2[k - m]]
           su == s \o u
<1>1. /\ m \in Nat /\ n \in Nat /\ su \in Seq(Int) /\ Len(su) = m + n
      /\ \A k \in 1..m : su[k] = s[k] /\ s[k] \in Int
      /\ \A k \in 1..(m + n) : k > m => su[k] = u[k - m]
      /\ \A k \in 1..n : u[k] \in Int
  OBVIOUS
<1>2. IsRun(t1, s) /\ IsRun(t2, u) /\ SumOf(s) = t1[m] /\ SumOf(u) = t2[n]
  BY RunIsSum DEF SumOf
<1> HIDE DEF t1, t2, m, n, su
<1>3. /\ t1 \in [0..m -> Int] /\ t1[0] = 0
      /\ \A k \in 1..m : t1[k] = t1[k - 1] + s[k]
  BY <1>2 DEF IsRun, m
<1>4. /\ t2 \in [0..n -> Int] /\ t2[0] = 0
      /\ \A k \in 1..n : t2[k] = t2[k - 1] + u[k]
  BY <1>2 DEF IsRun, n
<1>5. t1[m] \in Int
  BY <1>1, <1>3
<1>6. \A k \in 0..m : k \in 0..(m + n) /\ both[k] = t1[k]
  BY <1>1
<1>7. \A k \in 0..(m + n) : k > m => both[k] = t1[m] + t2[k - m] /\ k - m \in 1..n
  BY <1>1
<1>8. both[m + n] = t1[m] + t2[n]
  <2>1. CASE n = 0
    BY <1>1, <1>4, <1>5, <1>6, <2>1
  <2>2. CASE n > 0
    <3>1. m + n \in 0..(m + n) /\ m + n > m /\ (m + n) - m = n
      BY <1>1, <2>2
    <3> QED
      BY <1>7, <3>1
  <2> QED
    BY <1>1, <2>1, <2>2
<1>9. both \in [0..(m + n) -> Int]
  <2>1. \A k \in 0..(m + n) : both[k] \in Int
    <3> TAKE k \in 0..(m + n)
    <3>1. CASE k <= m
      BY <1>1, <1>3, <1>6, <3>1
    <3>2. CASE k > m
      <4>1. t2[k - m] \in Int
        BY <1>1, <1>4, <1>7, <3>2
      <4> QED
        BY <1>5, <1>7, <3>2, <4>1
    <3> QED
      BY <1>1, <3>1, <3>2
  <2>2. both = [k \in 0..(m + n) |-> both[k]]
    OBVIOUS
  <2> HIDE DEF both
  <2> QED
    BY <2>1, <2>2
<1> HIDE DEF both
<1>10. ASSUME NEW k \in 1..(m + n)
       PROVE  both[k] = both[k - 1] + su[k]
  <2>1. CASE k <= m
    <3>1. k \in 1..m /\ k \in 0..m /\ k - 1 \in 0..m
      BY <1>1, <2>1
    <3> QED
      BY <1>1, <1>3, <1>6, <3>1
  <2>2. CASE k = m + 1
    <3>1. k \in 0..(m + n) /\ k > m /\ k - m = 1 /\ k - 1 = m /\ m \in 0..m /\ 1 \in 1..n
      BY <1>1, <2>2
    <3>2. both[k] = t1[m] + t2[1] /\ both[k - 1] = t1[m] /\ t2[1] = 0 + u[1] /\ su[k] = u[1]
      <4>1. t2[1] = t2[1 - 1] + u[1] /\ 1 - 1 = 0
        BY <1>4, <3>1
      <4> QED
        BY <1>1, <1>4, <1>6, <1>7, <3>1, <4>1
    <3>3. u[1] \in Int
      BY <1>1, <3>1
    <3> QED
      BY <1>5, <3>2, <3>3
  <2>3. CASE k > m + 1
    <3> DEFINE j == k - m
    <3>1. /\ k \in 0..(m + n) /\ k > m /\ k - 1 \in 0..(m + n) /\ k - 1 > m
          /\ j \in 1..n /\ j - 1 \in 0..n /\ (k - 1) - m = j - 1
      BY <1>1, <2>3
    <3>2. both[k] = t1[m] + t2[j] /\ both[k - 1] = t1[m] + t2[j - 1] /\ su[k] = u[j]
      BY <1>1, <1>7, <3>1
    <3> HIDE DEF j
    <3>3. t2[j] = t2[j - 1] + u[j] /\ t2[j - 1] \in Int /\ u[j] \in Int
      BY <1>1, <1>4, <3>1
    <3> QED
      BY <1>5, <3>2, <3>3
  <2> QED
    BY <1>1, <2>1, <2>2, <2>3
<1>11. IsRun(both, su)
  <2>1. both[0] = 0
    BY <1>1, <1>3, <1>6
  <2> QED
    BY <1>1, <1>9, <1>10, <2>1 DEF IsRun
<1>12. SumOf(su) = both[m + n]
  BY <1>1, <1>11, RunIsSum
<1> QED
  BY <1>2, <1>8, <1>12 DEF su

LEMMA ShortSums ==
  /\ SumOf(<<>>) = 0
  /\ \A a \in Int : SumOf(<<a>>) = a
  /\ \A a, b \in Int : SumOf(<<a, b>>) = a + b
PROOF
<1>1. SumOf(<<>>) = 0
  <2> DEFINE t == [k \in 0..0 |-> 0]
  <2>1. IsRun(t, <<>>) /\ t[0] = 0
    BY DEF IsRun
  <2>2. <<>> \in Seq(Int) /\ Len(<<>>) = 0
    OBVIOUS
  <2> HIDE DEF t
  <2> QED
    BY <2>1, <2>2, RunIsSum
<1>2. ASSUME NEW a \in Int
      PROVE  SumOf(<<a>>) = a
  <2> DEFINE t == [k \in 0..1 |-> IF k = 0 THEN 0 ELSE a]
  <2>1. IsRun(t, <<a>>) /\ t[1] = a
    BY DEF IsRun
  <2>2. <<a>> \in Seq(Int) /\ Len(<<a>>) = 1
    OBVIOUS
  <2> HIDE DEF t
  <2> QED
    BY <2>1, <2>2, RunIsSum
<1>3. ASSUME NEW a \in Int, NEW b \in Int
      PROVE  SumOf(<<a, b>>) = a + b
  <2>1. <<a>> \in Seq(Int) /\ <<b>> \in Seq(Int)
    OBVIOUS
  <2>2. <<a, b>> = <<a>> \o <<b>>
    <3> DEFINE one == <<a>>
               two == <<b>>
    <3>1. one \in Seq(Int) /\ two \in Seq(Int) /\ Len(one) = 1 /\ Len(two) = 1
      OBVIOUS
    <3>2. one[1] = a /\ two[1] = b
      OBVIOUS
    <3> HIDE DEF one, two
    <3> DEFINE x == one \o two
    <3>3. /\ x \in Seq(Int) /\ Len(x) = 2
          /\ x[1] = one[1] /\ x[1 + 1] = two[1]
      <4>1. /\ one \o two \in Seq(Int) /\ Len(one \o two) = Len(one) + Len(two)
            /\ \A i \in 1..Len(one) : (one \o two)[i] = one[i]
            /\ \A i \in 1..Len(two) : (one \o two)[Len(one) + i] = two[i]
        BY <3>1, Concatenated
      <4> QED
        BY <3>1, <4>1
    <3> HIDE DEF x
    <3>4. x = [i \in 1..2 |-> x[i]]
      BY <3>3
    <3>5. x = << a, b >>
      BY <3>2, <3>3, <3>4
    <3> QED
      BY <3>5 DEF one, two, x
  <2> QED
    BY <1>2, <2>1, <2>2, SumConcatenated
<1> QED
  BY <1>1, <1>2, <1>3

-------------------------------------------------------------------------------
(* What operations, moves and logs count. *)

Counted(status, amount) ==
  IF status = SuccessStatus /\ amount # None THEN amount ELSE 0

OperationCounts(ops) ==
  [i \in 1..Len(ops) |-> Counted(ops[i].status, ops[i].amount)]

MoveCount(move, receipt) ==
  Counted(IF move.type = "TRANSFER" THEN StatusFlag(receipt) ELSE SuccessStatus,
          move.amount)

MoveCounts(moves, receipt) ==
  [i \in 1..Len(moves) |-> MoveCount(moves[i], receipt)]

CreatedCounts(logs) == [i \in 1..Len(logs) |-> Created(logs[i])]

LEMMA CountedType ==
  ASSUME NEW status, NEW amount \in Int \cup {None}
  PROVE  /\ Counted(status, amount) \in Int
         /\ amount \in Int => Counted(SuccessStatus, amount) = amount
         /\ Counted(SuccessStatus, None) = 0
BY AddressAssumption DEF Counted

\* Total is the sum in order.
LEMMA TotalCounts ==
  ASSUME NEW ops \in Seq(Operation)
  PROVE  /\ OperationCounts(ops) \in Seq(Int)
         /\ Total(ops) = SumOf(OperationCounts(ops))
PROOF
<1> DEFINE S == {i \in DOMAIN ops : /\ ops[i].status = SuccessStatus
                                    /\ ops[i].amount # None}
           f == [i \in S |-> ops[i].amount]
           s == OperationCounts(ops)
           IsTotal(sum) == sum = [u \in SUBSET S |->
             IF u = {} THEN 0
             ELSE ops[CHOOSE x \in u : TRUE].amount + sum[u \ {CHOOSE x \in u : TRUE}]]
           total == CHOOSE sum : IsTotal(sum)
<1>1. Len(ops) \in Nat /\ DOMAIN ops = 1..Len(ops) /\ S \subseteq 1..Len(ops)
  OBVIOUS
<1>2. \A i \in 1..Len(ops) : ops[i].amount \in Int \cup {None}
  <2>1. \A i \in 1..Len(ops) : ops[i] \in Operation
    BY <1>1
  <2> QED
    BY <2>1 DEF Operation
<1>3. s \in Seq(Int) /\ Len(s) = Len(ops)
  <2>1. \A i \in 1..Len(ops) : Counted(ops[i].status, ops[i].amount) \in Int
    BY <1>2, CountedType
  <2> QED
    BY <1>1, <2>1 DEF OperationCounts
<1>4. Total(ops) = total[S]
  BY DEF Total, MapThenSumSet, MapThenFoldSet
<1>5. IsFiniteSet(S)
  <2>1. IsFiniteSet(1..Len(ops))
    BY <1>1, FS_Interval
  <2> HIDE DEF S
  <2> QED
    BY <1>1, <2>1, FS_Subset
<1>6. \A sum : IsSum(sum, S, f) <=> IsTotal(sum)
  <2> TAKE sum
  <2> DEFINE Chosen(u) == CHOOSE x \in u : TRUE
  <2>1. ASSUME NEW u \in SUBSET S, u # {}
        PROVE  f[Chosen(u)] = ops[Chosen(u)].amount
    <3>1. Chosen(u) \in S
      BY <2>1
    <3> HIDE DEF Chosen, S
    <3> QED
      BY <3>1
  <2> DEFINE g == [u \in SUBSET S |->
                     IF u = {} THEN 0 ELSE f[Chosen(u)] + sum[u \ {Chosen(u)}]]
             h == [u \in SUBSET S |->
                     IF u = {} THEN 0 ELSE ops[Chosen(u)].amount + sum[u \ {Chosen(u)}]]
  <2>2. g = h
    <3> HIDE DEF f, S, Chosen
    <3> QED
      BY <2>1
  <2>3. IsSum(sum, S, f) <=> sum = g
    BY DEF IsSum
  <2>4. IsTotal(sum) <=> sum = h
    OBVIOUS
  <2> HIDE DEF g, h, IsTotal
  <2> QED
    BY <2>2, <2>3, <2>4
<1>7. IsSum(total, S, f)
  <2>1. \E sum : IsSum(sum, S, f)
    BY <1>5, SumExists
  <2> HIDE DEF IsTotal, S, f
  <2>2. \E sum : IsTotal(sum)
    BY <1>6, <2>1
  <2>3. IsTotal(total)
    BY <2>2
  <2> QED
    BY <1>6, <2>3
<1>8. S \in SUBSET (1..Len(s))
  BY <1>1, <1>3
<1>9. f \in [S -> Int] /\ \A i \in S : f[i] = s[i]
  <2>1. \A i \in S : /\ i \in 1..Len(ops) /\ ops[i].status = SuccessStatus
                     /\ ops[i].amount # None /\ ops[i].amount \in Int
    BY <1>1, <1>2
  <2>2. \A i \in S : s[i] = ops[i].amount
    BY <2>1 DEF OperationCounts, Counted
  <2> HIDE DEF S, s
  <2> QED
    BY <2>1, <2>2
<1>10. \A i \in (1..Len(s)) \ S : s[i] = 0
  BY <1>1, <1>3 DEF OperationCounts, Counted
<1> HIDE DEF S, f, s, total, IsTotal
<1>11. \E t : IsRun(t, s) /\ t[Len(s)] = total[S]
  BY <1>3, <1>7, <1>8, <1>9, <1>10, SumRuns
<1>12. SumOf(s) = total[S]
  BY <1>3, <1>11, RunIsSum
<1> QED
  BY <1>3, <1>4, <1>12 DEF s

LEMMA CreatedType ==
  ASSUME NEW el \in EventLog
  PROVE  Created(el) \in Int
PROOF
<1>1. CASE el.sig = "ICXIssued(int,int,int,int)"
  <2>1. el.data[3] \in Nat
    BY <1>1 DEF EventLog, Claims, Burns
  <2>2. Created(el) = el.data[3]
    BY <1>1 DEF Created, Burns
  <2> QED
    BY <2>1, <2>2
<1>2. CASE el.sig = "DepositWithdrawn(bytes,Address,int,int)"
  <2>1. el.data[1] \in Nat
    BY <1>2 DEF EventLog, Claims, Burns
  <2>2. Created(el) = el.data[1]
    BY <1>2 DEF Created, Burns
  <2> QED
    BY <2>1, <2>2
<1>3. CASE el.sig \in Burns
  <2>1. el.data \in Seq(Nat) /\ el.data # <<>>
    BY <1>3 DEF EventLog, Claims, Burns
  <2>2. el.data[1] \in Nat
    BY <2>1
  <2>3. Created(el) = -el.data[1]
    BY <1>3 DEF Created, Burns
  <2> QED
    BY <2>2, <2>3
<1>4. CASE /\ el.sig \notin Burns /\ el.sig # "ICXIssued(int,int,int,int)"
           /\ el.sig # "DepositWithdrawn(bytes,Address,int,int)"
  <2>1. Created(el) = 0
    BY <1>4 DEF Created
  <2> QED
    BY <2>1
<1> QED
  BY <1>1, <1>2, <1>3, <1>4

LEMMA CreatedSum ==
  ASSUME NEW logs \in Seq(EventLog)
  PROVE  /\ CreatedCounts(logs) \in Seq(Int)
         /\ MapThenSumSet(LAMBDA i : Created(logs[i]), DOMAIN logs)
              = SumOf(CreatedCounts(logs))
PROOF
<1> DEFINE S == DOMAIN logs
           s == CreatedCounts(logs)
           IsTotal(sum) == sum = [u \in SUBSET S |->
             IF u = {} THEN 0
             ELSE Created(logs[CHOOSE x \in u : TRUE]) + sum[u \ {CHOOSE x \in u : TRUE}]]
           total == CHOOSE sum : IsTotal(sum)
<1>1. Len(logs) \in Nat /\ S = 1..Len(logs) /\ \A i \in S : logs[i] \in EventLog
  OBVIOUS
<1>2. s \in Seq(Int) /\ Len(s) = Len(logs) /\ s \in [S -> Int]
  <2>1. \A i \in 1..Len(logs) : Created(logs[i]) \in Int
    BY <1>1, CreatedType
  <2> HIDE DEF S
  <2> QED
    BY <1>1, <2>1 DEF CreatedCounts
<1>3. \A i \in S : s[i] = Created(logs[i])
  BY <1>1 DEF CreatedCounts
<1>4. MapThenSumSet(LAMBDA i : Created(logs[i]), DOMAIN logs) = total[S]
  BY DEF MapThenSumSet, MapThenFoldSet
<1>5. IsFiniteSet(S)
  BY <1>1, FS_Interval
<1>6. \A sum : IsSum(sum, S, s) <=> IsTotal(sum)
  <2> TAKE sum
  <2> DEFINE Chosen(u) == CHOOSE x \in u : TRUE
             g == [u \in SUBSET S |->
                     IF u = {} THEN 0 ELSE s[Chosen(u)] + sum[u \ {Chosen(u)}]]
             h == [u \in SUBSET S |->
                     IF u = {} THEN 0 ELSE Created(logs[Chosen(u)]) + sum[u \ {Chosen(u)}]]
  <2>1. \A u \in SUBSET S : u # {} => Chosen(u) \in S
    OBVIOUS
  <2>2. g = h
    <3> HIDE DEF s, S, Chosen
    <3> QED
      BY <1>3, <2>1
  <2>3. IsSum(sum, S, s) <=> sum = g
    BY DEF IsSum
  <2>4. IsTotal(sum) <=> sum = h
    OBVIOUS
  <2> HIDE DEF g, h, IsTotal
  <2> QED
    BY <2>2, <2>3, <2>4
<1>7. IsSum(total, S, s)
  <2>1. \E sum : IsSum(sum, S, s)
    BY <1>5, SumExists
  <2> HIDE DEF IsTotal, S, s
  <2>2. \E sum : IsTotal(sum)
    BY <1>6, <2>1
  <2>3. IsTotal(total)
    BY <2>2
  <2> QED
    BY <1>6, <2>3
<1>8. S \in SUBSET (1..Len(s)) /\ \A i \in (1..Len(s)) \ S : s[i] = 0
  BY <1>1, <1>2
<1> HIDE DEF S, s, total, IsTotal
<1>9. \E t : IsRun(t, s) /\ t[Len(s)] = total[S]
  BY <1>2, <1>7, <1>8, SumRuns
<1>10. SumOf(s) = total[S]
  BY <1>2, <1>9, RunIsSum
<1> QED
  BY <1>2, <1>4, <1>10 DEF s

\* Counting a list in two parts.
LEMMA MovesCounted ==
  ASSUME NEW receipt
  PROVE  /\ \A m \in Seq(Moved) : MoveCounts(m, receipt) \in Seq(Int)
         /\ \A m1, m2 \in Seq(Moved) :
              SumOf(MoveCounts(m1 \o m2, receipt)) =
                SumOf(MoveCounts(m1, receipt)) + SumOf(MoveCounts(m2, receipt))
PROOF
<1>1. \A m \in Moved : MoveCount(m, receipt) \in Int
  BY CountedType DEF MoveCount, Moved
<1>2. ASSUME NEW m \in Seq(Moved)
      PROVE  /\ MoveCounts(m, receipt) \in Seq(Int)
             /\ Len(MoveCounts(m, receipt)) = Len(m)
             /\ \A i \in 1..Len(m) : MoveCounts(m, receipt)[i] = MoveCount(m[i], receipt)
  <2>1. Len(m) \in Nat /\ \A i \in 1..Len(m) : m[i] \in Moved
    OBVIOUS
  <2>2. \A i \in 1..Len(m) : MoveCount(m[i], receipt) \in Int
    BY <1>1, <2>1
  <2> QED
    BY <2>1, <2>2 DEF MoveCounts
<1>3. ASSUME NEW m1 \in Seq(Moved), NEW m2 \in Seq(Moved)
      PROVE  MoveCounts(m1 \o m2, receipt)
               = MoveCounts(m1, receipt) \o MoveCounts(m2, receipt)
  <2> DEFINE both == m1 \o m2
             c1 == MoveCounts(m1, receipt)
             c2 == MoveCounts(m2, receipt)
             c == MoveCounts(both, receipt)
             d == c1 \o c2
             n1 == Len(m1)
             n2 == Len(m2)
  <2>1. /\ both \in Seq(Moved) /\ Len(both) = n1 + n2
        /\ \A i \in 1..n1 : both[i] = m1[i]
        /\ \A i \in 1..n2 : both[n1 + i] = m2[i]
    BY Concatenated
  <2>2. n1 \in Nat /\ n2 \in Nat
    OBVIOUS
  <2> HIDE DEF both
  <2>3. /\ c \in Seq(Int) /\ Len(c) = n1 + n2
        /\ \A i \in 1..(n1 + n2) : c[i] = MoveCount(both[i], receipt)
    <3>1. both \in Seq(Moved)
      BY <2>1
    <3> QED
      BY <1>2, <2>1, <3>1
  <2>4. /\ c1 \in Seq(Int) /\ Len(c1) = n1
        /\ c2 \in Seq(Int) /\ Len(c2) = n2
        /\ \A i \in 1..n1 : c1[i] = MoveCount(m1[i], receipt)
        /\ \A i \in 1..n2 : c2[i] = MoveCount(m2[i], receipt)
    BY <1>2
  <2> HIDE DEF c, c1, c2, n1, n2
  <2>5. /\ d \in Seq(Int) /\ Len(d) = n1 + n2
        /\ \A i \in 1..n1 : d[i] = c1[i]
        /\ \A i \in 1..n2 : d[n1 + i] = c2[i]
    <3>1. /\ d \in Seq(Int) /\ Len(d) = Len(c1) + Len(c2)
          /\ \A i \in 1..Len(c1) : d[i] = c1[i]
          /\ \A i \in 1..Len(c2) : d[Len(c1) + i] = c2[i]
      <4>1. c1 \in Seq(Int) /\ c2 \in Seq(Int)
        BY <2>4
      <4> QED
        BY <4>1, Concatenated
    <3> HIDE DEF d
    <3> QED
      BY <2>4, <3>1
  <2> HIDE DEF d
  <2>6. ASSUME NEW i \in 1..(n1 + n2)
        PROVE  c[i] = d[i]
    <3>1. CASE i <= n1
      <4>1. i \in 1..n1
        BY <2>2, <3>1
      <4> QED
        BY <2>1, <2>3, <2>4, <2>5, <4>1
    <3>2. CASE i > n1
      <4> DEFINE j == i - n1
      <4>1. j \in 1..n2 /\ n1 + j = i
        BY <2>2, <3>2
      <4> HIDE DEF j
      <4>2. both[n1 + j] = m2[j] /\ d[n1 + j] = c2[j] /\ c2[j] = MoveCount(m2[j], receipt)
        BY <2>1, <2>4, <2>5, <4>1
      <4> QED
        BY <2>3, <4>1, <4>2
    <3> QED
      BY <2>2, <3>1, <3>2
  <2>7. c = [i \in 1..(n1 + n2) |-> c[i]]
    BY <2>3
  <2>8. d = [i \in 1..(n1 + n2) |-> d[i]]
    BY <2>5
  <2>9. c = d
    BY <2>6, <2>7, <2>8
  <2> QED
    BY <2>9 DEF c, d, c1, c2, both
<1>4. ASSUME NEW m1 \in Seq(Moved), NEW m2 \in Seq(Moved)
      PROVE  SumOf(MoveCounts(m1 \o m2, receipt)) =
                SumOf(MoveCounts(m1, receipt)) + SumOf(MoveCounts(m2, receipt))
  <2>1. MoveCounts(m1, receipt) \in Seq(Int) /\ MoveCounts(m2, receipt) \in Seq(Int)
    BY <1>2
  <2> QED
    BY <1>3, <2>1, SumConcatenated
<1> QED
  BY <1>2, <1>4

\* The operations of an answer count as the moves they are written for.
LEMMA AnswerCounts ==
  ASSUME NEW tx \in Transaction, NEW receipt \in TransactionResult
  PROVE  OperationCounts(Api!OperationsOf(tx, receipt))
           = MoveCounts(Api!Moves(tx, receipt), receipt)
PROOF
<1> DEFINE moves == Api!Moves(tx, receipt)
           n == Len(moves)
           ops == Api!OperationsOf(tx, receipt)
<1>1. moves \in Seq(Moved)
  <2>1. /\ \A k \in 0..Len(receipt.eventLogs) : MovesTo(tx, receipt, k) \in Seq(Moved)
        /\ MovesTo(tx, receipt, Len(receipt.eventLogs)) = moves
    BY MovesSteps
  <2>2. Len(receipt.eventLogs) \in 0..Len(receipt.eventLogs)
    BY DEF TransactionResult
  <2> QED
    BY <2>1, <2>2
<1>2. DOMAIN moves = 1..n /\ n \in Nat
  BY <1>1
<1>3. ops = [i \in DOMAIN moves |->
               [index   |-> i - 1,
                related |-> IF moves[i].paired THEN {i - 2} ELSE {},
                type    |-> moves[i].type,
                status  |-> IF moves[i].type = "TRANSFER" THEN StatusFlag(receipt)
                            ELSE SuccessStatus,
                account |-> moves[i].account,
                amount  |-> moves[i].amount]]
  BY SameOperators DEF Api!OperationsOf
<1> HIDE DEF moves, ops
<1>4. /\ DOMAIN ops = 1..n
      /\ \A i \in 1..n :
           /\ ops[i].status = IF moves[i].type = "TRANSFER" THEN StatusFlag(receipt)
                              ELSE SuccessStatus
           /\ ops[i].amount = moves[i].amount
  BY <1>2, <1>3
<1>5. Len(ops) = n
  BY <1>2, <1>4
<1>6. \A i \in 1..n : Counted(ops[i].status, ops[i].amount) = MoveCount(moves[i], receipt)
  BY <1>4 DEF MoveCount
<1> HIDE DEF n
<1>7. OperationCounts(ops) = [i \in 1..n |-> Counted(ops[i].status, ops[i].amount)]
  BY <1>5 DEF OperationCounts
<1>8. MoveCounts(moves, receipt) = [i \in 1..n |-> MoveCount(moves[i], receipt)]
  BY DEF MoveCounts, n
<1> QED
  BY <1>6, <1>7, <1>8 DEF moves, ops

\* One and two moves, counted.
LEMMA FewMoves ==
  ASSUME NEW receipt
  PROVE  /\ SumOf(MoveCounts(<<>>, receipt)) = 0
         /\ \A m \in Moved :
              SumOf(MoveCounts(<< m >>, receipt)) = MoveCount(m, receipt)
         /\ \A m1, m2 \in Moved :
              SumOf(MoveCounts(<< m1, m2 >>, receipt))
                = MoveCount(m1, receipt) + MoveCount(m2, receipt)
PROOF
<1>1. \A m \in Moved : MoveCount(m, receipt) \in Int
  BY CountedType DEF MoveCount, Moved
<1>2. SumOf(MoveCounts(<<>>, receipt)) = 0
  <2>1. MoveCounts(<<>>, receipt) = <<>>
    BY DEF MoveCounts
  <2> QED
    BY <2>1, ShortSums
<1>3. ASSUME NEW m \in Moved
      PROVE  SumOf(MoveCounts(<< m >>, receipt)) = MoveCount(m, receipt)
  <2>1. MoveCounts(<< m >>, receipt) = << MoveCount(m, receipt) >>
    BY DEF MoveCounts
  <2> QED
    BY <1>1, <2>1, ShortSums
<1>4. ASSUME NEW m1 \in Moved, NEW m2 \in Moved
      PROVE  SumOf(MoveCounts(<< m1, m2 >>, receipt))
               = MoveCount(m1, receipt) + MoveCount(m2, receipt)
  <2>1. MoveCounts(<< m1, m2 >>, receipt)
          = << MoveCount(m1, receipt), MoveCount(m2, receipt) >>
    BY DEF MoveCounts
  <2> QED
    BY <1>1, <2>1, ShortSums
<1> QED
  BY <1>2, <1>3, <1>4

\* What a move counts whose type does not depend on the receipt's status.
LEMMA PlainCount ==
  ASSUME NEW type \in (OperationTypes \cup {"WITHDRAWN"}) \ {"TRANSFER"},
         NEW account \in Address \cup {None}, NEW receipt
  PROVE  /\ \A amount \in Int :
              /\ MoveCount(Api!Move(type, account, amount), receipt) = amount
              /\ MoveCount(Api!Credit(type, account, amount), receipt) = amount
         /\ MoveCount(Api!Move(type, account, None), receipt) = 0
PROOF
<1>1. ASSUME NEW amount
      PROVE  /\ Api!Move(type, account, amount).type = type
             /\ Api!Move(type, account, amount).amount = amount
             /\ Api!Credit(type, account, amount).type = type
             /\ Api!Credit(type, account, amount).amount = amount
  BY DEF Api!Move, Api!Credit
<1>2. \A amount \in Int \cup {None} :
        /\ MoveCount(Api!Move(type, account, amount), receipt)
             = Counted(SuccessStatus, amount)
        /\ MoveCount(Api!Credit(type, account, amount), receipt)
             = Counted(SuccessStatus, amount)
  BY <1>1 DEF MoveCount
<1> QED
  BY <1>2, CountedType

\* The two sides of a transfer count nothing together, whether it succeeded or
\* failed.
LEMMA TransferCounts ==
  ASSUME NEW from, NEW to, NEW value \in Nat, NEW receipt
  PROVE  MoveCount(Api!Move("TRANSFER", from, -value), receipt)
           + MoveCount(Api!Credit("TRANSFER", to, value), receipt) = 0
PROOF
<1>1. /\ Api!Move("TRANSFER", from, -value).type = "TRANSFER"
      /\ Api!Move("TRANSFER", from, -value).amount = -value
      /\ Api!Credit("TRANSFER", to, value).type = "TRANSFER"
      /\ Api!Credit("TRANSFER", to, value).amount = value
  BY DEF Api!Move, Api!Credit
<1>2. -value \in Int /\ -value # None /\ value # None
  BY AddressAssumption
<1>3. /\ MoveCount(Api!Move("TRANSFER", from, -value), receipt)
           = Counted(StatusFlag(receipt), -value)
      /\ MoveCount(Api!Credit("TRANSFER", to, value), receipt)
           = Counted(StatusFlag(receipt), value)
  BY <1>1 DEF MoveCount
<1>4. CASE StatusFlag(receipt) = SuccessStatus
  <2>1. /\ Counted(StatusFlag(receipt), -value) = -value
        /\ Counted(StatusFlag(receipt), value) = value
    BY <1>2, <1>4 DEF Counted
  <2> QED
    BY <1>3, <2>1
<1>5. CASE StatusFlag(receipt) # SuccessStatus
  <2>1. /\ Counted(StatusFlag(receipt), -value) = 0
        /\ Counted(StatusFlag(receipt), value) = 0
    BY <1>5 DEF Counted
  <2> QED
    BY <1>3, <2>1
<1> QED
  BY <1>4, <1>5

\* A log moves what it creates.
LEMMA LogCounts ==
  ASSUME NEW fa \in Address, NEW el \in EventLog, NEW receipt
  PROVE  SumOf(MoveCounts(Api!LogMoves(fa, el), receipt)) = Created(el)
PROOF
<1> DEFINE lm == Api!LogMoves(fa, el)
           types == (OperationTypes \cup {"WITHDRAWN"}) \ {"TRANSFER"}
<1>1. /\ SystemScore \in Address /\ Treasury \in Address
      /\ {"ICXTRANSFER", "ISSUE", "CLAIM", "BURN", "WITHDRAWN"} \subseteq types
      /\ types \subseteq OperationTypes \cup {"WITHDRAWN"}
  BY AddressAssumption DEF OperationTypes
<1>2. ASSUME NEW type \in types, NEW account \in Address, NEW amount \in Int
      PROVE  /\ Api!Move(type, account, amount) \in Moved
             /\ Api!Credit(type, account, amount) \in Moved
             /\ MoveCount(Api!Move(type, account, amount), receipt) = amount
             /\ MoveCount(Api!Credit(type, account, amount), receipt) = amount
  <2>1. amount \in Int \cup {None} /\ account \in Address \cup {None}
    OBVIOUS
  <2>2. type \in OperationTypes \cup {"WITHDRAWN"}
    BY <1>1
  <2> QED
    BY <2>1, <2>2, MoveType, PlainCount
<1> HIDE DEF types
<1>3. ASSUME NEW type \in types, NEW a \in Address, NEW b \in Address,
             NEW amount \in Nat,
             lm = << Api!Move(type, a, -amount), Api!Credit(type, b, amount) >>
      PROVE  SumOf(MoveCounts(lm, receipt)) = 0
  <2>1. -amount \in Int /\ amount \in Int
    OBVIOUS
  <2>2. /\ Api!Move(type, a, -amount) \in Moved /\ Api!Credit(type, b, amount) \in Moved
        /\ MoveCount(Api!Move(type, a, -amount), receipt) = -amount
        /\ MoveCount(Api!Credit(type, b, amount), receipt) = amount
    BY <1>2, <2>1
  <2>3. SumOf(MoveCounts(lm, receipt)) =
          MoveCount(Api!Move(type, a, -amount), receipt)
            + MoveCount(Api!Credit(type, b, amount), receipt)
    <3> HIDE DEF lm
    <3> QED
      BY <1>3, <2>2, FewMoves
  <2> QED
    BY <2>2, <2>3
<1>4. ASSUME NEW type \in types, NEW a \in Address, NEW amount \in Int,
             lm = << Api!Move(type, a, amount) >>
      PROVE  SumOf(MoveCounts(lm, receipt)) = amount
  <2> HIDE DEF lm
  <2> QED
    BY <1>2, <1>4, FewMoves
<1>5. CASE el.sig = "ICXTransfer(Address,Address,int)"
  <2>1. el.indexed[1] \in Address /\ el.indexed[2] \in Address /\ el.indexed[3] \in Nat
    BY <1>5 DEF EventLog, Claims, Burns
  <2>2. lm = << Api!Move("ICXTRANSFER", el.indexed[1], -el.indexed[3]),
                Api!Credit("ICXTRANSFER", el.indexed[2], el.indexed[3]) >>
    BY <1>5 DEF Api!LogMoves, Api!Claims, Api!Burns
  <2>3. Created(el) = 0
    BY <1>5 DEF Created, Burns
  <2> HIDE DEF lm
  <2> QED
    BY <1>1, <1>3, <2>1, <2>2, <2>3 DEF lm
<1>6. CASE el.sig = "ICXIssued(int,int,int,int)"
  <2>1. el.data[3] \in Nat
    BY <1>6 DEF EventLog, Claims, Burns
  <2>2. lm = << Api!Move("ISSUE", Treasury, el.data[3]) >>
    BY <1>6 DEF Api!LogMoves, Api!Claims, Api!Burns
  <2>3. Created(el) = el.data[3]
    BY <1>6 DEF Created, Burns
  <2> QED
    BY <1>1, <1>4, <2>1, <2>2, <2>3
<1>7. CASE el.sig \in Claims
  <2>1. el.data[2] \in Nat
    BY <1>7 DEF EventLog, Claims, Burns
  <2>2. lm = << Api!Move("CLAIM", Treasury, -el.data[2]),
                Api!Credit("CLAIM", fa, el.data[2]) >>
    BY <1>7 DEF Api!LogMoves, Api!Claims, Api!Burns, Claims, Burns
  <2>3. Created(el) = 0
    BY <1>7 DEF Created, Burns, Claims
  <2> QED
    BY <1>1, <1>3, <2>1, <2>2, <2>3
<1>8. CASE el.sig \in Burns
  <2>1. el.data[1] \in Nat
    <3>1. el.data \in Seq(Nat) /\ el.data # <<>>
      BY <1>8 DEF EventLog, Claims, Burns
    <3> QED
      BY <3>1
  <2>2. lm = << Api!Move("BURN", SystemScore, -el.data[1]) >>
    BY <1>8 DEF Api!LogMoves, Api!Claims, Api!Burns, Claims, Burns
  <2>3. Created(el) = -el.data[1]
    BY <1>8 DEF Created, Burns
  <2> QED
    BY <1>1, <1>4, <2>1, <2>2, <2>3
<1>9. CASE el.sig = "DepositWithdrawn(bytes,Address,int,int)"
  <2>1. el.indexed[2] \in Address /\ el.data[1] \in Nat
    BY <1>9 DEF EventLog, Claims, Burns
  <2>2. lm = << Api!Move("WITHDRAWN", el.indexed[2], el.data[1]) >>
    BY <1>9 DEF Api!LogMoves, Api!Claims, Api!Burns
  <2>3. Created(el) = el.data[1]
    BY <1>9 DEF Created, Burns
  <2> QED
    BY <1>1, <1>4, <2>1, <2>2, <2>3
<1>10. CASE el.sig = "other"
  <2>1. lm = <<>>
    BY <1>10 DEF Api!LogMoves, Api!Claims, Api!Burns
  <2>2. Created(el) = 0
    BY <1>10 DEF Created, Burns
  <2> QED
    BY <2>1, <2>2, FewMoves
<1>11. \/ el.sig = "ICXTransfer(Address,Address,int)"
       \/ el.sig = "ICXIssued(int,int,int,int)"
       \/ el.sig \in Claims
       \/ el.sig \in Burns
       \/ el.sig = "DepositWithdrawn(bytes,Address,int,int)"
       \/ el.sig = "other"
  BY DEF EventLog
<1> QED
  BY <1>5, <1>6, <1>7, <1>8, <1>9, <1>10, <1>11

\* The transaction itself moves the part of its fee that others pay.
LEMMA OwnCounts ==
  ASSUME NEW tx \in Transaction, NEW receipt \in TransactionResult
  PROVE  SumOf(MoveCounts(Api!OwnMoves(tx, receipt), receipt)) = SharedFee(tx, receipt)
PROOF
<1>1. /\ tx.from \in Address /\ tx.to \in Address /\ tx.version \in {2, 3}
      /\ Values(tx) \in Nat /\ tx.stepLimit \in Nat /\ tx.fee \in Nat
  BY DEF Transaction, Values
<1>2. /\ receipt.stepUsed \in Nat /\ receipt.stepPrice \in Nat
      /\ GetUserStep(tx.from, receipt.stepDetails) \in Nat
  BY <1>1 DEF TransactionResult, GetUserStep
<1>3. {"BASE", "FEE"} \subseteq (OperationTypes \cup {"WITHDRAWN"}) \ {"TRANSFER"}
  BY DEF OperationTypes
<1>4. CASE IsBase(tx)
  <2>1. Api!OwnMoves(tx, receipt) = << Api!Move("BASE", None, None) >>
    BY <1>4, SameOperators DEF Api!OwnMoves
  <2>2. Api!Move("BASE", None, None) \in Moved
    BY <1>3, MoveType
  <2>3. MoveCount(Api!Move("BASE", None, None), receipt) = 0
    BY <1>3, PlainCount
  <2>4. SharedFee(tx, receipt) = 0
    BY <1>4 DEF SharedFee
  <2> QED
    BY <2>1, <2>2, <2>3, <2>4, FewMoves
<1>5. CASE ~IsBase(tx)
  <2> DEFINE provisional == IF tx.version = 3 THEN tx.stepLimit ELSE tx.fee
             counted == receipt.stepUsed > 0
             used == receipt.stepUsed
             price == receipt.stepPrice
             user == GetUserStep(tx.from, receipt.stepDetails)
             debit == IF counted THEN -(user * price) ELSE -provisional
             credit == IF counted THEN used * price ELSE provisional
             v == Values(tx)
             m1 == Api!Move("TRANSFER", tx.from, -v)
             m2 == Api!Credit("TRANSFER", tx.to, v)
             m3 == Api!Credit("FEE", tx.from, debit)
             m4 == Api!Credit("FEE", Treasury, credit)
  <2>1. Api!OwnMoves(tx, receipt) = << m1, m2 >> \o << m3, m4 >>
    <3>1. Api!FeeMoves(tx, receipt) = << m3, m4 >>
      BY SameOperators DEF Api!FeeMoves
    <3> QED
      BY <1>5, <3>1, SameOperators DEF Api!OwnMoves
  <2>2. /\ debit \in Int /\ credit \in Int
        /\ debit + credit = SharedFee(tx, receipt)
    <3>1. CASE counted
      <4>1. /\ debit = -(user * price) /\ credit = used * price
            /\ SharedFee(tx, receipt) = (used - user) * price
        BY <1>2, <1>5, <3>1 DEF SharedFee
      <4>2. /\ used \in Nat /\ user \in Nat /\ price \in Nat
        BY <1>2
      <4> HIDE DEF used, user, price, debit, credit, counted
      <4>3. user * price \in Int /\ used * price \in Int
        BY <4>2
      <4>4. (used - user) * price = used * price - user * price
        BY <4>2
      <4> QED
        BY <4>1, <4>3, <4>4
    <3>2. CASE ~counted
      <4>1. receipt.stepUsed = 0
        BY <1>2, <3>2
      <4>2. SharedFee(tx, receipt) = 0
        BY <4>1 DEF SharedFee
      <4>3. provisional \in Nat
        BY <1>1
      <4>4. debit = -provisional /\ credit = provisional
        BY <3>2
      <4> HIDE DEF provisional, debit, credit, counted
      <4> QED
        BY <4>2, <4>3, <4>4
    <3> QED
      BY <3>1, <3>2
  <2>3. v \in Nat /\ -v \in Int \cup {None} /\ v \in Int \cup {None}
    BY <1>1
  <2> HIDE DEF v, debit, credit
  <2>4. m1 \in Moved /\ m2 \in Moved /\ m3 \in Moved /\ m4 \in Moved
    <3>1. /\ debit \in Int \cup {None} /\ credit \in Int \cup {None}
          /\ tx.from \in Address \cup {None} /\ tx.to \in Address \cup {None}
          /\ Treasury \in Address \cup {None}
          /\ "TRANSFER" \in OperationTypes \cup {"WITHDRAWN"}
          /\ "FEE" \in OperationTypes \cup {"WITHDRAWN"}
      BY <1>1, <2>2, AddressAssumption DEF OperationTypes
    <3> QED
      BY <2>3, <3>1, MoveType
  <2>5. MoveCount(m1, receipt) + MoveCount(m2, receipt) = 0
    BY <2>3, TransferCounts
  <2>6. MoveCount(m3, receipt) = debit /\ MoveCount(m4, receipt) = credit
    <3>1. /\ tx.from \in Address \cup {None} /\ Treasury \in Address \cup {None}
          /\ "FEE" \in (OperationTypes \cup {"WITHDRAWN"}) \ {"TRANSFER"}
      BY <1>1, <1>3, AddressAssumption
    <3> QED
      BY <2>2, <3>1, PlainCount
  <2> HIDE DEF m1, m2, m3, m4
  <2>7. << m1, m2 >> \in Seq(Moved) /\ << m3, m4 >> \in Seq(Moved)
    BY <2>4
  <2>8. SumOf(MoveCounts(Api!OwnMoves(tx, receipt), receipt)) =
          SumOf(MoveCounts(<< m1, m2 >>, receipt))
            + SumOf(MoveCounts(<< m3, m4 >>, receipt))
    BY <2>1, <2>7, MovesCounted
  <2>9. /\ SumOf(MoveCounts(<< m1, m2 >>, receipt)) = 0
        /\ SumOf(MoveCounts(<< m3, m4 >>, receipt)) = debit + credit
    BY <2>4, <2>5, <2>6, FewMoves
  <2> QED
    BY <2>2, <2>8, <2>9
<1> QED
  BY <1>4, <1>5

\* With each log read, what the moves count grows by what the log creates.
LEMMA MovesCreate ==
  ASSUME NEW tx \in Transaction, NEW receipt \in TransactionResult
  PROVE  SumOf(MoveCounts(Api!Moves(tx, receipt), receipt)) =
           SumOf(CreatedCounts(receipt.eventLogs)) + SharedFee(tx, receipt)
PROOF
<1> DEFINE logs == receipt.eventLogs
           fa == ClaimantOf(tx)
           s == CreatedCounts(logs)
           made == CHOOSE t : IsRun(t, s)
           fee == SharedFee(tx, receipt)
           sum(k) == SumOf(MoveCounts(MovesTo(tx, receipt, k), receipt))
           N == {n \in Nat : n <= Len(logs) => sum(n) = made[n] + fee}
<1>1. logs \in Seq(EventLog)
  BY DEF TransactionResult
<1>2. Len(logs) \in Nat /\ \A k \in 1..Len(logs) : logs[k] \in EventLog
  BY <1>1
<1>3. fa \in Address
  BY AddressAssumption DEF ClaimantOf, Transaction
<1>4. /\ MovesTo(tx, receipt, 0) = Api!OwnMoves(tx, receipt)
      /\ \A k \in 0..Len(logs) : MovesTo(tx, receipt, k) \in Seq(Moved)
      /\ \A k \in 1..Len(logs) :
           MovesTo(tx, receipt, k) =
             MovesTo(tx, receipt, k - 1) \o Api!LogMoves(fa, logs[k])
      /\ MovesTo(tx, receipt, Len(logs)) = Api!Moves(tx, receipt)
  BY MovesSteps
<1> HIDE DEF logs, fa, fee
<1>5. /\ s \in Seq(Int) /\ Len(s) = Len(logs)
      /\ \A k \in 1..Len(logs) : s[k] = Created(logs[k])
  <2>1. s \in Seq(Int)
    BY <1>1, CreatedSum
  <2> QED
    BY <1>2, <2>1 DEF CreatedCounts
<1>6. IsRun(made, s) /\ SumOf(s) = made[Len(s)]
  BY <1>5, RunIsSum DEF SumOf
<1> HIDE DEF made, s
<1>7. /\ made[0] = 0
      /\ \A k \in 0..Len(logs) : made[k] \in Int
      /\ \A k \in 1..Len(logs) : made[k] = made[k - 1] + Created(logs[k])
  BY <1>5, <1>6 DEF IsRun
<1>8. sum(0) = fee
  BY <1>4, OwnCounts DEF fee
<1>9. fee \in Int
  <2>1. MovesTo(tx, receipt, 0) \in Seq(Moved)
    BY <1>2, <1>4
  <2> QED
    BY <1>8, <2>1, MovesCounted, RunIsSum
<1>10. 0 \in N
  BY <1>7, <1>8, <1>9
<1>11. ASSUME NEW n \in Nat, n \in N
       PROVE  n + 1 \in N
  <2>1. ASSUME n + 1 <= Len(logs)
        PROVE  sum(n + 1) = made[n + 1] + fee
    <3> DEFINE k == n + 1
               before == MovesTo(tx, receipt, n)
               more == Api!LogMoves(fa, logs[k])
    <3>1. k \in 1..Len(logs) /\ k - 1 = n /\ n \in 0..Len(logs) /\ n <= Len(logs)
      BY <1>2, <2>1
    <3>2. sum(n) = made[n] + fee
      BY <1>11, <3>1
    <3>3. made[k] = made[n] + Created(logs[k]) /\ made[n] \in Int
      BY <1>7, <3>1
    <3>4. logs[k] \in EventLog
      BY <1>2, <3>1
    <3>5. before \in Seq(Moved) /\ MovesTo(tx, receipt, k) = before \o more
      BY <1>4, <3>1
    <3> HIDE DEF k
    <3>6. more \in Seq(Moved)
      <4>1. <<>> \in Seq(Moved)
        OBVIOUS
      <4> QED
        BY <1>3, <3>4, <4>1, LogWritten
    <3>7. SumOf(MoveCounts(more, receipt)) = Created(logs[k])
      BY <1>3, <3>4, LogCounts
    <3> HIDE DEF more, before
    <3>8. SumOf(MoveCounts(before \o more, receipt)) =
            SumOf(MoveCounts(before, receipt)) + SumOf(MoveCounts(more, receipt))
      BY <3>5, <3>6, MovesCounted
    <3>9. sum(k) = (made[n] + fee) + Created(logs[k])
      BY <3>2, <3>5, <3>7, <3>8 DEF before
    <3>10. Created(logs[k]) \in Int
      BY <3>4, CreatedType
    <3>11. sum(k) = made[k] + fee
      BY <1>9, <3>3, <3>9, <3>10
    <3> QED
      BY <3>11 DEF k
  <2> HIDE DEF sum
  <2> QED
    BY <2>1
<1>12. Len(logs) \in N
  <2> HIDE DEF N
  <2> QED
    BY <1>2, <1>10, <1>11, SetInduction
<1>13. sum(Len(logs)) = made[Len(logs)] + fee
  BY <1>2, <1>12
<1> QED
  BY <1>4, <1>5, <1>6, <1>13 DEF s, fee, logs

\* Nothing is made or lost in the loops: an answer's operations add up to what the
\* receipts created and what others paid of the fees, for any transactions and
\* logs.
THEOREM Supply == Spec => []SupplyAccounted
PROOF
<1>1. IInv /\ MInv => SupplyAccounted
  <2> SUFFICES ASSUME IInv, MInv, NEW r \in Requests, req[r].pc = "answered",
                      NEW t \in DOMAIN req[r].txs, req[r].txs[t].hash.block > 0
               PROVE  LET hash == req[r].txs[t].hash
                          receipt == BlockAt(hash.block).receipts[hash.position]
                          logs == receipt.eventLogs
                      IN Total(req[r].txs[t].operations) =
                           MapThenSumSet(LAMBDA i : Created(logs[i]), DOMAIN logs)
                             + SharedFee(Raw(hash), receipt)
    BY DEF SupplyAccounted
  <2> DEFINE l == req[r]
             tx == l.txs[t]
             hash == tx.hash
             raw == RawIn(chain, hash)
             receipt == ReceiptIn(chain, hash)
             logs == receipt.eventLogs
             ops == tx.operations
  <2>1. HandlerOK(l, chain) /\ ChainOK(chain) /\ MadeOK(l, chain) /\ l \in Handler
    BY DEF IInv, MInv, HandlerOK
  <2>2. l.txs \in Seq(RosettaTransaction) /\ l.n \in Nat
    BY <2>1 DEF Handler
  <2>3. tx \in RosettaTransaction
    BY <2>2
  <2>4. hash \in TxHashes /\ ops \in Seq(Operation) /\ hash.block # 0
    BY <2>3 DEF RosettaTransaction, TxHashes
  <2>5. Complete(tx, chain)
    <3>1. CASE l.want.endpoint = "block"
      <4>1. HasReceipts(l)
        BY <3>1 DEF HasReceipts, HasBlock
      <4>2. l.n > 0 /\ l.n \notin DOMAIN l.txs
        BY <2>1, <3>1 DEF HandlerOK, LoopOK
      <4>3. t < l.n
        <5> HIDE DEF l
        <5>1. t \in DOMAIN l.txs
          BY DEF l
        <5> QED
          BY <2>2, <4>2, <5>1
      <4> QED
        BY <2>1, <4>1, <4>3 DEF MadeOK, BlockMade
    <3>2. CASE l.want.endpoint = "transaction"
      <4>1. Len(l.txs) = 1 /\ Complete(l.txs[1], chain)
        BY <2>1, <3>2 DEF MadeOK, TransactionMade, OfTransaction
      <4>2. t = 1
        BY <2>2, <4>1
      <4> QED
        BY <4>1, <4>2
    <3>3. l.want.endpoint \in {"block", "transaction"}
      BY <2>1 DEF Handler, HandlerOK, WantsOK, BlockRequest, TransactionRequest
    <3> QED
      BY <3>1, <3>2, <3>3
  <2>6. InChain(chain, hash)
    BY <2>1 DEF HandlerOK, TransactionsOK
  <2>7. raw \in Transaction /\ receipt \in TransactionResult
    <3>1. HasReceiptIn(chain, hash)
      BY <2>4, <2>5 DEF Complete
    <3> HIDE DEF hash
    <3> QED
      BY <2>1, <2>4, <2>6, <3>1, FromChain
  <2>8. ops = Api!OperationsOf(raw, receipt)
    BY <2>4, <2>5 DEF Complete
  <2>9. logs \in Seq(EventLog)
    BY <2>7 DEF TransactionResult
  <2> HIDE DEF ops, raw, receipt
  <2>10. Total(ops) = SumOf(MoveCounts(Api!Moves(raw, receipt), receipt))
    BY <2>4, <2>7, <2>8, TotalCounts, AnswerCounts
  <2>11. Total(ops) = SumOf(CreatedCounts(logs)) + SharedFee(raw, receipt)
    BY <2>7, <2>10, MovesCreate
  <2>12. MapThenSumSet(LAMBDA i : Created(logs[i]), DOMAIN logs)
           = SumOf(CreatedCounts(logs))
    <3> HIDE DEF logs
    <3> QED
      BY <2>9, CreatedSum
  <2>13. /\ Raw(hash) = raw
         /\ BlockAt(hash.block).receipts[hash.position] = receipt
    BY DEF Raw, BlockAt, raw, receipt, RawIn, ReceiptIn
  <2> QED
    BY <2>11, <2>12, <2>13 DEF ops
<1> QED
  BY <1>1, Invariance, Making, PTL

===============================================================================
