---------------------- MODULE CrossCoreDeliveryProofs ----------------------
(***************************************************************************)
(* CrossCore implements Mailbox: whatever the interleaving of posts,       *)
(* spills and drains, a message is delivered to its target once.           *)
(***************************************************************************)
EXTENDS CrossCoreProofs

Has(q, x) == \E i \in 1..Len(q) : q[i] = x
NoDup(q) == \A i, j \in 1..Len(q) : q[i] = q[j] => i = j

(* The places of a message under way: held by its poster, in a ring, or in *)
(* an overflow queue, which is listed under sender 0.                      *)
Where == {"post", "ring", "over"}
Place == Where \X Worker \X Worker \X Kind

QueueAt(a, r, s, k) ==
    CASE a = "ring" -> ring[r][s][k]
      [] a = "over" -> IF s = 0 THEN overflow[r][k] ELSE <<>>
      [] a = "post" -> IF /\ pc[s] \in {"enqueue", "spill"} /\ post[s].target = r
                          /\ KindOf(post[s].msg) = k
                       THEN <<post[s].msg>> ELSE <<>>

Queues == [p \in Place |-> QueueAt(p[1], p[2], p[3], p[4])]

(* Every message is in one place, once, among those of its kind, and the   *)
(* messages not posted yet are in none.                                    *)
OnePlace(Q, S) ==
    /\ \A p \in Place : NoDup(Q[p])
    /\ \A p \in Place, x \in Msg : Has(Q[p], x) => x \notin S /\ KindOf(x) = p[4]
    /\ \A p, q \in Place, x \in Msg : Has(Q[p], x) /\ Has(Q[q], x) => p = q

OnceInv == TypeOK /\ FlushOK /\ OnePlace(Queues, idle)

(* What is under way to r.                                                 *)
Under(Q, r) ==
    {x \in Msg : \E a \in Where, s \in Worker : Has(Q[<<a, r, s, KindOf(x)>>], x)}

-----------------------------------------------------------------------------
LEMMA HasAppend ==
    ASSUME NEW q \in Seq(Msg), NEW m \in Msg
    PROVE  /\ \A x : Has(Append(q, m), x) <=> Has(q, x) \/ x = m
           /\ NoDup(q) /\ ~Has(q, m) => NoDup(Append(q, m))
<1>1. /\ Len(q) \in Nat /\ Len(Append(q, m)) = Len(q) + 1
      /\ Append(q, m)[Len(q) + 1] = m
      /\ \A i \in 1..Len(q) : Append(q, m)[i] = q[i]
  BY AppendProperties, LenProperties
<1>2. \A i \in 1..(Len(q) + 1) : i \in 1..Len(q) \/ i = Len(q) + 1
  BY <1>1
<1>3. /\ \A i \in 1..Len(q) : i \in 1..(Len(q) + 1)
      /\ Len(q) + 1 \in 1..(Len(q) + 1)
  BY <1>1
<1>4. ASSUME NEW x PROVE Has(Append(q, m), x) <=> Has(q, x) \/ x = m
  BY Zenon, <1>1, <1>2, <1>3 DEF Has
<1>5. ASSUME NoDup(q), ~Has(q, m) PROVE NoDup(Append(q, m))
  BY ZenonT(30), <1>1, <1>2, <1>5 DEF NoDup, Has
<1> QED BY Zenon, <1>4, <1>5

LEMMA HasRest ==
    ASSUME NEW q \in Seq(Msg), NEW c \in 0..Len(q)
    PROVE  /\ \A x : Has(Rest(q, c), x) => Has(q, x)
           /\ NoDup(q) => NoDup(Rest(q, c))
           /\ NoDup(q) => \A x : Has(Rest(q, c), x) <=>
                              Has(q, x) /\ x \notin {q[i] : i \in 1..c}
<1>1. /\ Len(q) \in Nat /\ Len(Rest(q, c)) = Len(q) - c
      /\ \A i \in 1..Len(Rest(q, c)) : Rest(q, c)[i] = q[c + i]
  BY DEF Rest
<1>2. /\ \A i \in 1..Len(Rest(q, c)) : c + i \in 1..Len(q) /\ c + i \notin 1..c
      /\ \A i \in 1..Len(q) :
            i \in 1..c \/ (i - c \in 1..Len(Rest(q, c)) /\ c + (i - c) = i)
      /\ \A i \in 1..c : i \in 1..Len(q)
      /\ \A i, j \in 1..Len(Rest(q, c)) : c + i = c + j => i = j
  BY <1>1
<1>3. ASSUME NEW x, Has(Rest(q, c), x) PROVE Has(q, x)
  BY Zenon, <1>1, <1>2, <1>3 DEF Has
<1>4. ASSUME NoDup(q) PROVE NoDup(Rest(q, c))
  BY ZenonT(40), <1>1, <1>2, <1>4 DEF NoDup
<1>5. ASSUME NoDup(q), NEW x, Has(Rest(q, c), x) PROVE x \notin {q[i] : i \in 1..c}
  <2> SUFFICES ASSUME NEW j \in 1..c, x = q[j] PROVE FALSE
    BY Zenon
  <2>1. PICK i \in 1..Len(Rest(q, c)) : x = q[c + i]
    BY Zenon, <1>1, <1>5 DEF Has
  <2>2. c + i = j
    BY Zenon, <1>2, <1>5, <2>1 DEF NoDup
  <2> QED BY Zenon, <1>2, <2>2
<1>6. ASSUME NEW x, Has(q, x), x \notin {q[i] : i \in 1..c} PROVE Has(Rest(q, c), x)
  <2>1. PICK i \in 1..Len(q) : q[i] = x
    BY Zenon, <1>6 DEF Has
  <2>2. i \notin 1..c
    BY Zenon, <1>6, <2>1
  <2>3. i - c \in 1..Len(Rest(q, c)) /\ c + (i - c) = i
    BY Zenon, <1>2, <2>2
  <2>4. Rest(q, c)[i - c] = x
    BY Zenon, <1>1, <2>1, <2>3
  <2> QED BY Zenon, <2>3, <2>4 DEF Has
<1> QED BY Zenon, <1>3, <1>4, <1>5, <1>6

-----------------------------------------------------------------------------
(* The three ways the queues change.                                       *)

(* A message that was nowhere is put in place p.                           *)
Added(Q, R, p, m) ==
    R[p] = Append(Q[p], m) /\ \A q \in Place \ {p} : R[q] = Q[q]

LEMMA AddedKeeps ==
    ASSUME NEW Q \in [Place -> Seq(Msg)], NEW R, NEW S, NEW p \in Place, NEW m \in S \cap Msg,
           Added(Q, R, p, m), KindOf(m) = p[4], OnePlace(Q, S)
    PROVE  /\ OnePlace(R, S \ {m})
           /\ \A q \in Place, x \in Msg :
                 Has(R[q], x) <=> Has(Q[q], x) \/ (q = p /\ x = m)
<1>1. /\ \A x : Has(R[p], x) <=> Has(Q[p], x) \/ x = m
      /\ NoDup(Q[p]) /\ ~Has(Q[p], m) => NoDup(R[p])
  <2>1. Q[p] \in Seq(Msg) /\ m \in Msg
    BY Zenon
  <2>2. /\ \A x : Has(Append(Q[p], m), x) <=> Has(Q[p], x) \/ x = m
        /\ NoDup(Q[p]) /\ ~Has(Q[p], m) => NoDup(Append(Q[p], m))
    BY Zenon, <2>1, HasAppend
  <2>3. R[p] = Append(Q[p], m)
    BY Zenon DEF Added
  <2> QED BY Zenon, <2>2, <2>3
<1>2. \A q \in Place, x \in Msg :
         Has(R[q], x) <=> Has(Q[q], x) \/ (q = p /\ x = m)
  BY Zenon, <1>1 DEF Added
<1>3. \A q \in Place : ~Has(Q[q], m)
  BY Zenon DEF OnePlace
<1>4. \A q \in Place : NoDup(R[q])
  BY Zenon, <1>1, <1>3 DEF OnePlace, Added
<1>5. \A q \in Place, x \in Msg : Has(R[q], x) => x \notin S \ {m} /\ KindOf(x) = q[4]
  BY Zenon, <1>2 DEF OnePlace
<1>6. ASSUME NEW q \in Place, NEW r \in Place, NEW x \in Msg, Has(R[q], x), Has(R[r], x)
      PROVE  q = r
  <2>1. CASE x = m
    BY Zenon, <1>2, <1>3, <1>6, <2>1
  <2>2. CASE x # m
    BY Zenon, <1>2, <1>6, <2>2 DEF OnePlace
  <2> QED BY Zenon, <2>1, <2>2
<1>7. OnePlace(R, S \ {m})
  BY Zenon, <1>4, <1>5, <1>6 DEF OnePlace
<1> QED BY Zenon, <1>2, <1>7

(* The message of place o, which holds no other, goes to place p.          *)
Carried(Q, R, o, p, m) ==
    /\ Q[o] = <<m>> /\ R[o] = <<>> /\ R[p] = Append(Q[p], m)
    /\ \A q \in Place \ {o, p} : R[q] = Q[q]

CarriedHas(Q, R, o, p, m) ==
    \A q \in Place, x \in Msg :
        Has(R[q], x) <=> (Has(Q[q], x) /\ q # o) \/ (q = p /\ x = m)

LEMMA CarriedKeeps ==
    ASSUME NEW Q \in [Place -> Seq(Msg)], NEW R, NEW S, NEW o \in Place,
           NEW p \in Place, o # p, NEW m \in Msg,
           Carried(Q, R, o, p, m), o[4] = p[4], OnePlace(Q, S)
    PROVE  OnePlace(R, S) /\ CarriedHas(Q, R, o, p, m)
<1>1. /\ \A x : Has(R[p], x) <=> Has(Q[p], x) \/ x = m
      /\ NoDup(Q[p]) /\ ~Has(Q[p], m) => NoDup(R[p])
  <2>1. Q[p] \in Seq(Msg)
    BY Zenon
  <2>2. /\ \A x : Has(Append(Q[p], m), x) <=> Has(Q[p], x) \/ x = m
        /\ NoDup(Q[p]) /\ ~Has(Q[p], m) => NoDup(Append(Q[p], m))
    BY Zenon, <2>1, HasAppend
  <2>3. R[p] = Append(Q[p], m)
    BY Zenon DEF Carried
  <2> QED BY Zenon, <2>2, <2>3
<1>2. /\ \A x : ~Has(<<>>, x) /\ (Has(<<m>>, x) <=> x = m)
      /\ NoDup(<<>>)
  BY DEF Has, NoDup
<1>3. /\ \A x : Has(Q[o], x) <=> x = m
      /\ \A x : ~Has(R[o], x)
      /\ NoDup(R[o])
  BY Zenon, <1>2 DEF Carried
<1>4. \A q \in Place, x \in Msg :
         Has(R[q], x) <=> (Has(Q[q], x) /\ q # o) \/ (q = p /\ x = m)
  BY Zenon, <1>1, <1>3 DEF Carried
<1>5. /\ \A q \in Place : Has(Q[q], m) => q = o
      /\ m \notin S /\ KindOf(m) = p[4]
  BY Zenon, <1>3 DEF OnePlace
<1>6. \A q \in Place : NoDup(R[q])
  BY Zenon, <1>1, <1>3, <1>5 DEF OnePlace, Carried
<1>7. \A q \in Place, x \in Msg : Has(R[q], x) => x \notin S /\ KindOf(x) = q[4]
  BY Zenon, <1>4, <1>5 DEF OnePlace
<1>8. ASSUME NEW q \in Place, NEW r \in Place, NEW x \in Msg, Has(R[q], x), Has(R[r], x)
      PROVE  q = r
  <2>1. CASE x = m
    BY Zenon, <1>4, <1>5, <1>8, <2>1
  <2>2. CASE x # m
    BY Zenon, <1>4, <1>8, <2>2 DEF OnePlace
  <2> QED BY Zenon, <2>1, <2>2
<1>9. OnePlace(R, S)
  BY Zenon, <1>6, <1>7, <1>8 DEF OnePlace
<1> QED BY Zenon, <1>4, <1>9 DEF CarriedHas

Batch(q, c) == {q[i] : i \in 1..c}

(* The first c messages of place p are taken.                              *)
Taken(Q, R, p, c) ==
    R[p] = Rest(Q[p], c) /\ \A q \in Place \ {p} : R[q] = Q[q]

LEMMA TakenKeeps ==
    ASSUME NEW Q \in [Place -> Seq(Msg)], NEW R, NEW S, NEW p \in Place,
           NEW c, c \in 0..Len(Q[p]), Taken(Q, R, p, c), OnePlace(Q, S)
    PROVE  /\ OnePlace(R, S)
           /\ \A q \in Place, x \in Msg :
                 Has(R[q], x) <=> Has(Q[q], x) /\ x \notin Batch(Q[p], c)
           /\ \A x \in Batch(Q[p], c) : Has(Q[p], x) /\ x \in Msg
<1> DEFINE B == Batch(Q[p], c)
<1>1. /\ \A x : Has(R[p], x) <=> Has(Q[p], x) /\ x \notin B
      /\ NoDup(R[p])
  <2>1. Q[p] \in Seq(Msg) /\ NoDup(Q[p])
    BY Zenon DEF OnePlace
  <2> QED BY ZenonT(40), <2>1, HasRest DEF Taken, Batch
<1>2. \A x \in B : Has(Q[p], x) /\ x \in Msg
  <2> SUFFICES ASSUME NEW i \in 1..c PROVE i \in 1..Len(Q[p]) /\ Q[p][i] \in Msg
    BY Zenon DEF Has, Batch
  <2>1. Q[p] \in Seq(Msg) /\ Len(Q[p]) \in Nat
    BY LenProperties
  <2>2. i \in 1..Len(Q[p])
    BY <2>1
  <2> QED BY <2>1, <2>2, ElementOfSeq
<1> HIDE DEF B
<1>3. \A q \in Place, x \in Msg : Has(R[q], x) <=> Has(Q[q], x) /\ x \notin B
  BY Zenon, <1>1, <1>2 DEF Taken, OnePlace
<1>4. \A q \in Place : NoDup(R[q])
  BY Zenon, <1>1 DEF Taken, OnePlace
<1>5. OnePlace(R, S)
  BY Zenon, <1>3, <1>4 DEF OnePlace
<1> QED BY Zenon, <1>2, <1>3, <1>5 DEF B

-----------------------------------------------------------------------------
(* What is under way after each of the three.                              *)

LEMMA Places ==
    /\ \A a \in Where, r, s \in Worker, k \in Kind : <<a, r, s, k>> \in Place
    /\ \A p \in Place : /\ p[1] \in Where /\ p[2] \in Worker /\ p[3] \in Worker
                        /\ p[4] \in Kind /\ p = <<p[1], p[2], p[3], p[4]>>
    /\ \A a, r, s, k, b, t, u, j :
          <<a, r, s, k>> = <<b, t, u, j>> <=> a = b /\ r = t /\ s = u /\ k = j
BY DEF Place

(* A message of one kind, at place p.                                      *)
LEMMA UnderHas ==
    ASSUME NEW Q, NEW S, OnePlace(Q, S)
    PROVE  \A r \in Worker, x \in Msg :
              x \in Under(Q, r) <=> \E q \in Place : q[2] = r /\ Has(Q[q], x)
<1> SUFFICES ASSUME NEW r \in Worker, NEW x \in Msg
             PROVE  x \in Under(Q, r) <=> \E q \in Place : q[2] = r /\ Has(Q[q], x)
  OBVIOUS
<1>1. ASSUME NEW a \in Where, NEW s \in Worker
      PROVE  <<a, r, s, KindOf(x)>> \in Place /\ <<a, r, s, KindOf(x)>>[2] = r
  <2>1. <<a, r, s, KindOf(x)>> \in Place
    BY Zenon, Places, KindType
  <2> QED BY <2>1
<1>2. ASSUME NEW q \in Place, q[2] = r, Has(Q[q], x)
      PROVE  /\ q[1] \in Where /\ q[3] \in Worker
             /\ q = <<q[1], r, q[3], KindOf(x)>>
  <2>1. KindOf(x) = q[4]
    BY Zenon, <1>2 DEF OnePlace
  <2>2. /\ q[1] \in Where /\ q[3] \in Worker
        /\ q = <<q[1], q[2], q[3], q[4]>>
    BY Zenon, Places
  <2> QED BY Zenon, <1>2, <2>1, <2>2
<1>3. ASSUME NEW q \in Place, q[2] = r, Has(Q[q], x) PROVE x \in Under(Q, r)
  <2>1. Has(Q[<<q[1], r, q[3], KindOf(x)>>], x)
    BY Zenon, <1>2, <1>3
  <2> QED BY Zenon, <1>2, <1>3, <2>1 DEF Under
<1>4. ASSUME x \in Under(Q, r) PROVE \E q \in Place : q[2] = r /\ Has(Q[q], x)
  BY Zenon, <1>1, <1>4 DEF Under
<1> QED BY Zenon, <1>3, <1>4

Grows(Q, R, t, m) ==
    \A r \in Worker :
        Under(R, r) = IF r = t THEN Under(Q, r) \cup {m} ELSE Under(Q, r)

Shrinks(Q, R, t, B) ==
    \A r \in Worker :
        Under(R, r) = IF r = t THEN Under(Q, r) \ B ELSE Under(Q, r)

LEMMA AddedUnder ==
    ASSUME NEW Q \in [Place -> Seq(Msg)], NEW R, NEW S, NEW p \in Place, NEW m \in S \cap Msg,
           Added(Q, R, p, m), KindOf(m) = p[4], OnePlace(Q, S)
    PROVE  Grows(Q, R, p[2], m)
<1>1. /\ OnePlace(R, S \ {m})
      /\ \A q \in Place, x \in Msg :
            Has(R[q], x) <=> Has(Q[q], x) \/ (q = p /\ x = m)
  BY Zenon, AddedKeeps
<1>2. \A r \in Worker, x \in Msg :
         /\ x \in Under(Q, r) <=> \E q \in Place : q[2] = r /\ Has(Q[q], x)
         /\ x \in Under(R, r) <=> \E q \in Place : q[2] = r /\ Has(R[q], x)
  <2>1. \A r \in Worker, x \in Msg :
           x \in Under(Q, r) <=> \E q \in Place : q[2] = r /\ Has(Q[q], x)
    BY Zenon, UnderHas
  <2>2. \A r \in Worker, x \in Msg :
           x \in Under(R, r) <=> \E q \in Place : q[2] = r /\ Has(R[q], x)
    BY Zenon, UnderHas, <1>1
  <2> QED BY Zenon, <2>1, <2>2
<1>3. \A r : Under(Q, r) \subseteq Msg /\ Under(R, r) \subseteq Msg
  BY Zenon DEF Under
<1>4. ASSUME NEW r \in Worker, NEW x \in Msg
      PROVE  x \in Under(R, r) <=> x \in Under(Q, r) \/ (r = p[2] /\ x = m)
  <2>1. ASSUME x \in Under(R, r) PROVE x \in Under(Q, r) \/ (r = p[2] /\ x = m)
    <3>1. PICK q \in Place : q[2] = r /\ Has(R[q], x)
      BY Zenon, <1>2, <2>1
    <3> QED BY Zenon, <1>1, <1>2, <3>1
  <2>2. x \in Under(Q, r) => x \in Under(R, r)
    BY Zenon, <1>1, <1>2
  <2>3. r = p[2] /\ x = m => x \in Under(R, r)
    BY Zenon, <1>1, <1>2
  <2> QED BY Zenon, <2>1, <2>2, <2>3
<1> QED BY Zenon, <1>3, <1>4 DEF Grows

LEMMA CarriedUnder ==
    ASSUME NEW Q \in [Place -> Seq(Msg)], NEW R, NEW S, NEW o \in Place,
           NEW p \in Place, o # p, NEW m \in Msg,
           Carried(Q, R, o, p, m), o[4] = p[4], o[2] = p[2], OnePlace(Q, S)
    PROVE  \A r \in Worker : Under(R, r) = Under(Q, r)
<1>a. OnePlace(R, S) /\ CarriedHas(Q, R, o, p, m)
  BY Zenon, CarriedKeeps
<1>1. /\ OnePlace(R, S)
      /\ \A q \in Place, x \in Msg :
            Has(R[q], x) <=> (Has(Q[q], x) /\ q # o) \/ (q = p /\ x = m)
  BY Zenon, <1>a DEF CarriedHas
<1>0. \A x : Has(Q[o], x) <=> x = m
  <2>1. \A x : Has(<<m>>, x) <=> x = m
    BY DEF Has
  <2> QED BY Zenon, <2>1 DEF Carried
<1>2. \A r \in Worker, x \in Msg :
         x \in Under(Q, r) <=> \E q \in Place : q[2] = r /\ Has(Q[q], x)
  BY Zenon, UnderHas
<1>3. \A r \in Worker, x \in Msg :
         x \in Under(R, r) <=> \E q \in Place : q[2] = r /\ Has(R[q], x)
  BY Zenon, UnderHas, <1>1
<1>4. \A r : Under(Q, r) \subseteq Msg /\ Under(R, r) \subseteq Msg
  BY Zenon DEF Under
<1>5. ASSUME NEW r \in Worker, NEW x \in Msg, x \in Under(Q, r)
      PROVE  x \in Under(R, r)
  <2>1. PICK q \in Place : q[2] = r /\ Has(Q[q], x)
    BY Zenon, <1>2, <1>5
  <2>2. CASE q = o
    BY Zenon, <1>0, <1>1, <1>3, <2>1, <2>2
  <2>3. CASE q # o
    BY Zenon, <1>1, <1>3, <2>1, <2>3
  <2> QED BY Zenon, <2>2, <2>3
<1>6. ASSUME NEW r \in Worker, NEW x \in Msg, x \in Under(R, r)
      PROVE  x \in Under(Q, r)
  <2>1. PICK q \in Place : q[2] = r /\ Has(R[q], x)
    BY Zenon, <1>3, <1>6
  <2>2. CASE Has(Q[q], x)
    BY Zenon, <1>2, <2>1, <2>2
  <2>3. CASE q = p /\ x = m
    BY Zenon, <1>0, <1>1, <1>2, <2>1, <2>3
  <2> QED BY Zenon, <1>1, <2>1, <2>2, <2>3
<1> QED BY Zenon, <1>4, <1>5, <1>6

LEMMA TakenUnder ==
    ASSUME NEW Q \in [Place -> Seq(Msg)], NEW R, NEW S, NEW p \in Place,
           NEW c, c \in 0..Len(Q[p]), Taken(Q, R, p, c), OnePlace(Q, S)
    PROVE  /\ Batch(Q[p], c) \subseteq Under(Q, p[2])
           /\ Shrinks(Q, R, p[2], Batch(Q[p], c))
<1> DEFINE B == Batch(Q[p], c)
<1>1. /\ OnePlace(R, S)
      /\ \A q \in Place, x \in Msg :
            Has(R[q], x) <=> Has(Q[q], x) /\ x \notin B
      /\ \A x \in B : Has(Q[p], x) /\ x \in Msg
  BY Zenon, TakenKeeps
<1> HIDE DEF B
<1>2. \A r \in Worker, x \in Msg :
         x \in Under(Q, r) <=> \E q \in Place : q[2] = r /\ Has(Q[q], x)
  BY Zenon, UnderHas
<1>3. \A r \in Worker, x \in Msg :
         x \in Under(R, r) <=> \E q \in Place : q[2] = r /\ Has(R[q], x)
  BY Zenon, UnderHas, <1>1
<1>4. \A r : Under(Q, r) \subseteq Msg /\ Under(R, r) \subseteq Msg
  BY Zenon DEF Under
<1>5. p[2] \in Worker
  BY Zenon, Places
<1>6. B \subseteq Under(Q, p[2])
  BY Zenon, <1>1, <1>2, <1>5
<1>7. ASSUME NEW r \in Worker, NEW x \in Msg
      PROVE  x \in Under(R, r) <=> x \in Under(Q, r) /\ x \notin B
  BY Zenon, <1>1, <1>2, <1>3
<1>8. ASSUME NEW r \in Worker, NEW x \in Msg, r # p[2], x \in Under(Q, r)
      PROVE  x \notin B
  <2>1. PICK q \in Place : q[2] = r /\ Has(Q[q], x)
    BY Zenon, <1>2, <1>8
  <2> QED BY Zenon, <1>1, <1>8, <2>1 DEF OnePlace
<1>9. ASSUME NEW r \in Worker
      PROVE  Under(R, r) = IF r = p[2] THEN Under(Q, r) \ B ELSE Under(Q, r)
  BY SMTT(30), <1>4, <1>7, <1>8
<1> QED BY <1>6, <1>9 DEF B, Shrinks

-----------------------------------------------------------------------------
(* The places of the state.                                                *)

Posting(s) == pc[s] \in {"enqueue", "spill"}

LEMMA ZeroWorks == 0 \in Worker /\ \A s \in Worker : s \in Thread
BY SizesAssumption DEF Worker, Thread

LEMMA QueueTypes ==
    ASSUME TypeOK, NEW r \in Worker, NEW s \in Worker, NEW k \in Kind
    PROVE  /\ ring[r][s][k] \in Seq(Msg) /\ overflow[r][k] \in Seq(Msg)
           /\ post[s].msg \in Msg /\ post[s].target \in Worker
           /\ KindOf(post[s].msg) \in Kind
<1>1. /\ ring \in [Worker -> [Worker -> [Kind -> Seq(Msg)]]]
      /\ overflow \in [Worker -> [Kind -> Seq(Msg)]]
      /\ post \in [Thread -> [target : Worker, msg : Msg, queued : BOOLEAN]]
  BY Zenon DEF TypeOK
<1>2. s \in Thread
  BY Zenon, ZeroWorks
<1>3. post[s].msg \in Msg /\ post[s].target \in Worker
  BY <1>1, <1>2
<1>4. ring[r][s][k] \in Seq(Msg) /\ overflow[r][k] \in Seq(Msg)
  BY <1>1
<1> QED BY Zenon, <1>3, <1>4, KindType

LEMMA QueueAtType ==
    ASSUME TypeOK, NEW a \in Where, NEW r \in Worker, NEW s \in Worker, NEW k \in Kind
    PROVE  QueueAt(a, r, s, k) \in Seq(Msg)
<1>1. /\ ring[r][s][k] \in Seq(Msg) /\ overflow[r][k] \in Seq(Msg)
      /\ post[s].msg \in Msg
  BY Zenon, QueueTypes
<1>2. <<>> \in Seq(Msg) /\ <<post[s].msg>> \in Seq(Msg)
  BY <1>1
<1>3. a = "ring" \/ a = "over" \/ a = "post"
  BY DEF Where
<1>4. CASE a = "ring"
  BY <1>1, <1>4 DEF QueueAt
<1>5. CASE a = "over"
  BY <1>1, <1>2, <1>5 DEF QueueAt
<1>6. CASE a = "post"
  BY <1>1, <1>2, <1>6 DEF QueueAt
<1> QED BY Zenon, <1>3, <1>4, <1>5, <1>6

LEMMA QueuesAt ==
    /\ TypeOK => Queues \in [Place -> Seq(Msg)]
    /\ \A a \in Where, r, s \in Worker, k \in Kind :
          Queues[<<a, r, s, k>>] = QueueAt(a, r, s, k)
<1>1. ASSUME NEW a \in Where, NEW r \in Worker, NEW s \in Worker, NEW k \in Kind
      PROVE  Queues[<<a, r, s, k>>] = QueueAt(a, r, s, k)
  <2>1. <<a, r, s, k>> \in Place
    BY Zenon, Places
  <2> QED BY <2>1 DEF Queues
<1>2. ASSUME TypeOK, NEW p \in Place PROVE QueueAt(p[1], p[2], p[3], p[4]) \in Seq(Msg)
  BY Zenon, <1>2, Places, QueueAtType
<1>3. TypeOK => Queues \in [Place -> Seq(Msg)]
  BY Zenon, <1>2 DEF Queues
<1> QED BY Zenon, <1>1, <1>3

(* The three sorts of places, read off the state.                          *)
LEMMA QueueAtIs ==
    ASSUME NEW r, NEW s, NEW k
    PROVE  /\ QueueAt("ring", r, s, k) = ring[r][s][k]
           /\ QueueAt("over", r, s, k) = IF s = 0 THEN overflow[r][k] ELSE <<>>
           /\ QueueAt("post", r, s, k) =
                 IF Posting(s) /\ post[s].target = r /\ KindOf(post[s].msg) = k
                 THEN <<post[s].msg>> ELSE <<>>
BY DEF QueueAt, Posting

(* The messages under way to r, in the terms of the refinement mapping.    *)
LEMMA TransitIsUnder == TypeOK => \A r \in Worker : Transit(r) = Under(Queues, r)
<1> SUFFICES ASSUME TypeOK, NEW r \in Worker PROVE Transit(r) = Under(Queues, r)
  OBVIOUS
<1>1. /\ Transit(r) \subseteq Msg /\ Under(Queues, r) \subseteq Msg
  BY Zenon DEF Transit, Under
<1> SUFFICES ASSUME NEW x \in Msg
             PROVE  x \in Transit(r) <=> x \in Under(Queues, r)
  BY Zenon, <1>1
<1> DEFINE k == KindOf(x)
<1>2. k \in Kind
  BY Zenon, KindType
<1> HIDE DEF k
<1>3. Where = {"ring", "over", "post"} /\ "ring" \in Where /\ "over" \in Where /\ "post" \in Where
  BY DEF Where
<1>4. x \in Under(Queues, r) <=>
        \E s \in Worker : \/ Has(QueueAt("ring", r, s, k), x)
                          \/ Has(QueueAt("over", r, s, k), x)
                          \/ Has(QueueAt("post", r, s, k), x)
  <2>1. \A s \in Worker :
           /\ Queues[<<"ring", r, s, k>>] = QueueAt("ring", r, s, k)
           /\ Queues[<<"over", r, s, k>>] = QueueAt("over", r, s, k)
           /\ Queues[<<"post", r, s, k>>] = QueueAt("post", r, s, k)
    BY Zenon, <1>2, <1>3, QueuesAt
  <2>2. x \in Under(Queues, r) <=>
          \E a \in Where, s \in Worker : Has(Queues[<<a, r, s, k>>], x)
    BY Zenon DEF Under, k
  <2>3. ASSUME NEW a \in Where, NEW s \in Worker, Has(Queues[<<a, r, s, k>>], x)
        PROVE  \/ Has(QueueAt("ring", r, s, k), x)
               \/ Has(QueueAt("over", r, s, k), x)
               \/ Has(QueueAt("post", r, s, k), x)
    <3>1. a = "ring" \/ a = "over" \/ a = "post"
      BY Zenon, <1>3
    <3> QED BY Zenon, <2>1, <2>3, <3>1
  <2>4. ASSUME NEW s \in Worker, \/ Has(QueueAt("ring", r, s, k), x)
                                 \/ Has(QueueAt("over", r, s, k), x)
                                 \/ Has(QueueAt("post", r, s, k), x)
        PROVE  \E a \in Where : Has(Queues[<<a, r, s, k>>], x)
    BY Zenon, <1>3, <2>1, <2>4
  <2> QED BY Zenon, <2>2, <2>3, <2>4
<1>5. /\ \A s \in Worker : Has(QueueAt("ring", r, s, k), x) <=> Has(ring[r][s][k], x)
      /\ (\E s \in Worker : Has(QueueAt("over", r, s, k), x)) <=> Has(overflow[r][k], x)
      /\ \A s \in Worker : Has(QueueAt("post", r, s, k), x) <=>
                              Posting(s) /\ post[s].target = r /\ post[s].msg = x
  <2>1. \A y : ~Has(<<>>, y)
    BY DEF Has
  <2>2. \A s \in Worker : Has(QueueAt("ring", r, s, k), x) <=> Has(ring[r][s][k], x)
    <3> SUFFICES ASSUME NEW s \in Worker PROVE QueueAt("ring", r, s, k) = ring[r][s][k]
      BY Zenon
    <3> QED BY QueueAtIs
  <2>3. \A s \in Worker : Has(QueueAt("over", r, s, k), x) <=> s = 0 /\ Has(overflow[r][k], x)
    <3> SUFFICES ASSUME NEW s \in Worker
                 PROVE  /\ s = 0 => QueueAt("over", r, s, k) = overflow[r][k]
                        /\ s # 0 => QueueAt("over", r, s, k) = <<>>
      BY Zenon, <2>1
    <3> QED BY QueueAtIs
  <2>4. ASSUME NEW s \in Worker
        PROVE  Has(QueueAt("post", r, s, k), x) <=>
                  Posting(s) /\ post[s].target = r /\ post[s].msg = x
    <3>1. CASE Posting(s) /\ post[s].target = r /\ KindOf(post[s].msg) = k
      <4>1. QueueAt("post", r, s, k) = <<post[s].msg>>
        BY <3>1, QueueAtIs
      <4>2. Has(<<post[s].msg>>, x) <=> post[s].msg = x
        BY DEF Has
      <4> QED BY Zenon, <3>1, <4>1, <4>2
    <3>2. CASE ~(Posting(s) /\ post[s].target = r /\ KindOf(post[s].msg) = k)
      <4>1. QueueAt("post", r, s, k) = <<>>
        BY <3>2, QueueAtIs
      <4> QED BY Zenon, <2>1, <3>2, <4>1 DEF k
    <3> QED BY Zenon, <3>1, <3>2
  <2> QED BY Zenon, <2>2, <2>3, <2>4, ZeroWorks
<1>6. x \in Transit(r) <=>
         \/ \E s \in Worker : \/ Has(ring[r][s][k], x)
                              \/ Posting(s) /\ post[s].target = r /\ post[s].msg = x
         \/ Has(overflow[r][k], x)
  BY Zenon DEF Transit, Has, Posting, k
<1> QED BY Zenon, <1>4, <1>5, <1>6, ZeroWorks

-----------------------------------------------------------------------------
(* The four sorts of steps, as steps of Mailbox.                           *)

Abstract == OnePlace(Queues, idle)' /\ [MailboxOf!Next]_(MailboxOf!vars)

LEMMA StillAbstract ==
    ASSUME TypeOK, TypeOK', OnePlace(Queues, idle), Queues' = Queues,
           UNCHANGED <<idle, delivered>>
    PROVE  Abstract
<1>1. OnePlace(Queues, idle)'
  BY Zenon
<1>2. \A r \in Worker : Transit(r) = Under(Queues, r)
  BY Zenon, TransitIsUnder
<1>3. (TypeOK => \A r \in Worker : Transit(r) = Under(Queues, r))'
  BY TransitIsUnder, PTL
<1>4. \A r \in Worker : Transit(r)' = Transit(r)
  BY Zenon, <1>2, <1>3
<1>5. [r \in Worker |-> Transit(r)]' = [r \in Worker |-> Transit(r)]
  BY Zenon, <1>4
<1> QED BY Zenon, <1>1, <1>5 DEF Abstract, MailboxOf!vars

LEMMA AddedAbstract ==
    ASSUME TypeOK, TypeOK', OnePlace(Queues, idle), NEW p \in Place, NEW m \in idle,
           Added(Queues, Queues', p, m), KindOf(m) = p[4],
           idle' = idle \ {m}, delivered' = delivered
    PROVE  Abstract
<1>1. /\ Queues \in [Place -> Seq(Msg)] /\ m \in idle \cap Msg
      /\ p[2] \in Worker
  BY Zenon, QueuesAt, Places DEF TypeOK
<1>2. OnePlace(Queues', idle \ {m})
  BY Zenon, <1>1, AddedKeeps
<1>3. Grows(Queues, Queues', p[2], m)
  BY Zenon, <1>1, AddedUnder
<1>4. \A r \in Worker : Transit(r) = Under(Queues, r)
  BY Zenon, TransitIsUnder
<1>5. (TypeOK => \A r \in Worker : Transit(r) = Under(Queues, r))'
  BY TransitIsUnder, PTL
<1>6. \A r \in Worker :
         Transit(r)' = IF r = p[2] THEN Transit(r) \cup {m} ELSE Transit(r)
  BY Zenon, <1>3, <1>4, <1>5 DEF Grows
<1> DEFINE T == [r \in Worker |-> Transit(r)]
<1>7. T' = [T EXCEPT ![p[2]] = @ \cup {m}]
  BY Zenon, <1>1, <1>6
<1>8. MailboxOf!Post(m, p[2])
  BY <1>7 DEF MailboxOf!Post
<1>9. MailboxOf!Next
  BY Zenon, <1>1, <1>8 DEF MailboxOf!Next
<1> QED BY Zenon, <1>2, <1>9 DEF Abstract

LEMMA CarriedAbstract ==
    ASSUME TypeOK, TypeOK', OnePlace(Queues, idle), NEW o \in Place, NEW p \in Place,
           o # p, NEW m \in Msg,
           Carried(Queues, Queues', o, p, m), o[4] = p[4], o[2] = p[2],
           UNCHANGED <<idle, delivered>>
    PROVE  Abstract
<1>1. Queues \in [Place -> Seq(Msg)]
  BY Zenon, QueuesAt
<1>2. OnePlace(Queues', idle)
  BY Zenon, <1>1, CarriedKeeps
<1>3. \A r \in Worker : Under(Queues', r) = Under(Queues, r)
  BY Zenon, <1>1, CarriedUnder
<1>4. \A r \in Worker : Transit(r) = Under(Queues, r)
  BY Zenon, TransitIsUnder
<1>5. (TypeOK => \A r \in Worker : Transit(r) = Under(Queues, r))'
  BY TransitIsUnder, PTL
<1>6. \A r \in Worker : Transit(r)' = Transit(r)
  BY Zenon, <1>3, <1>4, <1>5
<1>7. [r \in Worker |-> Transit(r)]' = [r \in Worker |-> Transit(r)]
  BY Zenon, <1>6
<1> QED BY Zenon, <1>2, <1>7 DEF Abstract, MailboxOf!vars

LEMMA TakenAbstract ==
    ASSUME TypeOK, TypeOK', OnePlace(Queues, idle), NEW p \in Place,
           NEW c, c \in 0..Len(Queues[p]), Taken(Queues, Queues', p, c),
           idle' = idle, delivered' = delivered \cup Batch(Queues[p], c)
    PROVE  Abstract
<1> DEFINE B == Batch(Queues[p], c)
<1>1. Queues \in [Place -> Seq(Msg)] /\ p[2] \in Worker
  BY Zenon, QueuesAt, Places
<1>2. OnePlace(Queues', idle)
  BY Zenon, <1>1, TakenKeeps
<1>3. B \subseteq Under(Queues, p[2]) /\ Shrinks(Queues, Queues', p[2], B)
  BY Zenon, <1>1, TakenUnder
<1> HIDE DEF B
<1>4. \A r \in Worker : Transit(r) = Under(Queues, r)
  BY Zenon, TransitIsUnder
<1>5. (TypeOK => \A r \in Worker : Transit(r) = Under(Queues, r))'
  BY TransitIsUnder, PTL
<1>6. \A r \in Worker :
         Transit(r)' = IF r = p[2] THEN Transit(r) \ B ELSE Transit(r)
  BY Zenon, <1>3, <1>4, <1>5 DEF Shrinks
<1> DEFINE T == [r \in Worker |-> Transit(r)]
<1>7. T' = [T EXCEPT ![p[2]] = @ \ B]
  BY Zenon, <1>1, <1>6
<1>8. B \in SUBSET T[p[2]]
  BY Zenon, <1>1, <1>3, <1>4
<1>9. delivered' = delivered \cup B
  BY Zenon DEF B
<1>10. CASE B = {}
  <2>1. T' = T /\ delivered' = delivered
    BY <1>6, <1>9, <1>10
  <2> QED BY Zenon, <1>2, <2>1 DEF Abstract, MailboxOf!vars
<1>11. CASE B # {}
  <2>1. MailboxOf!Deliver(p[2], B)
    BY <1>7, <1>9, <1>11 DEF MailboxOf!Deliver
  <2>2. MailboxOf!Next
    BY Zenon, <1>1, <1>8, <2>1 DEF MailboxOf!Next
  <2> QED BY Zenon, <1>2, <2>2 DEF Abstract
<1> QED BY Zenon, <1>10, <1>11

-----------------------------------------------------------------------------
(* Every action is one of the four.                                        *)

LEMMA QueuesNext ==
    \A a \in Where, r, s \in Worker, k \in Kind :
        Queues'[<<a, r, s, k>>] = QueueAt(a, r, s, k)'
<1> SUFFICES ASSUME NEW a \in Where, NEW r \in Worker, NEW s \in Worker, NEW k \in Kind
             PROVE  Queues'[<<a, r, s, k>>] = QueueAt(a, r, s, k)'
  BY Zenon
<1>1. <<a, r, s, k>> \in Place
  BY Zenon, Places
<1> QED BY <1>1 DEF Queues

LEMMA Elsewhere ==
    ASSUME NEW X,
           \A r, s \in Worker, k \in Kind :
              /\ <<"ring", r, s, k>> \notin X => ring'[r][s][k] = ring[r][s][k]
              /\ <<"over", r, 0, k>> \notin X => overflow'[r][k] = overflow[r][k]
              /\ <<"post", r, s, k>> \notin X =>
                    QueueAt("post", r, s, k)' = QueueAt("post", r, s, k)
    PROVE  \A q \in Place \ X : Queues'[q] = Queues[q]
<1>1. ASSUME NEW a \in Where, NEW r \in Worker, NEW s \in Worker, NEW k \in Kind,
             <<a, r, s, k>> \notin X
      PROVE  QueueAt(a, r, s, k)' = QueueAt(a, r, s, k)
  <2>1. a = "ring" \/ a = "over" \/ a = "post"
    BY DEF Where
  <2>2. CASE a = "ring"
    <3>1. ring'[r][s][k] = ring[r][s][k]
      BY Zenon, <1>1, <2>2
    <3> QED BY <2>2, <3>1 DEF QueueAt
  <2>3. CASE a = "over"
    <3>1. s = 0 => overflow'[r][k] = overflow[r][k]
      BY Zenon, <1>1, <2>3
    <3> QED BY <2>3, <3>1 DEF QueueAt
  <2>4. CASE a = "post"
    BY Zenon, <1>1, <2>4
  <2> QED BY Zenon, <2>1, <2>2, <2>3, <2>4
<1> SUFFICES ASSUME NEW q \in Place \ X PROVE Queues'[q] = Queues[q]
  OBVIOUS
<1>2. /\ q[1] \in Where /\ q[2] \in Worker /\ q[3] \in Worker
      /\ q[4] \in Kind /\ q = <<q[1], q[2], q[3], q[4]>>
  BY Zenon, Places
<1>3. QueueAt(q[1], q[2], q[3], q[4])' = QueueAt(q[1], q[2], q[3], q[4])
  BY ZenonT(40), <1>1, <1>2
<1> QED BY <1>3 DEF Queues

(* Worker p may have moved; nobody else posts anything new.                *)
LEMMA PostFrame ==
    ASSUME NEW s, pc'[s] = pc[s], post'[s] = post[s]
    PROVE  \A r, k : QueueAt("post", r, s, k)' = QueueAt("post", r, s, k)
BY DEF QueueAt

LEMMA PostIdle ==
    ASSUME NEW s, ~Posting(s)
    PROVE  \A r, k : QueueAt("post", r, s, k) = <<>>
BY DEF QueueAt, Posting

LEMMA PostIdleNext ==
    ASSUME NEW s, ~Posting(s)'
    PROVE  \A r, k : QueueAt("post", r, s, k)' = <<>>
BY DEF QueueAt, Posting

LEMMA OthersStay ==
    ASSUME TypeOK, NEW p \in Thread, NEW l, pc' = [pc EXCEPT ![p] = l],
           \A t \in Thread \ {p} : post'[t] = post[t]
    PROVE  /\ pc'[p] = l
           /\ \A s \in Worker \ {p} : pc'[s] = pc[s] /\ post'[s] = post[s]
<1>1. pc \in [Thread -> WorkerLocations \cup ForeignLocations]
  BY Zenon DEF TypeOK, LocationsOK
<1>2. \A s \in Worker : s \in Thread
  BY Zenon, ZeroWorks
<1> QED BY <1>1, <1>2

(* A step of thread p that carries no message.                             *)
Still(p) ==
    /\ pc[p] \notin {"enqueue", "spill"}
    /\ \E l : l \notin {"enqueue", "spill"} /\ pc' = [pc EXCEPT ![p] = l]
    /\ UNCHANGED <<ring, overflow, idle, delivered>>
    /\ \A t \in Thread \ {p} : post'[t] = post[t]

LEMMA StillStep ==
    ASSUME TypeOK, TypeOK', OnePlace(Queues, idle), NEW p \in Thread, Still(p)
    PROVE  Abstract
<1>1. PICK l : l \notin {"enqueue", "spill"} /\ pc' = [pc EXCEPT ![p] = l]
  BY Zenon DEF Still
<1>2. \A t \in Thread \ {p} : post'[t] = post[t]
  BY Zenon DEF Still
<1>3. /\ pc'[p] = l
      /\ \A s \in Worker \ {p} : pc'[s] = pc[s] /\ post'[s] = post[s]
  BY Zenon, <1>1, <1>2, OthersStay
<1>4. ASSUME NEW r \in Worker, NEW s \in Worker, NEW k \in Kind
      PROVE  QueueAt("post", r, s, k)' = QueueAt("post", r, s, k)
  <2>1. CASE s = p
    <3>1. ~Posting(s) /\ ~Posting(s)'
      BY Zenon, <1>1, <1>3, <2>1 DEF Still, Posting
    <3> QED BY Zenon, <3>1, PostIdle, PostIdleNext
  <2>2. CASE s # p
    BY Zenon, <1>3, <2>2, PostFrame
  <2> QED BY Zenon, <2>1, <2>2
<1>5. \A q \in Place \ {} : Queues'[q] = Queues[q]
  BY ZenonT(40), <1>4, Elsewhere DEF Still
<1>6. Queues' = Queues
  BY <1>5 DEF Queues
<1>7. UNCHANGED <<idle, delivered>>
  BY Zenon DEF Still
<1> QED BY Zenon, <1>6, <1>7, StillAbstract

LEMMA PostAdds ==
    ASSUME TypeOK, TypeOK', OnePlace(Queues, idle),
           NEW w \in Worker, NEW m \in Msg, NEW t \in Worker, Post(w, m, t)
    PROVE  Abstract
<1> DEFINE k == KindOf(m)
           p == <<"post", t, w, k>>
<1>1. /\ pc[w] = "run" /\ m \in idle /\ idle' = idle \ {m} /\ delivered' = delivered
      /\ post' = [post EXCEPT ![w] = [target |-> t, msg |-> m, queued |-> FALSE]]
      /\ pc' = [pc EXCEPT ![w] = "enqueue"] /\ ring' = ring /\ overflow' = overflow
  BY DEF Post, Goto, laneVars, overVars
<1>2. w \in Thread /\ k \in Kind /\ "post" \in Where
  BY Zenon, ZeroWorks, KindType DEF Where
<1>3. p \in Place /\ p[4] = KindOf(m)
  <2>1. p \in Place
    BY Zenon, <1>2, Places
  <2> QED BY Zenon, <2>1
<1>4. post'[w] = [target |-> t, msg |-> m, queued |-> FALSE]
  <2>1. post \in [Thread -> [target : Worker, msg : Msg, queued : BOOLEAN]]
    BY Zenon DEF TypeOK
  <2> QED BY SMTT(30), <1>1, <1>2, <2>1
<1>5. post'[w].target = t /\ post'[w].msg = m
  BY SMTT(30), <1>4
<1>6. \A u \in Thread \ {w} : post'[u] = post[u]
  BY SMTT(30), <1>1 DEF TypeOK
<1>7. /\ pc'[w] = "enqueue"
      /\ \A s \in Worker \ {w} : pc'[s] = pc[s] /\ post'[s] = post[s]
  BY Zenon, <1>1, <1>2, <1>6, OthersStay
<1>8. \A r, j : QueueAt("post", r, w, j) = <<>>
  <2>1. ~Posting(w)
    BY <1>1 DEF Posting
  <2> QED BY Zenon, <2>1, PostIdle
<1>9. \A r, j : QueueAt("post", r, w, j)' = IF r = t /\ j = k THEN <<m>> ELSE <<>>
  BY <1>5, <1>7 DEF QueueAt
<1> HIDE DEF k
<1>10. Queues'[p] = Append(Queues[p], m)
  <2>1. Queues[p] = <<>>
    <3>1. Queues[p] = QueueAt("post", t, w, k)
      BY Zenon, <1>2, QueuesAt
    <3> QED BY Zenon, <1>8, <3>1
  <2>2. Queues'[p] = <<m>>
    BY Zenon, <1>2, <1>9, QueuesNext
  <2> QED BY <2>1, <2>2
<1>11. ASSUME NEW r \in Worker, NEW s \in Worker, NEW j \in Kind,
              <<"post", r, s, j>> \notin {p}
       PROVE  QueueAt("post", r, s, j)' = QueueAt("post", r, s, j)
  <2>1. CASE s = w
    BY Zenon, <1>8, <1>9, <1>11, <2>1
  <2>2. CASE s # w
    BY Zenon, <1>7, <2>2, PostFrame
  <2> QED BY Zenon, <2>1, <2>2
<1> HIDE DEF p
<1>12. \A q \in Place \ {p} : Queues'[q] = Queues[q]
  BY Zenon, <1>1, <1>11, Elsewhere
<1>13. Added(Queues, Queues', p, m)
  BY Zenon, <1>10, <1>12 DEF Added
<1> QED BY Zenon, <1>1, <1>3, <1>13, AddedAbstract

LEMMA ForeignPostAdds ==
    ASSUME TypeOK, TypeOK', OnePlace(Queues, idle),
           NEW f \in Foreign, NEW m \in Ntf, NEW t \in Worker, ForeignPost(f, m, t)
    PROVE  Abstract
<1> DEFINE p == <<"over", t, 0, "ntf">>
<1>1. /\ pc[f] = "foreign" /\ m \in idle /\ idle' = idle \ {m} /\ delivered' = delivered
      /\ post' = [post EXCEPT ![f].target = t]
      /\ overflow' = [overflow EXCEPT ![t]["ntf"] = Append(@, m)]
      /\ pc' = [pc EXCEPT ![f] = "foreign_flag"] /\ ring' = ring
  BY DEF ForeignPost, Goto, laneVars
<1>2. f \in Thread /\ 0 \in Worker /\ "ntf" \in Kind /\ "over" \in Where
  BY Zenon, ZeroWorks DEF Thread, Kind, Where
<1>3. p \in Place
  BY Zenon, <1>2, Places
<1>4. KindOf(m) = p[4]
  <2>1. KindOf(m) = "ntf"
    BY SMTT(30), NamesAssumption DEF KindOf
  <2> QED BY <2>1
<1>5. \A u \in Thread \ {f} : post'[u] = post[u]
  BY SMTT(30), <1>1 DEF TypeOK
<1>6. \A s \in Worker : s # f
  BY NamesAssumption
<1>7. \A s \in Worker \ {f} : pc'[s] = pc[s] /\ post'[s] = post[s]
  BY Zenon, <1>1, <1>2, <1>5, OthersStay
<1>8. \A r, s \in Worker, j \in Kind :
         QueueAt("post", r, s, j)' = QueueAt("post", r, s, j)
  BY Zenon, <1>6, <1>7, PostFrame
<1>9. /\ overflow'[t]["ntf"] = Append(overflow[t]["ntf"], m)
      /\ \A r \in Worker, j \in Kind :
            ~(r = t /\ j = "ntf") => overflow'[r][j] = overflow[r][j]
  <2>1. overflow \in [Worker -> [Kind -> Seq(Msg)]]
    BY Zenon DEF TypeOK
  <2> QED BY SMTT(30), <1>1, <1>2, <2>1
<1>10. Queues'[p] = Append(Queues[p], m)
  <2>1. Queues[p] = overflow[t]["ntf"]
    <3>1. Queues[p] = QueueAt("over", t, 0, "ntf")
      BY Zenon, <1>2, QueuesAt
    <3> QED BY <3>1 DEF QueueAt
  <2>2. Queues'[p] = overflow'[t]["ntf"]
    <3>1. Queues'[p] = QueueAt("over", t, 0, "ntf")'
      BY Zenon, <1>2, QueuesNext
    <3> QED BY <3>1 DEF QueueAt
  <2> QED BY Zenon, <1>9, <2>1, <2>2
<1>11. ASSUME NEW r \in Worker, NEW j \in Kind, <<"over", r, 0, j>> \notin {p}
       PROVE  overflow'[r][j] = overflow[r][j]
  BY Zenon, <1>9, <1>11
<1> HIDE DEF p
<1>12. \A q \in Place \ {p} : Queues'[q] = Queues[q]
  <2>1. \A r, s \in Worker, j \in Kind :
           /\ <<"ring", r, s, j>> \notin {p} => ring'[r][s][j] = ring[r][s][j]
           /\ <<"over", r, 0, j>> \notin {p} => overflow'[r][j] = overflow[r][j]
           /\ <<"post", r, s, j>> \notin {p} =>
                 QueueAt("post", r, s, j)' = QueueAt("post", r, s, j)
    BY Zenon, <1>1, <1>8, <1>11
  <2> QED BY Zenon, <2>1, Elsewhere
<1>13. Added(Queues, Queues', p, m)
  BY Zenon, <1>10, <1>12 DEF Added
<1> QED BY Zenon, <1>1, <1>3, <1>4, <1>13, AddedAbstract

(* One ring of one lane is replaced.                                       *)
RingReplaced(f, g, t, w, k, e) ==
    /\ g[t][w][k] = e
    /\ \A r, s \in Worker, j \in Kind :
          ~(r = t /\ s = w /\ j = k) => g[r][s][j] = f[r][s][j]

LEMMA RingUpdate ==
    ASSUME NEW f \in [Worker -> [Worker -> [Kind -> Seq(Msg)]]], NEW g,
           NEW t \in Worker, NEW w \in Worker, NEW k \in Kind, NEW e,
           g = [f EXCEPT ![t][w][k] = e]
    PROVE  RingReplaced(f, g, t, w, k, e)
<1>1. /\ \A r \in Worker \ {t} : g[r] = f[r]
      /\ g[t] = [f[t] EXCEPT ![w][k] = e]
  OBVIOUS
<1>2. /\ \A s \in Worker \ {w} : g[t][s] = f[t][s]
      /\ g[t][w] = [f[t][w] EXCEPT ![k] = e]
  BY Zenon, <1>1
<1>3. /\ \A j \in Kind \ {k} : g[t][w][j] = f[t][w][j]
      /\ g[t][w][k] = e
  BY <1>2
<1> QED BY ZenonT(40), <1>1, <1>2, <1>3 DEF RingReplaced

(* The message that w holds, before and after a step that ends its post.   *)
PostLeaves(o, m) ==
    /\ o \in Place /\ Queues[o] = <<m>> /\ Queues'[o] = <<>>
    /\ \A r, s \in Worker, j \in Kind :
          <<"post", r, s, j>> # o =>
              QueueAt("post", r, s, j)' = QueueAt("post", r, s, j)

LEMMA PostEnds ==
    ASSUME TypeOK, NEW w \in Worker, Posting(w), NEW t, NEW m,
           post[w].target = t, post[w].msg = m, NEW l, l \notin {"enqueue", "spill"},
           pc' = [pc EXCEPT ![w] = l], \A u \in Thread \ {w} : post'[u] = post[u]
    PROVE  PostLeaves(<<"post", t, w, KindOf(m)>>, m)
<1> DEFINE k == KindOf(m)
           o == <<"post", t, w, k>>
<1>1. w \in Thread /\ t \in Worker /\ k \in Kind /\ "post" \in Where
  <2>1. "req" \in Kind
    BY DEF Kind
  <2>2. t \in Worker /\ k \in Kind
    BY Zenon, <2>1, QueueTypes
  <2> QED BY Zenon, <2>2, ZeroWorks DEF Where
<1>0. k = KindOf(post[w].msg)
  BY Zenon
<1> HIDE DEF k
<1>2. o \in Place
  BY Zenon, <1>1, Places
<1>3. /\ pc'[w] = l
      /\ \A s \in Worker \ {w} : pc'[s] = pc[s] /\ post'[s] = post[s]
  BY Zenon, <1>1, OthersStay
<1>4. \A r, j : QueueAt("post", r, w, j)' = <<>>
  <2>1. ~Posting(w)'
    BY Zenon, <1>3 DEF Posting
  <2> QED BY Zenon, <2>1, PostIdleNext
<1>5. \A r, j : QueueAt("post", r, w, j) = IF r = t /\ j = k THEN <<m>> ELSE <<>>
  BY <1>0 DEF QueueAt, Posting
<1>6. Queues[o] = <<m>>
  <2>1. Queues[o] = QueueAt("post", t, w, k)
    BY Zenon, <1>1, QueuesAt
  <2> QED BY <1>5, <2>1
<1>7. Queues'[o] = <<>>
  <2>1. Queues'[o] = QueueAt("post", t, w, k)'
    BY Zenon, <1>1, QueuesNext
  <2> QED BY Zenon, <1>4, <2>1
<1>8. ASSUME NEW r \in Worker, NEW s \in Worker, NEW j \in Kind, <<"post", r, s, j>> # o
      PROVE  QueueAt("post", r, s, j)' = QueueAt("post", r, s, j)
  <2>1. CASE s = w
    <3>1. ~(r = t /\ j = k)
      BY Zenon, <1>8, <2>1
    <3>2. QueueAt("post", r, w, j) = <<>>
      BY <1>5, <3>1
    <3> QED BY Zenon, <1>4, <2>1, <3>2
  <2>2. CASE s # w
    <3>1. pc'[s] = pc[s] /\ post'[s] = post[s]
      BY Zenon, <1>3, <2>2
    <3> QED BY Zenon, <3>1, PostFrame
  <2> QED BY Zenon, <2>1, <2>2
<1> QED BY Zenon, <1>2, <1>6, <1>7, <1>8 DEF k, PostLeaves

LEMMA TryEnqueueCarries ==
    ASSUME TypeOK, TypeOK', OnePlace(Queues, idle), NEW w \in Worker, TryEnqueue(w)
    PROVE  Abstract
<1>0. PICK t \in Worker, m \in Msg : t = post[w].target /\ m = post[w].msg
  <2>1. "req" \in Kind
    BY SMTT(30) DEF Kind
  <2> QED BY Zenon, <2>1, QueueTypes
<1> DEFINE k == KindOf(m)
           room == HasRoom(ring[t][w][k])
           o == <<"post", t, w, k>>
           p == <<"ring", t, w, k>>
<1>1. /\ pc[w] = "enqueue" /\ UNCHANGED <<idle, delivered>> /\ overflow' = overflow
      /\ ring' = [ring EXCEPT ![t][w][k] = IF room THEN Append(@, m) ELSE @]
      /\ post' = [post EXCEPT ![w].queued = room]
      /\ pc' = [pc EXCEPT ![w] = IF room THEN "mark" ELSE "spill"]
  BY <1>0 DEF TryEnqueue, Goto, overVars
<1>2. /\ w \in Thread /\ k \in Kind /\ k = KindOf(post[w].msg)
      /\ "post" \in Where /\ "ring" \in Where
  BY ZenonT(40), <1>0, KindType, ZeroWorks DEF Where
<1>3. \A u \in Thread \ {w} : post'[u] = post[u]
  BY SMTT(30), <1>1 DEF TypeOK
<1>4. Posting(w)
  BY SMTT(30), <1>1 DEF Posting
<1>t. ring \in [Worker -> [Worker -> [Kind -> Seq(Msg)]]]
  BY Zenon DEF TypeOK
<1>5. CASE room
  <2>0. ring' = [ring EXCEPT ![t][w][k] = Append(@, m)]
    BY Zenon, <1>1, <1>5
  <2>1. /\ ring'[t][w][k] = Append(ring[t][w][k], m)
        /\ \A r, s \in Worker, j \in Kind :
              ~(r = t /\ s = w /\ j = k) => ring'[r][s][j] = ring[r][s][j]
    <3> HIDE DEF k, room
    <3>1. ring' = [ring EXCEPT ![t][w][k] = Append(ring[t][w][k], m)]
      BY <1>t, <2>0
    <3>2. RingReplaced(ring, ring', t, w, k, Append(ring[t][w][k], m))
      BY Zenon, <1>0, <1>2, <1>t, <3>1, RingUpdate
    <3> QED BY Zenon, <3>2 DEF RingReplaced
  <2>2. pc' = [pc EXCEPT ![w] = "mark"]
    BY Zenon, <1>1, <1>5
  <2>3. PostLeaves(o, m)
    <3>1. "mark" \notin {"enqueue", "spill"}
      OBVIOUS
    <3> QED BY ZenonT(40), <1>0, <1>3, <1>4, <2>2, <3>1, PostEnds
  <2> HIDE DEF k, room
  <2>4. p \in Place /\ o # p /\ o[4] = p[4] /\ o[2] = p[2]
    <3>1. p \in Place
      BY <1>2 DEF Place
    <3> QED BY <3>1
  <2>5. Queues'[p] = Append(Queues[p], m)
    <3>1. Queues[p] = ring[t][w][k]
      <4>1. Queues[p] = QueueAt("ring", t, w, k)
        BY Zenon, <1>2, QueuesAt
      <4> QED BY <4>1 DEF QueueAt
    <3>2. Queues'[p] = ring'[t][w][k]
      <4>1. Queues'[p] = QueueAt("ring", t, w, k)'
        BY Zenon, <1>2, QueuesNext
      <4> QED BY <4>1 DEF QueueAt
    <3> QED BY Zenon, <2>1, <3>1, <3>2
  <2>6. \A q \in Place \ {o, p} : Queues'[q] = Queues[q]
    <3>1. ASSUME NEW r \in Worker, NEW s \in Worker, NEW j \in Kind
          PROVE  /\ <<"ring", r, s, j>> \notin {o, p} => ring'[r][s][j] = ring[r][s][j]
                 /\ <<"over", r, 0, j>> \notin {o, p} => overflow'[r][j] = overflow[r][j]
                 /\ <<"post", r, s, j>> \notin {o, p} =>
                       QueueAt("post", r, s, j)' = QueueAt("post", r, s, j)
      BY ZenonT(40), <1>1, <2>1, <2>3 DEF k, PostLeaves
    <3> HIDE DEF o, p
    <3> QED BY Zenon, <3>1, Elsewhere
  <2>7. Carried(Queues, Queues', o, p, m)
    BY Zenon, <2>3, <2>5, <2>6 DEF Carried, PostLeaves
  <2> HIDE DEF o, p
  <2> QED BY Zenon, <1>1, <1>2, <2>3, <2>4, <2>7, CarriedAbstract DEF PostLeaves
<1>6. CASE ~room
  <2>0. ring' = [ring EXCEPT ![t][w][k] = @]
    BY Zenon, <1>1, <1>6
  <2>1. \A r, s \in Worker, j \in Kind : ring'[r][s][j] = ring[r][s][j]
    <3> HIDE DEF k, room
    <3> QED BY ZenonT(40), <1>0, <1>2, <1>t, <2>0
  <2>2. pc' = [pc EXCEPT ![w] = "spill"]
    BY Zenon, <1>1, <1>6
  <2>3. /\ pc'[w] = "spill"
        /\ \A s \in Worker \ {w} : pc'[s] = pc[s] /\ post'[s] = post[s]
    BY Zenon, <1>2, <1>3, <2>2, OthersStay
  <2>4. post'[w].target = post[w].target /\ post'[w].msg = post[w].msg
    <3>1. post \in [Thread -> [target : Worker, msg : Msg, queued : BOOLEAN]]
      BY Zenon DEF TypeOK
    <3> HIDE DEF k, room
    <3> QED BY <1>1, <1>2, <3>1
  <2>5. ASSUME NEW r \in Worker, NEW s \in Worker, NEW j \in Kind
        PROVE  QueueAt("post", r, s, j)' = QueueAt("post", r, s, j)
    <3>1. CASE s = w
      BY SMTT(30), <1>1, <2>3, <2>4, <3>1 DEF QueueAt
    <3>2. CASE s # w
      BY Zenon, <2>3, <3>2, PostFrame
    <3> QED BY Zenon, <3>1, <3>2
  <2>6. \A q \in Place \ {} : Queues'[q] = Queues[q]
    <3>1. \A r, s \in Worker, j \in Kind :
             /\ <<"ring", r, s, j>> \notin {} => ring'[r][s][j] = ring[r][s][j]
             /\ <<"over", r, 0, j>> \notin {} => overflow'[r][j] = overflow[r][j]
             /\ <<"post", r, s, j>> \notin {} =>
                   QueueAt("post", r, s, j)' = QueueAt("post", r, s, j)
      BY ZenonT(40), <1>1, <2>1, <2>5
    <3> QED BY Zenon, <3>1, Elsewhere
  <2>7. Queues' = Queues
    BY <2>6 DEF Queues
  <2> QED BY Zenon, <1>1, <2>7, StillAbstract
<1> QED BY Zenon, <1>5, <1>6

LEMMA EnqueueOverflowCarries ==
    ASSUME TypeOK, TypeOK', OnePlace(Queues, idle), NEW w \in Worker, EnqueueOverflow(w)
    PROVE  Abstract
<1>0. PICK t \in Worker, m \in Msg : t = post[w].target /\ m = post[w].msg
  <2>1. "req" \in Kind
    BY DEF Kind
  <2> QED BY Zenon, <2>1, QueueTypes
<1> DEFINE k == KindOf(m)
           o == <<"post", t, w, k>>
           p == <<"over", t, 0, k>>
<1>1. /\ pc[w] = "spill" /\ UNCHANGED <<idle, delivered>> /\ ring' = ring
      /\ overflow' = [overflow EXCEPT ![t][k] = Append(@, m)]
      /\ post' = post /\ pc' = [pc EXCEPT ![w] = "flag"]
  BY <1>0 DEF EnqueueOverflow, Goto, postVars, laneVars
<1>2. /\ w \in Thread /\ k \in Kind /\ 0 \in Worker
      /\ "post" \in Where /\ "over" \in Where
  BY Zenon, <1>0, KindType, ZeroWorks DEF Where
<1>3. PostLeaves(o, m)
  <2>1. "flag" \notin {"enqueue", "spill"} /\ Posting(w)
    BY <1>1 DEF Posting
  <2>2. \A u \in Thread \ {w} : post'[u] = post[u]
    BY Zenon, <1>1
  <2> QED BY Zenon, <1>0, <1>1, <2>1, <2>2, PostEnds
<1> HIDE DEF k
<1>4. /\ overflow'[t][k] = Append(overflow[t][k], m)
      /\ \A r \in Worker, j \in Kind :
            ~(r = t /\ j = k) => overflow'[r][j] = overflow[r][j]
  <2>1. overflow \in [Worker -> [Kind -> Seq(Msg)]]
    BY Zenon DEF TypeOK
  <2> QED BY SMTT(30), <1>1, <1>2, <2>1
<1>5. p \in Place /\ o # p /\ o[4] = p[4] /\ o[2] = p[2]
  <2>1. p \in Place
    BY <1>2 DEF Place
  <2> QED BY <2>1
<1>6. Queues'[p] = Append(Queues[p], m)
  <2>1. Queues[p] = overflow[t][k]
    <3>1. Queues[p] = QueueAt("over", t, 0, k)
      BY Zenon, <1>2, QueuesAt
    <3> QED BY <3>1 DEF QueueAt
  <2>2. Queues'[p] = overflow'[t][k]
    <3>1. Queues'[p] = QueueAt("over", t, 0, k)'
      BY Zenon, <1>2, QueuesNext
    <3> QED BY <3>1 DEF QueueAt
  <2> QED BY Zenon, <1>4, <2>1, <2>2
<1>7. \A q \in Place \ {o, p} : Queues'[q] = Queues[q]
  <2>1. ASSUME NEW r \in Worker, NEW s \in Worker, NEW j \in Kind
        PROVE  /\ <<"ring", r, s, j>> \notin {o, p} => ring'[r][s][j] = ring[r][s][j]
               /\ <<"over", r, 0, j>> \notin {o, p} => overflow'[r][j] = overflow[r][j]
               /\ <<"post", r, s, j>> \notin {o, p} =>
                     QueueAt("post", r, s, j)' = QueueAt("post", r, s, j)
    BY Zenon, <1>1, <1>3, <1>4 DEF PostLeaves
  <2> HIDE DEF o, p
  <2> QED BY Zenon, <2>1, Elsewhere
<1>8. Carried(Queues, Queues', o, p, m)
  BY Zenon, <1>3, <1>6, <1>7 DEF Carried, PostLeaves
<1> HIDE DEF o, p
<1> QED BY Zenon, <1>0, <1>1, <1>3, <1>5, <1>8, CarriedAbstract DEF PostLeaves

(* What a bulk dequeue of c messages delivers.                             *)
LEMMA SubSeqBatch ==
    ASSUME NEW q \in Seq(Msg), NEW c, c \in 0..Len(q), Deliver(SubSeq(q, 1, c))
    PROVE  delivered' = delivered \cup Batch(q, c)
<1>1. /\ Len(q) \in Nat /\ Len(SubSeq(q, 1, c)) = c
      /\ \A i \in 1..c : SubSeq(q, 1, c)[i] = q[i]
  OBVIOUS
<1>2. {SubSeq(q, 1, c)[i] : i \in 1..Len(SubSeq(q, 1, c))} = Batch(q, c)
  BY Zenon, <1>1 DEF Batch
<1> QED BY Zenon, <1>2 DEF Deliver

(* The step of a drain: its worker posts nothing.                          *)
LEMMA DrainTakes ==
    ASSUME TypeOK, TypeOK', OnePlace(Queues, idle), NEW w \in Worker, ~Posting(w),
           NEW l, l \notin {"enqueue", "spill"}, pc' = [pc EXCEPT ![w] = l],
           post' = post, idle' = idle, NEW p \in Place, p[1] # "post",
           NEW c, c \in 0..Len(Queues[p]), Queues'[p] = Rest(Queues[p], c),
           Deliver(SubSeq(Queues[p], 1, c)),
           \A r, s \in Worker, j \in Kind :
              /\ <<"ring", r, s, j>> # p => ring'[r][s][j] = ring[r][s][j]
              /\ <<"over", r, 0, j>> # p => overflow'[r][j] = overflow[r][j]
    PROVE  Abstract
<1>1. w \in Thread
  BY Zenon, ZeroWorks
<1>2. /\ pc'[w] = l
      /\ \A s \in Worker \ {w} : pc'[s] = pc[s] /\ post'[s] = post[s]
  BY Zenon, <1>1, OthersStay
<1>3. ASSUME NEW r \in Worker, NEW s \in Worker, NEW k \in Kind
      PROVE  QueueAt("post", r, s, k)' = QueueAt("post", r, s, k)
  <2>1. CASE s = w
    <3>1. ~Posting(s) /\ ~Posting(s)'
      BY Zenon, <1>2, <2>1 DEF Posting
    <3>2. QueueAt("post", r, s, k) = <<>>
      BY SMTT(30), <3>1, PostIdle
    <3>3. QueueAt("post", r, s, k)' = <<>>
      BY SMTT(30), <3>1, PostIdleNext
    <3> QED BY Zenon, <3>2, <3>3
  <2>2. CASE s # w
    <3>1. pc'[s] = pc[s] /\ post'[s] = post[s]
      BY Zenon, <1>2, <2>2
    <3> QED BY <3>1, PostFrame
  <2> QED BY Zenon, <2>1, <2>2
<1>4. \A q \in Place \ {p} : Queues'[q] = Queues[q]
  <2>1. ASSUME NEW r \in Worker, NEW s \in Worker, NEW j \in Kind
        PROVE  /\ <<"ring", r, s, j>> \notin {p} => ring'[r][s][j] = ring[r][s][j]
               /\ <<"over", r, 0, j>> \notin {p} => overflow'[r][j] = overflow[r][j]
               /\ <<"post", r, s, j>> \notin {p} =>
                     QueueAt("post", r, s, j)' = QueueAt("post", r, s, j)
    BY ZenonT(40), <1>3
  <2> QED BY Zenon, <2>1, Elsewhere
<1>5. Taken(Queues, Queues', p, c)
  BY Zenon, <1>4 DEF Taken
<1>6. Queues[p] \in Seq(Msg)
  BY Zenon, QueuesAt
<1>7. delivered' = delivered \cup Batch(Queues[p], c)
  BY Zenon, <1>6, SubSeqBatch
<1> QED BY Zenon, <1>5, <1>7, TakenAbstract

LEMMA LesserBound ==
    ASSUME NEW a \in Nat, NEW b \in Nat, NEW n \in Nat
    PROVE  Lesser(a, n) \in 0..n /\ Lesser(Lesser(a, b), n) \in 0..n
BY DEF Lesser

LEMMA DrainOverflowTakes ==
    ASSUME TypeOK, TypeOK', OnePlace(Queues, idle), NEW w \in Worker, DrainOverflow(w)
    PROVE  Abstract
<1>0. PICK k \in Kind : k = drain[w].kind
  BY SMTT(30) DEF TypeOK, DrainState
<1>1. PICK c, l : /\ c = Lesser(BatchSize - drain[w].n[k], Len(overflow[w][k]))
                  /\ l \in {"overflow", "scan", "return"}
                  /\ pc' = [pc EXCEPT ![w] = l]
                  /\ Deliver(SubSeq(overflow[w][k], 1, c))
                  /\ overflow' = [overflow EXCEPT ![w][k] = Rest(@, c)]
  BY Zenon, <1>0 DEF DrainOverflow, Goto
<1>2. /\ pc[w] = "overflow" /\ post' = post /\ idle' = idle /\ ring' = ring
  BY DEF DrainOverflow, laneVars
<1> DEFINE p == <<"over", w, 0, k>>
<1>3. 0 \in Worker /\ "over" \in Where
  BY Zenon, ZeroWorks DEF Where
<1>4. p \in Place /\ p[1] # "post"
  <2>1. p \in Place
    BY <1>3 DEF Place
  <2> QED BY <2>1
<1>5. overflow[w][k] \in Seq(Msg)
  BY Zenon, QueueTypes
<1>6. c \in 0..Len(overflow[w][k])
  <2>1. drain[w].n[k] \in 0..BatchSize /\ BatchSize \in Nat
    BY SMTT(30), SizesAssumption DEF TypeOK, DrainState
  <2>2. Len(overflow[w][k]) \in Nat
    BY <1>5
  <2>3. c = Lesser(BatchSize - drain[w].n[k], Len(overflow[w][k]))
    BY Zenon, <1>1
  <2>4. BatchSize - drain[w].n[k] \in Nat
    BY <2>1
  <2> QED BY SMTT(30), <2>2, <2>3, <2>4, LesserBound
<1>7. Queues[p] = overflow[w][k]
  <2>1. Queues[p] = QueueAt("over", w, 0, k)
    BY ZenonT(40), <1>3, QueuesAt
  <2> QED BY <2>1 DEF QueueAt
<1>8. /\ overflow'[w][k] = Rest(overflow[w][k], c)
      /\ \A r \in Worker, j \in Kind :
            ~(r = w /\ j = k) => overflow'[r][j] = overflow[r][j]
  <2>1. overflow \in [Worker -> [Kind -> Seq(Msg)]]
    BY Zenon DEF TypeOK
  <2> QED BY SMTT(30), <1>1, <2>1
<1>9. Queues'[p] = Rest(Queues[p], c)
  <2>1. Queues'[p] = QueueAt("over", w, 0, k)'
    BY Zenon, <1>3, QueuesNext
  <2>2. Queues'[p] = overflow'[w][k]
    BY SMTT(30), <2>1 DEF QueueAt
  <2> QED BY Zenon, <1>7, <1>8, <2>2
<1>10. ~Posting(w) /\ l \notin {"enqueue", "spill"}
  BY <1>1, <1>2 DEF Posting
<1>11. ASSUME NEW r \in Worker, NEW s \in Worker, NEW j \in Kind
       PROVE  /\ <<"ring", r, s, j>> # p => ring'[r][s][j] = ring[r][s][j]
              /\ <<"over", r, 0, j>> # p => overflow'[r][j] = overflow[r][j]
  BY Zenon, <1>2, <1>8
<1>12. c \in 0..Len(Queues[p]) /\ Deliver(SubSeq(Queues[p], 1, c))
  BY Zenon, <1>1, <1>6, <1>7
<1> HIDE DEF p
<1> QED BY ZenonT(40), <1>1, <1>2, <1>4, <1>9, <1>10, <1>11, <1>12, DrainTakes

LEMMA DrainQueueTakes ==
    ASSUME TypeOK, TypeOK', OnePlace(Queues, idle), NEW w \in Worker, DrainQueue(w)
    PROVE  Abstract
<1>0. PICK u \in Worker, k \in Kind : u = drain[w].sender /\ k = drain[w].kind
  BY Zenon DEF TypeOK, DrainState
<1>1. PICK c, l :
         /\ c = Lesser(Lesser(BatchSize - drain[w].n[k], SenderQuota - cursor[w].consumed),
                       Len(ring[w][u][k]))
         /\ l \in {"close", "dequeue"}
         /\ pc' = [pc EXCEPT ![w] = l]
         /\ Deliver(SubSeq(ring[w][u][k], 1, c))
         /\ ring' = [ring EXCEPT ![w][u][k] = Rest(@, c)]
  BY Zenon, <1>0 DEF DrainQueue, Goto
<1>2. /\ pc[w] = "dequeue" /\ post' = post /\ idle' = idle /\ overflow' = overflow
  BY Zenon DEF DrainQueue, overVars
<1> DEFINE p == <<"ring", w, u, k>>
<1>3. "ring" \in Where
  BY DEF Where
<1>4. p \in Place /\ p[1] # "post"
  <2>1. p \in Place
    BY <1>3 DEF Place
  <2> QED BY <2>1
<1>5. ring[w][u][k] \in Seq(Msg)
  BY ZenonT(40), QueueTypes
<1>6. c \in 0..Len(ring[w][u][k])
  <2>1. drain[w].n[k] \in 0..BatchSize /\ BatchSize \in Nat
    BY SMTT(30), SizesAssumption DEF TypeOK, DrainState
  <2>2. cursor[w].consumed \in 0..SenderQuota /\ SenderQuota \in Nat
    BY SMTT(30), SizesAssumption DEF TypeOK
  <2>3. Len(ring[w][u][k]) \in Nat
    BY <1>5
  <2>4. c = Lesser(Lesser(BatchSize - drain[w].n[k], SenderQuota - cursor[w].consumed),
                   Len(ring[w][u][k]))
    BY Zenon, <1>1
  <2>5. BatchSize - drain[w].n[k] \in Nat
    BY <2>1
  <2>6. SenderQuota - cursor[w].consumed \in Nat
    BY <2>2
  <2> QED BY ZenonT(40), <2>3, <2>4, <2>5, <2>6, LesserBound
<1>7. Queues[p] = ring[w][u][k]
  <2>1. Queues[p] = QueueAt("ring", w, u, k)
    BY Zenon, <1>3, QueuesAt
  <2> QED BY <2>1 DEF QueueAt
<1>8. RingReplaced(ring, ring', w, u, k, Rest(ring[w][u][k], c))
  <2>1. ring \in [Worker -> [Worker -> [Kind -> Seq(Msg)]]]
    BY ZenonT(40) DEF TypeOK
  <2>2. ring' = [ring EXCEPT ![w][u][k] = Rest(ring[w][u][k], c)]
    BY <1>1, <2>1
  <2> QED BY ZenonT(40), <2>1, <2>2, RingUpdate
<1>9. Queues'[p] = Rest(Queues[p], c)
  <2>1. Queues'[p] = QueueAt("ring", w, u, k)'
    BY Zenon, <1>3, QueuesNext
  <2>2. Queues'[p] = ring'[w][u][k]
    BY SMTT(30), <2>1 DEF QueueAt
  <2> QED BY Zenon, <1>7, <1>8, <2>2 DEF RingReplaced
<1>10. ~Posting(w) /\ l \notin {"enqueue", "spill"}
  BY <1>1, <1>2 DEF Posting
<1>11. ASSUME NEW r \in Worker, NEW s \in Worker, NEW j \in Kind
       PROVE  /\ <<"ring", r, s, j>> # p => ring'[r][s][j] = ring[r][s][j]
              /\ <<"over", r, 0, j>> # p => overflow'[r][j] = overflow[r][j]
  BY ZenonT(40), <1>2, <1>8 DEF RingReplaced
<1>12. c \in 0..Len(Queues[p]) /\ Deliver(SubSeq(Queues[p], 1, c))
  BY Zenon, <1>1, <1>6, <1>7
<1> HIDE DEF p
<1> QED BY ZenonT(40), <1>1, <1>2, <1>4, <1>9, <1>10, <1>11, <1>12, DrainTakes

(* The steps of a worker that carry no message.                            *)
LEMMA StillSteps ==
    ASSUME TypeOK, NEW w \in Worker,
           \/ FlagOverflow(w) \/ MarkWake(w) \/ ActivateSender(w) \/ StartDrain(w)
           \/ TakeActiveSenders(w) \/ VisitSender(w) \/ CloseLane(w)
           \/ RecheckLane(w) \/ ReopenLane(w) \/ ReactivateSender(w) \/ EndScan(w)
           \/ FinishDrain(w) \/ FinishParkingDrain(w) \/ PublishLane(w)
           \/ PublishSender(w) \/ BumpTarget(w) \/ Submit(w) \/ SubmitUnavailable(w)
           \/ BusyPoll(w) \/ Snapshot(w) \/ Park(w) \/ Wake(w) \/ WakeOther(w)
           \/ Unpark(w)
    PROVE  Still(w)
<1>t. /\ pc \in [Thread -> WorkerLocations \cup ForeignLocations]
      /\ post \in [Thread -> [target : Worker, msg : Msg, queued : BOOLEAN]]
      /\ w \in Thread
  BY ZenonT(40), ZeroWorks DEF TypeOK, LocationsOK
<1>1. CASE MarkWake(w)
  <2>1. /\ pc[w] = "mark" /\ UNCHANGED <<ring, overflow, idle, delivered>>
        /\ \E l : l \in {"setbit", "run"} /\ pc' = [pc EXCEPT ![w] = l]
        /\ post' = post \/ post' = [post EXCEPT ![w] = NoPost]
    BY Zenon, <1>1 DEF MarkWake, Return, Goto, overVars
  <2> QED BY Zenon, <1>t, <2>1 DEF Still
<1>2. CASE ActivateSender(w)
  <2>1. /\ pc[w] = "setbit" /\ UNCHANGED <<ring, overflow, idle, delivered>>
        /\ pc' = [pc EXCEPT ![w] = "run"]
        /\ post' = [post EXCEPT ![w] = NoPost]
    BY Zenon, <1>2 DEF ActivateSender, Return, Goto, overVars
  <2> QED BY Zenon, <1>t, <2>1 DEF Still
<1>3. CASE TakeActiveSenders(w)
  <2>1. pc' = [pc EXCEPT ![w] = "scan"]
    BY Zenon, <1>t, <1>3 DEF TakeActiveSenders
  <2> QED BY ZenonT(40), <1>3, <2>1 DEF TakeActiveSenders, Still, postVars, overVars
<1>4. CASE FlagOverflow(w)
  BY Zenon, <1>4 DEF FlagOverflow, Still, Goto, postVars, laneVars, overVars
<1>5. CASE StartDrain(w)
  BY Zenon, <1>5 DEF StartDrain, Still, Goto, postVars, laneVars, overVars
<1>6. CASE VisitSender(w)
  BY Zenon, <1>6 DEF VisitSender, Still, Goto, postVars, laneVars, overVars
<1>7. CASE CloseLane(w)
  BY Zenon, <1>7 DEF CloseLane, Still, Goto, postVars, laneVars, overVars
<1>8. CASE RecheckLane(w)
  BY Zenon, <1>8 DEF RecheckLane, Still, Goto, postVars, laneVars, overVars
<1>9. CASE ReopenLane(w)
  BY Zenon, <1>9 DEF ReopenLane, Still, Goto, postVars, laneVars, overVars
<1>10. CASE ReactivateSender(w)
  BY Zenon, <1>10 DEF ReactivateSender, Still, Goto, postVars, laneVars, overVars
<1>11. CASE EndScan(w)
  BY Zenon, <1>11 DEF EndScan, Still, Goto, postVars, laneVars, overVars
<1>12. CASE FinishDrain(w)
  BY Zenon, <1>12 DEF FinishDrain, Still, Goto, postVars, laneVars, overVars
<1>13. CASE FinishParkingDrain(w)
  BY Zenon, <1>13 DEF FinishParkingDrain, Still, Goto, postVars, laneVars, overVars
<1>14. CASE PublishLane(w)
  BY Zenon, <1>14 DEF PublishLane, Still, Goto, postVars, laneVars, overVars
<1>15. CASE PublishSender(w)
  BY Zenon, <1>15 DEF PublishSender, Still, Goto, postVars, laneVars, overVars
<1>16. CASE BumpTarget(w)
  BY Zenon, <1>16 DEF BumpTarget, Still, Goto, postVars, laneVars, overVars
<1>17. CASE Submit(w)
  BY Zenon, <1>17 DEF Submit, Still, Goto, postVars, laneVars, overVars, EndFlush
<1>18. CASE SubmitUnavailable(w)
  BY Zenon, <1>18 DEF SubmitUnavailable, Still, Goto, postVars, laneVars, overVars, EndFlush
<1>19. CASE BusyPoll(w)
  BY Zenon, <1>19 DEF BusyPoll, Still, Goto, postVars, laneVars, overVars
<1>20. CASE Snapshot(w)
  BY Zenon, <1>20 DEF Snapshot, Still, Goto, postVars, laneVars, overVars
<1>21. CASE Park(w)
  BY Zenon, <1>21 DEF Park, Still, Goto, postVars, laneVars, overVars
<1>22. CASE Wake(w)
  BY Zenon, <1>22 DEF Wake, Still, Goto, postVars, laneVars, overVars
<1>23. CASE WakeOther(w)
  BY Zenon, <1>23 DEF WakeOther, Still, Goto, postVars, laneVars, overVars
<1>24. CASE Unpark(w)
  BY Zenon, <1>24 DEF Unpark, Still, Goto, postVars, laneVars, overVars
<1> QED BY ZenonT(40), <1>1, <1>2, <1>3, <1>4, <1>5, <1>6, <1>7, <1>8, <1>9,
       <1>10, <1>11, <1>12, <1>13, <1>14, <1>15, <1>16, <1>17, <1>18, <1>19,
       <1>20, <1>21, <1>22, <1>23, <1>24

LEMMA StillForeign ==
    ASSUME TypeOK, NEW f \in Foreign, ForeignStep(f)
    PROVE  f \in Thread /\ Still(f)
<1>t. f \in Thread
  BY Zenon DEF Thread
<1>1. CASE ForeignFlag(f)
  BY Zenon, <1>t, <1>1 DEF ForeignFlag, Still, Goto, postVars, laneVars, overVars
<1>2. CASE ForeignBump(f)
  BY Zenon, <1>t, <1>2 DEF ForeignBump, Still, Goto, postVars, laneVars, overVars
<1>3. CASE ForeignWake(f)
  BY Zenon, <1>t, <1>3 DEF ForeignWake, Still, Goto, postVars, laneVars, overVars
<1> QED BY Zenon, <1>1, <1>2, <1>3 DEF ForeignStep

-----------------------------------------------------------------------------
LEMMA OnceInit == Init => OnceInv /\ MailboxOf!Init
<1> SUFFICES ASSUME Init PROVE OnceInv /\ MailboxOf!Init
  OBVIOUS
<1>1. TypeOK /\ FlushOK
  BY Zenon, TypeInit DEF Init, FlushOK, Thread
<1>2. ASSUME NEW r \in Worker, NEW s \in Worker, NEW k \in Kind
      PROVE  /\ ring[r][s][k] = <<>> /\ overflow[r][k] = <<>>
             /\ QueueAt("post", r, s, k) = <<>>
  <2>1. ring[r][s][k] = <<>> /\ overflow[r][k] = <<>>
    BY SMTT(30) DEF Init
  <2>2. ~Posting(s)
    BY ZeroWorks DEF Init, Posting
  <2> QED BY ZenonT(40), <2>1, <2>2, PostIdle
<1>3. ASSUME NEW a \in Where, NEW r \in Worker, NEW s \in Worker, NEW k \in Kind
      PROVE  QueueAt(a, r, s, k) = <<>>
  <2>1. a = "ring" \/ a = "over" \/ a = "post"
    BY DEF Where
  <2>2. ring[r][s][k] = <<>> /\ overflow[r][k] = <<>>
    BY Zenon, <1>2
  <2>3. CASE a = "ring"
    BY SMTT(30), <2>2, <2>3 DEF QueueAt
  <2>4. CASE a = "over"
    BY <2>2, <2>4 DEF QueueAt
  <2>5. CASE a = "post"
    BY Zenon, <1>2, <2>5
  <2> QED BY Zenon, <2>1, <2>3, <2>4, <2>5
<1>4. ASSUME NEW p \in Place PROVE Queues[p] = <<>>
  <2>1. QueueAt(p[1], p[2], p[3], p[4]) = <<>>
    <3>1. /\ p[1] \in Where /\ p[2] \in Worker /\ p[3] \in Worker /\ p[4] \in Kind
      BY Zenon, Places
    <3> QED BY Zenon, <1>3, <3>1
  <2> QED BY SMTT(30), <2>1 DEF Queues
<1>5. NoDup(<<>>) /\ \A x : ~Has(<<>>, x)
  BY DEF NoDup, Has
<1>6. OnePlace(Queues, idle)
  BY Zenon, <1>4, <1>5 DEF OnePlace
<1>7. ASSUME NEW r \in Worker PROVE Transit(r) = {}
  <2>1. \A x \in Msg : x \notin Under(Queues, r)
    <3>1. \A q \in Place, x \in Msg : ~Has(Queues[q], x)
      BY Zenon, <1>4, <1>5
    <3>2. \A u \in Worker, x \in Msg :
             x \in Under(Queues, u) <=> \E q \in Place : q[2] = u /\ Has(Queues[q], x)
      BY Zenon, <1>6, UnderHas
    <3> QED BY Zenon, <3>1, <3>2
  <2>2. Under(Queues, r) \subseteq Msg /\ Transit(r) = Under(Queues, r)
    BY Zenon, <1>1, TransitIsUnder DEF Under
  <2> QED BY Zenon, <2>1, <2>2
<1>8. [r \in Worker |-> Transit(r)] = [r \in Worker |-> {}]
  BY Zenon, <1>7
<1>9. MailboxOf!Init
  BY Zenon, <1>8 DEF MailboxOf!Init, Init
<1> QED BY Zenon, <1>1, <1>6, <1>9 DEF OnceInv

LEMMA OnceNext ==
    OnceInv /\ [Next]_vars => OnceInv' /\ [MailboxOf!Next]_(MailboxOf!vars)
<1> SUFFICES ASSUME OnceInv, [Next]_vars
             PROVE  OnceInv' /\ [MailboxOf!Next]_(MailboxOf!vars)
  OBVIOUS
<1>1. TypeOK /\ FlushOK /\ OnePlace(Queues, idle)
  BY Zenon DEF OnceInv
<1>2. TypeOK' /\ FlushOK'
  BY Zenon, <1>1, TypeNext, FlushNext
<1>3. ASSUME NEW p \in Thread, Still(p) PROVE Abstract
  BY Zenon, <1>1, <1>2, <1>3, StillStep
<1>4. ASSUME NEW w \in Worker, Step(w) \/ SubmitUnavailable(w) \/ WakeOther(w)
      PROVE  Abstract
  <2>1. CASE TryEnqueue(w)
    BY Zenon, <1>1, <1>2, <2>1, TryEnqueueCarries
  <2>2. CASE EnqueueOverflow(w)
    BY ZenonT(40), <1>1, <1>2, <2>2, EnqueueOverflowCarries
  <2>3. CASE DrainOverflow(w)
    BY Zenon, <1>1, <1>2, <2>3, DrainOverflowTakes
  <2>4. CASE DrainQueue(w)
    BY Zenon, <1>1, <1>2, <2>4, DrainQueueTakes
  <2>5. CASE Still(w)
    BY Zenon, <1>3, <2>5, ZeroWorks
  <2> QED BY ZenonT(40), <1>1, <1>4, <2>1, <2>2, <2>3, <2>4, <2>5, StillSteps
      DEF Step, PostStep, DrainStep, RoundStep
<1>5. ASSUME NEW w \in Worker, NEW m \in Msg, NEW t \in Worker, Post(w, m, t)
      PROVE  Abstract
  BY Zenon, <1>1, <1>2, <1>5, PostAdds
<1>6. ASSUME NEW f \in Foreign, ForeignStep(f) PROVE Abstract
  BY Zenon, <1>1, <1>3, <1>6, StillForeign
<1>7. ASSUME NEW f \in Foreign, NEW m \in Ntf, NEW t \in Worker, ForeignPost(f, m, t)
      PROVE  Abstract
  BY Zenon, <1>1, <1>2, <1>7, ForeignPostAdds
<1>8. ASSUME UNCHANGED vars PROVE Abstract
  <2>1. UNCHANGED <<pc, post, ring, overflow, idle, delivered>>
    BY Zenon, <1>8 DEF vars, postVars, laneVars, overVars
  <2>2. Queues' = Queues
    BY <2>1 DEF Queues, QueueAt
  <2>3. UNCHANGED <<idle, delivered>>
    BY Zenon, <2>1
  <2> QED BY Zenon, <1>1, <1>2, <2>2, <2>3, StillAbstract
<1>9. Abstract
  <2>1. Next \/ UNCHANGED vars
    BY Zenon
  <2> QED BY ZenonT(40), <1>4, <1>5, <1>6, <1>7, <1>8, <2>1 DEF Next
<1> QED BY Zenon, <1>2, <1>9 DEF Abstract, OnceInv

(* Posting and draining implement exactly-once delivery, for any number of *)
(* workers, of threads that are not workers and of messages, and any       *)
(* capacity, batch size and quota: whatever the interleaving of            *)
(* try_enqueue, the spill into the overflow queues and the bulk dequeues,  *)
(* a message posted to a worker is handed to that worker, and once.        *)
THEOREM MessagesDeliveredOnce == Spec => DeliversOnce
<1>1. Init => OnceInv /\ MailboxOf!Init
  BY OnceInit
<1>2. OnceInv /\ [Next]_vars => OnceInv' /\ [MailboxOf!Next]_(MailboxOf!vars)
  BY OnceNext
<1> QED BY <1>1, <1>2, PTL DEF Spec, DeliversOnce, MailboxOf!Spec
=============================================================================
