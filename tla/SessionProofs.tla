--------------------------- MODULE SessionProofs ----------------------------
(***************************************************************************)
(* Theorems about Session, for any sets of sessions and clients, any limit *)
(* of clients, number of connections and number of calls, and whether or   *)
(* not users wait for the answers.                                         *)
(*                                                                         *)
(* The invariant speaks of each session by itself: of the connections to   *)
(* it, of the contexts that clients have for it, and of the agreement of   *)
(* its host with each of them, counted as if everything that is under way  *)
(* had been handled.  A Trigger of the host handles many messages; Midway  *)
(* is the invariant between two of them.  A step of a client is judged     *)
(* session by session: Own is what the invariant says of one client and    *)
(* one session.                                                            *)
(***************************************************************************)
EXTENDS Session, ListLemmas

LEMMA Constants ==
    /\ Hasty \subseteq Clients
    /\ MaxClients \in Nat /\ MaxClients >= 1
    /\ MaxConns \in [Clients -> Nat \ {0}]
    /\ MaxUserActions \in Nat
    /\ None \notin Sessions
    /\ IsFiniteSet(Sessions)
BY SessionAssumption

(* A connection is a client, a session and a number.                       *)
LEMMA ConnParts ==
    /\ \A k \in Conns : /\ k[1] \in Clients /\ k[2] \in Sessions
                        /\ k[3] \in 1 .. MaxConns[k[1]] /\ k[3] \in Nat
                        /\ k = <<k[1], k[2], k[3]>>
    /\ \A c \in Clients, x \in Sessions : \A g \in 1 .. MaxConns[c] : <<c, x, g>> \in Conns
    /\ \A j, k \in Conns : j[1] = k[1] /\ j[2] = k[2] /\ j[3] = k[3] => j = k
<1>1. \A k : k \in Conns <=> \E c \in Clients : k \in {c} \X Sessions \X (1..MaxConns[c])
  BY DEF Conns
<1>2. \A c \in Clients : MaxConns[c] \in Nat
  BY Constants
<1>3. \A c \in Clients, x \in Sessions : \A g \in 1 .. MaxConns[c] : <<c, x, g>> \in Conns
  BY <1>1
<1>4. ASSUME NEW k \in Conns
      PROVE  /\ k[1] \in Clients /\ k[2] \in Sessions
             /\ k[3] \in 1 .. MaxConns[k[1]] /\ k[3] \in Nat
             /\ k = <<k[1], k[2], k[3]>>
  <2>1. PICK c \in Clients : k \in {c} \X Sessions \X (1..MaxConns[c])
    BY <1>1
  <2>2. k = <<k[1], k[2], k[3]>> /\ k[1] = c /\ k[2] \in Sessions /\ k[3] \in 1..MaxConns[c]
    BY <2>1
  <2>3. QED
    BY <1>2, <2>2
<1>5. ASSUME NEW j \in Conns, NEW k \in Conns, j[1] = k[1], j[2] = k[2], j[3] = k[3]
      PROVE  j = k
  <2>1. j = <<j[1], j[2], j[3]>> /\ k = <<k[1], k[2], k[3]>>
    BY <1>4
  <2>2. QED
    BY <1>5, <2>1
<1>6. QED
  BY <1>3, <1>4, <1>5

-----------------------------------------------------------------------------
(* What a list of messages tells the client.                               *)
HasType(q, T) == \E i \in DOMAIN q : q[i].type \in T

LEMMA LatestIs ==
    ASSUME NEW q \in Seq(ClientMsg), NEW T
    PROVE  /\ Latest(q, T) \in 0 .. Len(q)
           /\ Latest(q, T) > 0 => q[Latest(q, T)].type \in T
           /\ \A i \in 1 .. Len(q) : i > Latest(q, T) => q[i].type \notin T
<1> DEFINE P == {0} \cup {i \in DOMAIN q : q[i].type \in T}
           U == {n \in 0 .. Len(q) : \A i \in P : n >= i}
<1>1. Len(q) \in Nat /\ DOMAIN q = 1 .. Len(q) /\ P \subseteq 0 .. Len(q) /\ 0 \in P
  OBVIOUS
<1> HIDE DEF P
<1>2. U \in SUBSET Nat /\ Len(q) \in U
  BY <1>1
<1>3. Min(U) \in U /\ \A y \in U : Min(U) <= y
  BY <1>2, LeastNumber
<1> DEFINE n == Min(U)
<1>4. n \in 0 .. Len(q) /\ \A i \in P : n >= i
  BY <1>3
<1>5. n \in P
  <2>1. CASE n \notin P
    <3>1. n # 0
      BY <1>1, <2>1
    <3>2. n - 1 \in 0 .. Len(q) /\ n - 1 < n
      BY <1>1, <1>4, <3>1
    <3>3. \A i \in P : i \in Nat /\ i # n
      BY <1>1, <2>1
    <3>4. n \in Nat
      BY <1>1, <1>4
    <3> HIDE DEF n
    <3>7. \A i \in P : n - 1 >= i
      BY <1>4, <3>3, <3>4
    <3>5. n - 1 \in U
      BY <3>2, <3>7
    <3>6. QED
      BY <1>3, <1>4, <3>2, <3>4, <3>5 DEF n
  <2>2. QED
    BY <2>1
<1> HIDE DEF n, U
<1>6. Max(P) \in P /\ \A y \in P : Max(P) >= y
  BY <1>4, <1>5 DEF Max
<1>7. Latest(q, T) = Max(P)
  BY DEF Latest, P
<1> DEFINE l == Latest(q, T)
<1>8. l \in P /\ \A y \in P : l >= y
  BY <1>6, <1>7
<1> HIDE DEF l
<1>9. l \in 0 .. Len(q) /\ l \in Nat
  BY <1>1, <1>8
<1>10. l > 0 => q[l].type \in T
  BY <1>8, <1>9 DEF P
<1>11. ASSUME NEW i \in 1 .. Len(q), i > l, q[i].type \in T
       PROVE  FALSE
  <2>1. i \in P
    BY <1>1, <1>11 DEF P
  <2>2. l >= i
    BY <1>8, <2>1
  <2>3. QED
    BY <1>1, <1>9, <1>11, <2>2
<1>12. QED
  BY <1>9, <1>10, <1>11 DEF l

(* q2 is q with messages m behind it, if any.                              *)
More(q, q2, m) ==
    /\ q2 \in Seq(ClientMsg) /\ Len(q2) >= Len(q)
    /\ \A i \in 1 .. Len(q) : q2[i] = q[i]
    /\ \A i \in 1 .. Len(q2) : i > Len(q) => q2[i] = m

LEMMA LatestOfMore ==
    ASSUME NEW q \in Seq(ClientMsg), NEW q2, NEW m, More(q, q2, m), NEW T
    PROVE  Latest(q2, T) = IF Len(q2) > Len(q) /\ m.type \in T THEN Len(q2) ELSE Latest(q, T)
<1> DEFINE n == Latest(q2, T)
           l == Latest(q, T)
<1>1. /\ q2 \in Seq(ClientMsg) /\ Len(q) \in Nat /\ Len(q2) \in Nat /\ Len(q2) >= Len(q)
      /\ \A i \in 1 .. Len(q) : q2[i] = q[i]
      /\ \A i \in 1 .. Len(q2) : i > Len(q) => q2[i] = m
  BY DEF More
<1>2. /\ n \in 0 .. Len(q2)
      /\ n > 0 => q2[n].type \in T
      /\ \A i \in 1 .. Len(q2) : i > n => q2[i].type \notin T
  BY <1>1, LatestIs
<1>3. /\ l \in 0 .. Len(q)
      /\ l > 0 => q[l].type \in T
      /\ \A i \in 1 .. Len(q) : i > l => q[i].type \notin T
  BY LatestIs
<1> HIDE DEF n, l
<1>4. CASE Len(q2) > Len(q) /\ m.type \in T
  <2>1. Len(q2) \in 1 .. Len(q2) /\ q2[Len(q2)] = m
    BY <1>1, <1>4
  <2>2. ~(Len(q2) > n)
    BY <1>2, <1>4, <2>1
  <2>3. QED
    BY <1>1, <1>2, <1>4, <2>2 DEF n
<1>5. CASE ~(Len(q2) > Len(q) /\ m.type \in T)
  <2>1. \A i \in 1 .. Len(q2) : i > Len(q) => q2[i].type \notin T
    BY <1>1, <1>5
  <2>2. n <= Len(q)
    <3>1. CASE n > Len(q)
      <4>1. n \in 1 .. Len(q2) /\ n > 0
        BY <1>1, <1>2, <3>1
      <4>2. QED
        BY <1>2, <2>1, <3>1, <4>1
    <3>2. QED
      BY <1>1, <1>2, <3>1
  <2>3. n <= l
    <3>1. CASE n > l
      <4>1. n \in 1 .. Len(q) /\ n > 0
        BY <1>1, <1>2, <1>3, <2>2, <3>1
      <4>2. q2[n] = q[n]
        BY <1>1, <4>1
      <4>3. QED
        BY <1>2, <1>3, <3>1, <4>1, <4>2
    <3>2. QED
      BY <1>1, <1>2, <1>3, <3>1
  <2>4. l <= n
    <3>1. CASE l > n
      <4>1. l \in 1 .. Len(q) /\ l > 0 /\ l \in 1 .. Len(q2)
        BY <1>1, <1>2, <1>3, <3>1
      <4>2. q2[l] = q[l]
        BY <1>1, <4>1
      <4>3. QED
        BY <1>2, <1>3, <3>1, <4>1, <4>2
    <3>2. QED
      BY <1>1, <1>2, <1>3, <3>1
  <2>5. n = l
    BY <1>1, <1>2, <1>3, <2>3, <2>4
  <2>6. QED
    BY <1>5, <2>5 DEF n, l
<1>6. QED
  BY <1>4, <1>5

(* What is added overrides what was under way.                             *)
LEMMA AfterMore ==
    ASSUME NEW q \in Seq(ClientMsg), NEW q2, NEW m, More(q, q2, m), NEW r
    PROVE  /\ JoinedAfter(r, q2) = IF Len(q2) > Len(q) /\ m.type \in Answers
                                   THEN m.type = "joinaccepted" ELSE JoinedAfter(r, q)
           /\ ViewAfter(r, q2) = IF Len(q2) > Len(q) /\ m.type = "serverattr"
                                 THEN m.num ELSE ViewAfter(r, q)
           /\ \A T : HasType(q2, T) <=> HasType(q, T) \/ (Len(q2) > Len(q) /\ m.type \in T)
<1>1. /\ q2 \in Seq(ClientMsg) /\ Len(q) \in Nat /\ Len(q2) \in Nat /\ Len(q2) >= Len(q)
      /\ \A i \in 1 .. Len(q) : q2[i] = q[i]
      /\ \A i \in 1 .. Len(q2) : i > Len(q) => q2[i] = m
      /\ DOMAIN q = 1 .. Len(q) /\ DOMAIN q2 = 1 .. Len(q2)
  BY DEF More
<1>2. ASSUME NEW T
      PROVE  /\ Len(q2) > Len(q) /\ m.type \in T => Latest(q2, T) > 0 /\ q2[Latest(q2, T)] = m
             /\ ~(Len(q2) > Len(q) /\ m.type \in T) =>
                   /\ Latest(q2, T) = Latest(q, T)
                   /\ Latest(q, T) # 0 => q2[Latest(q2, T)] = q[Latest(q, T)]
  <2>1. Latest(q2, T) = IF Len(q2) > Len(q) /\ m.type \in T THEN Len(q2) ELSE Latest(q, T)
    BY LatestOfMore
  <2>2. Latest(q, T) \in 0 .. Len(q)
    BY LatestIs
  <2>3. QED
    BY <1>1, <2>1, <2>2
<1>3. JoinedAfter(r, q2) = IF Len(q2) > Len(q) /\ m.type \in Answers
                           THEN m.type = "joinaccepted" ELSE JoinedAfter(r, q)
  <2>1. CASE Len(q2) > Len(q) /\ m.type \in Answers
    BY <2>1, <1>2 DEF JoinedAfter
  <2>2. CASE ~(Len(q2) > Len(q) /\ m.type \in Answers)
    BY <2>2, <1>2 DEF JoinedAfter
  <2>3. QED
    BY <2>1, <2>2
<1>4. ViewAfter(r, q2) = IF Len(q2) > Len(q) /\ m.type = "serverattr"
                         THEN m.num ELSE ViewAfter(r, q)
  <2>1. CASE Len(q2) > Len(q) /\ m.type = "serverattr"
    BY <2>1, <1>2 DEF ViewAfter
  <2>2. CASE ~(Len(q2) > Len(q) /\ m.type = "serverattr")
    BY <2>2, <1>2 DEF ViewAfter
  <2>3. QED
    BY <2>1, <2>2
<1>5. ASSUME NEW T
      PROVE  HasType(q2, T) <=> HasType(q, T) \/ (Len(q2) > Len(q) /\ m.type \in T)
  <2>1. CASE HasType(q2, T)
    BY <1>1, <2>1 DEF HasType
  <2>2. CASE HasType(q, T)
    BY <1>1, <2>2 DEF HasType
  <2>3. CASE Len(q2) > Len(q) /\ m.type \in T
    <3>1. Len(q2) \in DOMAIN q2 /\ q2[Len(q2)] = m
      BY <1>1, <2>3
    <3>2. QED
      BY <2>3, <3>1 DEF HasType
  <2>4. QED
    BY <2>1, <2>2, <2>3
<1>6. QED
  BY <1>3, <1>4, <1>5

-----------------------------------------------------------------------------
(* What the host sends: e is d with messages m added on the connections J. *)
Hears(k, lk) == k \in lk /\ end[k] = "open"

Adds(d, e, m, J) ==
    /\ e \in [Conns -> Seq(ClientMsg)]
    /\ \A j \in Conns :
          /\ More(d[j], e[j], m)
          /\ j \in J => Len(e[j]) > Len(d[j])
          /\ j \notin J => e[j] = d[j]

LEMMA SendAdds ==
    ASSUME NEW d \in [Conns -> Seq(ClientMsg)], NEW k \in Conns, NEW m \in ClientMsg, NEW lk
    PROVE  Adds(d, Send(d, k, m, lk), m, {j \in Conns : j = k /\ Hears(j, lk)})
<1> DEFINE e == Send(d, k, m, lk)
           J == {j \in Conns : j = k /\ Hears(j, lk)}
<1>1. ASSUME NEW q \in Seq(ClientMsg)
      PROVE  More(q, q, m) /\ More(q, Append(q, m), m) /\ Len(Append(q, m)) > Len(q)
             /\ Append(q, m) \in Seq(ClientMsg)
  <2>1. /\ Len(q) \in Nat /\ Len(Append(q, m)) = Len(q) + 1 /\ Append(q, m) \in Seq(ClientMsg)
        /\ Append(q, m)[Len(q) + 1] = m /\ \A i \in 1 .. Len(q) : Append(q, m)[i] = q[i]
    BY AppendProperties
  <2>2. QED
    BY <2>1 DEF More
<1>2. CASE Hears(k, lk)
  <2>1. e = [d EXCEPT ![k] = Append(@, m)]
    BY <1>2 DEF Send, Hears
  <2>2. e[k] = Append(d[k], m) /\ \A j \in Conns : j # k => e[j] = d[j]
    BY <2>1
  <2>3. e \in [Conns -> Seq(ClientMsg)]
    BY <1>1, <2>1
  <2>4. \A j \in Conns : j \in J <=> j = k
    BY <1>2
  <2> HIDE DEF e, J
  <2>5. QED
    BY <1>1, <2>2, <2>3, <2>4 DEF e, J, Adds
<1>3. CASE ~Hears(k, lk)
  <2>1. e = d
    BY <1>3 DEF Send, Hears
  <2>2. \A j \in Conns : j \notin J
    BY <1>3
  <2> HIDE DEF e, J
  <2>3. QED
    BY <1>1, <2>1, <2>2 DEF e, J, Adds
<1>4. QED
  BY <1>2, <1>3

(* The positions of the contexts of connection k.                          *)
At(cs, k) == {i \in DOMAIN cs : cs[i].conn = k}

LEMMA TellAdds ==
    ASSUME NEW d \in [Conns -> Seq(ClientMsg)], NEW cs \in Seq(Context), NEW m \in ClientMsg, NEW lk
    PROVE  Adds(d, Tell(d, cs, m, lk), m, {j \in Conns : At(cs, j) # {} /\ Hears(j, lk)})
<1> DEFINE e == Tell(d, cs, m, lk)
           J == {j \in Conns : At(cs, j) # {} /\ Hears(j, lk)}
           p(n) == [i \in 1 .. n |-> m]
           N(j) == Cardinality(At(cs, j))
<1>1. ASSUME NEW j \in Conns
      PROVE  N(j) \in Nat /\ (N(j) = 0 <=> At(cs, j) = {})
  <2>1. At(cs, j) \subseteq 1 .. Len(cs) /\ IsFiniteSet(1 .. Len(cs))
    BY FS_Interval DEF At
  <2>2. IsFiniteSet(At(cs, j))
    BY <2>1, FS_Subset
  <2>3. QED
    BY <2>2, FS_EmptySet, FS_CardinalityType
<1>2. \A j \in Conns : e[j] = IF Hears(j, lk) THEN d[j] \o p(N(j)) ELSE d[j]
  BY DEF Tell, At, Hears
<1>3. ASSUME NEW q \in Seq(ClientMsg), NEW n \in Nat
      PROVE  /\ q \o p(n) \in Seq(ClientMsg) /\ More(q, q \o p(n), m)
             /\ n # 0 => Len(q \o p(n)) > Len(q)
             /\ n = 0 => q \o p(n) = q
  <2>1. p(n) \in Seq(ClientMsg) /\ Len(p(n)) = n /\ \A i \in 1 .. n : p(n)[i] = m
    OBVIOUS
  <2>2. n = 0 => p(n) = <<>>
    BY <2>1
  <2> DEFINE t == p(n)
  <2> HIDE DEF p
  <2>3. /\ q \o t \in Seq(ClientMsg) /\ Len(q \o t) = Len(q) + n
        /\ \A i \in 1 .. Len(q) + n : (q \o t)[i] = IF i <= Len(q) THEN q[i] ELSE t[i - Len(q)]
    BY <2>1, ConcatProperties
  <2>4. \A i \in 1 .. Len(q) + n : i > Len(q) => i - Len(q) \in 1 .. n
    OBVIOUS
  <2>5. n = 0 => q \o t = q
    BY <2>2, ConcatEmptySeq
  <2> HIDE DEF t
  <2>6. Len(q) \in Nat
    OBVIOUS
  <2>7. More(q, q \o t, m)
    BY <2>1, <2>3, <2>4, <2>6 DEF More, t
  <2>8. QED
    BY <2>3, <2>5, <2>6, <2>7 DEF t
<1>4. ASSUME NEW q \in Seq(ClientMsg)
      PROVE  More(q, q, m)
  BY DEF More
<1> HIDE DEF p, N
<1>5. ASSUME NEW j \in Conns
      PROVE  /\ e[j] \in Seq(ClientMsg) /\ More(d[j], e[j], m)
             /\ j \in J => Len(e[j]) > Len(d[j])
             /\ j \notin J => e[j] = d[j]
  <2>1. d[j] \in Seq(ClientMsg)
    OBVIOUS
  <2>2. e[j] = IF Hears(j, lk) THEN d[j] \o p(N(j)) ELSE d[j]
    BY <1>2
  <2> HIDE DEF e
  <2>3. CASE Hears(j, lk)
    BY <1>1, <1>3, <2>1, <2>2, <2>3
  <2>4. CASE ~Hears(j, lk)
    BY <1>4, <2>1, <2>2, <2>4
  <2>5. QED
    BY <2>3, <2>4
<1>6. e = [j \in Conns |-> e[j]]
  BY DEF Tell
<1> HIDE DEF e, J
<1>7. e \in [Conns -> Seq(ClientMsg)]
  BY <1>5, <1>6
<1>8. QED
  BY <1>5, <1>7 DEF e, J, Adds

LEMMA SendAllAdds ==
    ASSUME NEW d \in [Conns -> Seq(ClientMsg)], NEW ks, NEW m \in ClientMsg, NEW lk
    PROVE  Adds(d, SendAll(d, ks, m, lk), m, {j \in Conns : j \in ks /\ Hears(j, lk)})
<1> DEFINE e == SendAll(d, ks, m, lk)
           J == {j \in Conns : j \in ks /\ Hears(j, lk)}
<1>1. ASSUME NEW q \in Seq(ClientMsg)
      PROVE  More(q, q, m)
  BY DEF More
<1>2. \A j \in Conns : e[j] = IF j \in ks THEN Send(d, j, m, lk)[j] ELSE d[j]
  BY DEF SendAll
<1>3. e = [j \in Conns |-> e[j]]
  BY DEF SendAll
<1> HIDE DEF e
<1>4. ASSUME NEW j \in Conns
      PROVE  /\ e[j] \in Seq(ClientMsg) /\ More(d[j], e[j], m)
             /\ j \in J => Len(e[j]) > Len(d[j])
             /\ j \notin J => e[j] = d[j]
  <2>1. CASE j \in ks
    <3> DEFINE h == Send(d, j, m, lk)
               K == {i \in Conns : i = j /\ Hears(i, lk)}
    <3>1. Adds(d, h, m, K)
      BY SendAdds
    <3>2. e[j] = h[j] /\ (j \in J <=> j \in K)
      BY <1>2, <2>1
    <3> HIDE DEF h, K, J
    <3>3. QED
      BY <3>1, <3>2 DEF Adds
  <2>2. CASE j \notin ks
    BY <1>1, <1>2, <2>2
  <2>3. QED
    BY <2>1, <2>2
<1> HIDE DEF J
<1>5. e \in [Conns -> Seq(ClientMsg)]
  BY <1>3, <1>4
<1>6. QED
  BY <1>4, <1>5 DEF e, J, Adds

-----------------------------------------------------------------------------
(* Loops: a function whose values are computed from left to right exists,  *)
(* and what every round keeps holds at the end.                            *)
Rounds(f, S, n, s, step) ==
    f \in [0 .. n -> S] /\ f[0] = s /\ \A i \in 1 .. n : f[i] = step[i][f[i - 1]]

HasRounds(S, n, s, step) == \E f : Rounds(f, S, n, s, step)

LEMMA RoundsExist ==
    ASSUME NEW S, NEW n \in Nat, NEW s \in S, NEW step \in [1 .. n -> [S -> S]]
    PROVE  HasRounds(S, n, s, step)
<1> DEFINE Upto(m) == \E f \in [0 .. m -> S] :
                         f[0] = s /\ \A i \in 1 .. m : f[i] = step[i][f[i - 1]]
           T == {m \in 0 .. n : ~Upto(m)}
<1>0. SUFFICES Upto(n)
  BY DEF HasRounds, Rounds
<1>1. SUFFICES ASSUME ~Upto(n)
               PROVE  FALSE
  OBVIOUS
<1> HIDE DEF Upto
<1>2. T \in SUBSET Nat /\ n \in T
  BY <1>1
<1> DEFINE b == Min(T)
<1>3. b \in T /\ \A y \in T : b <= y
  BY <1>2, LeastNumber
<1> HIDE DEF b
<1>4. b \in 0 .. n /\ ~Upto(b)
  BY <1>3
<1>5. Upto(0)
  <2> DEFINE g == [i \in 0 .. 0 |-> s]
  <2>1. g \in [0 .. 0 -> S] /\ g[0] = s
    OBVIOUS
  <2> HIDE DEF g
  <2>2. \A i \in 1 .. 0 : g[i] = step[i][g[i - 1]]
    OBVIOUS
  <2>3. QED
    BY <2>1, <2>2 DEF Upto
<1>6. b # 0 /\ b - 1 \in 0 .. n /\ b - 1 < b /\ b \in Nat /\ b \in 1 .. n
  BY <1>4, <1>5
<1>7. b - 1 \notin T
  <2> HIDE DEF T
  <2>1. QED
    BY <1>3, <1>6
<1>8. PICK f \in [0 .. b - 1 -> S] : f[0] = s /\ \A i \in 1 .. b - 1 : f[i] = step[i][f[i - 1]]
  <2>1. Upto(b - 1)
    BY <1>6, <1>7
  <2>2. QED
    BY <2>1 DEF Upto
<1> DEFINE g == [i \in 0 .. b |-> IF i = b THEN step[b][f[b - 1]] ELSE f[i]]
<1>9. f[b - 1] \in S /\ step[b] \in [S -> S] /\ step[b][f[b - 1]] \in S
  BY <1>6, <1>8
<1>10. g \in [0 .. b -> S]
  BY <1>6, <1>8, <1>9
<1>11. g[0] = s
  BY <1>6, <1>8
<1>12. ASSUME NEW i \in 1 .. b
       PROVE  g[i] = step[i][g[i - 1]]
  <2>1. g[i - 1] = f[i - 1] /\ i - 1 \in 0 .. b
    BY <1>6
  <2>2. CASE i = b
    BY <2>1, <2>2, <1>6
  <2>3. CASE i # b
    BY <2>1, <2>3, <1>6, <1>8
  <2>4. QED
    BY <2>2, <2>3
<1>13. Upto(b)
  BY <1>10, <1>11, <1>12 DEF Upto
<1>14. QED
  BY <1>4, <1>13

LEMMA RoundsKeep ==
    ASSUME NEW n \in Nat, NEW good, NEW f, f[0] \in good[0],
           \A i \in 1 .. n : f[i - 1] \in good[i - 1] => f[i] \in good[i]
    PROVE  f[n] \in good[n]
<1> DEFINE T == {m \in 0 .. n : f[m] \notin good[m]}
<1>1. SUFFICES ASSUME f[n] \notin good[n]
               PROVE  FALSE
  OBVIOUS
<1>2. T \in SUBSET Nat /\ n \in T
  BY <1>1
<1> DEFINE b == Min(T)
<1>3. b \in T /\ \A y \in T : b <= y
  BY <1>2, LeastNumber
<1> HIDE DEF b
<1>4. b \in 0 .. n /\ f[b] \notin good[b]
  BY <1>3
<1>5. b # 0 /\ b - 1 \in 0 .. n /\ b - 1 < b /\ b \in 1 .. n
  BY <1>4
<1>6. b - 1 \notin T
  BY <1>3, <1>5
<1>7. f[b - 1] \in good[b - 1]
  BY <1>5, <1>6
<1>8. QED
  BY <1>4, <1>5, <1>7

-----------------------------------------------------------------------------
(* The contexts of a host.                                                 *)
Lone(cs, k) == \A i, j \in At(cs, k) : i = j

(* cs2 is cs without a context of each of the connections K.               *)
Fewer(cs, cs2, K) ==
    /\ cs2 \in Seq(Context) /\ Len(cs2) <= Len(cs)
    /\ \A j \in DOMAIN cs2 : \E i \in DOMAIN cs : cs2[j].conn = cs[i].conn
    /\ \A k \in Conns :
          /\ Lone(cs, k) => Lone(cs2, k)
          /\ k \notin K /\ At(cs, k) # {} => At(cs2, k) # {}
          /\ k \in K => At(cs, k) # {}
          /\ k \in K /\ Lone(cs, k) => At(cs2, k) = {}

LEMMA RemovedContext ==
    ASSUME NEW cs \in Seq(Context), NEW i \in 1 .. Len(cs)
    PROVE  Fewer(cs, RemoveAt(cs, i), {cs[i].conn})
<1> DEFINE cs2 == RemoveAt(cs, i)
           n == Len(cs)
           Old(j) == IF j < i THEN j ELSE j + 1
<1>1. /\ cs2 \in Seq(Context) /\ Len(cs2) = n - 1
      /\ \A j \in 1 .. n - 1 : cs2[j] = IF j < i THEN cs[j] ELSE cs[j + 1]
  BY RemoveAtProperties
<1> HIDE DEF cs2
<1>2. n \in Nat /\ DOMAIN cs = 1 .. n /\ DOMAIN cs2 = 1 .. n - 1
  BY <1>1
<1>3. \A j \in 1 .. n - 1 : Old(j) \in 1 .. n /\ Old(j) # i /\ cs2[j] = cs[Old(j)]
  BY <1>1, <1>2
<1>4. \A j, h \in 1 .. n - 1 : Old(j) = Old(h) => j = h
  BY <1>2
<1>5. \A j \in 1 .. n : j # i => \E h \in 1 .. n - 1 : Old(h) = j
  <2>1. ASSUME NEW j \in 1 .. n, j # i
        PROVE  \E h \in 1 .. n - 1 : Old(h) = j
    <3>1. CASE j < i
      <4>1. j \in 1 .. n - 1 /\ Old(j) = j
        BY <1>2, <3>1
      <4>2. QED
        BY <4>1
    <3>2. CASE j > i
      <4>1. j - 1 \in 1 .. n - 1 /\ Old(j - 1) = j
        BY <1>2, <3>2
      <4>2. QED
        BY <4>1
    <3>3. QED
      BY <1>2, <2>1, <3>1, <3>2
  <2>2. QED
    BY <2>1
<1> HIDE DEF Old, n
<1>6. \A j \in DOMAIN cs2 : \E h \in DOMAIN cs : cs2[j].conn = cs[h].conn
  BY <1>2, <1>3
<1>7. ASSUME NEW k \in Conns
      PROVE  /\ Lone(cs, k) => Lone(cs2, k)
             /\ k # cs[i].conn /\ At(cs, k) # {} => At(cs2, k) # {}
             /\ k = cs[i].conn => At(cs, k) # {}
             /\ k = cs[i].conn /\ Lone(cs, k) => At(cs2, k) = {}
  <2>1. \A j : j \in At(cs2, k) <=> j \in 1 .. n - 1 /\ cs[Old(j)].conn = k
    BY <1>2, <1>3 DEF At
  <2>2. \A j : j \in At(cs, k) <=> j \in 1 .. n /\ cs[j].conn = k
    BY <1>2 DEF At
  <2>3. \A j \in At(cs2, k) : Old(j) \in At(cs, k) /\ Old(j) # i
    BY <1>3, <2>1, <2>2
  <2>4. Lone(cs, k) => Lone(cs2, k)
    BY <1>4, <2>1, <2>3 DEF Lone
  <2>5. k # cs[i].conn /\ At(cs, k) # {} => At(cs2, k) # {}
    BY <1>5, <2>1, <2>2
  <2>6. k = cs[i].conn => i \in At(cs, k)
    BY <2>2 DEF n
  <2>7. k = cs[i].conn /\ Lone(cs, k) => At(cs2, k) = {}
    BY <2>3, <2>6 DEF Lone
  <2>8. QED
    BY <2>4, <2>5, <2>6, <2>7
<1>8. Len(cs2) <= Len(cs)
  BY <1>1, <1>2 DEF n
<1>9. QED
  BY <1>1, <1>6, <1>7, <1>8 DEF Fewer, cs2

LEMMA FirstContexts ==
    ASSUME NEW cs \in Seq(Context), NEW m \in 0 .. Len(cs)
    PROVE  LET rest == SubSeq(cs, m + 1, Len(cs)) IN
           /\ rest \in Seq(Context)
           /\ Fewer(cs, SubSeq(cs, 1, m), {k \in Conns : At(rest, k) # {}})
           /\ Len(SubSeq(cs, 1, m)) = m
<1> DEFINE cs2 == SubSeq(cs, 1, m)
           rest == SubSeq(cs, m + 1, Len(cs))
           K == {k \in Conns : At(rest, k) # {}}
           n == Len(cs)
<1>1. /\ cs2 \in Seq(Context) /\ Len(cs2) = m /\ DOMAIN cs2 = 1 .. m
      /\ \A j \in 1 .. m : cs2[j] = cs[j]
      /\ n \in Nat /\ m \in Nat /\ m <= n /\ DOMAIN cs = 1 .. n
  OBVIOUS
<1>2. /\ rest \in Seq(Context) /\ Len(rest) = n - m /\ DOMAIN rest = 1 .. n - m
      /\ \A j \in 1 .. n - m : rest[j] = cs[m + j]
  OBVIOUS
<1> HIDE DEF cs2, rest, n
<1>3. \A j \in DOMAIN cs2 : \E h \in DOMAIN cs : cs2[j].conn = cs[h].conn
  BY <1>1
<1>4. ASSUME NEW k \in Conns
      PROVE  /\ Lone(cs, k) => Lone(cs2, k)
             /\ k \notin K /\ At(cs, k) # {} => At(cs2, k) # {}
             /\ k \in K => At(cs, k) # {}
             /\ k \in K /\ Lone(cs, k) => At(cs2, k) = {}
  <2>1. \A j : j \in At(cs2, k) <=> j \in 1 .. m /\ cs[j].conn = k
    BY <1>1 DEF At
  <2>2. \A j : j \in At(cs, k) <=> j \in 1 .. n /\ cs[j].conn = k
    BY <1>1 DEF At
  <2>3. k \in K <=> \E j \in m + 1 .. n : cs[j].conn = k
    <3>1. ASSUME NEW j \in m + 1 .. n, cs[j].conn = k
          PROVE  k \in K
      <4>1. j - m \in 1 .. n - m /\ m + (j - m) = j
        BY <1>1
      <4>2. j - m \in At(rest, k)
        BY <1>2, <3>1, <4>1 DEF At
      <4>3. QED
        BY <4>2
    <3>2. ASSUME k \in K
          PROVE  \E j \in m + 1 .. n : cs[j].conn = k
      <4>1. PICK j \in 1 .. n - m : cs[m + j].conn = k
        BY <1>2, <3>2 DEF At
      <4>2. m + j \in m + 1 .. n
        BY <1>1
      <4>3. QED
        BY <4>1, <4>2
    <3>3. QED
      BY <3>1, <3>2
  <2> HIDE DEF K
  <2>4. /\ 1 .. m \subseteq 1 .. n /\ m + 1 .. n \subseteq 1 .. n
        /\ \A j \in 1 .. n : j \in 1 .. m \/ j \in m + 1 .. n
        /\ \A j \in 1 .. m : \A h \in m + 1 .. n : j # h
    BY <1>1
  <2>5. Lone(cs, k) => Lone(cs2, k)
    BY <2>1, <2>2, <2>4 DEF Lone
  <2>6. k \notin K /\ At(cs, k) # {} => At(cs2, k) # {}
    BY <2>1, <2>2, <2>3, <2>4
  <2>7. k \in K => At(cs, k) # {}
    BY <2>2, <2>3, <2>4
  <2>8. k \in K /\ Lone(cs, k) => At(cs2, k) = {}
    BY <2>1, <2>2, <2>3, <2>4 DEF Lone
  <2>9. QED
    BY <2>5, <2>6, <2>7, <2>8
<1>5. QED
  BY <1>1, <1>2, <1>3, <1>4 DEF Fewer, cs2, rest, n

(* cs2 is cs with a context of connection k behind it.                     *)
Joining(cs, cs2, k) ==
    /\ cs2 \in Seq(Context) /\ Len(cs2) = Len(cs) + 1
    /\ \A j \in DOMAIN cs2 : cs2[j].conn = k \/ \E i \in DOMAIN cs : cs2[j].conn = cs[i].conn
    /\ At(cs2, k) # {}
    /\ At(cs, k) = {} => Lone(cs2, k)
    /\ \A j \in Conns : j # k => At(cs2, j) = At(cs, j)

LEMMA AppendedContext ==
    ASSUME NEW cs \in Seq(Context), NEW k \in Conns, NEW b \in BOOLEAN
    PROVE  Joining(cs, Append(cs, [conn |-> k, named |-> b]), k)
<1> DEFINE e == [conn |-> k, named |-> b]
           cs2 == Append(cs, e)
           n == Len(cs)
<1>1. e \in Context /\ e.conn = k
  BY DEF Context
<1> HIDE DEF e
<1>2. /\ cs2 \in Seq(Context) /\ Len(cs2) = n + 1 /\ cs2[n + 1] = e
      /\ \A j \in 1 .. n : cs2[j] = cs[j]
  BY <1>1, AppendProperties
<1>3. n \in Nat /\ DOMAIN cs = 1 .. n
  OBVIOUS
<1> HIDE DEF cs2, n
<1>4. /\ DOMAIN cs2 = 1 .. n + 1
      /\ \A j \in 1 .. n + 1 : j \in 1 .. n \/ j = n + 1
  BY <1>2, <1>3
<1>5. n + 1 \in 1 .. n + 1 /\ n + 1 \notin 1 .. n /\ 1 .. n \subseteq 1 .. n + 1
  BY <1>3
<1>6. \A j \in DOMAIN cs2 : cs2[j].conn = k \/ \E i \in DOMAIN cs : cs2[j].conn = cs[i].conn
  BY <1>1, <1>2, <1>3, <1>4
<1>7. n + 1 \in At(cs2, k)
  BY <1>1, <1>2, <1>4, <1>5 DEF At
<1>8. At(cs, k) = {} => Lone(cs2, k)
  BY <1>2, <1>3, <1>4 DEF At, Lone
<1>9. \A j \in Conns : j # k => At(cs2, j) = At(cs, j)
  BY <1>1, <1>2, <1>3, <1>4, <1>5 DEF At
<1>10. QED
  BY <1>2, <1>6, <1>7, <1>8, <1>9 DEF cs2, n, e, Joining

LEMMA NamedContext ==
    ASSUME NEW cs \in Seq(Context), NEW i \in 1 .. Len(cs)
    PROVE  LET cs2 == [cs EXCEPT ![i].named = TRUE] IN
           /\ Fewer(cs, cs2, {})
           /\ Len(cs2) = Len(cs)
           /\ \A k : At(cs2, k) = At(cs, k)
<1> DEFINE cs2 == [cs EXCEPT ![i].named = TRUE]
<1>1. /\ Len(cs) \in Nat /\ DOMAIN cs = 1 .. Len(cs)
      /\ \A j \in 1 .. Len(cs) : cs[j] \in Context
  OBVIOUS
<1>2. [cs[i] EXCEPT !.named = TRUE] \in Context /\ [cs[i] EXCEPT !.named = TRUE].conn = cs[i].conn
  BY <1>1 DEF Context
<1>3. /\ cs2 \in Seq(Context) /\ Len(cs2) = Len(cs) /\ DOMAIN cs2 = 1 .. Len(cs)
      /\ \A j \in 1 .. Len(cs) : cs2[j].conn = cs[j].conn
  BY <1>1, <1>2
<1> HIDE DEF cs2
<1>4. \A k : At(cs2, k) = At(cs, k)
  BY <1>1, <1>3 DEF At
<1>5. \A j \in DOMAIN cs2 : \E h \in DOMAIN cs : cs2[j].conn = cs[h].conn
  BY <1>1, <1>3
<1>6. \A k \in Conns : Lone(cs, k) => Lone(cs2, k)
  BY <1>4 DEF Lone
<1>7. Fewer(cs, cs2, {})
  BY <1>1, <1>3, <1>4, <1>5, <1>6 DEF Fewer
<1>8. QED
  BY <1>3, <1>4, <1>7 DEF cs2

LEMMA ConnOrder ==
    ASSUME NEW j \in Conns, NEW k \in Conns
    PROVE  /\ k[3] < j[3] <=> j[3] > k[3]
           /\ k[3] < j[3] => j # k
           /\ j[3] > k[3] => j[3] > 1
<1>1. j[3] \in Nat /\ k[3] \in Nat /\ k[3] \in 1 .. MaxConns[k[1]] /\ k[1] \in Clients
  BY ConnParts
<1>2. MaxConns[k[1]] \in Nat
  BY <1>1, Constants
<1>3. k[3] >= 1
  BY <1>1, <1>2
<1>4. QED
  BY <1>1, <1>3

-----------------------------------------------------------------------------
(* What a patient client has asked for, in a list of messages to the host: *)
(* to join once at most, and to leave once at most, and before that.       *)
Requests == {"joinsession", "leavesession"}
Entering(u) == Contains(u, "joinsession")
Leaving(u) == Contains(u, "leavesession")

Ordered(u) ==
    \A i, j \in DOMAIN u :
        /\ u[i] = "joinsession" /\ u[j] \in Requests /\ i # j
              => j < i /\ u[j] = "leavesession"
        /\ u[i] = "leavesession" /\ u[j] = "leavesession" => i = j

(* The two sides of connection k, the last of a patient client to a host   *)
(* with the contexts cs, of which late leave messages have released those  *)
(* of us: r is the context of the client, u and d are under way to the     *)
(* host and to the client.  Once the host has handled u and the client has *)
(* received d, they agree.                                                 *)
Side(k, r, cs, us, u, d) ==
    /\ Ordered(u)
    /\ Entering(u) \/ Leaving(u) => ~r.joined /\ ~JoinedAfter(r, d)
    /\ HasType(d, {"joinaccepted", "joindenied"}) => ~r.joined
    /\ ~Entering(u) /\ ~Leaving(u) /\ JoinedAfter(r, d) => At(cs, k) # {} \/ k \in us
    /\ r.gen = 1 =>
          /\ Lone(cs, k)
          /\ ~Entering(u) /\ ~Leaving(u) /\ At(cs, k) # {} => JoinedAfter(r, d)
          /\ Entering(u) /\ ~Leaving(u) => At(cs, k) = {}

Informed(r, s, u, d) ==
    s.dirty \/ Contains(u, "queryserverattrs") \/ ViewAfter(r, d) = s.num

(* Client c and session x, whose host is in state s and has still to read  *)
(* u.                                                                      *)
Fits(c, x, s, u) ==
    LET k == Conn(c, x)
        r == servers[c][x]
    IN /\ Informed(r, s, u[k], s.down[k])
       /\ c \notin Hasty => Side(k, r, s.ctxs, s.ousted, u[k], s.down[k])

(* The contexts of x are of connections to x that have been made; those of *)
(* clients that are still connected can be told.                           *)
Placed(x, cs, lk) ==
    \A i \in DOMAIN cs :
        LET k == cs[i].conn
            r == servers[k[1]][x]
        IN /\ k[2] = x /\ k[3] <= r.gen
           /\ r.open /\ k[3] = r.gen => k \in lk

(* The connections that have an older one.                                 *)
Second == {k \in Conns : k[3] > 1}

HostState == [ctxs : Seq(Context), num : 0..MaxClients, dirty : BOOLEAN,
              down : [Conns -> Seq(ClientMsg)], ousted : SUBSET Second]

IsHost(s) == s \in HostState /\ s.num = Len(s.ctxs)

(* The host of x in the middle of its Trigger, before it has read u.       *)
Midway(x, s, u, lk) ==
    /\ IsHost(s)
    /\ Placed(x, s.ctxs, lk)
    /\ \A k \in Conns :
          /\ end[k] # "open" \/ k[2] # x => s.down[k] = down[k]
          /\ HasType(s.down[k], {"start"}) <=> HasType(down[k], {"start"})
    /\ \A c \in Clients : servers[c][x].open => Fits(c, x, s, u)

LEMMA OrderedRest ==
    ASSUME NEW q \in Seq(ToServer), q # <<>>, Ordered(q)
    PROVE  /\ Ordered(Tail(q))
           /\ Head(q) = "leavesession" => ~Leaving(Tail(q))
           /\ Head(q) = "joinsession" => ~Entering(Tail(q)) /\ ~Leaving(Tail(q))
<1> DEFINE v == Tail(q)
           n == Len(q)
<1>1. /\ n \in Nat /\ n >= 1 /\ DOMAIN q = 1 .. n
      /\ v \in Seq(ToServer) /\ Len(v) = n - 1 /\ DOMAIN v = 1 .. n - 1
      /\ \A i \in 1 .. n - 1 : i + 1 \in 1 .. n /\ v[i] = q[i + 1]
      /\ Head(q) = q[1] /\ 1 \in 1 .. n
  OBVIOUS
<1> HIDE DEF v, n
<1>2. ASSUME NEW i \in DOMAIN q, NEW j \in DOMAIN q
      PROVE  /\ q[i] = "joinsession" /\ q[j] \in Requests /\ i # j
                   => j < i /\ q[j] = "leavesession"
             /\ q[i] = "leavesession" /\ q[j] = "leavesession" => i = j
  BY DEF Ordered
<1>3. ASSUME NEW i \in DOMAIN v, NEW j \in DOMAIN v
      PROVE  /\ v[i] = "joinsession" /\ v[j] \in Requests /\ i # j
                   => j < i /\ v[j] = "leavesession"
             /\ v[i] = "leavesession" /\ v[j] = "leavesession" => i = j
  <2>1. /\ i + 1 \in DOMAIN q /\ j + 1 \in DOMAIN q /\ v[i] = q[i + 1] /\ v[j] = q[j + 1]
        /\ i \in Nat /\ j \in Nat
    BY <1>1
  <2>2. /\ q[i + 1] = "joinsession" /\ q[j + 1] \in Requests /\ i + 1 # j + 1
                   => j + 1 < i + 1 /\ q[j + 1] = "leavesession"
        /\ q[i + 1] = "leavesession" /\ q[j + 1] = "leavesession" => i + 1 = j + 1
    BY <1>2, <2>1
  <2>3. QED
    BY <2>1, <2>2
<1>4. Ordered(v)
  BY <1>3 DEF Ordered
<1>5. ASSUME NEW i \in DOMAIN v
      PROVE  /\ q[1] = "leavesession" => v[i] # "leavesession"
             /\ q[1] = "joinsession" => v[i] \notin Requests
  <2>1. i + 1 \in DOMAIN q /\ 1 \in DOMAIN q /\ v[i] = q[i + 1] /\ i \in Nat /\ i >= 1
    BY <1>1
  <2>2. /\ q[1] = "joinsession" /\ q[i + 1] \in Requests /\ 1 # i + 1
                   => i + 1 < 1 /\ q[i + 1] = "leavesession"
        /\ q[i + 1] = "leavesession" /\ q[1] = "leavesession" => i + 1 = 1
    BY <1>2, <2>1
  <2>3. QED
    BY <2>1, <2>2
<1>6. q[1] = "leavesession" => ~Leaving(v)
  BY <1>5 DEF Leaving, Contains
<1>7. q[1] = "joinsession" => ~Entering(v) /\ ~Leaving(v)
  BY <1>5 DEF Leaving, Entering, Contains, Requests
<1>8. QED
  BY <1>1, <1>4, <1>6, <1>7 DEF v

LEMMA RestOf ==
    ASSUME NEW q \in Seq(ToServer), q # <<>>
    PROVE  /\ Tail(q) \in Seq(ToServer) /\ Head(q) \in ToServer
           /\ \A t : Contains(q, t) <=> t = Head(q) \/ Contains(Tail(q), t)
<1> DEFINE v == Tail(q)
           n == Len(q)
<1>1. /\ n \in Nat /\ n >= 1 /\ DOMAIN q = 1 .. n
      /\ v \in Seq(ToServer) /\ Len(v) = n - 1 /\ DOMAIN v = 1 .. n - 1
      /\ \A i \in 1 .. n - 1 : i + 1 \in 1 .. n /\ v[i] = q[i + 1]
      /\ Head(q) = q[1] /\ 1 \in 1 .. n /\ q[1] \in ToServer
  OBVIOUS
<1> HIDE DEF v, n
<1>2. ASSUME NEW t, Contains(q, t)
      PROVE  t = q[1] \/ Contains(v, t)
  <2>1. PICK i \in 1 .. n : q[i] = t
    BY <1>1, <1>2 DEF Contains
  <2>2. CASE i = 1
    BY <2>1, <2>2
  <2>3. CASE i # 1
    <3>1. i - 1 \in 1 .. n - 1 /\ (i - 1) + 1 = i
      BY <1>1, <2>3
    <3>2. v[i - 1] = t
      BY <1>1, <2>1, <3>1
    <3>3. QED
      BY <1>1, <3>1, <3>2 DEF Contains
  <2>4. QED
    BY <2>2, <2>3
<1>3. ASSUME NEW t, t = q[1] \/ Contains(v, t)
      PROVE  Contains(q, t)
  BY <1>1, <1>3 DEF Contains
<1>4. QED
  BY <1>1, <1>2, <1>3 DEF v

LEMMA NoAnswers ==
    ASSUME NEW q \in Seq(ClientMsg), ~HasType(q, Answers), NEW r
    PROVE  JoinedAfter(r, q) = r.joined
<1>1. /\ Latest(q, Answers) \in 0 .. Len(q)
      /\ Latest(q, Answers) > 0 => q[Latest(q, Answers)].type \in Answers
  BY LatestIs
<1>2. Len(q) \in Nat /\ DOMAIN q = 1 .. Len(q)
  OBVIOUS
<1>3. Latest(q, Answers) = 0
  BY <1>1, <1>2 DEF HasType
<1>4. QED
  BY <1>3 DEF JoinedAfter

-----------------------------------------------------------------------------
(* What a host does with each kind of message.                             *)
LEMMA Messages ==
    /\ \A t \in ToClient : Msg(t) \in ClientMsg /\ Msg(t).type = t
    /\ \A n \in 0..MaxClients :
          Attrs(n) \in ClientMsg /\ Attrs(n).type = "serverattr" /\ Attrs(n).num = n
<1>1. 0 \in 0..MaxClients
  BY Constants
<1>2. QED
  BY <1>1 DEF Msg, Attrs, ClientMsg, ToClient

(* Connection k alone, if it can be heard.                                 *)
Only1(k, lk) == {j \in Conns : j = k /\ Hears(j, lk)}

AfterJoin(s, s2, k, lk) ==
    /\ IsHost(s2)
    /\ \/ /\ s2.ctxs = s.ctxs /\ s2.num = s.num /\ s2.dirty = s.dirty
          /\ Adds(s.down, s2.down, Msg("joindenied"), Only1(k, lk))
       \/ /\ s2.ctxs = Append(s.ctxs, [conn |-> k, named |-> FALSE])
          /\ s2.dirty = TRUE
          /\ Adds(s.down, s2.down, Msg("joinaccepted"), Only1(k, lk))
    /\ s2.ousted \in {s.ousted, s.ousted \ {k}}

AfterLeave(s, s2, k) ==
    /\ IsHost(s2) /\ s2.down = s.down
    /\ \/ s2 = s /\ OfGuid(s.ctxs, k[1]) = {}
       \/ /\ s2.dirty = TRUE
          /\ \E i \in 1 .. Len(s.ctxs) :
                /\ s.ctxs[i].conn[1] = k[1]
                /\ Fewer(s.ctxs, s2.ctxs, {s.ctxs[i].conn})
                /\ s2.ousted = s.ousted \cup Newer(s.ctxs[i], k)

AfterAttr(s, s2) ==
    /\ IsHost(s2) /\ s2.down = s.down /\ s2.dirty = TRUE /\ s2.ousted = s.ousted
    /\ Fewer(s.ctxs, s2.ctxs, {})
    /\ \A j : At(s2.ctxs, j) = At(s.ctxs, j)

LEMMA HandledQuery ==
    ASSUME NEW s \in HostState, NEW k \in Conns, NEW m, NEW lk, NEW s2,
           s2 = HandleMsg(s, k, "queryserverattrs", m, lk)
    PROVE  /\ s2 \in HostState
           /\ s2.ctxs = s.ctxs /\ s2.num = s.num /\ s2.dirty = s.dirty
           /\ s2.ousted = s.ousted
           /\ Adds(s.down, s2.down, Attrs(s.num), Only1(k, lk))
<1> DEFINE e == Send(s.down, k, Attrs(s.num), lk)
<1>1. s.down \in [Conns -> Seq(ClientMsg)] /\ s.num \in 0..MaxClients
  BY DEF HostState
<1>2. Adds(s.down, e, Attrs(s.num), Only1(k, lk))
  BY <1>1, SendAdds, Messages DEF Only1
<1>3. s2 = [s EXCEPT !.down = e]
  BY DEF HandleMsg
<1> HIDE DEF e
<1>4. e \in [Conns -> Seq(ClientMsg)]
  BY <1>2 DEF Adds
<1>5. QED
  BY <1>2, <1>3, <1>4 DEF HostState

LEMMA HandledJoin ==
    ASSUME NEW s, IsHost(s), NEW k \in Conns,
           NEW m \in 1..MaxClients, NEW lk, NEW s2,
           s2 = HandleMsg(s, k, "joinsession", m, lk)
    PROVE  AfterJoin(s, s2, k, lk)
<1>1. /\ s.down \in [Conns -> Seq(ClientMsg)] /\ s.num \in 0..MaxClients
      /\ s.ctxs \in Seq(Context) /\ Len(s.ctxs) \in Nat
      /\ s \in HostState /\ s.num = Len(s.ctxs)
  BY DEF HostState, IsHost
<1>2. s2 = HandleJoin(s, k, m, lk)
  BY DEF HandleMsg
<1>3. Msg("joindenied") \in ClientMsg /\ Msg("joinaccepted") \in ClientMsg
  BY Messages DEF ToClient
<1>4. CASE Len(s.ctxs) >= m
  <2> DEFINE e == Send(s.down, k, Msg("joindenied"), lk)
  <2>1. Adds(s.down, e, Msg("joindenied"), Only1(k, lk))
    BY <1>1, <1>3, SendAdds DEF Only1
  <2>2. s2 = [s EXCEPT !.down = e]
    BY <1>2, <1>4 DEF HandleJoin
  <2> HIDE DEF e
  <2>3. e \in [Conns -> Seq(ClientMsg)]
    BY <2>1 DEF Adds
  <2>4. QED
    BY <1>1, <2>1, <2>2, <2>3 DEF HostState, IsHost, AfterJoin
<1>5. CASE ~(Len(s.ctxs) >= m)
  <2> DEFINE e == Send(s.down, k, Msg("joinaccepted"), lk)
             cs == Append(s.ctxs, [conn |-> k, named |-> FALSE])
             us == s.ousted \ {k}
             s1 == [s EXCEPT !.ctxs = cs, !.ousted = us, !.down = e]
  <2>1. Adds(s.down, e, Msg("joinaccepted"), Only1(k, lk))
    BY <1>1, <1>3, SendAdds DEF Only1
  <2>2. s2 = Update(s1)
    BY <1>2, <1>5 DEF HandleJoin
  <2>3. cs \in Seq(Context) /\ Len(cs) = Len(s.ctxs) + 1
    BY <1>1, AppendedContext DEF Joining
  <2>9. us \in SUBSET Second
    BY <1>1 DEF HostState
  <2> HIDE DEF e, cs, us
  <2>4. e \in [Conns -> Seq(ClientMsg)]
    BY <2>1 DEF Adds
  <2>5. s2 = [s EXCEPT !.ctxs = cs, !.ousted = us, !.down = e, !.num = Len(cs), !.dirty = TRUE]
    BY <2>2 DEF Update, HostState
  <2>6. Len(cs) \in 0..MaxClients
    BY <1>1, <1>5, <2>3, Constants
  <2>7. /\ s2 \in HostState /\ s2.ctxs = cs /\ s2.num = Len(cs) /\ s2.dirty = TRUE
        /\ s2.down = e /\ s2.ousted = us
    BY <1>1, <2>3, <2>4, <2>5, <2>6, <2>9 DEF HostState
  <2>8. QED
    BY <2>1, <2>7 DEF cs, us, IsHost, AfterJoin
<1>6. QED
  BY <1>4, <1>5

LEMMA FirstOfGuid ==
    ASSUME NEW cs \in Seq(Context), NEW g, OfGuid(cs, g) # {}
    PROVE  Min(OfGuid(cs, g)) \in 1 .. Len(cs) /\ cs[Min(OfGuid(cs, g))].conn[1] = g
<1>1. OfGuid(cs, g) \in SUBSET Nat /\ OfGuid(cs, g) \subseteq 1 .. Len(cs)
  BY DEF OfGuid
<1>2. Min(OfGuid(cs, g)) \in OfGuid(cs, g)
  BY <1>1, LeastNumber
<1>3. QED
  BY <1>1, <1>2 DEF OfGuid, GuidOf

LEMMA HandledLeave ==
    ASSUME NEW s, IsHost(s), NEW k \in Conns, NEW m, NEW lk, NEW s2,
           s2 = HandleMsg(s, k, "leavesession", m, lk)
    PROVE  AfterLeave(s, s2, k)
<1> DEFINE I == OfGuid(s.ctxs, k[1])
<1>1. /\ s.ctxs \in Seq(Context) /\ s.num \in 0..MaxClients
      /\ s \in HostState /\ s.num = Len(s.ctxs)
  BY DEF HostState, IsHost
<1>2. s2 = IF I = {} THEN s
           ELSE Update([s EXCEPT !.ctxs = RemoveAt(@, Min(I)),
                                 !.ousted = @ \cup Newer(s.ctxs[Min(I)], k)])
  BY DEF HandleMsg, HandleLeave
<1>3. CASE I = {}
  BY <1>2, <1>3 DEF AfterLeave
<1>4. CASE I # {}
  <2> DEFINE i == Min(I)
             cs == RemoveAt(s.ctxs, i)
             us == s.ousted \cup Newer(s.ctxs[i], k)
  <2>1. i \in 1 .. Len(s.ctxs) /\ s.ctxs[i].conn[1] = k[1]
    BY <1>1, <1>4, FirstOfGuid
  <2>2. s2 = Update([s EXCEPT !.ctxs = cs, !.ousted = us])
    BY <1>2, <1>4
  <2> HIDE DEF i
  <2>3. us \in SUBSET Second
    <3>1. s.ctxs[i].conn \in Conns
      <4>1. s.ctxs[i] \in Context
        BY <1>1, <2>1
      <4>2. QED
        BY <4>1 DEF Context
    <3>2. s.ousted \in SUBSET Second
      BY <1>1 DEF HostState
    <3>3. \A j \in Newer(s.ctxs[i], k) : j \in Conns /\ j[3] > k[3]
      BY <3>1 DEF Newer
    <3>4. \A j \in Conns : j[3] > k[3] => j[3] > 1
      BY ConnOrder
    <3>5. QED
      BY <3>2, <3>3, <3>4 DEF Second
  <2>4. Fewer(s.ctxs, cs, {s.ctxs[i].conn})
    BY <1>1, <2>1, RemovedContext
  <2>5. cs \in Seq(Context) /\ Len(cs) \in 0..MaxClients
    <3>1. cs \in Seq(Context) /\ Len(cs) <= Len(s.ctxs)
      BY <2>4 DEF Fewer
    <3> HIDE DEF cs
    <3>2. QED
      BY <1>1, <3>1, Constants
  <2> HIDE DEF cs, us
  <2>6. s2 = [s EXCEPT !.ctxs = cs, !.ousted = us, !.num = Len(cs), !.dirty = TRUE]
    BY <2>2 DEF Update, HostState
  <2>7. /\ s2 \in HostState /\ s2.ctxs = cs /\ s2.num = Len(cs) /\ s2.dirty = TRUE
        /\ s2.down = s.down /\ s2.ousted = us
    BY <1>1, <2>5, <2>6, <2>3 DEF HostState
  <2>8. QED
    BY <2>1, <2>4, <2>7 DEF us, IsHost, AfterLeave
<1>5. QED
  BY <1>3, <1>4

LEMMA HandledAttr ==
    ASSUME NEW s, IsHost(s), NEW k \in Conns, NEW m, NEW lk, NEW s2,
           s2 = HandleMsg(s, k, "clientattr", m, lk)
    PROVE  AfterAttr(s, s2)
<1> DEFINE I == OfGuid(s.ctxs, k[1])
           cs == IF I = {} THEN s.ctxs ELSE [s.ctxs EXCEPT ![Min(I)].named = TRUE]
<1>1. /\ s.ctxs \in Seq(Context) /\ s.num \in 0..MaxClients
      /\ s \in HostState /\ s.num = Len(s.ctxs)
  BY DEF HostState, IsHost
<1>2. s2 = [s EXCEPT !.dirty = TRUE, !.ctxs = cs]
  BY DEF HandleMsg, HandleAttr
<1>3. /\ Fewer(s.ctxs, cs, {}) /\ Len(cs) = Len(s.ctxs)
      /\ \A j : At(cs, j) = At(s.ctxs, j)
  <2>1. CASE I = {}
    <3>1. cs = s.ctxs
      BY <2>1
    <3>2. Fewer(s.ctxs, s.ctxs, {})
      BY <1>1 DEF Fewer
    <3>3. QED
      BY <3>1, <3>2
  <2>2. CASE I # {}
    <3> DEFINE i == Min(I)
    <3>1. i \in 1 .. Len(s.ctxs)
      BY <1>1, <2>2, FirstOfGuid
    <3>2. cs = [s.ctxs EXCEPT ![i].named = TRUE]
      BY <2>2
    <3> HIDE DEF i, cs
    <3>3. QED
      BY <1>1, <3>1, <3>2, NamedContext
  <2>3. QED
    BY <2>1, <2>2
<1> HIDE DEF cs, I
<1>4. cs \in Seq(Context)
  BY <1>3 DEF Fewer
<1>5. /\ s2 \in HostState /\ s2.ctxs = cs /\ s2.num = s.num /\ s2.dirty = TRUE
      /\ s2.down = s.down /\ s2.ousted = s.ousted
  BY <1>1, <1>2, <1>4 DEF HostState
<1>6. QED
  BY <1>1, <1>3, <1>5 DEF IsHost, AfterAttr

-----------------------------------------------------------------------------
(* One message leaves the sides in agreement.                              *)
LEMMA FewerFacts ==
    ASSUME NEW cs \in Seq(Context), NEW cs2, NEW K, Fewer(cs, cs2, K), NEW k \in Conns
    PROVE  /\ Lone(cs, k) => Lone(cs2, k)
           /\ At(cs, k) = {} => At(cs2, k) = {}
           /\ k \notin K => (At(cs, k) = {} <=> At(cs2, k) = {})
<1>1. /\ \A j \in DOMAIN cs2 : \E i \in DOMAIN cs : cs2[j].conn = cs[i].conn
      /\ Lone(cs, k) => Lone(cs2, k)
      /\ k \notin K /\ At(cs, k) # {} => At(cs2, k) # {}
  BY DEF Fewer
<1>2. At(cs, k) = {} => At(cs2, k) = {}
  BY <1>1 DEF At
<1>3. QED
  BY <1>1, <1>2

LEMMA PlacedFewer ==
    ASSUME NEW x, NEW cs, NEW cs2, NEW K, NEW lk, Fewer(cs, cs2, K), Placed(x, cs, lk)
    PROVE  Placed(x, cs2, lk)
<1>1. \A j \in DOMAIN cs2 : \E i \in DOMAIN cs : cs2[j].conn = cs[i].conn
  BY DEF Fewer
<1>2. ASSUME NEW j \in DOMAIN cs2
      PROVE  LET k == cs2[j].conn
                 r == servers[k[1]][x]
             IN /\ k[2] = x /\ k[3] <= r.gen
                /\ r.open /\ k[3] = r.gen => k \in lk
  <2>1. PICK i \in DOMAIN cs : cs2[j].conn = cs[i].conn
    BY <1>1
  <2>2. QED
    BY <2>1 DEF Placed
<1>3. QED
  BY <1>2 DEF Placed

(* Added messages of another kind keep what a list says.                   *)
Added(q, q2, m, said, r) ==
    /\ q2 \in Seq(ClientMsg)
    /\ ~said => q2 = q
    /\ m.type \notin Answers => JoinedAfter(r, q2) = JoinedAfter(r, q)
    /\ said /\ m.type \in Answers => JoinedAfter(r, q2) = (m.type = "joinaccepted")
    /\ m.type # "serverattr" => ViewAfter(r, q2) = ViewAfter(r, q)
    /\ said /\ m.type = "serverattr" => ViewAfter(r, q2) = m.num
    /\ \A T : m.type \notin T => (HasType(q2, T) <=> HasType(q, T))

LEMMA AddedFacts ==
    ASSUME NEW d \in [Conns -> Seq(ClientMsg)], NEW e, NEW m, NEW J, Adds(d, e, m, J),
           NEW j \in Conns, NEW r
    PROVE  Added(d[j], e[j], m, j \in J, r)
<1>1. /\ More(d[j], e[j], m) /\ e \in [Conns -> Seq(ClientMsg)]
      /\ j \in J => Len(e[j]) > Len(d[j])
      /\ j \notin J => e[j] = d[j]
  BY DEF Adds
<1>2. d[j] \in Seq(ClientMsg)
  OBVIOUS
<1> DEFINE q == d[j]
           q2 == e[j]
<1>3. /\ JoinedAfter(r, q2) = IF Len(q2) > Len(q) /\ m.type \in Answers
                              THEN m.type = "joinaccepted" ELSE JoinedAfter(r, q)
      /\ ViewAfter(r, q2) = IF Len(q2) > Len(q) /\ m.type = "serverattr"
                            THEN m.num ELSE ViewAfter(r, q)
      /\ \A T : HasType(q2, T) <=> HasType(q, T) \/ (Len(q2) > Len(q) /\ m.type \in T)
  BY <1>1, <1>2, AfterMore
<1> HIDE DEF q, q2
<1>4. /\ m.type \notin Answers => JoinedAfter(r, q2) = JoinedAfter(r, q)
      /\ m.type # "serverattr" => ViewAfter(r, q2) = ViewAfter(r, q)
      /\ \A T : m.type \notin T => (HasType(q2, T) <=> HasType(q, T))
  BY <1>3
<1>5. /\ j \in J /\ m.type \in Answers => JoinedAfter(r, q2) = (m.type = "joinaccepted")
      /\ j \in J /\ m.type = "serverattr" => ViewAfter(r, q2) = m.num
  BY <1>1, <1>3 DEF q, q2
<1>6. QED
  BY <1>1, <1>4, <1>5 DEF q, q2, Added

(* The last connection keeps its context, unless the host takes it for     *)
(* that of an older one.                                                   *)
Keeps(s, s2, k) == At(s.ctxs, k) # {} \/ k \in s.ousted => At(s2.ctxs, k) # {} \/ k \in s2.ousted

(* Nothing happens to the contexts of k.                                   *)
Alike(s, s2, k) ==
    /\ Lone(s.ctxs, k) => Lone(s2.ctxs, k)
    /\ At(s.ctxs, k) = {} <=> At(s2.ctxs, k) = {}

(* A message of another connection.                                        *)
LEMMA FitsAside ==
    ASSUME NEW c \in Clients, NEW x \in Sessions, NEW s, NEW u, NEW s2, NEW u2,
           Fits(c, x, s, u),
           s2.down[Conn(c, x)] = s.down[Conn(c, x)],
           s2.dirty \/ (s2.num = s.num /\ ~s.dirty),
           c \notin Hasty =>
              /\ Keeps(s, s2, Conn(c, x))
              /\ servers[c][x].gen = 1 => Alike(s, s2, Conn(c, x)),
           u2[Conn(c, x)] = u[Conn(c, x)]
    PROVE  Fits(c, x, s2, u2)
<1> DEFINE k == Conn(c, x)
           r == servers[c][x]
<1> HIDE DEF k, r
<1>1. /\ Informed(r, s, u[k], s.down[k])
      /\ c \notin Hasty => Side(k, r, s.ctxs, s.ousted, u[k], s.down[k])
  BY DEF Fits, k, r
<1>2. /\ s2.down[k] = s.down[k] /\ u2[k] = u[k]
      /\ c \notin Hasty => Keeps(s, s2, k) /\ (r.gen = 1 => Alike(s, s2, k))
  BY DEF k, r
<1>3. Informed(r, s2, u2[k], s2.down[k])
  BY <1>1, <1>2 DEF Informed
<1>4. c \notin Hasty => Side(k, r, s2.ctxs, s2.ousted, u2[k], s2.down[k])
  BY <1>1, <1>2 DEF Side, Keeps, Alike
<1>5. QED
  BY <1>3, <1>4 DEF Fits, k, r

(* What a message of connection k changes.                                 *)
Handled(x, s, s2, k, lk) ==
    /\ IsHost(s2)
    /\ Placed(x, s2.ctxs, lk)
    /\ \A j \in Conns :
          /\ j # k \/ ~Hears(j, lk) => s2.down[j] = s.down[j]
          /\ HasType(s2.down[j], {"start"}) <=> HasType(s.down[j], {"start"})
          /\ j[1] # k[1] => Alike(s, s2, j)
          /\ j[1] # k[1] \/ k[3] < j[3] => Keeps(s, s2, j)
    /\ s2.dirty \/ (s2.num = s.num /\ ~s.dirty)

LEMMA MessageHandled ==
    ASSUME NEW x \in Sessions, NEW lk, NEW s, IsHost(s),
           Placed(x, s.ctxs, lk), NEW k \in Conns, k[2] = x, k[3] <= servers[k[1]][x].gen,
           servers[k[1]][x].open /\ k[3] = servers[k[1]][x].gen => k \in lk,
           NEW t \in ToServer, NEW m \in 1..MaxClients, NEW s2, s2 = HandleMsg(s, k, t, m, lk)
    PROVE  Handled(x, s, s2, k, lk)
<1>1. /\ s.down \in [Conns -> Seq(ClientMsg)] /\ s.ctxs \in Seq(Context) /\ s.num \in 0..MaxClients
      /\ s \in HostState /\ s.num = Len(s.ctxs)
  BY DEF HostState, IsHost
<1>0. IsHost(s) /\ k \in Conns /\ m \in 1..MaxClients
  OBVIOUS
<1>2. ASSUME NEW ms, ms \in ClientMsg, ms.type # "start",
             Adds(s.down, s2.down, ms, Only1(k, lk)), NEW j \in Conns
      PROVE  /\ j # k \/ ~Hears(j, lk) => s2.down[j] = s.down[j]
             /\ HasType(s2.down[j], {"start"}) <=> HasType(s.down[j], {"start"})
  <2>1. j \notin Only1(k, lk) => s2.down[j] = s.down[j]
    BY <1>2 DEF Adds
  <2>2. Added(s.down[j], s2.down[j], ms, j \in Only1(k, lk), s)
    BY <1>1, <1>2, AddedFacts
  <2>3. QED
    BY <1>2, <2>1, <2>2 DEF Only1, Added
<1>3. ASSUME NEW i \in 1 .. Len(s.ctxs), s.ctxs[i].conn[1] = k[1],
             Fewer(s.ctxs, s2.ctxs, {s.ctxs[i].conn}),
             s2.ousted = s.ousted \cup Newer(s.ctxs[i], k),
             NEW j \in Conns
      PROVE  /\ j[1] # k[1] => Alike(s, s2, j)
             /\ j[1] # k[1] \/ k[3] < j[3] => Keeps(s, s2, j)
  <2>1. j[1] # k[1] => j \notin {s.ctxs[i].conn}
    BY <1>3
  <2>2. /\ Lone(s.ctxs, j) => Lone(s2.ctxs, j)
        /\ At(s.ctxs, j) = {} => At(s2.ctxs, j) = {}
        /\ j \notin {s.ctxs[i].conn} => (At(s.ctxs, j) = {} <=> At(s2.ctxs, j) = {})
    BY ONLY <1>1, <1>3, FewerFacts
  <2>3. k[3] < j[3] /\ j \in {s.ctxs[i].conn} => j \in s2.ousted
    <3>1. k[3] < j[3] => j[3] > k[3]
      BY ConnOrder
    <3>2. QED
      BY <1>3, <3>1 DEF Newer
  <2>4. s.ousted \subseteq s2.ousted
    BY <1>3
  <2>5. QED
    BY <2>1, <2>2, <2>3, <2>4 DEF Alike, Keeps
<1>4. CASE t = "queryserverattrs"
  <2>0. s2 = HandleMsg(s, k, "queryserverattrs", m, lk)
    BY <1>4
  <2>1. /\ s2 \in HostState
        /\ s2.ctxs = s.ctxs /\ s2.num = s.num /\ s2.dirty = s.dirty
        /\ s2.ousted = s.ousted
        /\ Adds(s.down, s2.down, Attrs(s.num), Only1(k, lk))
    BY ONLY <1>0, <1>1, <2>0, HandledQuery
  <2>2. Attrs(s.num) \in ClientMsg /\ Attrs(s.num).type # "start"
    BY <1>1, Messages
  <2>3. QED
    BY <1>1, <1>2, <2>1, <2>2 DEF Handled, IsHost, Alike, Keeps
<1>5. CASE t = "joinsession"
  <2>0. s2 = HandleMsg(s, k, "joinsession", m, lk)
    BY <1>5
  <2>9. AfterJoin(s, s2, k, lk)
    BY <2>0, HandledJoin
  <2>1. /\ IsHost(s2)
        /\ \/ /\ s2.ctxs = s.ctxs /\ s2.num = s.num /\ s2.dirty = s.dirty
              /\ Adds(s.down, s2.down, Msg("joindenied"), Only1(k, lk))
           \/ /\ s2.ctxs = Append(s.ctxs, [conn |-> k, named |-> FALSE])
              /\ s2.dirty = TRUE
              /\ Adds(s.down, s2.down, Msg("joinaccepted"), Only1(k, lk))
        /\ \A j \in Conns : j # k => (j \in s.ousted <=> j \in s2.ousted)
    BY <2>9 DEF AfterJoin
  <2>8. \A j \in Conns : j[1] # k[1] \/ k[3] < j[3] => j # k
    BY ConnOrder
  <2>2. /\ Msg("joindenied") \in ClientMsg /\ Msg("joindenied").type # "start"
        /\ Msg("joinaccepted") \in ClientMsg /\ Msg("joinaccepted").type # "start"
    BY Messages DEF ToClient
  <2>3. CASE /\ s2.ctxs = s.ctxs /\ s2.num = s.num /\ s2.dirty = s.dirty
             /\ Adds(s.down, s2.down, Msg("joindenied"), Only1(k, lk))
    BY <1>2, <2>1, <2>2, <2>3, <2>8 DEF Handled, Alike, Keeps
  <2>4. CASE /\ s2.ctxs = Append(s.ctxs, [conn |-> k, named |-> FALSE])
             /\ s2.dirty = TRUE
             /\ Adds(s.down, s2.down, Msg("joinaccepted"), Only1(k, lk))
    <3>1. /\ \A j \in DOMAIN s2.ctxs : \/ s2.ctxs[j].conn = k
                                       \/ \E i \in DOMAIN s.ctxs : s2.ctxs[j].conn = s.ctxs[i].conn
          /\ \A j \in Conns : j # k => At(s2.ctxs, j) = At(s.ctxs, j)
      <4>1. Joining(s.ctxs, s2.ctxs, k)
        BY <1>1, <2>4, AppendedContext
      <4>2. QED
        BY <4>1 DEF Joining
    <3>2. Placed(x, s2.ctxs, lk)
      BY <3>1 DEF Placed
    <3>3. \A j \in Conns : j # k => Alike(s, s2, j) /\ Keeps(s, s2, j)
      BY <2>1, <3>1 DEF Lone, Alike, Keeps
    <3>4. QED
      BY <1>2, <2>1, <2>2, <2>4, <2>8, <3>2, <3>3 DEF Handled
  <2>5. QED
    BY <2>1, <2>3, <2>4
<1>6. CASE t = "leavesession"
  <2>0. s2 = HandleMsg(s, k, "leavesession", m, lk)
    BY <1>6
  <2>9. AfterLeave(s, s2, k)
    BY <2>0, HandledLeave
  <2>1. /\ IsHost(s2) /\ s2.down = s.down
        /\ \/ s2 = s /\ OfGuid(s.ctxs, k[1]) = {}
           \/ /\ s2.dirty = TRUE
              /\ \E i \in 1 .. Len(s.ctxs) :
                    /\ s.ctxs[i].conn[1] = k[1]
                    /\ Fewer(s.ctxs, s2.ctxs, {s.ctxs[i].conn})
                    /\ s2.ousted = s.ousted \cup Newer(s.ctxs[i], k)
    BY <2>9 DEF AfterLeave
  <2>2. CASE s2 = s
    BY <2>1, <2>2 DEF Handled, HostState, Alike, Keeps
  <2>3. ASSUME s2.dirty = TRUE, NEW i \in 1 .. Len(s.ctxs), s.ctxs[i].conn[1] = k[1],
               Fewer(s.ctxs, s2.ctxs, {s.ctxs[i].conn}),
               s2.ousted = s.ousted \cup Newer(s.ctxs[i], k)
        PROVE  Handled(x, s, s2, k, lk)
    <3>1. Placed(x, s2.ctxs, lk)
      BY <2>3, PlacedFewer
    <3>2. \A j \in Conns : /\ j[1] # k[1] => Alike(s, s2, j)
                           /\ j[1] # k[1] \/ k[3] < j[3] => Keeps(s, s2, j)
      BY <1>3, <2>3
    <3>3. QED
      BY <2>1, <2>3, <3>1, <3>2 DEF Handled
  <2>4. QED
    BY <2>1, <2>2, <2>3
<1>7. CASE t = "clientattr"
  <2>0. s2 = HandleMsg(s, k, "clientattr", m, lk)
    BY <1>7
  <2>9. AfterAttr(s, s2)
    BY <2>0, HandledAttr
  <2>1. /\ IsHost(s2) /\ s2.down = s.down
        /\ s2.dirty = TRUE /\ s2.ousted = s.ousted
        /\ Fewer(s.ctxs, s2.ctxs, {})
        /\ \A j : At(s2.ctxs, j) = At(s.ctxs, j)
    BY <2>9 DEF AfterAttr
  <2>2. Placed(x, s2.ctxs, lk)
    BY <2>1, PlacedFewer
  <2>3. QED
    BY <2>1, <2>2 DEF Handled, Lone, Alike, Keeps
<1>8. CASE t \notin {"queryserverattrs", "joinsession", "leavesession", "clientattr"}
  <2>1. s2 = s
    BY <1>8 DEF HandleMsg
  <2>2. QED
    BY <1>1, <2>1 DEF Handled, HostState, Alike, Keeps
<1>9. QED
  BY <1>4, <1>5, <1>6, <1>7, <1>8

(* ... and for the client of k, when k is its last connection.             *)
LEMMA MessageFits ==
    ASSUME NEW s, IsHost(s), NEW lk,
           NEW k \in Conns, Hears(k, lk), NEW r, r.joined \in BOOLEAN,
           r.gen = 1 => \A j \in DOMAIN s.ctxs : s.ctxs[j].conn[1] = k[1] => s.ctxs[j].conn = k,
           NEW u \in Seq(ToServer), u # <<>>, NEW m \in 1..MaxClients,
           NEW s2, s2 = HandleMsg(s, k, Head(u), m, lk),
           NEW patient \in BOOLEAN,
           Informed(r, s, u, s.down[k]),
           patient => Side(k, r, s.ctxs, s.ousted, u, s.down[k])
    PROVE  /\ Informed(r, s2, Tail(u), s2.down[k])
           /\ patient => Side(k, r, s2.ctxs, s2.ousted, Tail(u), s2.down[k])
<1> DEFINE t == Head(u)
           v == Tail(u)
<1>1. /\ v \in Seq(ToServer) /\ t \in ToServer
      /\ \A y : Contains(u, y) <=> y = t \/ Contains(v, y)
  BY RestOf
<1>2. patient => /\ Ordered(v)
                 /\ t = "leavesession" => ~Leaving(v)
                 /\ t = "joinsession" => ~Entering(v) /\ ~Leaving(v)
  BY OrderedRest DEF Side
<1>3. /\ s.down \in [Conns -> Seq(ClientMsg)] /\ s.ctxs \in Seq(Context) /\ s.num \in 0..MaxClients
      /\ s \in HostState
  BY DEF HostState, IsHost
<1>0. IsHost(s) /\ k \in Conns /\ m \in 1..MaxClients
  OBVIOUS
<1>4. k \in Only1(k, lk)
  BY DEF Only1
<1>5. s2 = HandleMsg(s, k, t, m, lk)
  OBVIOUS
<1> HIDE DEF t, v
<1>6. Entering(u) <=> t = "joinsession" \/ Entering(v)
  BY <1>1 DEF Entering
<1>7. Leaving(u) <=> t = "leavesession" \/ Leaving(v)
  BY <1>1 DEF Leaving
<1>8. Contains(u, "queryserverattrs") <=> t = "queryserverattrs" \/ Contains(v, "queryserverattrs")
  BY <1>1
<1> DEFINE d == s.down[k]
           d2 == s2.down[k]
<1>9. ASSUME NEW ms \in ClientMsg, Adds(s.down, s2.down, ms, Only1(k, lk))
      PROVE  /\ ms.type \notin Answers => JoinedAfter(r, d2) = JoinedAfter(r, d)
             /\ ms.type \in Answers => JoinedAfter(r, d2) = (ms.type = "joinaccepted")
             /\ ms.type # "serverattr" => ViewAfter(r, d2) = ViewAfter(r, d)
             /\ ms.type = "serverattr" => ViewAfter(r, d2) = ms.num
             /\ \A T : ms.type \notin T => (HasType(d2, T) <=> HasType(d, T))
  <2>1. Added(d, d2, ms, k \in Only1(k, lk), r)
    BY <1>3, <1>9, AddedFacts
  <2>2. QED
    BY <1>4, <2>1 DEF Added
<1>10. Informed(r, s, u, d) /\ (patient => Side(k, r, s.ctxs, s.ousted, u, d))
  OBVIOUS
<1>11. CASE t = "queryserverattrs"
  <2>0. s2 = HandleMsg(s, k, "queryserverattrs", m, lk)
    BY <1>5, <1>11
  <2>1. /\ s2.ctxs = s.ctxs /\ s2.num = s.num /\ s2.dirty = s.dirty /\ s2.ousted = s.ousted
        /\ Adds(s.down, s2.down, Attrs(s.num), Only1(k, lk))
    BY ONLY <1>0, <1>3, <2>0, HandledQuery
  <2>2. Attrs(s.num) \in ClientMsg /\ Attrs(s.num).type = "serverattr" /\ Attrs(s.num).num = s.num
    BY <1>3, Messages
  <2> HIDE DEF d, d2
  <2>3. /\ JoinedAfter(r, d2) = JoinedAfter(r, d) /\ ViewAfter(r, d2) = s.num
        /\ \A T : "serverattr" \notin T => (HasType(d2, T) <=> HasType(d, T))
    BY <1>9, <2>1, <2>2 DEF Answers
  <2>4. Informed(r, s2, v, d2)
    BY <2>1, <2>3 DEF Informed
  <2>5. patient => Side(k, r, s2.ctxs, s2.ousted, v, d2)
    BY <1>2, <1>6, <1>7, <1>10, <1>11, <2>1, <2>3 DEF Side
  <2>6. QED
    BY <2>4, <2>5 DEF v, d2
<1>12. CASE t = "joinsession"
  <2>0. s2 = HandleMsg(s, k, "joinsession", m, lk)
    BY <1>5, <1>12
  <2>9. AfterJoin(s, s2, k, lk)
    BY <2>0, HandledJoin
  <2>1. /\ \/ /\ s2.ctxs = s.ctxs /\ s2.num = s.num /\ s2.dirty = s.dirty
              /\ Adds(s.down, s2.down, Msg("joindenied"), Only1(k, lk))
           \/ /\ s2.ctxs = Append(s.ctxs, [conn |-> k, named |-> FALSE])
              /\ s2.dirty = TRUE
              /\ Adds(s.down, s2.down, Msg("joinaccepted"), Only1(k, lk))
    BY <2>9 DEF AfterJoin
  <2>2. /\ Msg("joindenied") \in ClientMsg /\ Msg("joindenied").type = "joindenied"
        /\ Msg("joinaccepted") \in ClientMsg /\ Msg("joinaccepted").type = "joinaccepted"
    BY Messages DEF ToClient
  <2> HIDE DEF d, d2
  <2>3. CASE /\ s2.ctxs = s.ctxs /\ s2.num = s.num /\ s2.dirty = s.dirty
             /\ Adds(s.down, s2.down, Msg("joindenied"), Only1(k, lk))
    <3>1. /\ JoinedAfter(r, d2) = FALSE /\ ViewAfter(r, d2) = ViewAfter(r, d)
      BY <1>9, <2>2, <2>3 DEF Answers
    <3>2. Informed(r, s2, v, d2)
      BY <1>8, <1>10, <1>12, <2>3, <3>1 DEF Informed
    <3>3. patient => Side(k, r, s2.ctxs, s2.ousted, v, d2)
      BY <1>2, <1>6, <1>7, <1>10, <1>12, <2>3, <3>1 DEF Side
    <3>4. QED
      BY <3>2, <3>3 DEF v, d2
  <2>4. CASE /\ s2.ctxs = Append(s.ctxs, [conn |-> k, named |-> FALSE])
             /\ s2.dirty = TRUE
             /\ Adds(s.down, s2.down, Msg("joinaccepted"), Only1(k, lk))
    <3>1. JoinedAfter(r, d2) = TRUE
      BY <1>9, <2>2, <2>4 DEF Answers
    <3>2. Informed(r, s2, v, d2)
      BY <2>4 DEF Informed
    <3>3. At(s2.ctxs, k) # {} /\ (At(s.ctxs, k) = {} => Lone(s2.ctxs, k))
      <4>1. Joining(s.ctxs, s2.ctxs, k)
        BY <1>3, <2>4, AppendedContext
      <4>2. QED
        BY <4>1 DEF Joining
    <3>4. patient => Side(k, r, s2.ctxs, s2.ousted, v, d2)
      <4>1. patient /\ r.gen = 1 => ~Leaving(u) /\ Entering(u)
        BY <1>2, <1>6, <1>7, <1>12
      <4>2. QED
        BY <1>2, <1>6, <1>7, <1>10, <1>12, <3>1, <3>3, <4>1 DEF Side
    <3>5. QED
      BY <3>2, <3>4 DEF v, d2
  <2>5. QED
    BY <2>1, <2>3, <2>4
<1>13. CASE t = "leavesession"
  <2>0. s2 = HandleMsg(s, k, "leavesession", m, lk)
    BY <1>5, <1>13
  <2>9. AfterLeave(s, s2, k)
    BY <2>0, HandledLeave
  <2>1. /\ s2.down = s.down
        /\ \/ s2 = s /\ OfGuid(s.ctxs, k[1]) = {}
           \/ /\ s2.dirty = TRUE
              /\ \E i \in 1 .. Len(s.ctxs) :
                    /\ s.ctxs[i].conn[1] = k[1]
                    /\ Fewer(s.ctxs, s2.ctxs, {s.ctxs[i].conn})
    BY <2>9 DEF AfterLeave
  <2>2. d2 = d
    BY <2>1
  <2> HIDE DEF d, d2
  <2>3. Informed(r, s2, v, d2)
    BY <1>8, <1>10, <1>13, <2>1, <2>2 DEF Informed
  <2>4. r.gen = 1 => /\ Lone(s.ctxs, k) => Lone(s2.ctxs, k)
                     /\ Lone(s.ctxs, k) => At(s2.ctxs, k) = {}
    <3>1. CASE s2 = s /\ OfGuid(s.ctxs, k[1]) = {}
      <4>1. At(s.ctxs, k) = {}
        BY <3>1 DEF At, OfGuid, GuidOf
      <4>2. QED
        BY <3>1, <4>1
    <3>2. ASSUME r.gen = 1, NEW i \in 1 .. Len(s.ctxs), s.ctxs[i].conn[1] = k[1],
                 Fewer(s.ctxs, s2.ctxs, {s.ctxs[i].conn})
          PROVE  /\ Lone(s.ctxs, k) => Lone(s2.ctxs, k)
                 /\ Lone(s.ctxs, k) => At(s2.ctxs, k) = {}
      <4>1. s.ctxs[i].conn = k
        BY <1>3, <3>2
      <4>2. QED
        BY <3>2, <4>1 DEF Fewer
    <3>3. QED
      BY <2>1, <3>1, <3>2
  <2>5. patient => Side(k, r, s2.ctxs, s2.ousted, v, d2)
    BY <1>2, <1>6, <1>7, <1>10, <1>13, <2>2, <2>4 DEF Side
  <2>6. QED
    BY <2>3, <2>5 DEF v, d2
<1>14. CASE t = "clientattr"
  <2>0. s2 = HandleMsg(s, k, "clientattr", m, lk)
    BY <1>5, <1>14
  <2>9. AfterAttr(s, s2)
    BY <2>0, HandledAttr
  <2>1. /\ s2.down = s.down /\ s2.dirty = TRUE /\ s2.ousted = s.ousted
        /\ \A j : At(s2.ctxs, j) = At(s.ctxs, j)
    BY <2>9 DEF AfterAttr
  <2>2. d2 = d
    BY <2>1
  <2> HIDE DEF d, d2
  <2>3. Informed(r, s2, v, d2)
    BY <2>1 DEF Informed
  <2>4. patient => Side(k, r, s2.ctxs, s2.ousted, v, d2)
    BY <1>2, <1>6, <1>7, <1>10, <1>14, <2>1, <2>2 DEF Side, Lone
  <2>5. QED
    BY <2>3, <2>4 DEF v, d2
<1>15. CASE t \notin {"queryserverattrs", "joinsession", "leavesession", "clientattr"}
  <2>1. s2 = s
    BY <1>5, <1>15 DEF HandleMsg
  <2>2. d2 = d
    BY <2>1
  <2> HIDE DEF d, d2
  <2>3. Informed(r, s2, v, d2)
    BY <1>8, <1>10, <1>15, <2>1, <2>2 DEF Informed
  <2>4. patient => Side(k, r, s2.ctxs, s2.ousted, v, d2)
    BY <1>2, <1>6, <1>7, <1>10, <1>15, <2>1, <2>2 DEF Side
  <2>5. QED
    BY <2>3, <2>4 DEF v, d2
<1>16. QED
  BY <1>11, <1>12, <1>13, <1>14, <1>15

(* Connection k can be heard if it is the last of a client that is         *)
(* connected.                                                              *)
Reaches(x, k, lk) ==
    LET r == servers[k[1]][x]
    IN k[2] = x /\ k[3] <= r.gen /\ (r.open /\ k[3] = r.gen => Hears(k, lk))

TypedServers ==
    /\ servers \in [Clients -> [Sessions -> ServerContext]]
    /\ \A c \in Clients, x \in Sessions : /\ servers[c][x].gen <= MaxConns[c]
                                          /\ servers[c][x].open => servers[c][x].gen >= 1

LEMMA ConnIs ==
    ASSUME TypedServers, NEW c \in Clients, NEW x \in Sessions
    PROVE  /\ servers[c][x] \in ServerContext
           /\ Conn(c, x)[1] = c /\ Conn(c, x)[2] = x /\ Conn(c, x)[3] = servers[c][x].gen
           /\ servers[c][x].gen \in Nat
           /\ servers[c][x].gen >= 1 \/ servers[c][x].open => Conn(c, x) \in Conns
           /\ \A k \in Conns :
                 /\ k = Conn(c, x) <=> k[1] = c /\ k[2] = x /\ k[3] = servers[c][x].gen
                 /\ k[1] = c /\ k[2] = x /\ k[3] <= servers[c][x].gen =>
                       servers[c][x].gen >= 1
<1>1. /\ servers[c][x] \in ServerContext /\ servers[c][x].gen <= MaxConns[c]
      /\ servers[c][x].open => servers[c][x].gen >= 1
  BY DEF TypedServers
<1>2. servers[c][x].gen \in Nat
  BY <1>1 DEF ServerContext
<1>3. Conn(c, x)[1] = c /\ Conn(c, x)[2] = x /\ Conn(c, x)[3] = servers[c][x].gen
  BY DEF Conn
<1>4. MaxConns[c] \in Nat
  BY Constants
<1>5. servers[c][x].gen >= 1 \/ servers[c][x].open => Conn(c, x) \in Conns
  BY <1>1, <1>2, <1>4, ConnParts DEF Conn
<1>6. ASSUME NEW k \in Conns
      PROVE  /\ k = Conn(c, x) <=> k[1] = c /\ k[2] = x /\ k[3] = servers[c][x].gen
             /\ k[1] = c /\ k[2] = x /\ k[3] <= servers[c][x].gen => servers[c][x].gen >= 1
  <2>1. k = <<k[1], k[2], k[3]>> /\ k[3] \in 1 .. MaxConns[k[1]] /\ k[1] \in Clients
    BY ConnParts
  <2>2. k[3] \in Nat /\ k[3] >= 1
    BY <2>1, Constants
  <2>3. QED
    BY <1>2, <2>1, <2>2 DEF Conn
<1>7. QED
  BY <1>1, <1>2, <1>3, <1>5, <1>6

LEMMA MessageIsHost ==
    ASSUME NEW s, IsHost(s), NEW k \in Conns, NEW t \in ToServer, NEW m \in 1..MaxClients, NEW lk,
           NEW s2, s2 = HandleMsg(s, k, t, m, lk)
    PROVE  IsHost(s2)
<1>1. s \in HostState
  BY DEF IsHost
<1>2. CASE t = "queryserverattrs"
  <2>1. s2 = HandleMsg(s, k, "queryserverattrs", m, lk)
    BY <1>2
  <2>2. s2 \in HostState /\ s2.ctxs = s.ctxs /\ s2.num = s.num
    BY ONLY k \in Conns, <1>1, <2>1, HandledQuery
  <2>3. QED
    BY <2>2 DEF IsHost
<1>3. CASE t = "joinsession"
  <2>1. s2 = HandleMsg(s, k, "joinsession", m, lk)
    BY <1>3
  <2>2. AfterJoin(s, s2, k, lk)
    BY <2>1, HandledJoin
  <2>3. QED
    BY <2>2 DEF AfterJoin
<1>4. CASE t = "leavesession"
  <2>1. s2 = HandleMsg(s, k, "leavesession", m, lk)
    BY <1>4
  <2>2. AfterLeave(s, s2, k)
    BY <2>1, HandledLeave
  <2>3. QED
    BY <2>2 DEF AfterLeave
<1>5. CASE t = "clientattr"
  <2>1. s2 = HandleMsg(s, k, "clientattr", m, lk)
    BY <1>5
  <2>2. AfterAttr(s, s2)
    BY <2>1, HandledAttr
  <2>3. QED
    BY <2>2 DEF AfterAttr
<1>6. CASE t \notin {"queryserverattrs", "joinsession", "leavesession", "clientattr"}
  BY <1>6 DEF HandleMsg
<1>7. QED
  BY <1>2, <1>3, <1>4, <1>5, <1>6

LEMMA OneMessage ==
    ASSUME TypedServers, NEW x \in Sessions, NEW lk, NEW s, NEW u \in [Conns -> Seq(ToServer)],
           Midway(x, s, u, lk), NEW k \in Conns, u[k] # <<>>, Reaches(x, k, lk),
           NEW m \in 1..MaxClients, NEW s2, s2 = HandleMsg(s, k, Head(u[k]), m, lk)
    PROVE  Midway(x, s2, [u EXCEPT ![k] = Tail(@)], lk)
<1> DEFINE u2 == [u EXCEPT ![k] = Tail(@)]
           t == Head(u[k])
<1>1. /\ IsHost(s) /\ Placed(x, s.ctxs, lk)
      /\ \A j \in Conns : /\ end[j] # "open" \/ j[2] # x => s.down[j] = down[j]
                          /\ HasType(s.down[j], {"start"}) <=> HasType(down[j], {"start"})
      /\ \A c \in Clients : servers[c][x].open => Fits(c, x, s, u)
  BY DEF Midway
<1>2. /\ k[2] = x /\ k[3] <= servers[k[1]][x].gen
      /\ servers[k[1]][x].open /\ k[3] = servers[k[1]][x].gen => Hears(k, lk)
  BY DEF Reaches
<1>3. t \in ToServer /\ s2 = HandleMsg(s, k, t, m, lk)
  BY RestOf
<1>4. servers[k[1]][x].open /\ k[3] = servers[k[1]][x].gen => k \in lk
  BY <1>2 DEF Hears
<1> HIDE DEF t
<1>5. Handled(x, s, s2, k, lk)
  BY <1>1, <1>2, <1>3, <1>4, MessageHandled
<1>6. /\ IsHost(s2) /\ Placed(x, s2.ctxs, lk)
      /\ \A j \in Conns :
            /\ j # k \/ ~Hears(j, lk) => s2.down[j] = s.down[j]
            /\ HasType(s2.down[j], {"start"}) <=> HasType(s.down[j], {"start"})
            /\ j[1] # k[1] => Alike(s, s2, j)
            /\ j[1] # k[1] \/ k[3] < j[3] => Keeps(s, s2, j)
      /\ s2.dirty \/ (s2.num = s.num /\ ~s.dirty)
  BY <1>5 DEF Handled
<1>7. /\ u2[k] = Tail(u[k]) /\ \A j \in Conns : j # k => u2[j] = u[j]
      /\ u[k] \in Seq(ToServer)
  OBVIOUS
<1> HIDE DEF u2
<1>9. ASSUME NEW c \in Clients, servers[c][x].open
      PROVE  Fits(c, x, s2, u2)
  <2> DEFINE r == servers[c][x]
             h == Conn(c, x)
  <2>1. Fits(c, x, s, u)
    BY <1>1, <1>9
  <2>2. CASE h = k
    <3>1. /\ Informed(r, s, u[k], s.down[k])
          /\ c \notin Hasty => Side(k, r, s.ctxs, s.ousted, u[k], s.down[k])
      BY <2>1, <2>2 DEF Fits
    <3>2. k[1] = c /\ k[3] = r.gen /\ r.joined \in BOOLEAN /\ r.gen \in Nat
      BY <2>2, ConnIs DEF ServerContext
    <3>3. Hears(k, lk)
      BY <1>2, <1>9, <3>2
    <3>4. ASSUME r.gen = 1, NEW j \in DOMAIN s.ctxs, s.ctxs[j].conn[1] = k[1]
          PROVE  s.ctxs[j].conn = k
      <4>1. s.ctxs[j] \in Context
        BY <1>1 DEF IsHost, HostState
      <4>2. s.ctxs[j].conn \in Conns
        BY <4>1 DEF Context
      <4>3. s.ctxs[j].conn[2] = x /\ s.ctxs[j].conn[3] <= 1
        BY <1>1, <3>2, <3>4 DEF Placed
      <4>4. s.ctxs[j].conn[3] = 1
        BY <4>2, <4>3, ConnParts, Constants
      <4>5. QED
        BY <1>2, <3>2, <3>4, <4>2, <4>3, <4>4, ConnParts
    <3> DEFINE p == c \notin Hasty
               w == u[k]
    <3>5. p \in BOOLEAN /\ w \in Seq(ToServer) /\ w # <<>>
          /\ s2 = HandleMsg(s, k, Head(w), m, lk)
          /\ Informed(r, s, w, s.down[k]) /\ (p => Side(k, r, s.ctxs, s.ousted, w, s.down[k]))
      BY <1>7, <3>1
    <3> HIDE DEF r, h, p, w
    <3>6. /\ Informed(r, s2, Tail(w), s2.down[k])
          /\ p => Side(k, r, s2.ctxs, s2.ousted, Tail(w), s2.down[k])
      BY <1>1, <3>2, <3>3, <3>4, <3>5, MessageFits
    <3>7. /\ Informed(servers[c][x], s2, u2[Conn(c, x)], s2.down[Conn(c, x)])
          /\ c \notin Hasty => Side(Conn(c, x), servers[c][x], s2.ctxs, s2.ousted,
                                    u2[Conn(c, x)], s2.down[Conn(c, x)])
      BY <1>7, <2>2, <3>6 DEF r, h, p, w
    <3>8. QED
      BY <3>7 DEF Fits
  <2>3. CASE h # k
    <3>0. h \in Conns
      BY <1>9, ConnIs
    <3>1. s2.down[h] = s.down[h] /\ u2[h] = u[h]
      BY <1>6, <1>7, <2>3, <3>0
    <3>2. Keeps(s, s2, h) /\ (r.gen = 1 => Alike(s, s2, h))
      <4>1. CASE k[1] # c
        BY <1>6, <3>0, <4>1, ConnIs
      <4>2. CASE k[1] = c
        <5>1. k[3] # r.gen
          BY <1>2, <2>3, <4>2, ConnIs
        <5>2. k[3] < r.gen /\ h[3] = r.gen
          BY <1>2, <4>2, <5>1, ConnIs, ConnParts
        <5>3. r.gen # 1
          BY <3>0, <5>2, ConnOrder
        <5>4. QED
          BY <1>6, <3>0, <5>2, <5>3
      <4>3. QED
        BY <4>1, <4>2
    <3>3. QED
      <4>1. s2.dirty \/ (s2.num = s.num /\ ~s.dirty)
        BY <1>6
      <4>2. /\ c \in Clients /\ x \in Sessions
            /\ s2.down[Conn(c, x)] = s.down[Conn(c, x)] /\ u2[Conn(c, x)] = u[Conn(c, x)]
            /\ c \notin Hasty => /\ Keeps(s, s2, Conn(c, x))
                                 /\ servers[c][x].gen = 1 => Alike(s, s2, Conn(c, x))
        BY <3>1, <3>2
      <4>3. QED
        BY ONLY <2>1, <4>1, <4>2, FitsAside
  <2>4. QED
    BY <2>2, <2>3
<1>10. QED
  BY <1>1, <1>2, <1>6, <1>9 DEF Midway, u2, Hears

(* The loops of Trigger: over the messages of a connection, and over the   *)
(* mini servers.                                                           *)
HostStates == {t \in HostState : IsHost(t)}

Taking(f, s, k, m, lk) ==
    /\ f \in [0 .. Len(up[k]) -> HostStates]
    /\ f[0] = s
    /\ \A i \in 1 .. Len(up[k]) : f[i] = HandleMsg(f[i - 1], k, up[k][i], m, lk)
    /\ HandleTaken(s, k, m, lk) = f[Len(up[k])]

LEMMA TakenRounds ==
    ASSUME up \in [Conns -> Seq(ToServer)], NEW s, IsHost(s), NEW k \in Conns,
           NEW m \in 1..MaxClients, NEW lk
    PROVE  \E f : Taking(f, s, k, m, lk)
<1> DEFINE n == Len(up[k])
           step == [i \in 1 .. n |-> [t \in HostStates |-> HandleMsg(t, k, up[k][i], m, lk)]]
           P(g) == g = [i \in 0 .. n |->
                          IF i = 0 THEN s ELSE HandleMsg(g[i - 1], k, up[k][i], m, lk)]
<1>1. n \in Nat /\ \A i \in 1 .. n : up[k][i] \in ToServer
  OBVIOUS
<1>2. s \in HostStates
  BY DEF HostStates, IsHost
<1>3. ASSUME NEW i \in 1 .. n, NEW t \in HostStates
      PROVE  HandleMsg(t, k, up[k][i], m, lk) \in HostStates
  <2>1. IsHost(HandleMsg(t, k, up[k][i], m, lk))
    BY <1>1, MessageIsHost DEF HostStates
  <2>2. QED
    BY <2>1 DEF HostStates, IsHost
<1>4. step \in [1 .. n -> [HostStates -> HostStates]]
  BY <1>3
<1> HIDE DEF n, step
<1>5. PICK f \in [0 .. n -> HostStates] : f[0] = s /\ \A i \in 1 .. n : f[i] = step[i][f[i - 1]]
  <2>1. HasRounds(HostStates, n, s, step)
    BY <1>1, <1>2, <1>4, RoundsExist
  <2>2. QED
    BY <2>1 DEF HasRounds, Rounds
<1>6. ASSUME NEW i \in 1 .. n
      PROVE  f[i] = HandleMsg(f[i - 1], k, up[k][i], m, lk)
  <2>1. i - 1 \in 0 .. n
    BY <1>1
  <2>2. f[i - 1] \in HostStates
    BY <1>5, <2>1
  <2>3. QED
    BY <1>5, <2>2 DEF step
<1>7. P(f)
  BY <1>1, <1>5, <1>6
<1>8. ASSUME NEW g, P(g), NEW h, P(h)
      PROVE  g[n] = h[n]
  <2> DEFINE good == [i \in 0 .. n |-> {h[i]}]
  <2>1. \A i \in 0 .. n : /\ i = 0 => g[i] = s /\ h[i] = s
                          /\ i # 0 => /\ g[i] = HandleMsg(g[i - 1], k, up[k][i], m, lk)
                                      /\ h[i] = HandleMsg(h[i - 1], k, up[k][i], m, lk)
    BY <1>8
  <2>2. g[0] \in good[0]
    <3>1. 0 \in 0 .. n
      BY <1>1
    <3>2. g[0] = s /\ h[0] = s
      BY <2>1, <3>1
    <3>3. QED
      BY <3>1, <3>2
  <2>3. ASSUME NEW i \in 1 .. n, g[i - 1] \in good[i - 1]
        PROVE  g[i] \in good[i]
    <3>1. i \in 0 .. n /\ i - 1 \in 0 .. n /\ i # 0
      BY <1>1
    <3>2. g[i - 1] = h[i - 1]
      BY <2>3, <3>1
    <3>3. g[i] = h[i]
      BY <2>1, <3>1, <3>2
    <3>4. QED
      BY <3>1, <3>3
  <2> HIDE DEF good
  <2>4. g[n] \in good[n]
    BY <1>1, <2>2, <2>3, RoundsKeep
  <2>5. QED
    BY <1>1, <2>4 DEF good
<1>9. HandleTaken(s, k, m, lk) = (CHOOSE g : P(g))[n]
  BY DEF HandleTaken, n
<1>10. P(CHOOSE g : P(g))
  BY <1>7
<1> HIDE DEF P
<1>11. HandleTaken(s, k, m, lk) = f[n]
  BY <1>7, <1>8, <1>9, <1>10
<1>12. QED
  BY <1>5, <1>6, <1>11 DEF n, Taking

LEMMA TakenKeeps ==
    ASSUME TypedServers, up \in [Conns -> Seq(ToServer)],
           NEW x \in Sessions, NEW lk, NEW s, NEW u \in [Conns -> Seq(ToServer)],
           Midway(x, s, u, lk), NEW k \in Conns, u[k] = up[k], Reaches(x, k, lk),
           NEW m \in 1..MaxClients
    PROVE  Midway(x, HandleTaken(s, k, m, lk), [u EXCEPT ![k] = <<>>], lk)
<1> DEFINE q == up[k]
           n == Len(q)
           rest(i) == [u EXCEPT ![k] = SubSeq(q, i + 1, n)]
           good == [i \in 0 .. n |-> {t \in HostStates : Midway(x, t, rest(i), lk)}]
<1>1. q \in Seq(ToServer) /\ n \in Nat
  OBVIOUS
<1>2. IsHost(s) /\ s \in HostStates
  BY DEF Midway, HostStates, IsHost
<1>3. PICK f \in [0 .. n -> HostStates] :
              /\ f[0] = s
              /\ \A i \in 1 .. n : f[i] = HandleMsg(f[i - 1], k, q[i], m, lk)
              /\ HandleTaken(s, k, m, lk) = f[n]
  <2>1. PICK f : Taking(f, s, k, m, lk)
    BY <1>2, TakenRounds
  <2>2. QED
    BY <2>1 DEF Taking
<1>4. /\ \A i \in 0 .. n : SubSeq(q, i + 1, n) \in Seq(ToServer)
      /\ SubSeq(q, 0 + 1, n) = q /\ SubSeq(q, n + 1, n) = <<>>
  BY <1>1
<1>5. rest(0) = u
  BY <1>1, <1>4
<1>6. rest(n) = [u EXCEPT ![k] = <<>>]
  BY <1>1, <1>4
<1>7. \A i \in 0 .. n : /\ rest(i) \in [Conns -> Seq(ToServer)]
                        /\ rest(i)[k] = SubSeq(q, i + 1, n)
                        /\ \A j \in Conns : j # k => rest(i)[j] = u[j]
  BY <1>4
<1>8. ASSUME NEW i \in 1 .. n
      PROVE  LET w == SubSeq(q, (i - 1) + 1, n)
             IN w # <<>> /\ Head(w) = q[i] /\ Tail(w) = SubSeq(q, i + 1, n)
  <2> DEFINE w == SubSeq(q, (i - 1) + 1, n)
             v == SubSeq(q, i + 1, n)
  <2>1. (i - 1) + 1 = i /\ i \in Nat /\ i >= 1 /\ i <= n
    BY <1>1
  <2>2. /\ w \in Seq(ToServer) /\ Len(w) = n - i + 1 /\ w[1] = q[i]
        /\ \A j \in 1 .. n - i + 1 : w[j] = q[i + j - 1]
    BY <1>1, <2>1
  <2>3. v \in Seq(ToServer) /\ Len(v) = n - i /\ \A j \in 1 .. n - i : v[j] = q[i + j]
    BY <1>1, <2>1
  <2> HIDE DEF w, v, n, q
  <2>4. w # <<>> /\ Head(w) = w[1] /\ Tail(w) \in Seq(ToServer) /\ Len(Tail(w)) = n - i
        /\ \A j \in 1 .. n - i : Tail(w)[j] = w[j + 1]
    BY <1>1, <2>1, <2>2
  <2>5. \A j \in 1 .. n - i : Tail(w)[j] = v[j]
    <3>1. TAKE j \in 1 .. n - i
    <3>2. j + 1 \in 1 .. n - i + 1 /\ i + (j + 1) - 1 = i + j
      BY <1>1, <2>1
    <3>3. QED
      BY <2>2, <2>3, <2>4, <3>2
  <2>6. Tail(w) = v
    BY <1>1, <2>3, <2>4, <2>5, SeqEqual
  <2>7. QED
    BY <2>2, <2>4, <2>6 DEF w, v, n, q
<1>9. \A i \in 1 .. n : rest(i) = [rest(i - 1) EXCEPT ![k] = Tail(@)]
  BY <1>1, <1>8
<1> HIDE DEF q, n, rest
<1>10. f[0] \in good[0]
  BY <1>1, <1>2, <1>3, <1>5
<1>11. ASSUME NEW i \in 1 .. n, f[i - 1] \in good[i - 1]
       PROVE  f[i] \in good[i]
  <2>1. i \in 0 .. n /\ i - 1 \in 0 .. n
    BY <1>1
  <2> DEFINE t == f[i - 1]
             w == rest(i - 1)
             y == f[i]
  <2>2. Midway(x, t, w, lk)
    BY <1>11, <2>1
  <2>3. /\ w \in [Conns -> Seq(ToServer)] /\ w[k] # <<>> /\ Head(w[k]) = q[i]
        /\ rest(i) = [w EXCEPT ![k] = Tail(@)]
    BY <1>7, <1>8, <1>9, <2>1
  <2>5. y = HandleMsg(t, k, Head(w[k]), m, lk) /\ y \in HostStates
    BY <1>3, <2>1, <2>3
  <2> HIDE DEF t, w, y
  <2>6. Midway(x, y, [w EXCEPT ![k] = Tail(@)], lk)
    BY <2>2, <2>3, <2>5, OneMessage
  <2>7. QED
    BY <2>1, <2>3, <2>5, <2>6 DEF y
<1> HIDE DEF good
<1>12. f[n] \in good[n]
  BY <1>1, <1>10, <1>11, RoundsKeep
<1>13. Midway(x, f[n], rest(n), lk)
  BY <1>1, <1>12 DEF good
<1>14. QED
  BY <1>3, <1>6, <1>13

(* The mini servers of x, the connections of each client in their order,   *)
(* and the messages that they have not taken yet.                          *)
Line(q, x) ==
    /\ q \in Seq(Conns)
    /\ \A h \in DOMAIN q : q[h][2] = x
    /\ \A h, j \in DOMAIN q : h < j /\ q[h][1] = q[j][1] => q[h][3] < q[j][3]

InLine(x) ==
    /\ Line(minis[x], x)
    /\ \A k \in Conns : k[2] = x /\ up[k] # <<>> => Contains(minis[x], k)

Polling(f, s, x, R, lk) ==
    /\ f \in [0 .. Len(minis[x]) -> HostStates]
    /\ f[0] = s
    /\ \A i \in 1 .. Len(minis[x]) :
          /\ minis[x][i] \notin R => f[i] = f[i - 1]
          /\ minis[x][i] \in R => f[i] = HandleTaken(f[i - 1], minis[x][i], max[x], lk)
    /\ HandleInbox(s, x, R, lk) = f[Len(minis[x])]

LEMMA InboxRounds ==
    ASSUME up \in [Conns -> Seq(ToServer)], NEW s, IsHost(s), NEW x \in Sessions,
           minis[x] \in Seq(Conns), max[x] \in 1..MaxClients, NEW R, NEW lk
    PROVE  \E f : Polling(f, s, x, R, lk)
<1> DEFINE ms == minis[x]
           n == Len(ms)
           m == max[x]
           Round(i, t) == IF ms[i] \notin R THEN t ELSE HandleTaken(t, ms[i], m, lk)
           step == [i \in 1 .. n |-> [t \in HostStates |-> Round(i, t)]]
           P(g) == g = [i \in 0 .. n |-> IF i = 0 THEN s
                                         ELSE IF ms[i] \notin R THEN g[i - 1]
                                              ELSE HandleTaken(g[i - 1], ms[i], m, lk)]
<1>1. n \in Nat /\ \A i \in 1 .. n : ms[i] \in Conns
  OBVIOUS
<1>2. s \in HostStates
  BY DEF HostStates, IsHost
<1>3. ASSUME NEW i \in 1 .. n, NEW t \in HostStates
      PROVE  Round(i, t) \in HostStates
  <2>1. CASE ms[i] \notin R
    BY <2>1
  <2>2. CASE ms[i] \in R
    <3> DEFINE k == ms[i]
    <3>1. k \in Conns /\ m \in 1..MaxClients /\ IsHost(t)
      BY <1>1 DEF HostStates
    <3> HIDE DEF k, m
    <3>2. PICK f : Taking(f, t, k, m, lk)
      BY <3>1, TakenRounds
    <3>3. up[k] \in Seq(ToServer)
      BY <3>1
    <3>4. Len(up[k]) \in 0 .. Len(up[k])
      BY <3>3
    <3>5. HandleTaken(t, k, m, lk) \in HostStates
      BY <3>2, <3>4 DEF Taking
    <3>6. QED
      BY <2>2, <3>5 DEF k, m
  <2>3. QED
    BY <2>1, <2>2
<1>4. step \in [1 .. n -> [HostStates -> HostStates]]
  BY <1>3
<1>5. \A i \in 1 .. n, t \in HostStates : step[i][t] = Round(i, t)
  OBVIOUS
<1> HIDE DEF n, step, ms, m
<1>6. PICK f \in [0 .. n -> HostStates] : f[0] = s /\ \A i \in 1 .. n : f[i] = step[i][f[i - 1]]
  <2>1. HasRounds(HostStates, n, s, step)
    BY <1>1, <1>2, <1>4, RoundsExist
  <2>2. QED
    BY <2>1 DEF HasRounds, Rounds
<1>7. ASSUME NEW i \in 1 .. n
      PROVE  f[i] = IF ms[i] \notin R THEN f[i - 1] ELSE HandleTaken(f[i - 1], ms[i], m, lk)
  <2>1. i - 1 \in 0 .. n
    BY <1>1
  <2>2. f[i - 1] \in HostStates
    BY <1>6, <2>1
  <2>3. QED
    BY <1>5, <1>6, <2>2
<1>8. P(f)
  BY <1>1, <1>6, <1>7
<1>9. ASSUME NEW g, P(g), NEW h, P(h)
      PROVE  g[n] = h[n]
  <2> DEFINE good == [i \in 0 .. n |-> {h[i]}]
  <2>1. \A i \in 0 .. n :
           /\ i = 0 => g[i] = s /\ h[i] = s
           /\ i # 0 => /\ g[i] = IF ms[i] \notin R THEN g[i - 1]
                                 ELSE HandleTaken(g[i - 1], ms[i], m, lk)
                       /\ h[i] = IF ms[i] \notin R THEN h[i - 1]
                                 ELSE HandleTaken(h[i - 1], ms[i], m, lk)
    BY <1>9
  <2>2. g[0] \in good[0]
    <3>1. 0 \in 0 .. n
      BY <1>1
    <3>2. g[0] = s /\ h[0] = s
      BY <2>1, <3>1
    <3>3. QED
      BY <3>1, <3>2
  <2>3. ASSUME NEW i \in 1 .. n, g[i - 1] \in good[i - 1]
        PROVE  g[i] \in good[i]
    <3>1. i \in 0 .. n /\ i - 1 \in 0 .. n /\ i # 0
      BY <1>1
    <3>2. g[i - 1] = h[i - 1]
      BY <2>3, <3>1
    <3>3. g[i] = h[i]
      BY <2>1, <3>1, <3>2
    <3>4. QED
      BY <3>1, <3>3
  <2> HIDE DEF good
  <2>4. g[n] \in good[n]
    BY <1>1, <2>2, <2>3, RoundsKeep
  <2>5. QED
    BY <1>1, <2>4 DEF good
<1>10. HandleInbox(s, x, R, lk) = (CHOOSE g : P(g))[n]
  BY DEF HandleInbox, n, ms, m
<1>11. P(CHOOSE g : P(g))
  BY <1>8
<1> HIDE DEF P
<1>12. HandleInbox(s, x, R, lk) = f[n]
  BY <1>8, <1>9, <1>10, <1>11
<1>13. QED
  BY <1>6, <1>7, <1>12 DEF n, ms, m, Polling

LEMMA InboxKeeps ==
    ASSUME TypedServers, up \in [Conns -> Seq(ToServer)], NEW x \in Sessions, InLine(x),
           max[x] \in 1..MaxClients, NEW lk, NEW R \in SUBSET Readable(x),
           \A k \in R : Reaches(x, k, lk), NEW s, Midway(x, s, up, lk)
    PROVE  Midway(x, HandleInbox(s, x, R, lk),
                  [k \in Conns |-> IF k \in R THEN <<>> ELSE up[k]], lk)
<1> DEFINE ms == minis[x]
           n == Len(ms)
           u(i) == [k \in Conns |-> IF k \in R /\ \E h \in 1 .. i : ms[h] = k THEN <<>> ELSE up[k]]
           good == [i \in 0 .. n |-> {t \in HostStates : Midway(x, t, u(i), lk)}]
           Out == HandleInbox(s, x, R, lk)
           m == max[x]
<1>1. /\ n \in Nat /\ DOMAIN ms = 1 .. n /\ \A i \in 1 .. n : ms[i] \in Conns
      /\ \A i \in 1 .. n : ms[i][2] = x
      /\ \A h, j \in 1 .. n : h < j /\ ms[h][1] = ms[j][1] => ms[h][3] < ms[j][3]
      /\ \A k \in Conns : k[2] = x /\ up[k] # <<>> => \E h \in 1 .. n : ms[h] = k
  <2>1. /\ Line(ms, x)
        /\ \A k \in Conns : k[2] = x /\ up[k] # <<>> => Contains(ms, k)
    BY DEF InLine
  <2>2. ms \in Seq(Conns)
    BY <2>1 DEF Line
  <2> HIDE DEF ms
  <2>3. n \in Nat /\ DOMAIN ms = 1 .. n /\ \A i \in 1 .. n : ms[i] \in Conns
    BY <2>2
  <2>4. QED
    BY <2>1, <2>3 DEF Line, Contains
<1>2. IsHost(s) /\ s \in HostStates
  BY DEF Midway, HostStates, IsHost
<1>3. PICK f : Polling(f, s, x, R, lk)
  BY <1>2, InboxRounds DEF InLine, Line
<1>4. /\ f \in [0 .. n -> HostStates]
      /\ f[0] = s
      /\ \A i \in 1 .. n :
            /\ ms[i] \notin R => f[i] = f[i - 1]
            /\ ms[i] \in R => f[i] = HandleTaken(f[i - 1], ms[i], m, lk)
      /\ Out = f[n]
  BY <1>3 DEF Polling
<1>5. \A k : k \in Readable(x) <=>
               (\E h \in 1 .. n : ms[h] = k) /\ (up[k] # <<>> \/ end[k] = "shut")
  BY <1>1 DEF Readable, ToSet
<1> HIDE DEF ms, n, Out, m
<1>6. u(0) = up
  BY <1>1
<1>7. u(n) = [k \in Conns |-> IF k \in R THEN <<>> ELSE up[k]]
  BY <1>1, <1>5
<1>8. \A i \in 0 .. n : u(i) \in [Conns -> Seq(ToServer)]
  OBVIOUS
<1>9. f[0] \in good[0]
  BY <1>1, <1>2, <1>4, <1>6
<1>10. ASSUME NEW i \in 1 .. n, f[i - 1] \in good[i - 1]
       PROVE  f[i] \in good[i]
  <2> DEFINE k == ms[i]
             v == u(i - 1)
             t == f[i - 1]
             y == f[i]
  <2>1. i \in 0 .. n /\ i - 1 \in 0 .. n /\ i \in Nat /\ i >= 1
    BY <1>1
  <2>2. Midway(x, t, v, lk)
    BY <1>10, <2>1
  <2>3. k \in Conns /\ k[2] = x /\ y \in HostStates /\ v \in [Conns -> Seq(ToServer)]
    BY <1>1, <1>4, <1>8, <2>1
  <2>4. \A h \in 1 .. i : h \in 1 .. i - 1 \/ h = i
    BY <2>1
  <2>9. 1 .. i - 1 \subseteq 1 .. i /\ i \in 1 .. i /\ 1 .. i \subseteq 1 .. n
    BY <1>1, <2>1
  <2>5. CASE k \notin R
    <3>1. u(i) = v
      BY <2>4, <2>5, <2>9
    <3>2. y = t
      BY <1>4, <2>5
    <3> HIDE DEF u
    <3>3. Midway(x, y, u(i), lk)
      BY <2>2, <3>1, <3>2
    <3>4. QED
      BY <2>1, <2>3, <3>3
  <2>6. CASE k \in R
    <3>1. \A h \in 1 .. i - 1 : ms[h] # k
      <4>1. ASSUME NEW h \in 1 .. i - 1, ms[h] = k
            PROVE  FALSE
        <5>1. h < i /\ h \in 1 .. n
          BY <1>1, <2>1
        <5>2. k[3] < k[3]
          BY <1>1, <4>1, <5>1
        <5>3. QED
          BY <2>3, <5>2, ConnParts
      <4>2. QED
        BY <4>1
    <3>2. v[k] = up[k]
      BY <2>3, <3>1
    <3>3. u(i) = [v EXCEPT ![k] = <<>>]
      <4>1. \A j \in Conns : u(i)[j] = IF j = k THEN <<>> ELSE v[j]
        BY <2>4, <2>6, <2>9
      <4>2. u(i) = [j \in Conns |-> u(i)[j]] /\ v = [j \in Conns |-> v[j]]
        OBVIOUS
      <4> HIDE DEF u, v, k
      <4>3. QED
        BY <4>1, <4>2
    <3>5. Reaches(x, k, lk) /\ m \in 1..MaxClients
      BY <2>6 DEF m
    <3>6. y = HandleTaken(t, k, m, lk)
      BY <1>4, <2>6
    <3> DEFINE w == u(i)
    <3>7. w = [v EXCEPT ![k] = <<>>]
      BY <3>3
    <3>8. k \in Conns /\ v \in [Conns -> Seq(ToServer)]
      BY <2>3
    <3> HIDE DEF k, v, t, y, w
    <3>9. Midway(x, HandleTaken(t, k, m, lk), [v EXCEPT ![k] = <<>>], lk)
      BY <2>2, <3>2, <3>5, <3>8, TakenKeeps
    <3>10. Midway(x, y, w, lk)
      BY <3>6, <3>7, <3>9
    <3>11. QED
      BY <2>1, <2>3, <3>10 DEF y, w
  <2>7. QED
    BY <2>5, <2>6
<1> HIDE DEF good
<1>11. f[n] \in good[n]
  BY <1>1, <1>9, <1>10, RoundsKeep
<1> HIDE DEF u
<1>12. Midway(x, f[n], u(n), lk)
  BY <1>1, <1>11 DEF good
<1>13. QED
  BY <1>4, <1>7, <1>12 DEF Out

(* Whoever loses a place hears of it.                                      *)
LEMMA KickKeeps ==
    ASSUME TypedServers, NEW x \in Sessions, NEW lk, NEW s, NEW u, Midway(x, s, u, lk),
           \A c \in Clients : servers[c][x].open => end[Conn(c, x)] = "open",
           NEW K, NEW s2, IsHost(s2), s2.dirty, s2.ousted = s.ousted, Fewer(s.ctxs, s2.ctxs, K),
           Adds(s.down, s2.down, Msg("kick"), {j \in Conns : j \in K /\ Hears(j, lk)})
    PROVE  Midway(x, s2, u, lk)
<1> DEFINE J == {j \in Conns : j \in K /\ Hears(j, lk)}
<1>1. /\ IsHost(s) /\ Placed(x, s.ctxs, lk)
      /\ \A j \in Conns : /\ end[j] # "open" \/ j[2] # x => s.down[j] = down[j]
                          /\ HasType(s.down[j], {"start"}) <=> HasType(down[j], {"start"})
      /\ \A c \in Clients : servers[c][x].open => Fits(c, x, s, u)
  BY DEF Midway
<1>2. s.ctxs \in Seq(Context) /\ s.down \in [Conns -> Seq(ClientMsg)]
  BY <1>1 DEF IsHost, HostState
<1>3. Placed(x, s2.ctxs, lk)
  BY <1>1, PlacedFewer
<1>4. Msg("kick").type = "kick"
  BY Messages DEF ToClient
<1>5. Adds(s.down, s2.down, Msg("kick"), J)
  OBVIOUS
<1>6. \A j \in Conns : j \in J <=> j \in K /\ Hears(j, lk)
  OBVIOUS
<1> HIDE DEF J
<1>7. ASSUME NEW j \in Conns, NEW r
      PROVE  /\ j \notin J => s2.down[j] = s.down[j]
             /\ j \in J => ~JoinedAfter(r, s2.down[j])
             /\ \A T : "kick" \notin T => (HasType(s2.down[j], T) <=> HasType(s.down[j], T))
  <2>1. Added(s.down[j], s2.down[j], Msg("kick"), j \in J, r)
    BY <1>2, <1>5, AddedFacts
  <2>2. QED
    BY <1>4, <2>1 DEF Added, Answers
<1>8. ASSUME NEW c \in Clients, servers[c][x].open
      PROVE  Fits(c, x, s2, u)
  <2> DEFINE k == Conn(c, x)
             r == servers[c][x]
             d == s.down[k]
             d2 == s2.down[k]
  <2>1. /\ k \in Conns /\ k[1] = c /\ k[2] = x /\ k[3] = r.gen /\ end[k] = "open" /\ r.open
    BY <1>8, ConnIs
  <2>2. /\ Lone(s.ctxs, k) => Lone(s2.ctxs, k)
        /\ At(s.ctxs, k) = {} => At(s2.ctxs, k) = {}
        /\ k \notin K => (At(s.ctxs, k) = {} <=> At(s2.ctxs, k) = {})
    BY <1>2, <2>1, FewerFacts
  <2>3. /\ k \in K => At(s.ctxs, k) # {}
        /\ k \in K /\ Lone(s.ctxs, k) => At(s2.ctxs, k) = {}
    BY <2>1 DEF Fewer
  <2>4. At(s.ctxs, k) # {} => k \in lk
    BY <1>1, <2>1 DEF At, Placed
  <2>5. k \in J <=> k \in K
    BY <1>6, <2>1, <2>3, <2>4 DEF Hears
  <2>6. /\ k \notin J => d2 = d
        /\ k \in J => ~JoinedAfter(r, d2)
        /\ \A T : "kick" \notin T => (HasType(d2, T) <=> HasType(d, T))
    BY <1>7, <2>1
  <2>7. c \notin Hasty => Side(k, r, s.ctxs, s.ousted, u[k], d)
    BY <1>1, <1>8 DEF Fits
  <2> HIDE DEF k, r, d, d2
  <2>8. c \notin Hasty => Side(k, r, s2.ctxs, s2.ousted, u[k], d2)
    <3>1. CASE k \in J
      BY <2>2, <2>3, <2>5, <2>6, <2>7, <3>1 DEF Side
    <3>2. CASE k \notin J
      BY <2>2, <2>5, <2>6, <2>7, <3>2 DEF Side
    <3>3. QED
      BY <3>1, <3>2
  <2>10. Informed(r, s2, u[k], d2)
    BY DEF Informed
  <2>11. QED
    BY <2>8, <2>10 DEF Fits, k, r, d2
<1>9. ASSUME NEW j \in Conns
      PROVE  /\ end[j] # "open" \/ j[2] # x => s2.down[j] = down[j]
             /\ HasType(s2.down[j], {"start"}) <=> HasType(down[j], {"start"})
  <2>1. end[j] # "open" => j \notin J
    BY <1>6 DEF Hears
  <2>2. j \in J => At(s.ctxs, j) # {}
    BY <1>6 DEF Fewer
  <2>3. j \in J => j[2] = x
    BY <1>1, <2>2 DEF At, Placed
  <2>4. QED
    BY <1>1, <1>7, <2>1, <2>3
<1>10. QED
  BY <1>3, <1>8, <1>9 DEF Midway

LEMMA KickAboveKeeps ==
    ASSUME TypedServers, NEW x \in Sessions, NEW lk, NEW s, NEW u, Midway(x, s, u, lk),
           \A c \in Clients : servers[c][x].open => end[Conn(c, x)] = "open",
           NEW m \in 1..MaxClients, NEW s2, s2 = KickAbove(s, m, lk)
    PROVE  Midway(x, s2, u, lk)
<1>1. CASE Len(s.ctxs) <= m
  BY <1>1 DEF KickAbove
<1>2. CASE ~(Len(s.ctxs) <= m)
  <2> DEFINE cs == s.ctxs
             rest == SubSeq(cs, m + 1, Len(cs))
             cs2 == SubSeq(cs, 1, m)
             K == {k \in Conns : At(rest, k) # {}}
             e == Tell(s.down, rest, Msg("kick"), lk)
  <2>1. IsHost(s)
    BY DEF Midway
  <2>2. cs \in Seq(Context) /\ s.down \in [Conns -> Seq(ClientMsg)] /\ s \in HostState
    BY <2>1 DEF IsHost, HostState
  <2>3. m \in 0 .. Len(cs) /\ m \in 0 .. MaxClients
    BY <1>2, <2>2, Constants
  <2>4. rest \in Seq(Context) /\ Fewer(cs, cs2, K) /\ Len(cs2) = m
    BY <2>2, <2>3, FirstContexts
  <2>5. s2 = Update([s EXCEPT !.ctxs = cs2, !.down = e])
    BY <1>2 DEF KickAbove
  <2>6. Msg("kick") \in ClientMsg
    BY Messages DEF ToClient
  <2>7. cs2 \in Seq(Context)
    BY <2>4 DEF Fewer
  <2> HIDE DEF cs2, rest
  <2>8. Adds(s.down, e, Msg("kick"), {j \in Conns : At(rest, j) # {} /\ Hears(j, lk)})
    BY <2>2, <2>4, <2>6, TellAdds
  <2>9. {j \in Conns : At(rest, j) # {} /\ Hears(j, lk)} = {j \in Conns : j \in K /\ Hears(j, lk)}
    OBVIOUS
  <2> HIDE DEF e, K
  <2>10. e \in [Conns -> Seq(ClientMsg)]
    BY <2>8 DEF Adds
  <2>11. s2 = [s EXCEPT !.ctxs = cs2, !.down = e, !.num = Len(cs2), !.dirty = TRUE]
    BY <2>2, <2>5 DEF Update, HostState
  <2>12. /\ IsHost(s2) /\ s2.dirty /\ s2.ctxs = cs2 /\ s2.down = e /\ s2.ousted = s.ousted
    BY <2>2, <2>3, <2>4, <2>7, <2>10, <2>11 DEF HostState, IsHost
  <2>13. Adds(s.down, s2.down, Msg("kick"), {j \in Conns : j \in K /\ Hears(j, lk)})
    BY <2>8, <2>9, <2>12
  <2>14. Fewer(s.ctxs, s2.ctxs, K)
    BY <2>4, <2>12
  <2>15. QED
    BY <2>12, <2>13, <2>14, KickKeeps
<1>3. QED
  BY <1>1, <1>2

LEMMA KickAtKeeps ==
    ASSUME TypedServers, NEW x \in Sessions, NEW lk, NEW s, NEW u, Midway(x, s, u, lk),
           \A c \in Clients : servers[c][x].open => end[Conn(c, x)] = "open",
           NEW i \in 1 .. Len(s.ctxs), NEW s2, s2 = KickAt(s, i, lk)
    PROVE  Midway(x, s2, u, lk)
<1> DEFINE cs == s.ctxs
           cs2 == RemoveAt(cs, i)
           k == cs[i].conn
           K == {k}
           e == Send(s.down, k, Msg("kick"), lk)
<1>1. IsHost(s)
  BY DEF Midway
<1>2. /\ cs \in Seq(Context) /\ s.down \in [Conns -> Seq(ClientMsg)] /\ s \in HostState
      /\ Len(cs) = s.num /\ s.num \in 0..MaxClients
  BY <1>1 DEF IsHost, HostState
<1>3. Fewer(cs, cs2, K)
  BY <1>2, RemovedContext
<1>4. k \in Conns
  <2>1. cs[i] \in Context
    BY <1>2
  <2>2. QED
    BY <2>1 DEF Context
<1>5. s2 = Update([s EXCEPT !.ctxs = cs2, !.down = e])
  BY DEF KickAt
<1>6. Msg("kick") \in ClientMsg
  BY Messages DEF ToClient
<1>7. cs2 \in Seq(Context) /\ Len(cs2) <= Len(cs)
  BY <1>3 DEF Fewer
<1> HIDE DEF cs2, k
<1>8. Adds(s.down, e, Msg("kick"), {j \in Conns : j = k /\ Hears(j, lk)})
  BY <1>2, <1>4, <1>6, SendAdds
<1>9. {j \in Conns : j = k /\ Hears(j, lk)} = {j \in Conns : j \in K /\ Hears(j, lk)}
  OBVIOUS
<1> HIDE DEF e, K
<1>10. e \in [Conns -> Seq(ClientMsg)]
  BY <1>8 DEF Adds
<1>11. s2 = [s EXCEPT !.ctxs = cs2, !.down = e, !.num = Len(cs2), !.dirty = TRUE]
  BY <1>2, <1>5 DEF Update, HostState
<1>12. Len(cs2) \in 0..MaxClients
  <2>1. Len(cs2) \in Nat /\ Len(cs) \in Nat
    BY <1>2, <1>7
  <2>2. QED
    BY <1>2, <1>7, <2>1, Constants
<1>13. /\ IsHost(s2) /\ s2.dirty /\ s2.ctxs = cs2 /\ s2.down = e /\ s2.ousted = s.ousted
  BY <1>2, <1>7, <1>10, <1>11, <1>12 DEF HostState, IsHost
<1>14. Adds(s.down, s2.down, Msg("kick"), {j \in Conns : j \in K /\ Hears(j, lk)})
  BY <1>8, <1>9, <1>13
<1>15. Fewer(s.ctxs, s2.ctxs, K)
  BY <1>3, <1>13
<1>16. QED
  BY <1>13, <1>14, <1>15, KickKeeps

LEMMA PublishKeeps ==
    ASSUME TypedServers, NEW x \in Sessions, NEW lk, NEW s, NEW u, Midway(x, s, u, lk), NEW ks,
           \A c \in Clients : servers[c][x].open =>
              /\ Conn(c, x) \in ks
              /\ Hears(Conn(c, x), lk) \/ Contains(u[Conn(c, x)], "queryserverattrs"),
           \A k \in ks : k[2] = x,
           NEW s2, s2 = Publish(s, ks, lk)
    PROVE  Midway(x, s2, u, lk)
<1>1. CASE ~s.dirty
  BY <1>1 DEF Publish
<1>2. CASE s.dirty
  <2> DEFINE J == {j \in Conns : j \in ks /\ Hears(j, lk)}
             ms == Attrs(s.num)
             e == SendAll(s.down, ks, ms, lk)
  <2>1. /\ IsHost(s) /\ Placed(x, s.ctxs, lk)
        /\ \A j \in Conns : /\ end[j] # "open" \/ j[2] # x => s.down[j] = down[j]
                            /\ HasType(s.down[j], {"start"}) <=> HasType(down[j], {"start"})
        /\ \A c \in Clients : servers[c][x].open => Fits(c, x, s, u)
    BY DEF Midway
  <2>2. /\ s.ctxs \in Seq(Context) /\ s.down \in [Conns -> Seq(ClientMsg)] /\ s \in HostState
        /\ Len(s.ctxs) = s.num /\ s.num \in 0..MaxClients
    BY <2>1 DEF IsHost, HostState
  <2>3. ms \in ClientMsg /\ ms.type = "serverattr" /\ ms.num = s.num
    BY <2>2, Messages
  <2>4. \A j \in Conns : j \in J <=> j \in ks /\ Hears(j, lk)
    OBVIOUS
  <2>5. s2 = [s EXCEPT !.down = e, !.dirty = FALSE]
    BY <1>2 DEF Publish
  <2> HIDE DEF ms
  <2>6. Adds(s.down, e, ms, J)
    BY <2>2, <2>3, SendAllAdds
  <2> HIDE DEF e, J
  <2>7. e \in [Conns -> Seq(ClientMsg)]
    BY <2>6 DEF Adds
  <2>8. IsHost(s2) /\ s2.ctxs = s.ctxs /\ s2.num = s.num /\ s2.down = e /\ s2.ousted = s.ousted
    BY <2>2, <2>5, <2>7 DEF HostState, IsHost
  <2>9. ASSUME NEW j \in Conns, NEW r
        PROVE  /\ j \notin J => e[j] = s.down[j]
               /\ JoinedAfter(r, e[j]) = JoinedAfter(r, s.down[j])
               /\ j \in J => ViewAfter(r, e[j]) = s.num
               /\ \A T : "serverattr" \notin T => (HasType(e[j], T) <=> HasType(s.down[j], T))
    <3>1. Added(s.down[j], e[j], ms, j \in J, r)
      BY <2>2, <2>6, AddedFacts
    <3>2. QED
      BY <2>3, <3>1 DEF Added, Answers
  <2>10. ASSUME NEW c \in Clients, servers[c][x].open
         PROVE  Fits(c, x, s2, u)
    <3> DEFINE k == Conn(c, x)
               r == servers[c][x]
               d == s.down[k]
               d2 == e[k]
    <3>1. k \in Conns
      BY <2>10, ConnIs
    <3>2. /\ JoinedAfter(r, d2) = JoinedAfter(r, d)
          /\ k \in J => ViewAfter(r, d2) = s.num
          /\ \A T : "serverattr" \notin T => (HasType(d2, T) <=> HasType(d, T))
      BY <2>9, <3>1
    <3>3. k \in J \/ Contains(u[k], "queryserverattrs")
      BY <2>4, <2>10, <3>1
    <3>4. c \notin Hasty => Side(k, r, s.ctxs, s.ousted, u[k], d)
      BY <2>1, <2>10 DEF Fits
    <3> HIDE DEF k, r, d, d2
    <3>5. Informed(r, s2, u[k], d2)
      BY <2>8, <3>2, <3>3 DEF Informed
    <3>6. c \notin Hasty => Side(k, r, s2.ctxs, s2.ousted, u[k], d2)
      BY <2>8, <3>2, <3>4 DEF Side
    <3>7. QED
      BY <2>8, <3>5, <3>6 DEF Fits, k, r, d2
  <2>11. ASSUME NEW j \in Conns
         PROVE  /\ end[j] # "open" \/ j[2] # x => s2.down[j] = down[j]
                /\ HasType(s2.down[j], {"start"}) <=> HasType(down[j], {"start"})
    <3>1. end[j] # "open" \/ j[2] # x => j \notin J
      BY <2>4 DEF Hears
    <3>2. /\ j \notin J => e[j] = s.down[j]
          /\ HasType(e[j], {"start"}) <=> HasType(s.down[j], {"start"})
      BY <2>9
    <3>3. QED
      BY <2>1, <2>8, <3>1, <3>2
  <2>12. QED
    BY <2>1, <2>8, <2>10, <2>11 DEF Midway
<1>3. QED
  BY <1>1, <1>2

-----------------------------------------------------------------------------
(* The inductive invariant, session by session.                            *)
(* A connection: l tells whether the host has had its handshake, i whether *)
(* the host still has a mini server for it.                                *)
Wired(k, r, e, u, d, l, i) ==
    /\ k[3] > r.gen => e = "none" /\ u = <<>> /\ d = <<>> /\ ~l /\ ~i
    /\ k[3] <= r.gen => e # "none"
    /\ e = "open" => r.open /\ k[3] = r.gen
    /\ Contains(u, "close") => e = "shut"
    /\ u # <<>> => i

Wiring(x) ==
    \A k \in Conns : k[2] = x =>
        Wired(k, servers[k[1]][x], end[k], up[k], down[k], k \in linked, Contains(minis[x], k))

(* A context of a client: connected as long as the host serves.            *)
Connected(k, u, l, i) ==
    i /\ (l \/ (Contains(u, "handshake") /\ Contains(u, "queryserverattrs")))

Holding(x) ==
    \A c \in Clients :
        LET r == servers[c][x]
            k == Conn(c, x)
        IN /\ ~r.open => ~r.sock /\ ~r.joined
           /\ r.open => /\ r.gen >= 1
                        /\ r.sock => end[k] = "open"
                        /\ Serving(x) => r.sock /\ Connected(k, up[k], k \in linked,
                                                             Contains(minis[x], k))

Hosting(x) ==
    /\ ~Serving(x) => ctxs[x] = <<>> /\ minis[x] = <<>>
    /\ state[x] = "new" => num[x] = 0 /\ \A c \in Clients : servers[c][x].gen = 0
    /\ Line(minis[x], x)

(* A serving host, its attributes and its contexts against those of the    *)
(* clients.                                                                *)
Meets(c, x) ==
    LET k == Conn(c, x)
        r == servers[c][x]
    IN /\ dirty[x] \/ Contains(up[k], "queryserverattrs") \/ ViewAfter(r, down[k]) = num[x]
       /\ c \notin Hasty => Side(k, r, ctxs[x], ousted[x], up[k], down[k])

Seated(x) ==
    \A i \in DOMAIN ctxs[x] :
        LET k == ctxs[x][i].conn
            r == servers[k[1]][x]
        IN /\ k[2] = x /\ k[3] <= r.gen
           /\ r.open /\ k[3] = r.gen => k \in linked

Agreeing(x) ==
    Serving(x) =>
        /\ num[x] = Len(ctxs[x])
        /\ Seated(x)
        /\ \A c \in Clients : servers[c][x].open => Meets(c, x)

(* The start of the game.                                                  *)
InGame(c, x) ==
    /\ state[x] \notin {"new", "open"}
    /\ state[x] = "started" => Contains(roster[x], c)

Starting(x) ==
    /\ \A k \in Conns : k[2] = x /\ HasType(down[k], {"start"}) => InGame(k[1], x)
    /\ \A c \in Clients :
          /\ game[c] = x => InGame(c, x)
          /\ Contains(roster[x], c) => servers[c][x].gen >= 1
          /\ /\ state[x] = "started" /\ Contains(roster[x], c)
             /\ servers[c][x].open /\ servers[c][x].gen = 1
             => HasType(down[Conn(c, x)], {"start"})

SessionInv(x) == Wiring(x) /\ Holding(x) /\ Hosting(x) /\ Agreeing(x) /\ Starting(x)

IInv == TypeOK /\ \A x \in Sessions : SessionInv(x)

LEMMA IInvTyped ==
    ASSUME IInv
    PROVE  TypedServers
<1>1. ASSUME NEW c \in Clients, NEW x \in Sessions
      PROVE  servers[c][x].open => servers[c][x].gen >= 1
  BY DEF IInv, SessionInv, Holding
<1>2. QED
  BY <1>1 DEF IInv, TypeOK, TypedServers

(* A step that does not touch session x.                                   *)
LEMMA Untouched ==
    ASSUME IInv, NEW x \in Sessions, SessionInv(x),
           /\ state'[x] = state[x] /\ ctxs'[x] = ctxs[x] /\ num'[x] = num[x]
           /\ dirty'[x] = dirty[x] /\ minis'[x] = minis[x] /\ roster'[x] = roster[x]
           /\ ousted'[x] = ousted[x],
           \A c \in Clients : servers'[c][x] = servers[c][x] /\ (game'[c] = x => game[c] = x),
           \A k \in Conns : k[2] = x =>
              /\ up'[k] = up[k] /\ down'[k] = down[k] /\ end'[k] = end[k]
              /\ k \in linked' <=> k \in linked,
           down' \in [Conns -> Seq(ClientMsg)]
    PROVE  SessionInv(x)'
<1>1. TypedServers
  BY IInvTyped
<1>2. /\ Serving(x)' <=> Serving(x)
      /\ \A c \in Clients : Conn(c, x)' = Conn(c, x) /\ (InGame(c, x)' <=> InGame(c, x))
  BY DEF Serving, Conn, InGame
<1>3. ASSUME NEW c \in Clients, servers[c][x].open
      PROVE  /\ Conn(c, x) \in Conns /\ Conn(c, x)[1] = c /\ Conn(c, x)[2] = x
             /\ up'[Conn(c, x)] = up[Conn(c, x)] /\ down'[Conn(c, x)] = down[Conn(c, x)]
             /\ end'[Conn(c, x)] = end[Conn(c, x)]
             /\ Conn(c, x) \in linked' <=> Conn(c, x) \in linked
  BY <1>1, <1>3, ConnIs
<1>4. ASSUME Wiring(x)
      PROVE  Wiring(x)'
  BY <1>4, ConnParts DEF Wiring
<1>5. ASSUME Holding(x)
      PROVE  Holding(x)'
  BY <1>2, <1>3, <1>5 DEF Holding
<1>6. ASSUME Hosting(x)
      PROVE  Hosting(x)'
  BY <1>2, <1>6 DEF Hosting
<1>7. ASSUME Agreeing(x)
      PROVE  Agreeing(x)'
  <2>1. SUFFICES ASSUME Serving(x)
                 PROVE  /\ num'[x] = Len(ctxs'[x])
                        /\ Seated(x)'
                        /\ \A c \in Clients : servers'[c][x].open => Meets(c, x)'
    BY <1>2 DEF Agreeing
  <2>2. /\ num[x] = Len(ctxs[x]) /\ Seated(x)
        /\ \A c \in Clients : servers[c][x].open => Meets(c, x)
    BY <1>7, <2>1 DEF Agreeing
  <2>3. num'[x] = Len(ctxs'[x])
    BY <2>2
  <2>4. Seated(x)'
    <3>1. ctxs[x] \in Seq(Context)
      BY DEF IInv, TypeOK
    <3>2. \A i \in DOMAIN ctxs[x] : ctxs[x][i].conn \in Conns
      <4>1. TAKE i \in DOMAIN ctxs[x]
      <4>2. ctxs[x][i] \in Context
        BY <3>1
      <4>3. QED
        BY <4>2 DEF Context
    <3>3. ASSUME NEW i \in DOMAIN ctxs[x]
          PROVE  LET k == ctxs[x][i].conn
                     r == servers'[k[1]][x]
                 IN /\ k[2] = x /\ k[3] <= r.gen
                    /\ r.open /\ k[3] = r.gen => k \in linked'
      <4> DEFINE k == ctxs[x][i].conn
                 r == servers[k[1]][x]
      <4>1. /\ k[2] = x /\ k[3] <= r.gen
            /\ r.open /\ k[3] = r.gen => k \in linked
        BY <2>2 DEF Seated
      <4>2. k \in Conns /\ k[1] \in Clients
        BY <3>2, ConnParts
      <4> HIDE DEF k
      <4>3. QED
        BY <4>1, <4>2 DEF k
    <3>4. QED
      BY <3>3 DEF Seated
  <2>5. ASSUME NEW c \in Clients, servers[c][x].open
        PROVE  Meets(c, x)'
    <3>1. Meets(c, x)
      BY <2>2, <2>5
    <3>2. \A j \in Conns : j[2] = x => up'[j] = up[j]
      OBVIOUS
    <3>3. QED
      BY <1>2, <1>3, <2>5, <3>1, <3>2 DEF Meets
  <2>6. QED
    BY <2>3, <2>4, <2>5
<1>8. ASSUME Starting(x)
      PROVE  Starting(x)'
  BY <1>2, <1>3, <1>8, ConnParts DEF Starting
<1>9. QED
  BY <1>4, <1>5, <1>6, <1>7, <1>8 DEF SessionInv

LEMMA HostKeeps ==
    ASSUME IInv, TypeOK', NEW x \in Sessions, SessionInv(x)', UNCHANGED <<servers, end, game>>,
           \A y \in Sessions : y # x =>
              /\ state'[y] = state[y] /\ ctxs'[y] = ctxs[y] /\ num'[y] = num[y]
              /\ dirty'[y] = dirty[y] /\ minis'[y] = minis[y] /\ roster'[y] = roster[y]
              /\ ousted'[y] = ousted[y],
           \A k \in Conns : k[2] # x =>
              up'[k] = up[k] /\ down'[k] = down[k] /\ (k \in linked' <=> k \in linked)
    PROVE  IInv'
<1>1. ASSUME NEW y \in Sessions
      PROVE  SessionInv(y)'
  <2>1. CASE y = x
    BY <2>1
  <2>2. CASE y # x
    <3>1. SessionInv(y) /\ down' \in [Conns -> Seq(ClientMsg)]
      BY DEF IInv, TypeOK
    <3>2. \A c \in Clients : servers'[c][y] = servers[c][y] /\ (game'[c] = y => game[c] = y)
      OBVIOUS
    <3>3. \A k \in Conns : k[2] = y =>
              /\ up'[k] = up[k] /\ down'[k] = down[k] /\ end'[k] = end[k]
              /\ k \in linked' <=> k \in linked
      BY <2>2
    <3>4. QED
      BY <2>2, <3>1, <3>2, <3>3, Untouched
  <2>3. QED
    BY <2>1, <2>2
<1>2. QED
  BY <1>1 DEF IInv

(* The host of x at the beginning and at the end of a step.                *)
HostOf(x) == [ctxs |-> ctxs[x], num |-> num[x], dirty |-> dirty[x], down |-> down,
              ousted |-> ousted[x]]

LEMMA MidwayBegins ==
    ASSUME IInv, NEW x \in Sessions, Serving(x), NEW lk,
           \A k \in Conns : /\ k \in linked /\ k[2] = x
                            /\ servers[k[1]][x].open /\ k[3] = servers[k[1]][x].gen
                            => k \in lk
    PROVE  Midway(x, HostOf(x), up, lk)
<1> DEFINE s == HostOf(x)
<1>1. /\ s.ctxs = ctxs[x] /\ s.num = num[x] /\ s.dirty = dirty[x] /\ s.down = down
      /\ s.ousted = ousted[x]
      /\ s = [ctxs |-> ctxs[x], num |-> num[x], dirty |-> dirty[x], down |-> down,
              ousted |-> ousted[x]]
  BY DEF HostOf
<1>2. /\ ctxs[x] \in Seq(Context) /\ num[x] \in 0..MaxClients /\ dirty[x] \in BOOLEAN
      /\ down \in [Conns -> Seq(ClientMsg)] /\ ousted[x] \in SUBSET Second
  BY DEF IInv, TypeOK, Second
<1>3. /\ num[x] = Len(ctxs[x]) /\ Seated(x)
      /\ \A c \in Clients : servers[c][x].open => Meets(c, x)
  BY DEF IInv, SessionInv, Agreeing
<1> HIDE DEF s
<1>4. IsHost(s)
  BY <1>1, <1>2, <1>3 DEF IsHost, HostState
<1>5. \A i \in DOMAIN ctxs[x] : ctxs[x][i].conn \in Conns
  <2>1. TAKE i \in DOMAIN ctxs[x]
  <2>2. ctxs[x][i] \in Context
    BY <1>2
  <2>3. QED
    BY <2>2 DEF Context
<1>6. Placed(x, s.ctxs, lk)
  BY <1>1, <1>3, <1>5 DEF Placed, Seated
<1>7. ASSUME NEW c \in Clients, servers[c][x].open
      PROVE  Fits(c, x, s, up)
  <2>1. Meets(c, x)
    BY <1>3, <1>7
  <2>2. QED
    BY <1>1, <2>1 DEF Meets, Fits, Informed
<1>8. QED
  BY <1>1, <1>4, <1>6, <1>7 DEF Midway, s

LEMMA MidwayEnds ==
    ASSUME NEW x \in Sessions, NEW s, NEW u, NEW lk, Midway(x, s, u, lk), servers' = servers,
           ctxs'[x] = s.ctxs, num'[x] = s.num, dirty'[x] = s.dirty, down' = s.down, ousted'[x] = s.ousted,
           up' = u, linked' = lk
    PROVE  Agreeing(x)'
<1>1. /\ s.num = Len(s.ctxs) /\ Placed(x, s.ctxs, lk)
      /\ \A c \in Clients : servers[c][x].open => Fits(c, x, s, u)
  BY DEF Midway, IsHost
<1>2. Seated(x)'
  BY <1>1 DEF Placed, Seated
<1>3. ASSUME NEW c \in Clients, servers'[c][x].open
      PROVE  Meets(c, x)'
  <2>1. Fits(c, x, s, u) /\ Conn(c, x)' = Conn(c, x)
    BY <1>1, <1>3 DEF Conn
  <2>2. QED
    BY <2>1 DEF Meets, Fits, Informed
<1>4. QED
  BY <1>1, <1>2, <1>3 DEF Agreeing

-----------------------------------------------------------------------------
(* The initial states, and the steps of a host.                            *)
LEMMA InitInv == Init => IInv
<1> SUFFICES ASSUME Init
             PROVE  IInv
  OBVIOUS
<1>1. /\ Closed \in ServerContext
      /\ Closed.gen = 0 /\ Closed.open = FALSE /\ Closed.sock = FALSE /\ Closed.joined = FALSE
  <2>1. 0 \in 0..MaxClients
    BY Constants
  <2>2. QED
    BY <2>1 DEF Closed, ServerContext
<1>2. TypeOK
  <2>1. MaxClients \in 1..MaxClients /\ 0 \in 0..MaxClients /\ 0 \in 0..MaxUserActions
    BY Constants
  <2>2. \A c \in Clients : MaxConns[c] \in Nat
    BY Constants
  <2>3. servers \in [Clients -> [Sessions -> ServerContext]]
    BY <1>1 DEF Init
  <2>4. \A c \in Clients, x \in Sessions : servers[c][x].gen <= MaxConns[c]
    BY <1>1, <2>2 DEF Init
  <2>5. /\ ctxs \in [Sessions -> Seq(Context)] /\ minis \in [Sessions -> Seq(Conns)]
        /\ roster \in [Sessions -> Seq(Clients)] /\ up \in [Conns -> Seq(ToServer)]
        /\ down \in [Conns -> Seq(ClientMsg)]
        /\ ousted \in [Sessions -> SUBSET {k \in Conns : k[3] > 1}]
    BY DEF Init
  <2>6. QED
    BY <2>1, <2>3, <2>4, <2>5 DEF Init, TypeOK
<1>3. ASSUME NEW x \in Sessions
      PROVE  SessionInv(x)
  <2>1. \A c \in Clients : servers[c][x] = Closed
    BY DEF Init
  <2>2. ~Serving(x)
    BY DEF Init, Serving
  <2>3. Wiring(x)
    <3>1. ASSUME NEW k \in Conns, k[2] = x
          PROVE  Wired(k, servers[k[1]][x], end[k], up[k], down[k], k \in linked,
                       Contains(minis[x], k))
      <4>1. servers[k[1]][x].gen = 0 /\ k[3] > 0
        BY <1>1, <2>1, ConnParts, Constants
      <4>2. /\ end[k] = "none" /\ up[k] = <<>> /\ down[k] = <<>> /\ k \notin linked
            /\ ~Contains(minis[x], k) /\ ~Contains(up[k], "close")
        BY DEF Init, Contains
      <4>3. k[3] \in Nat
        BY ConnParts
      <4>4. QED
        BY <4>1, <4>2, <4>3 DEF Wired
    <3>2. QED
      BY <3>1 DEF Wiring
  <2>4. Holding(x)
    BY <1>1, <2>1 DEF Holding
  <2>5. Hosting(x)
    BY <1>1, <2>1 DEF Init, Hosting, Line
  <2>6. Agreeing(x)
    BY <2>2 DEF Agreeing
  <2>7. Starting(x)
    <3>1. /\ \A k \in Conns : ~HasType(down[k], {"start"})
          /\ \A c \in Clients : game[c] # x /\ ~Contains(roster[x], c)
      BY Constants DEF Init, HasType, Contains
    <3>2. QED
      BY <3>1 DEF Starting
  <2>8. QED
    BY <2>3, <2>4, <2>5, <2>6, <2>7 DEF SessionInv
<1>4. QED
  BY <1>2, <1>3 DEF IInv

LEMMA OpenKeeps ==
    ASSUME IInv, NEW x \in Sessions, Open(x)
    PROVE  IInv'
<1>1. /\ state[x] = "new" /\ state' = [state EXCEPT ![x] = "open"]
      /\ UNCHANGED <<ctxs, max, num, dirty, ousted, roster, peer, wire, used>>
  BY DEF Open
<1>2. UNCHANGED <<client, servers, joinRef, attrsDirty, game, minis, linked, up, down, end>>
  BY <1>1 DEF peer, wire
<1>3. TypeOK /\ SessionInv(x)
  BY DEF IInv
<1>4. TypeOK'
  BY <1>1, <1>2, <1>3 DEF TypeOK
<1>5. ~Serving(x) /\ state'[x] = "open" /\ \A y \in Sessions : y # x => state'[y] = state[y]
  BY <1>1, <1>3 DEF TypeOK, Serving
<1>6. \A c \in Clients : servers[c][x].gen = 0 /\ ~servers[c][x].open /\ ~InGame(c, x)
  <2>1. \A c \in Clients : servers[c][x].gen = 0 /\ ~InGame(c, x)
    BY <1>1, <1>3 DEF SessionInv, Hosting, InGame
  <2>2. \A c \in Clients : servers[c][x].open => servers[c][x].gen >= 1
    BY <1>3 DEF SessionInv, Holding
  <2>3. QED
    BY <2>1, <2>2
<1>7. ctxs[x] = <<>> /\ minis[x] = <<>> /\ num[x] = 0 /\ Line(minis[x], x)
  BY <1>1, <1>3, <1>5 DEF SessionInv, Hosting
<1>8. SessionInv(x)'
  <2>1. Wiring(x)'
    BY <1>2, <1>3 DEF SessionInv, Wiring
  <2>2. Holding(x)'
    BY <1>2, <1>3, <1>6 DEF SessionInv, Holding
  <2>3. Hosting(x)'
    BY <1>1, <1>2, <1>5, <1>7 DEF Hosting, Serving
  <2>4. Agreeing(x)'
    BY <1>1, <1>2, <1>6, <1>7 DEF Agreeing, Seated
  <2>5. Starting(x)'
    <3>1. /\ \A k \in Conns : k[2] = x => ~HasType(down[k], {"start"})
          /\ \A c \in Clients : /\ game[c] # x
                                /\ Contains(roster[x], c) => servers[c][x].gen >= 1
      BY <1>3, <1>6, ConnParts DEF SessionInv, Starting
    <3>2. QED
      BY <1>1, <1>2, <1>5, <1>6, <3>1 DEF Starting
  <2>6. QED
    BY <2>1, <2>2, <2>3, <2>4, <2>5 DEF SessionInv
<1>9. QED
  BY <1>1, <1>2, <1>4, <1>5, <1>8, HostKeeps

LEMMA SetMaxKeeps ==
    ASSUME IInv, NEW x \in Sessions, NEW m \in 1..MaxClients, SetMaxNumClients(x, m)
    PROVE  IInv'
<1>1. /\ used < MaxUserActions /\ used' = used + 1 /\ Serving(x)
      /\ max' = [max EXCEPT ![x] = m]
      /\ num' = [num EXCEPT ![x] = Len(ctxs[x])] /\ dirty' = [dirty EXCEPT ![x] = TRUE]
      /\ UNCHANGED <<state, ctxs, ousted, roster, peer, wire>>
  BY DEF SetMaxNumClients, UserAction
<1>2. UNCHANGED <<client, servers, joinRef, attrsDirty, game, minis, linked, up, down, end>>
  BY <1>1 DEF peer, wire
<1>3. TypeOK /\ SessionInv(x)
  BY DEF IInv
<1>4. num[x] = Len(ctxs[x]) /\ num' = num /\ dirty'[x] = TRUE
      /\ \A y \in Sessions : y # x => dirty'[y] = dirty[y]
  <2>1. num[x] = Len(ctxs[x])
    BY <1>1, <1>3 DEF SessionInv, Agreeing
  <2>2. QED
    BY <1>1, <1>3, <2>1 DEF TypeOK
<1>5. TypeOK'
  BY <1>1, <1>2, <1>3, <1>4, Constants DEF TypeOK
<1>6. SessionInv(x)'
  <2>1. Wiring(x)' /\ Holding(x)' /\ Hosting(x)' /\ Starting(x)'
    <3>1. Wiring(x)'
      BY <1>2, <1>3 DEF SessionInv, Wiring
    <3>2. Holding(x)'
      BY <1>1, <1>2, <1>3 DEF SessionInv, Holding, Serving, Conn
    <3>3. Hosting(x)'
      BY <1>1, <1>2, <1>3, <1>4 DEF SessionInv, Hosting, Serving
    <3>4. Starting(x)'
      BY <1>1, <1>2, <1>3 DEF SessionInv, Starting, InGame, Conn
    <3>5. QED
      BY <3>1, <3>2, <3>3, <3>4
  <2>2. Agreeing(x)'
    <3>1. Seated(x) /\ \A c \in Clients : servers[c][x].open => Meets(c, x)
      BY <1>1, <1>3 DEF SessionInv, Agreeing
    <3>2. Seated(x)'
      BY <1>1, <1>2, <3>1 DEF Seated
    <3>3. \A c \in Clients : servers'[c][x].open => Meets(c, x)'
      BY <1>1, <1>2, <1>4, <3>1 DEF Meets, Conn
    <3>4. QED
      BY <1>1, <1>4, <3>2, <3>3 DEF Agreeing
  <2>3. QED
    BY <2>1, <2>2 DEF SessionInv
<1>7. QED
  BY <1>1, <1>2, <1>4, <1>5, <1>6, HostKeeps

(* A serving host that ends its step in state s.                           *)
LEMMA ServingKeeps ==
    ASSUME IInv, NEW x \in Sessions, Serving(x), NEW s, Midway(x, s, up', linked'),
           /\ ctxs' = [ctxs EXCEPT ![x] = s.ctxs] /\ num' = [num EXCEPT ![x] = s.num]
           /\ dirty' = [dirty EXCEPT ![x] = s.dirty] /\ down' = s.down
           /\ ousted' = [ousted EXCEPT ![x] = s.ousted],
           UNCHANGED <<state, max, roster, peer, end>>, used' \in 0..MaxUserActions,
           linked' \in SUBSET Conns, up' \in [Conns -> Seq(ToServer)],
           NEW q, minis' = [minis EXCEPT ![x] = q], Line(q, x),
           \A k \in Conns : k[2] # x => up'[k] = up[k] /\ (k \in linked' <=> k \in linked),
           \A k \in Conns : k[2] = x =>
              Wired(k, servers[k[1]][x], end[k], up'[k], down[k], k \in linked', Contains(q, k)),
           \A c \in Clients : servers[c][x].open =>
              Connected(Conn(c, x), up'[Conn(c, x)], Conn(c, x) \in linked',
                        Contains(q, Conn(c, x)))
    PROVE  IInv'
<1>1. /\ IsHost(s)
      /\ \A k \in Conns : /\ end[k] # "open" \/ k[2] # x => s.down[k] = down[k]
                          /\ HasType(s.down[k], {"start"}) <=> HasType(down[k], {"start"})
  BY DEF Midway
<1>2. /\ s.ctxs \in Seq(Context) /\ s.num \in 0..MaxClients /\ s.dirty \in BOOLEAN
      /\ s.down \in [Conns -> Seq(ClientMsg)] /\ s.ousted \in SUBSET {k \in Conns : k[3] > 1}
  BY <1>1 DEF IsHost, HostState, Second
<1>3. UNCHANGED <<client, servers, joinRef, attrsDirty, game>>
  BY DEF peer
<1>4. TypeOK /\ SessionInv(x)
  BY DEF IInv
<1>5. q \in Seq(Conns)
  BY DEF Line
<1>6. /\ ctxs'[x] = s.ctxs /\ num'[x] = s.num /\ dirty'[x] = s.dirty /\ minis'[x] = q
      /\ ousted'[x] = s.ousted
      /\ \A y \in Sessions : y # x => /\ ctxs'[y] = ctxs[y] /\ num'[y] = num[y]
                                      /\ dirty'[y] = dirty[y] /\ minis'[y] = minis[y]
                                      /\ ousted'[y] = ousted[y]
  BY <1>4 DEF TypeOK
<1>7. TypeOK'
  BY <1>2, <1>3, <1>4, <1>5 DEF TypeOK
<1>8. SessionInv(x)'
  <2>1. Agreeing(x)'
    BY <1>3, <1>6, MidwayEnds
  <2>2. Hosting(x)'
    BY <1>6 DEF Hosting, Serving
  <2>3. Holding(x)'
    <3>1. Holding(x)
      BY <1>4 DEF SessionInv
    <3>2. ASSUME NEW c \in Clients
          PROVE  LET r == servers'[c][x]
                     k == Conn(c, x)'
                 IN /\ ~r.open => ~r.sock /\ ~r.joined
                    /\ r.open => /\ r.gen >= 1
                                 /\ r.sock => end'[k] = "open"
                                 /\ Serving(x)' => r.sock /\ Connected(k, up'[k], k \in linked',
                                                                      Contains(minis'[x], k))
      <4>1. Conn(c, x)' = Conn(c, x)
        BY <1>3 DEF Conn
      <4>2. QED
        BY <1>3, <1>6, <3>1, <4>1 DEF Holding
    <3>3. QED
      BY <3>2 DEF Holding
  <2>4. Wiring(x)'
    <3>1. ASSUME NEW k \in Conns, k[2] = x
          PROVE  Wired(k, servers'[k[1]][x], end'[k], up'[k], down'[k], k \in linked',
                       Contains(minis'[x], k))
      <4>1. Wired(k, servers[k[1]][x], end[k], up'[k], down[k], k \in linked', Contains(q, k))
        BY <3>1
      <4>2. end[k] # "open" => down'[k] = down[k]
        BY <1>1
      <4>3. QED
        BY <1>3, <1>6, <4>1, <4>2 DEF Wired
    <3>2. QED
      BY <3>1 DEF Wiring
  <2>5. Starting(x)'
    <3>1. Starting(x) /\ Holding(x)
      BY <1>4 DEF SessionInv
    <3>2. \A c \in Clients : Conn(c, x)' = Conn(c, x) /\ (InGame(c, x)' <=> InGame(c, x))
      BY <1>3 DEF Conn, InGame
    <3>3. \A k \in Conns : HasType(down'[k], {"start"}) <=> HasType(down[k], {"start"})
      BY <1>1
    <3>4. \A c \in Clients : servers[c][x].open => Conn(c, x) \in Conns
      BY IInvTyped, ConnIs
    <3>5. QED
      BY <1>3, <3>1, <3>2, <3>3, <3>4, ConnParts DEF Starting
  <2>6. QED
    BY <2>1, <2>2, <2>3, <2>4, <2>5 DEF SessionInv
<1>9. \A k \in Conns : k[2] # x => down'[k] = down[k]
  BY <1>1
<1>10. QED
  BY <1>3, <1>6, <1>7, <1>8, <1>9, HostKeeps

LEMMA OpenEnds ==
    ASSUME IInv, NEW x \in Sessions, Serving(x), NEW c \in Clients, servers[c][x].open
    PROVE  /\ end[Conn(c, x)] = "open"
           /\ Connected(Conn(c, x), up[Conn(c, x)], Conn(c, x) \in linked,
                        Contains(minis[x], Conn(c, x)))
BY DEF IInv, SessionInv, Holding

LEMMA KickClientKeeps ==
    ASSUME IInv, NEW x \in Sessions, NEW i \in 1 .. Len(ctxs[x]), KickClient(x, i)
    PROVE  IInv'
<1> DEFINE s == KickAt(HostOf(x), i, linked)
<1>1. /\ used < MaxUserActions /\ used' = used + 1 /\ Serving(x)
      /\ ctxs' = [ctxs EXCEPT ![x] = s.ctxs] /\ num' = [num EXCEPT ![x] = s.num]
      /\ dirty' = [dirty EXCEPT ![x] = s.dirty] /\ down' = s.down
      /\ UNCHANGED <<state, max, ousted, roster, peer, minis, linked, up, end>>
  BY DEF KickClient, UserAction, HostOf
<1>2. TypeOK /\ SessionInv(x) /\ TypedServers
  BY IInvTyped DEF IInv
<1>3. Midway(x, HostOf(x), up, linked)
  BY <1>1, MidwayBegins
<1>4. i \in 1 .. Len(HostOf(x).ctxs)
  BY DEF HostOf
<1>0. ousted' = [ousted EXCEPT ![x] = s.ousted]
  <2>1. s.ousted = ousted[x] /\ ousted \in [Sessions -> SUBSET {k \in Conns : k[3] > 1}]
    BY <1>2 DEF KickAt, Update, HostOf, TypeOK
  <2>2. QED
    BY <1>1, <2>1
<1> HIDE DEF s
<1>5. Midway(x, s, up, linked)
  <2>1. \A c \in Clients : servers[c][x].open => end[Conn(c, x)] = "open"
    BY <1>1, OpenEnds
  <2>2. QED
    BY <1>2, <1>3, <1>4, <2>1, KickAtKeeps DEF s
<1>6. used' \in 0..MaxUserActions
  BY <1>1, <1>2, Constants DEF TypeOK
<1>7. /\ Line(minis[x], x) /\ minis' = [minis EXCEPT ![x] = minis[x]]
      /\ linked \in SUBSET Conns /\ up \in [Conns -> Seq(ToServer)]
  BY <1>1, <1>2 DEF TypeOK, SessionInv, Hosting
<1>8. \A k \in Conns : k[2] = x =>
         Wired(k, servers[k[1]][x], end[k], up[k], down[k], k \in linked, Contains(minis[x], k))
  BY <1>2 DEF SessionInv, Wiring
<1>9. \A c \in Clients : servers[c][x].open =>
         Connected(Conn(c, x), up[Conn(c, x)], Conn(c, x) \in linked,
                   Contains(minis[x], Conn(c, x)))
  BY <1>1, OpenEnds
<1>10. up' = up /\ linked' = linked
  BY <1>1
<1>11. Midway(x, s, up', linked')
  BY <1>5, <1>10
<1>12. /\ up' \in [Conns -> Seq(ToServer)] /\ linked' \in SUBSET Conns
       /\ \A k \in Conns : k[2] # x => up'[k] = up[k] /\ (k \in linked' <=> k \in linked)
       /\ \A k \in Conns : k[2] = x =>
            Wired(k, servers[k[1]][x], end[k], up'[k], down[k], k \in linked',
                  Contains(minis[x], k))
       /\ \A c \in Clients : servers[c][x].open =>
            Connected(Conn(c, x), up'[Conn(c, x)], Conn(c, x) \in linked',
                      Contains(minis[x], Conn(c, x)))
  BY <1>7, <1>8, <1>9, <1>10
<1>13. QED
  BY <1>1, <1>6, <1>7, <1>11, <1>12, <1>0, ServingKeeps

LEMMA LineLeft ==
    ASSUME NEW x, NEW q, Line(q, x), NEW T
    PROVE  /\ Line(LeaveOut(q, T), x)
           /\ \A k : Contains(LeaveOut(q, T), k) <=> Contains(q, k) /\ k \notin T
<1> DEFINE r == LeaveOut(q, T)
<1>1. /\ q \in Seq(Conns) /\ Len(q) \in Nat /\ DOMAIN q = 1 .. Len(q)
      /\ \A h \in 1 .. Len(q) : q[h] \in Conns /\ q[h][2] = x
      /\ \A h, j \in 1 .. Len(q) : h < j /\ q[h][1] = q[j][1] => q[h][3] < q[j][3]
  BY DEF Line
<1>2. IsInjective(q)
  <2>1. ASSUME NEW h \in 1 .. Len(q), NEW j \in 1 .. Len(q), q[h] = q[j], h < j
        PROVE  FALSE
    <3>1. q[h][3] < q[h][3]
      BY <1>1, <2>1
    <3>2. q[h][3] \in Nat
      BY <1>1, ConnParts
    <3>3. QED
      BY <3>1, <3>2
  <2>2. ASSUME NEW h \in 1 .. Len(q), NEW j \in 1 .. Len(q), q[h] = q[j]
        PROVE  h = j
    BY <1>1, <2>1, <2>2
  <2>3. QED
    BY <1>1, <2>2 DEF IsInjective
<1>3. /\ r \in Seq(Conns)
      /\ \A k : Contains(r, k) <=> Contains(q, k) /\ k \notin T
      /\ \A h, j : Before(r, h, j) <=> Before(q, h, j) /\ h \notin T /\ j \notin T
  BY <1>1, <1>2, LeaveOutOrder
<1> HIDE DEF r
<1>4. DOMAIN r = 1 .. Len(r)
  BY <1>3
<1>5. ASSUME NEW h \in DOMAIN r
      PROVE  r[h][2] = x
  <2>1. Contains(q, r[h])
    BY <1>3, <1>4 DEF Contains
  <2>2. QED
    BY <1>1, <2>1 DEF Contains
<1>6. ASSUME NEW h \in DOMAIN r, NEW j \in DOMAIN r, h < j, r[h][1] = r[j][1]
      PROVE  r[h][3] < r[j][3]
  <2>1. Before(r, r[h], r[j])
    BY <1>4, <1>6 DEF Before
  <2>2. Before(q, r[h], r[j])
    BY <1>3, <2>1
  <2>3. QED
    BY <1>1, <1>6, <2>2 DEF Before
<1>7. QED
  BY <1>3, <1>5, <1>6 DEF Line, r

LEMMA TriggerKeeps ==
    ASSUME IInv, NEW x \in Sessions, NEW R \in SUBSET Readable(x), Trigger(x, R)
    PROVE  IInv'
<1> DEFINE lk == (linked \cup {k \in R : Contains(up[k], "handshake")}) \ Ended(R)
           left == LeaveOut(minis[x], Ended(R))
           u == [k \in Conns |-> IF k \in R THEN <<>> ELSE up[k]]
           s0 == HostOf(x)
           h == HandleInbox(s0, x, R, lk)
           s1 == KickAbove(h, max[x], lk)
           s == Publish(s1, ToSet(left), lk)
<1>1. /\ Serving(x) /\ linked' = lk /\ minis' = [minis EXCEPT ![x] = left] /\ up' = u
      /\ ctxs' = [ctxs EXCEPT ![x] = s.ctxs] /\ num' = [num EXCEPT ![x] = s.num]
      /\ dirty' = [dirty EXCEPT ![x] = s.dirty] /\ down' = s.down
      /\ ousted' = [ousted EXCEPT ![x] = s.ousted]
      /\ UNCHANGED <<state, max, roster, peer, end, used>>
  BY DEF Trigger, HostOf
<1>2. TypeOK /\ SessionInv(x) /\ TypedServers
  BY IInvTyped DEF IInv
<1>3. /\ linked \subseteq Conns /\ up \in [Conns -> Seq(ToServer)] /\ max[x] \in 1..MaxClients
      /\ minis[x] \in Seq(Conns) /\ used \in 0..MaxUserActions
  BY <1>2 DEF TypeOK
<1>4. Line(minis[x], x)
  BY <1>2 DEF SessionInv, Hosting
<1>5. \A k \in Conns : k[2] = x =>
         Wired(k, servers[k[1]][x], end[k], up[k], down[k], k \in linked, Contains(minis[x], k))
  BY <1>2 DEF SessionInv, Wiring
<1>6. ASSUME NEW k, k \in R
      PROVE  k \in Conns /\ k[2] = x /\ Contains(minis[x], k) /\ (up[k] # <<>> \/ end[k] = "shut")
  <2>1. k \in ToSet(minis[x]) /\ (up[k] # <<>> \/ end[k] = "shut")
    BY <1>6 DEF Readable
  <2>2. Contains(minis[x], k)
    BY <1>3, <2>1 DEF ToSet, Contains
  <2>3. QED
    BY <1>3, <1>4, <2>1, <2>2 DEF Contains, Line
<1>7. ASSUME NEW k, k \in Ended(R)
      PROVE  k \in R /\ (Contains(up[k], "close") \/ up[k] = <<>>)
  BY <1>7 DEF Ended
<1>8. ASSUME NEW k \in Conns, k[2] = x, servers[k[1]][x].open, k[3] = servers[k[1]][x].gen
      PROVE  /\ end[k] = "open" /\ k \notin Ended(R)
             /\ Connected(k, up[k], k \in linked, Contains(minis[x], k))
             /\ k \in linked \/ k \in R => k \in lk
             /\ k \notin lk => Contains(u[k], "queryserverattrs")
             /\ Connected(k, u[k], k \in lk, TRUE)
  <2>1. k[1] \in Clients /\ k = Conn(k[1], x)
    BY <1>2, <1>8, ConnParts, ConnIs
  <2>2. end[k] = "open" /\ Connected(k, up[k], k \in linked, Contains(minis[x], k))
    BY <1>1, <1>8, <2>1, OpenEnds
  <2>3. ~Contains(up[k], "close")
    BY <1>5, <1>8, <2>2 DEF Wired
  <2>4. k \notin Ended(R)
    BY <1>6, <1>7, <2>2, <2>3
  <2>5. k \in linked \/ k \in R => k \in lk
    BY <2>2, <2>4 DEF Connected
  <2>6. k \notin lk => k \notin linked /\ u[k] = up[k]
    BY <2>5
  <2> HIDE DEF u, lk
  <2>7. k \notin lk => /\ Contains(u[k], "handshake") /\ Contains(u[k], "queryserverattrs")
    BY <2>2, <2>6 DEF Connected
  <2>8. QED
    BY <2>2, <2>4, <2>5, <2>7 DEF Connected
<1>9. \A k \in Conns : /\ k \in linked /\ k[2] = x
                       /\ servers[k[1]][x].open /\ k[3] = servers[k[1]][x].gen
                       => k \in lk
  BY <1>8
<1>10. /\ lk \subseteq Conns
       /\ \A k \in Conns : k \in lk => k \in linked \/ k \in R
       /\ \A k \in Conns : k[2] # x => (k \in lk <=> k \in linked)
  BY <1>3, <1>6, <1>7
<1>11. u \in [Conns -> Seq(ToServer)] /\ \A k \in Conns : u[k] = IF k \in R THEN <<>> ELSE up[k]
  BY <1>3
<1>12. Line(left, x) /\ \A k : Contains(left, k) <=> Contains(minis[x], k) /\ k \notin Ended(R)
  BY <1>4, LineLeft
<1>13. \A k \in R : Reaches(x, k, lk)
  <2>1. ASSUME NEW k \in R
        PROVE  Reaches(x, k, lk)
    <3>1. k \in Conns /\ k[2] = x /\ Contains(minis[x], k)
      BY <1>6
    <3>2. ~(k[3] > servers[k[1]][x].gen)
      BY <1>5, <3>1 DEF Wired
    <3>3. k[3] \in Nat /\ servers[k[1]][x].gen \in Nat
      BY <1>2, <3>1, ConnParts, ConnIs
    <3>4. servers[k[1]][x].open /\ k[3] = servers[k[1]][x].gen => Hears(k, lk)
      BY <1>8, <2>1, <3>1 DEF Hears
    <3>5. QED
      BY <3>1, <3>2, <3>3, <3>4 DEF Reaches
  <2>2. QED
    BY <2>1
<1> HIDE DEF lk, left, s0, h, s1, s
<1>14. Midway(x, s0, up, lk)
  BY <1>1, <1>9, MidwayBegins DEF s0
<1>15. InLine(x)
  BY <1>4, <1>5 DEF InLine, Wired
<1>16. Midway(x, h, u, lk)
  BY <1>2, <1>3, <1>13, <1>14, <1>15, InboxKeeps DEF h
<1> HIDE DEF u
<1>17. \A c \in Clients : servers[c][x].open => end[Conn(c, x)] = "open"
  BY <1>1, OpenEnds
<1>18. Midway(x, s1, u, lk)
  BY <1>2, <1>3, <1>16, <1>17, KickAboveKeeps DEF s1
<1>19. left \in Seq(Conns) /\ \A k \in ToSet(left) : k[2] = x
  <2>1. left \in Seq(Conns) /\ \A i \in DOMAIN left : left[i][2] = x
    BY <1>12 DEF Line
  <2>2. QED
    BY <2>1 DEF ToSet
<1>20. ASSUME NEW c \in Clients, servers[c][x].open
       PROVE  /\ Conn(c, x) \in ToSet(left)
              /\ Hears(Conn(c, x), lk) \/ Contains(u[Conn(c, x)], "queryserverattrs")
              /\ Connected(Conn(c, x), u[Conn(c, x)], Conn(c, x) \in lk, Contains(left, Conn(c, x)))
  <2> DEFINE k == Conn(c, x)
  <2>1. /\ k \in Conns /\ k[1] = c /\ k[2] = x /\ k[3] = servers[c][x].gen
    BY <1>2, <1>20, ConnIs
  <2> HIDE DEF k
  <2>2. /\ end[k] = "open" /\ k \notin Ended(R)
        /\ Connected(k, up[k], k \in linked, Contains(minis[x], k))
        /\ k \notin lk => Contains(u[k], "queryserverattrs")
        /\ Connected(k, u[k], k \in lk, TRUE)
    BY <1>8, <1>20, <2>1
  <2>3. Contains(left, k)
    BY <1>12, <2>2 DEF Connected
  <2>4. k \in ToSet(left)
    BY <1>19, <2>3 DEF ToSet, Contains
  <2>5. Connected(k, u[k], k \in lk, Contains(left, k))
    BY <2>2, <2>3 DEF Connected
  <2>6. QED
    BY <2>2, <2>4, <2>5 DEF Hears, k
<1>21. Midway(x, s, u, lk)
  BY <1>2, <1>18, <1>19, <1>20, PublishKeeps DEF s
<1>22. ASSUME NEW k \in Conns, k[2] = x
       PROVE  Wired(k, servers[k[1]][x], end[k], u[k], down[k], k \in lk, Contains(left, k))
  <2>1. Wired(k, servers[k[1]][x], end[k], up[k], down[k], k \in linked, Contains(minis[x], k))
    BY <1>5, <1>22
  <2>2. /\ k \in lk => k \in linked \/ k \in R
        /\ k \in R => Contains(minis[x], k) /\ u[k] = <<>>
        /\ k \notin R => u[k] = up[k] /\ (Contains(left, k) <=> Contains(minis[x], k))
        /\ Contains(left, k) => Contains(minis[x], k)
    <3>1. k \in R => Contains(minis[x], k)
      BY <1>6
    <3>2. k \notin R => k \notin Ended(R)
      BY <1>7
    <3>3. u[k] = IF k \in R THEN <<>> ELSE up[k]
      BY <1>11
    <3>4. k \in lk => k \in linked \/ k \in R
      BY <1>10
    <3>5. Contains(left, k) <=> Contains(minis[x], k) /\ k \notin Ended(R)
      BY <1>12
    <3>6. QED
      BY <3>1, <3>2, <3>3, <3>4, <3>5
  <2>3. ~Contains(<<>>, "close")
    BY DEF Contains
  <2>4. QED
    BY <2>1, <2>2, <2>3 DEF Wired
<1>23. ASSUME NEW k \in Conns, k[2] # x
       PROVE  u[k] = up[k] /\ (k \in lk <=> k \in linked)
  <2>1. k \notin R
    BY <1>6, <1>23
  <2>2. u[k] = IF k \in R THEN <<>> ELSE up[k]
    BY <1>11
  <2>3. k \in lk <=> k \in linked
    BY <1>10, <1>23
  <2>4. QED
    BY <2>1, <2>2, <2>3
<1>24. /\ Midway(x, s, up', linked') /\ used' \in 0..MaxUserActions
       /\ linked' \in SUBSET Conns /\ up' \in [Conns -> Seq(ToServer)]
       /\ \A k \in Conns : k[2] # x => up'[k] = up[k] /\ (k \in linked' <=> k \in linked)
       /\ \A k \in Conns : k[2] = x =>
            Wired(k, servers[k[1]][x], end[k], up'[k], down[k], k \in linked', Contains(left, k))
       /\ \A c \in Clients : servers[c][x].open =>
            Connected(Conn(c, x), up'[Conn(c, x)], Conn(c, x) \in linked',
                      Contains(left, Conn(c, x)))
  BY <1>1, <1>3, <1>10, <1>11, <1>20, <1>21, <1>22, <1>23
<1>25. QED
  BY <1>1, <1>12, <1>24, ServingKeeps

LEMMA ShutKeeps ==
    ASSUME IInv, NEW x \in Sessions, NEW how \in {"gone", "aborted"},
           Shut(x, how), roster' = roster, used' \in 0..MaxUserActions,
           down' \in [Conns -> Seq(ClientMsg)],
           \A k \in Conns : end[k] # "open" \/ k[2] # x => down'[k] = down[k]
    PROVE  IInv'
<1>1. /\ state' = [state EXCEPT ![x] = how] /\ ctxs' = [ctxs EXCEPT ![x] = <<>>]
      /\ minis' = [minis EXCEPT ![x] = <<>>]
      /\ up' = [k \in Conns |-> IF k[2] = x THEN <<>> ELSE up[k]]
      /\ linked' = {k \in linked : k[2] # x}
      /\ UNCHANGED <<max, num, dirty, ousted, end>>
      /\ UNCHANGED <<client, servers, joinRef, attrsDirty, game>>
  BY DEF Shut, peer
<1>2. TypeOK /\ SessionInv(x)
  BY DEF IInv
<1>3. TypeOK'
  <2>1. ctxs' \in [Sessions -> Seq(Context)] /\ minis' \in [Sessions -> Seq(Conns)]
        /\ state' \in [Sessions -> {"new", "open", "started", "gone", "aborted"}]
    BY <1>1, <1>2 DEF TypeOK
  <2>2. up' \in [Conns -> Seq(ToServer)] /\ linked' \subseteq Conns
    BY <1>1, <1>2 DEF TypeOK
  <2>3. QED
    BY <1>1, <1>2, <2>1, <2>2 DEF TypeOK
<1>4. /\ state'[x] = how /\ ctxs'[x] = <<>> /\ minis'[x] = <<>>
      /\ \A y \in Sessions : y # x => /\ state'[y] = state[y] /\ ctxs'[y] = ctxs[y]
                                      /\ minis'[y] = minis[y]
      /\ \A k \in Conns : /\ k[2] = x => up'[k] = <<>> /\ k \notin linked'
                          /\ k[2] # x => up'[k] = up[k] /\ (k \in linked' <=> k \in linked)
  BY <1>1, <1>2 DEF TypeOK
<1>5. ~Serving(x)' /\ \A c \in Clients : InGame(c, x)'
  BY <1>4 DEF Serving, InGame
<1>6. SessionInv(x)'
  <2>1. Wiring(x)'
    <3>1. ASSUME NEW k \in Conns, k[2] = x
          PROVE  Wired(k, servers'[k[1]][x], end'[k], up'[k], down'[k], k \in linked',
                       Contains(minis'[x], k))
      <4>1. Wired(k, servers[k[1]][x], end[k], up[k], down[k], k \in linked,
                  Contains(minis[x], k))
        BY <1>2, <3>1 DEF SessionInv, Wiring
      <4>2. /\ up'[k] = <<>> /\ k \notin linked' /\ ~Contains(minis'[x], k)
            /\ ~Contains(<<>>, "close")
            /\ end[k] = "none" => down'[k] = down[k]
        BY <1>4, <3>1 DEF Contains
      <4>3. QED
        BY <1>1, <4>1, <4>2 DEF Wired
    <3>2. QED
      BY <3>1 DEF Wiring
  <2>2. Holding(x)'
    BY <1>1, <1>2, <1>5 DEF SessionInv, Holding, Conn
  <2>3. Hosting(x)'
    BY <1>4 DEF Hosting, Line
  <2>4. Agreeing(x)'
    BY <1>5 DEF Agreeing
  <2>5. Starting(x)'
    <3>1. \A c \in Clients : Contains(roster[x], c) => servers[c][x].gen >= 1
      BY <1>2 DEF SessionInv, Starting
    <3>2. state'[x] # "started"
      BY <1>4
    <3>3. QED
      BY <1>1, <1>5, <3>1, <3>2, ConnParts DEF Starting
  <2>6. QED
    BY <2>1, <2>2, <2>3, <2>4, <2>5 DEF SessionInv
<1>7. QED
  BY <1>1, <1>3, <1>4, <1>6, HostKeeps

LEMMA CloseKeeps ==
    ASSUME IInv, NEW x \in Sessions, Close(x)
    PROVE  IInv'
<1> DEFINE J == {k \in Conns : k \in ToSet(minis[x]) /\ Hears(k, linked)}
           ms == Msg("closesession")
<1>1. /\ used < MaxUserActions /\ used' = used + 1
      /\ down' = SendAll(down, ToSet(minis[x]), ms, linked)
      /\ Shut(x, "gone") /\ roster' = roster
  BY DEF Close, UserAction
<1>2. TypeOK /\ SessionInv(x)
  BY DEF IInv
<1>3. ms \in ClientMsg
  BY Messages DEF ToClient
<1>4. used' \in 0..MaxUserActions /\ down \in [Conns -> Seq(ClientMsg)]
  BY <1>1, <1>2, Constants DEF TypeOK
<1> HIDE DEF ms
<1>5. Adds(down, down', ms, J)
  BY <1>1, <1>3, <1>4, SendAllAdds
<1>6. ASSUME NEW k \in Conns, end[k] # "open" \/ k[2] # x
      PROVE  k \notin J
  BY <1>2, <1>6 DEF SessionInv, Hosting, Line, ToSet, Hears
<1> HIDE DEF J
<1>7. /\ down' \in [Conns -> Seq(ClientMsg)]
      /\ \A k \in Conns : end[k] # "open" \/ k[2] # x => down'[k] = down[k]
  BY <1>5, <1>6 DEF Adds
<1>8. QED
  BY <1>1, <1>4, <1>7, ShutKeeps

LEMMA HostCrashKeeps ==
    ASSUME IInv, NEW x \in Sessions, HostCrash(x)
    PROVE  IInv'
<1>1. /\ used < MaxUserActions /\ used' = used + 1
      /\ Shut(x, "gone") /\ down' = down /\ roster' = roster
  BY DEF HostCrash, UserAction
<1>2. used' \in 0..MaxUserActions /\ down' \in [Conns -> Seq(ClientMsg)]
  BY <1>1, Constants DEF IInv, TypeOK
<1>3. QED
  BY <1>1, <1>2, ShutKeeps

(* Those who are told to start.                                            *)
LEMMA StartsAdds ==
    ASSUME IInv, NEW x \in Sessions, Serving(x), Starts(x)
    PROVE  /\ Adds(down, down', Msg("start"),
                   {k \in Conns : At(ctxs[x], k) # {} /\ Hears(k, linked)})
           /\ \A k \in Conns : At(ctxs[x], k) # {} =>
                 /\ k[2] = x /\ k[3] <= servers[k[1]][x].gen
                 /\ servers[k[1]][x].open /\ k[3] = servers[k[1]][x].gen => Hears(k, linked)
           /\ \A i \in DOMAIN ctxs[x] : ctxs[x][i].conn \in Conns
<1>1. TypeOK /\ SessionInv(x) /\ TypedServers
  BY IInvTyped DEF IInv
<1>2. /\ ctxs[x] \in Seq(Context) /\ down \in [Conns -> Seq(ClientMsg)]
      /\ Msg("start") \in ClientMsg
  BY <1>1, Messages DEF TypeOK, ToClient
<1>3. Seated(x)
  BY <1>1 DEF SessionInv, Agreeing
<1>4. down' = Tell(down, ctxs[x], Msg("start"), linked)
  BY DEF Starts
<1>5. Adds(down, down', Msg("start"), {k \in Conns : At(ctxs[x], k) # {} /\ Hears(k, linked)})
  BY <1>2, <1>4, TellAdds
<1>6. ASSUME NEW k \in Conns, At(ctxs[x], k) # {}
      PROVE  /\ k[2] = x /\ k[3] <= servers[k[1]][x].gen
             /\ servers[k[1]][x].open /\ k[3] = servers[k[1]][x].gen => Hears(k, linked)
  <2>1. PICK i \in DOMAIN ctxs[x] : ctxs[x][i].conn = k
    BY <1>6 DEF At
  <2>2. /\ k[2] = x /\ k[3] <= servers[k[1]][x].gen
        /\ servers[k[1]][x].open /\ k[3] = servers[k[1]][x].gen => k \in linked
    BY <1>3, <2>1 DEF Seated
  <2>3. ASSUME servers[k[1]][x].open, k[3] = servers[k[1]][x].gen
        PROVE  end[k] = "open"
    <3>1. k[1] \in Clients /\ k = Conn(k[1], x)
      BY <1>1, <2>2, <2>3, ConnParts, ConnIs
    <3>2. QED
      BY <2>3, <3>1, OpenEnds
  <2>4. QED
    BY <2>2, <2>3 DEF Hears
<1>7. \A i \in DOMAIN ctxs[x] : ctxs[x][i].conn \in Conns
  <2>1. TAKE i \in DOMAIN ctxs[x]
  <2>2. ctxs[x][i] \in Context
    BY <1>2
  <2>3. QED
    BY <2>2 DEF Context
<1>8. QED
  BY <1>5, <1>6, <1>7

LEMMA StartAbortsKeeps ==
    ASSUME IInv, NEW x \in Sessions, StartAborts(x)
    PROVE  IInv'
<1>1. /\ used < MaxUserActions /\ used' = used + 1 /\ Serving(x) /\ Starts(x)
      /\ Shut(x, "aborted") /\ roster' = roster
  BY DEF StartAborts, UserAction, Serving
<1>2. used' \in 0..MaxUserActions
  BY <1>1, Constants DEF IInv, TypeOK
<1> DEFINE J == {k \in Conns : At(ctxs[x], k) # {} /\ Hears(k, linked)}
<1>3. Adds(down, down', Msg("start"), J) /\ \A k \in Conns : At(ctxs[x], k) # {} => k[2] = x
  BY <1>1, StartsAdds
<1>4. \A k \in Conns : end[k] # "open" \/ k[2] # x => k \notin J
  BY <1>3 DEF Hears
<1> HIDE DEF J
<1>5. /\ down' \in [Conns -> Seq(ClientMsg)]
      /\ \A k \in Conns : end[k] # "open" \/ k[2] # x => down'[k] = down[k]
  BY <1>3, <1>4 DEF Adds
<1>6. QED
  BY <1>1, <1>2, <1>5, ShutKeeps

LEMMA StartKeeps ==
    ASSUME IInv, NEW x \in Sessions, Start(x)
    PROVE  IInv'
<1> DEFINE cs == ctxs[x]
           J == {k \in Conns : At(cs, k) # {} /\ Hears(k, linked)}
           ro == [i \in 1..Len(cs) |-> GuidOf(cs[i])]
           ms == Msg("start")
<1>1. /\ used < MaxUserActions /\ used' = used + 1 /\ state[x] = "open" /\ Starts(x)
      /\ roster' = [roster EXCEPT ![x] = ro]
      /\ state' = [state EXCEPT ![x] = "started"]
      /\ UNCHANGED <<ctxs, max, num, dirty, ousted, minis, linked, up, end>>
      /\ UNCHANGED <<client, servers, joinRef, attrsDirty, game>>
  BY DEF Start, UserAction, peer
<1>2. TypeOK /\ SessionInv(x) /\ TypedServers /\ Serving(x)
  BY <1>1, IInvTyped DEF IInv, Serving
<1>3. /\ Adds(down, down', ms, J)
      /\ \A k \in Conns : At(cs, k) # {} =>
            /\ k[2] = x /\ k[3] <= servers[k[1]][x].gen
            /\ servers[k[1]][x].open /\ k[3] = servers[k[1]][x].gen => Hears(k, linked)
      /\ \A i \in DOMAIN cs : cs[i].conn \in Conns
  BY <1>1, <1>2, StartsAdds
<1>4. cs \in Seq(Context) /\ DOMAIN cs = 1 .. Len(cs)
  BY <1>2 DEF TypeOK
<1>5. ro \in Seq(Clients) /\ Len(ro) = Len(cs) /\ \A i \in 1 .. Len(cs) : ro[i] = cs[i].conn[1]
  BY <1>3, <1>4, ConnParts DEF GuidOf
<1> HIDE DEF ro
<1>6. /\ state'[x] = "started" /\ roster'[x] = ro
      /\ \A y \in Sessions : y # x => state'[y] = state[y] /\ roster'[y] = roster[y]
  BY <1>1, <1>2 DEF TypeOK
<1>7. \A c : Contains(ro, c) <=> \E i \in DOMAIN cs : cs[i].conn[1] = c
  BY <1>4, <1>5 DEF Contains
<1>8. ms \in ClientMsg /\ ms.type = "start"
  BY Messages DEF ToClient
<1>9. down \in [Conns -> Seq(ClientMsg)]
  BY <1>2 DEF TypeOK
<1>10. \A k \in Conns : (k \in J <=> At(cs, k) # {} /\ Hears(k, linked))
  OBVIOUS
<1> HIDE DEF J, ms, cs
<1>11. /\ down' \in [Conns -> Seq(ClientMsg)]
       /\ \A k \in Conns : /\ k \notin J => down'[k] = down[k]
                           /\ k \in J => Len(down'[k]) > Len(down[k])
                           /\ More(down[k], down'[k], ms)
  BY <1>3 DEF Adds
<1>12. ASSUME NEW k \in Conns, NEW r
       PROVE  /\ JoinedAfter(r, down'[k]) = JoinedAfter(r, down[k])
              /\ ViewAfter(r, down'[k]) = ViewAfter(r, down[k])
              /\ \A T : "start" \notin T => (HasType(down'[k], T) <=> HasType(down[k], T))
  <2>1. Added(down[k], down'[k], ms, k \in J, r)
    BY <1>3, <1>9, AddedFacts
  <2>2. QED
    BY <1>8, <2>1 DEF Added, Answers
<1>13. ASSUME NEW k \in Conns
       PROVE  HasType(down'[k], {"start"}) <=> HasType(down[k], {"start"}) \/ k \in J
  <2>1. down[k] \in Seq(ClientMsg) /\ More(down[k], down'[k], ms)
    BY <1>9, <1>11
  <2>2. HasType(down'[k], {"start"}) <=>
           HasType(down[k], {"start"}) \/ (Len(down'[k]) > Len(down[k]) /\ ms.type \in {"start"})
    BY <2>1, AfterMore
  <2>3. k \in J <=> Len(down'[k]) > Len(down[k])
    <3>1. k \notin J => Len(down'[k]) = Len(down[k])
      BY <1>11
    <3>2. Len(down[k]) \in Nat
      BY <2>1
    <3>3. QED
      BY <1>11, <3>1, <3>2
  <2>4. QED
    BY <1>8, <2>2, <2>3
<1>14. \A k \in Conns : end[k] # "open" \/ k[2] # x => down'[k] = down[k]
  BY <1>3, <1>10, <1>11 DEF Hears
<1>15. TypeOK'
  <2>1. state' \in [Sessions -> {"new", "open", "started", "gone", "aborted"}]
        /\ roster' \in [Sessions -> Seq(Clients)]
    BY <1>1, <1>2, <1>5 DEF TypeOK
  <2>2. used' \in 0..MaxUserActions
    BY <1>1, <1>2, Constants DEF TypeOK
  <2>3. QED
    BY <1>1, <1>2, <1>11, <2>1, <2>2 DEF TypeOK
<1>16. SessionInv(x)'
  <2>1. Wiring(x)'
    <3>1. ASSUME NEW k \in Conns, k[2] = x
          PROVE  Wired(k, servers'[k[1]][x], end'[k], up'[k], down'[k], k \in linked',
                       Contains(minis'[x], k))
      <4>1. Wired(k, servers[k[1]][x], end[k], up[k], down[k], k \in linked, Contains(minis[x], k))
        BY <1>2, <3>1 DEF SessionInv, Wiring
      <4>2. end[k] = "none" => down'[k] = down[k]
        BY <1>14
      <4>3. QED
        BY <1>1, <4>1, <4>2 DEF Wired
    <3>2. QED
      BY <3>1 DEF Wiring
  <2>2. Holding(x)'
    BY <1>1, <1>2 DEF SessionInv, Holding, Conn
  <2>3. Hosting(x)'
    BY <1>1, <1>2, <1>6 DEF SessionInv, Hosting, Serving
  <2>4. Agreeing(x)'
    <3>1. num[x] = Len(ctxs[x]) /\ Seated(x) /\ \A c \in Clients : servers[c][x].open => Meets(c, x)
      BY <1>2 DEF SessionInv, Agreeing
    <3>2. Seated(x)'
      BY <1>1, <3>1 DEF Seated
    <3>3. ASSUME NEW c \in Clients, servers'[c][x].open
          PROVE  Meets(c, x)'
      <4> DEFINE k == Conn(c, x)
                 r == servers[c][x]
                 d == down[k]
                 d2 == down'[k]
      <4>1. Conn(c, x)' = k /\ k \in Conns /\ servers'[c][x] = r
        BY <1>1, <1>2, <3>3, ConnIs DEF Conn
      <4>2. /\ dirty[x] \/ Contains(up[k], "queryserverattrs") \/ ViewAfter(r, d) = num[x]
            /\ c \notin Hasty => Side(k, r, ctxs[x], ousted[x], up[k], d)
        BY <1>1, <3>1, <3>3 DEF Meets
      <4>3. /\ JoinedAfter(r, d2) = JoinedAfter(r, d)
            /\ ViewAfter(r, d2) = ViewAfter(r, d)
            /\ \A T : "start" \notin T => (HasType(d2, T) <=> HasType(d, T))
        BY <1>12, <4>1
      <4> HIDE DEF k, r, d, d2
      <4>4. Side(k, r, ctxs[x], ousted[x], up[k], d) => Side(k, r, ctxs[x], ousted[x], up[k], d2)
        BY <4>3 DEF Side
      <4>5. /\ dirty'[x] \/ Contains(up'[k], "queryserverattrs") \/ ViewAfter(r, d2) = num'[x]
            /\ c \notin Hasty => Side(k, r, ctxs'[x], ousted'[x], up'[k], d2)
        BY <1>1, <4>2, <4>3, <4>4
      <4>6. QED
        BY <4>1, <4>5 DEF Meets, d2
    <3>4. QED
      BY <1>1, <3>1, <3>2, <3>3 DEF Agreeing
  <2>5. Starting(x)'
    <3>1. /\ \A k \in Conns : k[2] = x => ~HasType(down[k], {"start"})
          /\ \A c \in Clients : game[c] # x
      BY <1>1, <1>2, ConnParts DEF SessionInv, Starting, InGame
    <3>2. \A c \in Clients : InGame(c, x)' <=> Contains(ro, c)
      BY <1>6 DEF InGame
    <3>3. ASSUME NEW k \in Conns, k[2] = x, HasType(down'[k], {"start"})
          PROVE  InGame(k[1], x)'
      <4>1. At(cs, k) # {}
        BY <1>10, <1>13, <3>1, <3>3
      <4>2. Contains(ro, k[1])
        BY <1>7, <4>1 DEF At
      <4>3. QED
        BY <3>2, <4>2, ConnParts
    <3>4. ASSUME NEW c \in Clients, Contains(ro, c)
          PROVE  /\ servers[c][x].gen >= 1
                 /\ servers[c][x].open /\ servers[c][x].gen = 1
                       => HasType(down'[Conn(c, x)], {"start"})
      <4>1. PICK i \in DOMAIN cs : cs[i].conn[1] = c
        BY <1>7, <3>4
      <4> DEFINE k == cs[i].conn
      <4>2. k \in Conns /\ At(cs, k) # {} /\ k[1] = c
        BY <1>3, <4>1 DEF At
      <4> HIDE DEF k
      <4>3. /\ k[2] = x /\ k[3] <= servers[c][x].gen /\ k[3] \in Nat /\ k[3] >= 1
            /\ servers[c][x].open /\ k[3] = servers[c][x].gen => Hears(k, linked)
            /\ servers[c][x].gen \in Nat
        BY <1>2, <1>3, <4>2, ConnParts, ConnIs, Constants
      <4>4. ASSUME servers[c][x].open, servers[c][x].gen = 1
            PROVE  HasType(down'[Conn(c, x)], {"start"})
        <5>1. k[3] = 1
          BY <4>3, <4>4
        <5>2. k = Conn(c, x)
          BY <1>2, <4>2, <4>3, <4>4, <5>1, ConnIs
        <5>3. k \in J
          BY <1>10, <4>2, <4>3, <4>4, <5>1
        <5>4. QED
          BY <1>13, <4>2, <5>2, <5>3
      <4>5. QED
        BY <4>3, <4>4
    <3>5. QED
      BY <1>1, <1>6, <3>1, <3>3, <3>4 DEF Starting, Conn
  <2>6. QED
    BY <2>1, <2>2, <2>3, <2>4, <2>5 DEF SessionInv
<1>17. QED
  BY <1>1, <1>6, <1>14, <1>15, <1>16, HostKeeps

LEMMA HostStepKeeps ==
    ASSUME IInv, NEW x \in Sessions, Host(x)
    PROVE  IInv'
<1>1. CASE Open(x)
  BY <1>1, OpenKeeps
<1>2. CASE \E m \in 1..MaxClients : SetMaxNumClients(x, m)
  BY <1>2, SetMaxKeeps
<1>3. CASE \E i \in 1..Len(ctxs[x]) : KickClient(x, i)
  BY <1>3, KickClientKeeps
<1>4. CASE Close(x)
  BY <1>4, CloseKeeps
<1>5. CASE HostCrash(x)
  BY <1>5, HostCrashKeeps
<1>6. CASE Start(x)
  BY <1>6, StartKeeps
<1>7. CASE StartAborts(x)
  BY <1>7, StartAbortsKeeps
<1>8. CASE ServerTrigger(x)
  BY <1>8, TriggerKeeps DEF ServerTrigger
<1>9. QED
  BY <1>1, <1>2, <1>3, <1>4, <1>5, <1>6, <1>7, <1>8 DEF Host

-----------------------------------------------------------------------------
(* The steps of a client: what the invariant says of client c and session  *)
(* x, and that this is all that the client can disturb.                    *)
Begun(c, x) ==
    /\ \A k \in Conns : k[1] = c /\ k[2] = x /\ HasType(down[k], {"start"}) => InGame(c, x)
    /\ game[c] = x => InGame(c, x)
    /\ Contains(roster[x], c) => servers[c][x].gen >= 1
    /\ /\ state[x] = "started" /\ Contains(roster[x], c)
       /\ servers[c][x].open /\ servers[c][x].gen = 1
       => HasType(down[Conn(c, x)], {"start"})

Held(c, x) ==
    LET r == servers[c][x]
        k == Conn(c, x)
    IN /\ ~r.open => ~r.sock /\ ~r.joined
       /\ r.open => /\ r.gen >= 1
                    /\ r.sock => end[k] = "open"
                    /\ Serving(x) => r.sock /\ Connected(k, up[k], k \in linked,
                                                         Contains(minis[x], k))

Sits(c, x) ==
    \A i \in DOMAIN ctxs[x] : ctxs[x][i].conn[1] = c =>
        LET k == ctxs[x][i].conn
            r == servers[c][x]
        IN /\ k[2] = x /\ k[3] <= r.gen
           /\ r.open /\ k[3] = r.gen => k \in linked

Own(c, x) ==
    /\ \A k \in Conns : k[1] = c /\ k[2] = x =>
          Wired(k, servers[c][x], end[k], up[k], down[k], k \in linked, Contains(minis[x], k))
    /\ Held(c, x)
    /\ ~Serving(x) => minis[x] = <<>>
    /\ state[x] = "new" => servers[c][x].gen = 0
    /\ Line(minis[x], x)
    /\ Serving(x) => Sits(c, x) /\ (servers[c][x].open => Meets(c, x))
    /\ Begun(c, x)

LEMMA OwnBefore ==
    ASSUME IInv, NEW c \in Clients, NEW x \in Sessions
    PROVE  Own(c, x)
<1>1. /\ Wiring(x) /\ Holding(x) /\ Hosting(x) /\ Agreeing(x) /\ Starting(x)
  BY DEF IInv, SessionInv
<1>2. \A k \in Conns : k[1] = c /\ k[2] = x =>
          Wired(k, servers[c][x], end[k], up[k], down[k], k \in linked, Contains(minis[x], k))
  BY <1>1 DEF Wiring
<1>3. Held(c, x)
  BY <1>1 DEF Holding, Held
<1>4. /\ ~Serving(x) => minis[x] = <<>>
      /\ state[x] = "new" => servers[c][x].gen = 0
      /\ Line(minis[x], x)
  BY <1>1 DEF Hosting
<1>5. Serving(x) => Sits(c, x) /\ (servers[c][x].open => Meets(c, x))
  BY <1>1 DEF Agreeing, Seated, Sits
<1>6. Begun(c, x)
  BY <1>1 DEF Starting, Begun
<1>7. QED
  BY <1>2, <1>3, <1>4, <1>5, <1>6 DEF Own

(* Whatever client c does, the host's contexts and flags stay as they are, *)
(* and so do the other clients and their connections.                      *)
Beside(c) ==
    /\ UNCHANGED <<state, ctxs, num, dirty, ousted, roster, linked>>
    /\ \A b \in Clients : b # c => servers'[b] = servers[b] /\ game'[b] = game[b]
    /\ \A k \in Conns : k[1] # c =>
          /\ up'[k] = up[k] /\ down'[k] = down[k] /\ end'[k] = end[k]
          /\ Contains(minis'[k[2]], k) <=> Contains(minis[k[2]], k)

LEMMA ClientKeeps ==
    ASSUME IInv, TypeOK', NEW c \in Clients, Beside(c), \A x \in Sessions : Own(c, x)'
    PROVE  IInv'
<1>1. TypedServers
  BY IInvTyped
<1>2. ASSUME NEW x \in Sessions
      PROVE  SessionInv(x)'
  <2>1. /\ Wiring(x) /\ Holding(x) /\ Hosting(x) /\ Agreeing(x) /\ Starting(x)
    BY DEF IInv, SessionInv
  <2>2. /\ \A k \in Conns : k[1] = c /\ k[2] = x =>
              Wired(k, servers'[c][x], end'[k], up'[k], down'[k], k \in linked',
                    Contains(minis'[x], k))
        /\ Held(c, x)'
        /\ ~Serving(x)' => minis'[x] = <<>>
        /\ state'[x] = "new" => servers'[c][x].gen = 0
        /\ Line(minis'[x], x)
        /\ Serving(x)' => Sits(c, x)' /\ (servers'[c][x].open => Meets(c, x)')
        /\ Begun(c, x)'
    BY DEF Own
  <2>3. /\ state'[x] = state[x] /\ ctxs'[x] = ctxs[x] /\ num'[x] = num[x]
        /\ dirty'[x] = dirty[x] /\ ousted'[x] = ousted[x] /\ roster'[x] = roster[x]
        /\ linked' = linked /\ (Serving(x)' <=> Serving(x))
    BY DEF Beside, Serving
  <2>4. /\ \A b \in Clients : b # c => servers'[b] = servers[b] /\ game'[b] = game[b]
        /\ \A k \in Conns : k[1] # c =>
              /\ up'[k] = up[k] /\ down'[k] = down[k] /\ end'[k] = end[k]
              /\ Contains(minis'[k[2]], k) <=> Contains(minis[k[2]], k)
    BY DEF Beside
  <2>5. \A b \in Clients : b # c =>
           /\ servers'[b][x] = servers[b][x] /\ Conn(b, x)' = Conn(b, x)
           /\ InGame(b, x)' <=> InGame(b, x)
    BY <2>3, <2>4 DEF Conn, InGame
  <2>6. ASSUME NEW b \in Clients, b # c, servers[b][x].open
        PROVE  /\ Conn(b, x) \in Conns /\ Conn(b, x)[1] # c /\ Conn(b, x)[2] = x
               /\ up'[Conn(b, x)] = up[Conn(b, x)] /\ down'[Conn(b, x)] = down[Conn(b, x)]
               /\ end'[Conn(b, x)] = end[Conn(b, x)]
               /\ Contains(minis'[x], Conn(b, x)) <=> Contains(minis[x], Conn(b, x))
    <3>1. Conn(b, x) \in Conns /\ Conn(b, x)[1] = b /\ Conn(b, x)[2] = x
      BY <1>1, <2>6, ConnIs
    <3>2. QED
      BY <2>4, <2>6, <3>1
  <2>7. Wiring(x)'
    <3>1. ASSUME NEW k \in Conns, k[2] = x
          PROVE  Wired(k, servers'[k[1]][x], end'[k], up'[k], down'[k], k \in linked',
                       Contains(minis'[x], k))
      <4>1. CASE k[1] = c
        BY <2>2, <3>1, <4>1
      <4>2. CASE k[1] # c
        <5>1. Wired(k, servers[k[1]][x], end[k], up[k], down[k], k \in linked,
                    Contains(minis[x], k))
          BY <2>1, <3>1 DEF Wiring
        <5>2. /\ servers'[k[1]][x] = servers[k[1]][x] /\ end'[k] = end[k] /\ up'[k] = up[k]
              /\ down'[k] = down[k] /\ linked' = linked
              /\ Contains(minis'[x], k) <=> Contains(minis[x], k)
          BY <2>3, <2>4, <2>5, <3>1, <4>2, ConnParts
        <5>3. QED
          BY <5>1, <5>2 DEF Wired
      <4>3. QED
        BY <4>1, <4>2
    <3>2. QED
      BY <3>1 DEF Wiring
  <2>8. Holding(x)'
    <3>1. ASSUME NEW b \in Clients
          PROVE  Held(b, x)'
      <4>1. CASE b = c
        BY <2>2, <4>1
      <4>2. CASE b # c
        <5>1. Held(b, x)
          BY <2>1 DEF Holding, Held
        <5>2. QED
          BY <2>3, <2>5, <2>6, <4>2, <5>1 DEF Held, Connected
      <4>3. QED
        BY <4>1, <4>2
    <3>2. QED
      BY <3>1 DEF Holding, Held
  <2>9. Hosting(x)'
    BY <2>1, <2>2, <2>3, <2>5 DEF Hosting
  <2>10. Agreeing(x)'
    <3>1. SUFFICES ASSUME Serving(x)
                   PROVE  /\ num'[x] = Len(ctxs'[x])
                          /\ Seated(x)'
                          /\ \A b \in Clients : servers'[b][x].open => Meets(b, x)'
      BY <2>3 DEF Agreeing
    <3>2. /\ num[x] = Len(ctxs[x]) /\ Seated(x)
          /\ \A b \in Clients : servers[b][x].open => Meets(b, x)
      BY <2>1, <3>1 DEF Agreeing
    <3>3. Sits(c, x)' /\ (servers'[c][x].open => Meets(c, x)')
      BY <2>2, <2>3, <3>1
    <3>4. Seated(x)'
      <4>1. ctxs[x] \in Seq(Context)
        BY DEF IInv, TypeOK
      <4>2. \A i \in DOMAIN ctxs[x] : ctxs[x][i].conn \in Conns
        <5>1. TAKE i \in DOMAIN ctxs[x]
        <5>2. ctxs[x][i] \in Context
          BY <4>1
        <5>3. QED
          BY <5>2 DEF Context
      <4>3. ASSUME NEW i \in DOMAIN ctxs[x]
            PROVE  LET k == ctxs[x][i].conn
                       r == servers'[k[1]][x]
                   IN /\ k[2] = x /\ k[3] <= r.gen
                      /\ r.open /\ k[3] = r.gen => k \in linked'
        <5> DEFINE k == ctxs[x][i].conn
                   r == servers[k[1]][x]
        <5>1. k[1] \in Clients
          BY <4>2, ConnParts
        <5>2. CASE k[1] = c
          BY <2>3, <3>3, <5>2 DEF Sits
        <5>3. CASE k[1] # c
          <6>1. /\ k[2] = x /\ k[3] <= r.gen
                /\ r.open /\ k[3] = r.gen => k \in linked
            BY <3>2 DEF Seated
          <6> HIDE DEF k
          <6>2. QED
            BY <2>3, <2>5, <5>1, <5>3, <6>1 DEF k
        <5>4. QED
          BY <5>2, <5>3
      <4>4. QED
        BY <2>3, <4>3 DEF Seated
    <3>5. ASSUME NEW b \in Clients, servers'[b][x].open
          PROVE  Meets(b, x)'
      <4>1. CASE b = c
        BY <3>3, <3>5, <4>1
      <4>2. CASE b # c
        <5>1. servers[b][x].open /\ Meets(b, x)
          BY <2>5, <3>2, <3>5, <4>2
        <5>2. QED
          BY <2>3, <2>5, <2>6, <4>2, <5>1 DEF Meets
      <4>3. QED
        BY <4>1, <4>2
    <3>6. QED
      BY <2>3, <3>2, <3>4, <3>5
  <2>11. Starting(x)'
    <3>1. ASSUME NEW b \in Clients
          PROVE  Begun(b, x)'
      <4>1. CASE b = c
        BY <2>2, <4>1
      <4>2. CASE b # c
        <5>1. Begun(b, x)
          BY <2>1 DEF Starting, Begun
        <5>2. QED
          BY <2>3, <2>4, <2>5, <2>6, <4>2, <5>1 DEF Begun
      <4>3. QED
        BY <4>1, <4>2
    <3>2. QED
      BY <3>1, ConnParts DEF Starting, Begun
  <2>12. QED
    BY <2>7, <2>8, <2>9, <2>10, <2>11 DEF SessionInv
<1>3. QED
  BY <1>2 DEF IInv

(* Nothing is under way to a host that does not serve.                     *)
LEMMA UpServed ==
    ASSUME IInv, NEW k \in Conns
    PROVE  /\ ~Serving(k[2]) => up[k] = <<>>
           /\ up[k] # <<>> => Contains(minis[k[2]], k)
<1>1. k[1] \in Clients /\ k[2] \in Sessions
  BY ConnParts
<1>2. /\ ~Serving(k[2]) => minis[k[2]] = <<>>
      /\ Wired(k, servers[k[1]][k[2]], end[k], up[k], down[k], k \in linked,
               Contains(minis[k[2]], k))
  BY <1>1, OwnBefore DEF Own
<1>3. minis[k[2]] = <<>> => ~Contains(minis[k[2]], k)
  BY DEF Contains
<1>4. QED
  BY <1>2, <1>3 DEF Wired

(* A context that is released, or was before, and its connections.         *)
LEMMA OwnCloses ==
    ASSUME IInv, TypeOK', NEW c \in Clients, Beside(c), NEW x \in Sessions,
           ~servers'[c][x].open, ~servers'[c][x].sock, ~servers'[c][x].joined,
           servers'[c][x].gen = servers[c][x].gen,
           minis'[x] = minis[x], game'[c] = x => InGame(c, x),
           \A k \in Conns : k[1] = c /\ k[2] = x =>
              /\ end'[k] # "open" /\ (end'[k] = "none" <=> end[k] = "none")
              /\ down'[k] = <<>> \/ down'[k] = down[k]
              /\ up'[k] # <<>> => Contains(minis[x], k)
    PROVE  Own(c, x)'
<1> DEFINE r == servers[c][x]
           r2 == servers'[c][x]
<1>1. /\ state'[x] = state[x] /\ ctxs'[x] = ctxs[x] /\ roster'[x] = roster[x]
      /\ linked' = linked /\ (Serving(x)' <=> Serving(x)) /\ (InGame(c, x)' <=> InGame(c, x))
  BY DEF Beside, Serving, InGame
<1>2. Own(c, x)
  BY OwnBefore
<1>3. ASSUME NEW k \in Conns, k[1] = c /\ k[2] = x
      PROVE  Wired(k, r2, end'[k], up'[k], down'[k], k \in linked', Contains(minis'[x], k))
  <2>1. Wired(k, r, end[k], up[k], down[k], k \in linked, Contains(minis[x], k))
    BY <1>2, <1>3 DEF Own
  <2>2. end'[k] \in {"none", "open", "shut"}
    BY DEF TypeOK
  <2>3. Contains(up'[k], "close") => up'[k] # <<>>
    BY DEF Contains
  <2>4. k[3] \in Nat /\ r.gen \in Nat
    BY ConnParts, ConnIs, IInvTyped
  <2>5. /\ r2.gen = r.gen /\ linked' = linked /\ minis'[x] = minis[x]
        /\ end'[k] # "open" /\ (end'[k] = "none" <=> end[k] = "none")
        /\ down'[k] = <<>> \/ down'[k] = down[k]
        /\ up'[k] # <<>> => Contains(minis[x], k)
    BY <1>1, <1>3
  <2> HIDE DEF r, r2
  <2>6. QED
    BY <2>1, <2>2, <2>3, <2>4, <2>5 DEF Wired
<1>4. Held(c, x)'
  BY DEF Held
<1>5. Serving(x) => Sits(c, x)'
  BY <1>1, <1>2 DEF Own, Sits
<1>6. Begun(c, x)'
  <2>1. Begun(c, x)
    BY <1>2 DEF Own
  <2>2. ASSUME NEW k \in Conns, k[1] = c, k[2] = x, HasType(down'[k], {"start"})
        PROVE  HasType(down[k], {"start"})
    BY <2>2 DEF HasType
  <2>3. QED
    BY <1>1, <2>1, <2>2 DEF Begun
<1>7. QED
  BY <1>1, <1>2, <1>3, <1>4, <1>5, <1>6 DEF Own

(* A context that is made, and its new connection.                         *)
LEMMA OwnOpens ==
    ASSUME IInv, TypeOK', NEW c \in Clients, Beside(c), NEW x \in Sessions,
           Serving(x), ~servers[c][x].open, servers[c][x].gen < MaxConns[c],
           NEW h, h = <<c, x, servers[c][x].gen + 1>>,
           servers'[c][x] = Opened(servers[c][x].gen + 1),
           minis'[x] = Append(minis[x], h), game'[c] = x => InGame(c, x),
           /\ end'[h] = "open" /\ down'[h] = <<>>
           /\ up'[h] = <<"handshake", "queryserverattrs">>,
           \A k \in Conns : k[1] = c /\ k[2] = x /\ k # h =>
              /\ end'[k] = end[k] /\ down'[k] = down[k] /\ up'[k] = up[k]
    PROVE  Own(c, x)'
<1> DEFINE r == servers[c][x]
           r2 == servers'[c][x]
           u == up'[h]
<1>1. /\ state'[x] = state[x] /\ ctxs'[x] = ctxs[x] /\ roster'[x] = roster[x]
      /\ linked' = linked /\ (Serving(x)' <=> Serving(x)) /\ (InGame(c, x)' <=> InGame(c, x))
  BY DEF Beside, Serving, InGame
<1>2. Own(c, x)
  BY OwnBefore
<1>3. /\ r.gen \in Nat /\ r.gen + 1 \in 1 .. MaxConns[c] /\ MaxConns[c] \in Nat
      /\ h \in Conns /\ h[1] = c /\ h[2] = x /\ h[3] = r.gen + 1
  <2>1. r.gen \in Nat
    BY ConnIs, IInvTyped
  <2>2. MaxConns[c] \in Nat
    BY Constants
  <2>3. r.gen + 1 \in 1 .. MaxConns[c]
    BY <2>1, <2>2
  <2>4. QED
    BY <2>1, <2>2, <2>3, ConnParts
<1>4. /\ r2.open /\ r2.gen = r.gen + 1 /\ r2.sock /\ ~r2.joined
      /\ Conn(c, x)' = h
  BY DEF Opened, Closed, Conn
<1>5. minis[x] \in Seq(Conns)
  BY DEF IInv, TypeOK
<1>6. \A k : Contains(minis'[x], k) <=> Contains(minis[x], k) \/ k = h
  <2>1. h \in Conns /\ minis'[x] = Append(minis[x], h)
    BY <1>3
  <2>2. \A k : Contains(Append(minis[x], h), k) <=> Contains(minis[x], k) \/ k = h
    BY ONLY <1>5, <2>1, AppendedElement
  <2>3. QED
    BY <2>1, <2>2
<1>7. ASSUME NEW k \in Conns, k[1] = c, k[2] = x
      PROVE  /\ Wired(k, r, end[k], up[k], down[k], k \in linked, Contains(minis[x], k))
             /\ k[3] \in Nat
             /\ k = h <=> k[3] = r.gen + 1
             /\ k # h => end'[k] = end[k] /\ down'[k] = down[k] /\ up'[k] = up[k]
  BY <1>2, <1>3, <1>7, ConnParts DEF Own
<1>8. /\ ~Contains(u, "close") /\ Contains(u, "handshake") /\ Contains(u, "queryserverattrs")
      /\ ~Entering(u) /\ ~Leaving(u) /\ Ordered(u)
  <2>1. Len(u) = 2 /\ DOMAIN u = 1 .. 2 /\ u[1] = "handshake" /\ u[2] = "queryserverattrs"
    OBVIOUS
  <2>2. \A i \in 1 .. 2 : u[i] \in {"handshake", "queryserverattrs"}
    BY <2>1
  <2>3. 1 \in 1 .. 2 /\ 2 \in 1 .. 2
    OBVIOUS
  <2> HIDE DEF u
  <2>4. QED
    BY <2>1, <2>2, <2>3 DEF Contains, Entering, Leaving, Ordered
<1> HIDE DEF r, r2, u
<1>9. ASSUME NEW k \in Conns, k[1] = c /\ k[2] = x
      PROVE  Wired(k, r2, end'[k], up'[k], down'[k], k \in linked', Contains(minis'[x], k))
  <2>1. CASE k = h
    <3>1. k[3] = r2.gen /\ r2.gen \in Nat /\ r2.open
      BY <1>3, <1>4, <2>1
    <3>2. /\ end'[k] = "open" /\ up'[k] = u /\ ~Contains(u, "close")
          /\ Contains(minis'[x], k)
      BY <1>6, <1>8, <2>1 DEF u
    <3>3. QED
      BY <3>1, <3>2 DEF Wired
  <2>2. CASE k # h
    <3>1. /\ Wired(k, r, end[k], up[k], down[k], k \in linked, Contains(minis[x], k))
          /\ k[3] \in Nat /\ k[3] # r.gen + 1
          /\ end'[k] = end[k] /\ down'[k] = down[k] /\ up'[k] = up[k]
          /\ linked' = linked /\ (Contains(minis'[x], k) <=> Contains(minis[x], k))
      BY <1>1, <1>6, <1>7, <1>9, <2>2
    <3>2. ~r.open
      BY DEF r
    <3>3. QED
      BY <1>3, <1>4, <3>1, <3>2 DEF Wired
  <2>3. QED
    BY <2>1, <2>2
<1>10. Held(c, x)'
  <2>1. Connected(h, u, h \in linked, Contains(minis'[x], h))
    BY <1>6, <1>8 DEF Connected
  <2>2. r2.gen >= 1
    BY <1>3, <1>4
  <2>3. end'[h] = "open" /\ up'[h] = u /\ linked' = linked
    BY <1>1 DEF u
  <2>4. QED
    BY <1>4, <2>1, <2>2, <2>3 DEF Held, r2
<1>11. state[x] # "new"
  BY DEF Serving
<1>12. Line(minis'[x], x)
  <2>1. /\ \A i \in DOMAIN minis[x] : minis[x][i][2] = x
        /\ \A i, j \in DOMAIN minis[x] :
              i < j /\ minis[x][i][1] = minis[x][j][1] => minis[x][i][3] < minis[x][j][3]
    BY <1>2 DEF Own, Line
  <2>2. ASSUME NEW i \in DOMAIN minis[x], minis[x][i][1] = c
        PROVE  minis[x][i][3] < h[3]
    <3> DEFINE k == minis[x][i]
    <3>1. k \in Conns /\ k[1] = c /\ k[2] = x /\ Contains(minis[x], k)
      BY <1>5, <2>1, <2>2 DEF Contains
    <3> HIDE DEF k
    <3>2. /\ Wired(k, r, end[k], up[k], down[k], k \in linked, Contains(minis[x], k))
          /\ k[3] \in Nat
      BY <1>7, <3>1
    <3>3. ~(k[3] > r.gen)
      BY <3>1, <3>2 DEF Wired
    <3>4. QED
      BY <1>3, <3>2, <3>3 DEF k
  <2> DEFINE q == minis[x]
             v == Append(q, h)
  <2>3. /\ v \in Seq(Conns) /\ DOMAIN v = 1 .. Len(q) + 1 /\ v[Len(q) + 1] = h
        /\ \A i \in 1 .. Len(q) : v[i] = q[i]
        /\ DOMAIN q = 1 .. Len(q) /\ Len(q) \in Nat
    <3>1. q \in Seq(Conns) /\ h \in Conns
      BY <1>3, <1>5
    <3> HIDE DEF q
    <3>2. QED
      BY ONLY <3>1 DEF v
  <2>4. minis'[x] = v
    OBVIOUS
  <2> HIDE DEF v, q
  <2>5. /\ \A i \in 1 .. Len(q) : q[i][2] = x
        /\ \A i, j \in 1 .. Len(q) : i < j /\ q[i][1] = q[j][1] => q[i][3] < q[j][3]
        /\ \A i \in 1 .. Len(q) : q[i][1] = c => q[i][3] < h[3]
    BY <2>1, <2>2, <2>3 DEF q
  <2>6. \A i \in 1 .. Len(q) + 1 : i \in 1 .. Len(q) \/ i = Len(q) + 1
    BY <2>3
  <2>7. \A i \in DOMAIN v : v[i][2] = x
    BY <1>3, <2>3, <2>5, <2>6
  <2>8. ASSUME NEW i \in DOMAIN v, NEW j \in DOMAIN v, i < j, v[i][1] = v[j][1]
        PROVE  v[i][3] < v[j][3]
    <3>1. i \in 1 .. Len(q) /\ v[i] = q[i]
      BY <2>3, <2>8
    <3>2. CASE j \in 1 .. Len(q)
      BY <2>3, <2>5, <2>8, <3>1, <3>2
    <3>3. CASE j = Len(q) + 1
      BY <1>3, <2>3, <2>5, <2>8, <3>1, <3>3
    <3>4. QED
      BY <2>3, <2>6, <2>8, <3>2, <3>3
  <2>9. QED
    BY <2>3, <2>4, <2>7, <2>8 DEF Line
<1>13. Sits(c, x)
  BY <1>2 DEF Own
<1>14. ctxs[x] \in Seq(Context)
  BY DEF IInv, TypeOK
<1>15. ASSUME NEW i \in DOMAIN ctxs[x], ctxs[x][i].conn[1] = c
       PROVE  /\ ctxs[x][i].conn[2] = x /\ ctxs[x][i].conn[3] <= r2.gen
              /\ ctxs[x][i].conn[3] # r2.gen
  <2>1. ctxs[x][i] \in Context
    BY <1>14
  <2>2. ctxs[x][i].conn \in Conns
    BY <2>1 DEF Context
  <2>3. ctxs[x][i].conn[2] = x /\ ctxs[x][i].conn[3] <= r.gen /\ ctxs[x][i].conn[3] \in Nat
    BY <1>13, <1>15, <2>2, ConnParts DEF Sits, r
  <2>4. QED
    BY <1>3, <1>4, <2>3
<1>16. Sits(c, x)'
  BY <1>1, <1>15 DEF Sits, r2
<1>17. At(ctxs[x], h) = {}
  BY <1>3, <1>4, <1>15 DEF At
<1>18. Meets(c, x)'
  <2>1. /\ down'[h] = <<>> /\ <<>> \in Seq(ClientMsg)
        /\ ~HasType(<<>>, Answers) /\ ~HasType(<<>>, {"joinaccepted", "joindenied"})
    BY DEF HasType
  <2>2. ~JoinedAfter(r2, <<>>)
    BY <1>4, <2>1, NoAnswers
  <2>3. Side(h, r2, ctxs[x], ousted[x], u, <<>>)
    BY <1>4, <1>8, <1>17, <2>1, <2>2 DEF Side, Lone
  <2>4. QED
    BY <1>1, <1>4, <1>8, <2>1, <2>3 DEF Beside, Meets, u, r2
<1>19. Begun(c, x)'
  <2>1. Begun(c, x)
    BY <1>2 DEF Own
  <2>2. ASSUME NEW k \in Conns, k[1] = c, k[2] = x, HasType(down'[k], {"start"})
        PROVE  HasType(down[k], {"start"})
    <3>1. k # h
      BY <2>2 DEF HasType
    <3>2. QED
      BY <2>2, <3>1
  <2>3. Contains(roster[x], c) => r2.gen >= 2
    BY <1>3, <1>4, <2>1 DEF Begun, r
  <2>4. r2.gen >= 1 /\ r2.gen \in Nat
    BY <1>3, <1>4
  <2>5. QED
    BY <1>1, <2>1, <2>2, <2>3, <2>4 DEF Begun, r2
<1>20. QED
  BY <1>1, <1>9, <1>10, <1>11, <1>12, <1>16, <1>18, <1>19 DEF Own, r2

(* A context that stays.                                                   *)
LEMMA OwnStays ==
    ASSUME IInv, TypeOK', NEW c \in Clients, Beside(c), NEW x \in Sessions,
           servers[c][x].open, servers'[c][x].open,
           servers'[c][x].gen = servers[c][x].gen,
           minis'[x] = minis[x], game'[c] = x => InGame(c, x),
           NEW h, h = Conn(c, x),
           /\ end'[h] = end[h] \/ end'[h] = "shut"
           /\ servers'[c][x].sock => end'[h] = "open"
           /\ Serving(x) => servers'[c][x].sock,
           /\ ~Contains(up'[h], "close")
           /\ up'[h] # <<>> => Contains(minis[x], h)
           /\ Serving(x) => \A t : Contains(up[h], t) => Contains(up'[h], t),
           HasType(down'[h], {"start"}) <=> HasType(down[h], {"start"}),
           \A k \in Conns : k[1] = c /\ k[2] = x /\ k # h =>
              /\ end'[k] = end[k] /\ down'[k] = down[k] /\ up'[k] = up[k],
           Serving(x) => Meets(c, x)'
    PROVE  Own(c, x)'
<1> DEFINE r == servers[c][x]
           r2 == servers'[c][x]
<1>1. /\ state'[x] = state[x] /\ ctxs'[x] = ctxs[x] /\ roster'[x] = roster[x]
      /\ linked' = linked /\ (Serving(x)' <=> Serving(x)) /\ (InGame(c, x)' <=> InGame(c, x))
  BY DEF Beside, Serving, InGame
<1>2. Own(c, x)
  BY OwnBefore
<1>3. /\ h \in Conns /\ h[1] = c /\ h[2] = x /\ h[3] = r.gen /\ r.gen \in Nat
      /\ \A k \in Conns : k = h <=> k[1] = c /\ k[2] = x /\ k[3] = r.gen
  BY ConnIs, IInvTyped
<1>4. r2.gen = r.gen /\ Conn(c, x)' = h /\ r.open /\ r2.open
  BY DEF Conn
<1>5. Held(c, x) /\ Begun(c, x) /\ (Serving(x) => Sits(c, x))
  BY <1>2 DEF Own
<1> HIDE DEF r, r2
<1>6. ASSUME NEW k \in Conns, k[1] = c /\ k[2] = x
      PROVE  Wired(k, r2, end'[k], up'[k], down'[k], k \in linked', Contains(minis'[x], k))
  <2>1. Wired(k, r, end[k], up[k], down[k], k \in linked, Contains(minis[x], k))
    BY <1>2, <1>6 DEF Own, r
  <2>2. CASE k = h
    <3>1. end[k] # "none" /\ k[3] = r.gen
      BY <1>3, <2>1, <2>2 DEF Wired
    <3>2. QED
      BY <1>3, <1>4, <2>1, <2>2, <3>1 DEF Wired
  <2>3. CASE k # h
    <3>1. /\ end'[k] = end[k] /\ down'[k] = down[k] /\ up'[k] = up[k] /\ linked' = linked
          /\ minis'[x] = minis[x]
      BY <1>1, <1>6, <2>3
    <3>2. QED
      BY <1>4, <2>1, <3>1 DEF Wired
  <2>4. QED
    BY <2>2, <2>3
<1>7. Held(c, x)'
  <2>1. /\ r.gen >= 1
        /\ Serving(x) => Connected(h, up[h], h \in linked, Contains(minis[x], h))
    BY <1>4, <1>5 DEF Held, r
  <2>2. Serving(x) => Connected(h, up'[h], h \in linked', Contains(minis'[x], h))
    BY <1>1, <2>1 DEF Connected
  <2>3. QED
    BY <1>1, <1>4, <2>1, <2>2 DEF Held, r2
<1>8. Serving(x) => Sits(c, x)'
  BY <1>1, <1>4, <1>5 DEF Sits, r, r2
<1>9. Begun(c, x)'
  <2>1. ASSUME NEW k \in Conns, k[1] = c, k[2] = x, HasType(down'[k], {"start"})
        PROVE  HasType(down[k], {"start"})
    <3>1. CASE k = h
      BY <2>1, <3>1
    <3>2. CASE k # h
      BY <2>1, <3>2
    <3>3. QED
      BY <3>1, <3>2
  <2>2. QED
    BY <1>1, <1>4, <1>5, <2>1 DEF Begun, r, r2
<1>10. QED
  BY <1>1, <1>2, <1>6, <1>7, <1>8, <1>9 DEF Own, r2

-----------------------------------------------------------------------------
(* Asking to join and to leave.                                            *)
LEMMA OrderedMore ==
    ASSUME NEW u \in Seq(ToServer), Ordered(u), NEW t \in ToServer,
           t \in Requests => ~Entering(u), t = "leavesession" => ~Leaving(u)
    PROVE  Ordered(Append(u, t))
<1> DEFINE v == Append(u, t)
           n == Len(u)
<1>1. /\ n \in Nat /\ DOMAIN u = 1 .. n /\ DOMAIN v = 1 .. n + 1 /\ v[n + 1] = t
      /\ \A i \in 1 .. n : v[i] = u[i]
  OBVIOUS
<1> HIDE DEF v, n
<1>2. \A i \in 1 .. n + 1 : i \in 1 .. n \/ i = n + 1
  BY <1>1
<1>3. ASSUME NEW i \in DOMAIN v, NEW j \in DOMAIN v
      PROVE  /\ v[i] = "joinsession" /\ v[j] \in Requests /\ i # j
                   => j < i /\ v[j] = "leavesession"
             /\ v[i] = "leavesession" /\ v[j] = "leavesession" => i = j
  <2>1. CASE i \in 1 .. n /\ j \in 1 .. n
    BY <1>1, <2>1 DEF Ordered
  <2>2. CASE i = n + 1 /\ j = n + 1
    BY <2>2
  <2>3. CASE i = n + 1 /\ j \in 1 .. n
    <3>1. v[i] = t /\ v[j] = u[j] /\ j < i
      BY <1>1, <2>3
    <3>2. CASE t \notin Requests
      BY <3>1, <3>2 DEF Requests
    <3>3. CASE t \in Requests
      <4>1. u[j] # "joinsession" /\ (t = "leavesession" => u[j] # "leavesession")
        BY <1>1, <2>3, <3>3 DEF Entering, Leaving, Contains, n
      <4>2. QED
        BY <3>1, <4>1 DEF Requests
    <3>4. QED
      BY <3>2, <3>3
  <2>4. CASE i \in 1 .. n /\ j = n + 1
    <3>1. v[i] = u[i] /\ v[j] = t
      BY <1>1, <2>4
    <3>2. CASE t \notin Requests
      BY <3>1, <3>2 DEF Requests
    <3>3. CASE t \in Requests
      <4>1. u[i] # "joinsession" /\ (t = "leavesession" => u[i] # "leavesession")
        BY <1>1, <2>4, <3>3 DEF Entering, Leaving, Contains, n
      <4>2. QED
        BY <3>1, <4>1 DEF Requests
    <3>4. QED
      BY <3>2, <3>3
  <2>5. QED
    BY <1>1, <1>2, <2>1, <2>2, <2>3, <2>4
<1>4. QED
  BY <1>3 DEF Ordered, v

LEMMA NoAcceptance ==
    ASSUME NEW d \in Seq(ClientMsg), ~HasType(d, {"joinaccepted", "joindenied"}), NEW r,
           ~r.joined
    PROVE  ~JoinedAfter(r, d)
<1> DEFINE i == Latest(d, Answers)
<1>1. i \in 0 .. Len(d) /\ DOMAIN d = 1 .. Len(d) /\ Len(d) \in Nat
  BY LatestIs
<1>2. i # 0 => i \in DOMAIN d
  BY <1>1
<1>3. i # 0 => d[i].type # "joinaccepted"
  BY <1>2 DEF HasType
<1>4. QED
  BY <1>3 DEF JoinedAfter

(* A client that is not waiting for an answer asks to join or to leave.    *)
LEMMA SideAsks ==
    ASSUME NEW k, NEW r, NEW cs, NEW us, NEW u, NEW d \in Seq(ClientMsg),
           Side(k, r, cs, us, u, d),
           ~Entering(u), ~HasType(d, {"joinaccepted", "joindenied"}),
           NEW r2, r2.gen = r.gen, ~r2.joined,
           NEW u2, Ordered(u2), Entering(u2) \/ Leaving(u2),
           Entering(u2) /\ ~Leaving(u2) => ~r.joined /\ ~Leaving(u)
    PROVE  Side(k, r2, cs, us, u2, d)
<1>1. ~JoinedAfter(r2, d)
  BY NoAcceptance
<1>2. ~r.joined => ~JoinedAfter(r, d)
  BY NoAcceptance
<1>3. r.gen = 1 /\ Entering(u2) /\ ~Leaving(u2) => At(cs, k) = {}
  BY <1>2 DEF Side
<1>4. QED
  BY <1>1, <1>3 DEF Side

(* A client that neither asks nor changes what it will find.               *)
LEMMA SideStays ==
    ASSUME NEW k, NEW r, NEW cs, NEW us, NEW u, NEW d, Side(k, r, cs, us, u, d),
           NEW r2, r2.gen = r.gen, NEW u2, Ordered(u2),
           Entering(u2) <=> Entering(u), Leaving(u2) <=> Leaving(u),
           NEW d2, JoinedAfter(r2, d2) = JoinedAfter(r, d),
           \/ r2.joined = r.joined /\ d2 = d
           \/ /\ r2.joined = JoinedAfter(r, d)
              /\ ~HasType(d2, {"joinaccepted", "joindenied"})
    PROVE  Side(k, r2, cs, us, u2, d2)
BY DEF Side

(* What is said on a connection, and delivered.                            *)
LEMMA SendUpIs ==
    ASSUME IInv, NEW c \in Clients, NEW x \in Sessions, servers[c][x].open,
           NEW u \in [Conns -> Seq(ToServer)], NEW m \in ToServer
    PROVE  /\ SendUp(u, c, x, m) \in [Conns -> Seq(ToServer)]
           /\ \A k \in Conns :
                 SendUp(u, c, x, m)[k] = IF k = Conn(c, x) /\ servers[c][x].sock
                                         THEN Append(u[k], m) ELSE u[k]
<1>1. Conn(c, x) \in Conns
  BY ConnIs, IInvTyped
<1>2. \A k \in Conns : Append(u[k], m) \in Seq(ToServer)
  OBVIOUS
<1>3. QED
  BY <1>1, <1>2 DEF SendUp

(* What LeaveSession sends and changes.                                    *)
LEMMA LeaveIs ==
    ASSUME IInv, NEW c \in Clients
    PROVE  /\ Joined(c) => /\ joinRef[c] \in Sessions /\ servers[c][joinRef[c]].open
                           /\ servers[c][joinRef[c]].joined
           /\ LeaveSent(c) \in [Conns -> Seq(ToServer)]
           /\ \A k \in Conns :
                 LeaveSent(c)[k] = IF /\ Joined(c) /\ k = Conn(c, joinRef[c])
                                      /\ servers[c][joinRef[c]].sock
                                   THEN Append(up[k], "leavesession") ELSE up[k]
           /\ Left(c) \in [Sessions -> ServerContext]
           /\ \A z \in Sessions :
                 /\ Left(c)[z].open = servers[c][z].open /\ Left(c)[z].gen = servers[c][z].gen
                 /\ Left(c)[z].sock = servers[c][z].sock /\ Left(c)[z].view = servers[c][z].view
                 /\ Left(c)[z].joined = IF Joined(c) /\ z = joinRef[c] THEN FALSE
                                        ELSE servers[c][z].joined
<1>1. /\ up \in [Conns -> Seq(ToServer)] /\ servers \in [Clients -> [Sessions -> ServerContext]]
      /\ joinRef[c] \in Sessions \cup {None}
  BY DEF IInv, TypeOK
<1>2. ASSUME Joined(c)
      PROVE  /\ joinRef[c] \in Sessions /\ servers[c][joinRef[c]].open
             /\ servers[c][joinRef[c]].joined
  <2>1. joinRef[c] \in Sessions /\ servers[c][joinRef[c]].joined
    BY <1>1, <1>2 DEF Joined
  <2>2. Held(c, joinRef[c])
    BY <2>1, OwnBefore DEF Own
  <2>3. QED
    BY <2>1, <2>2 DEF Held
<1>3. /\ LeaveSent(c) \in [Conns -> Seq(ToServer)]
      /\ \A k \in Conns :
            LeaveSent(c)[k] = IF /\ Joined(c) /\ k = Conn(c, joinRef[c])
                                 /\ servers[c][joinRef[c]].sock
                              THEN Append(up[k], "leavesession") ELSE up[k]
  <2>1. CASE Joined(c)
    <3>1. LeaveSent(c) = SendUp(up, c, joinRef[c], "leavesession")
      BY <2>1 DEF LeaveSent
    <3>2. "leavesession" \in ToServer
      BY DEF ToServer
    <3>3. QED
      BY <1>1, <1>2, <2>1, <3>1, <3>2, SendUpIs
  <2>2. CASE ~Joined(c)
    BY <1>1, <2>2 DEF LeaveSent
  <2>3. QED
    BY <2>1, <2>2
<1>4. /\ Left(c) \in [Sessions -> ServerContext]
      /\ \A z \in Sessions :
            /\ Left(c)[z].open = servers[c][z].open /\ Left(c)[z].gen = servers[c][z].gen
            /\ Left(c)[z].sock = servers[c][z].sock /\ Left(c)[z].view = servers[c][z].view
            /\ Left(c)[z].joined = IF Joined(c) /\ z = joinRef[c] THEN FALSE
                                   ELSE servers[c][z].joined
  <2>1. servers[c] \in [Sessions -> ServerContext]
    BY <1>1
  <2>2. \A z \in Sessions : servers[c][z] \in ServerContext
    BY <2>1
  <2>3. CASE ~Joined(c)
    BY <2>1, <2>3 DEF Left
  <2>4. CASE Joined(c)
    <3> DEFINE y == joinRef[c]
               r == servers[c][y]
               r2 == [r EXCEPT !.joined = FALSE, !.reply = "none"]
    <3>1. r \in ServerContext /\ y \in Sessions
      BY <1>2, <2>2, <2>4
    <3>2. /\ r2 \in ServerContext /\ r2.open = r.open /\ r2.gen = r.gen /\ r2.sock = r.sock
          /\ r2.view = r.view /\ r2.joined = FALSE
      BY <3>1 DEF ServerContext
    <3>3. Left(c) = [servers[c] EXCEPT ![y] = r2]
      BY <2>1, <2>4 DEF Left
    <3> HIDE DEF r2
    <3>4. \A z \in Sessions : Left(c)[z] = IF z = y THEN r2 ELSE servers[c][z]
      BY <2>1, <3>1, <3>3
    <3>5. Left(c) \in [Sessions -> ServerContext]
      BY <2>1, <3>1, <3>2, <3>3
    <3>6. QED
      BY <2>4, <3>2, <3>4, <3>5
  <2>5. QED
    BY <2>3, <2>4
<1>5. QED
  BY <1>2, <1>3, <1>4

(* A call to JoinSession or LeaveSession and the context of x: the client  *)
(* leaves x if l, and asks to join it if j.                                *)
Asks(c, x, l, j) ==
    /\ l => servers[c][x].open /\ servers[c][x].joined
    /\ j => servers[c][x].open /\ (~l => ~servers[c][x].joined)
    /\ servers'[c][x].open = servers[c][x].open /\ servers'[c][x].gen = servers[c][x].gen
    /\ servers'[c][x].sock = servers[c][x].sock /\ servers'[c][x].view = servers[c][x].view
    /\ servers'[c][x].joined = IF l THEN FALSE ELSE servers[c][x].joined
    /\ \A k \in Conns : k[1] = c /\ k[2] = x =>
          up'[k] = IF ~Serving(x) THEN <<>>
                   ELSE LET u == IF l /\ k = Conn(c, x) THEN Append(up[k], "leavesession")
                                 ELSE up[k]
                        IN  IF j /\ k = Conn(c, x) THEN Append(u, "joinsession") ELSE u

LEMMA MeetsAsks ==
    ASSUME IInv, TypeOK', NEW c \in Clients, Beside(c), MayCall(c), NEW x \in Sessions,
           UNCHANGED <<game, end, down, minis>>,
           NEW l \in BOOLEAN, NEW j \in BOOLEAN, Asks(c, x, l, j),
           servers[c][x].open, Serving(x)
    PROVE  /\ Meets(c, x)'
           /\ ~Contains(up'[Conn(c, x)], "close")
           /\ \A t : Contains(up[Conn(c, x)], t) => Contains(up'[Conn(c, x)], t)
<1> DEFINE k == Conn(c, x)
           r == servers[c][x]
           r2 == servers'[c][x]
           u == up[k]
           u1 == IF l THEN Append(u, "leavesession") ELSE u
           u2 == up'[k]
           d == down[k]
<1>1. /\ k \in Conns /\ k[1] = c /\ k[2] = x /\ k[3] = r.gen /\ r.gen \in Nat
      /\ Conn(c, x)' = k
  BY ConnIs, IInvTyped DEF Conn, Asks
<1>2. /\ u \in Seq(ToServer) /\ d \in Seq(ClientMsg)
      /\ "leavesession" \in ToServer /\ "joinsession" \in ToServer
  BY <1>1 DEF IInv, TypeOK, ToServer
<1>3. /\ r2.gen = r.gen /\ r2.view = r.view /\ r2.open
      /\ r2.joined = IF l THEN FALSE ELSE r.joined
      /\ l => r.joined
      /\ j /\ ~l => ~r.joined
  BY DEF Asks
<1>4. u2 = IF j THEN Append(u1, "joinsession") ELSE u1
  BY <1>1 DEF Asks
<1>5. /\ Wired(k, r, end[k], u, d, k \in linked, Contains(minis[x], k))
      /\ Held(c, x) /\ Meets(c, x)
  BY <1>1, OwnBefore DEF Own
<1>6. down'[k] = d /\ end[k] = "open"
  BY <1>5 DEF Held
<1> HIDE DEF k, r, r2, u, u2, d
<1>7. /\ u1 \in Seq(ToServer)
      /\ \A t : Contains(u1, t) <=> Contains(u, t) \/ (l /\ t = "leavesession")
  <2>1. CASE l
    BY <1>2, <2>1, AppendedElement
  <2>2. CASE ~l
    BY <1>2, <2>2
  <2>3. QED
    BY <2>1, <2>2
<1> HIDE DEF u1
<1>8. /\ u2 \in Seq(ToServer)
      /\ \A t : Contains(u2, t) <=> Contains(u1, t) \/ (j /\ t = "joinsession")
  <2>1. CASE j
    BY <1>2, <1>4, <1>7, <2>1, AppendedElement
  <2>2. CASE ~j
    BY <1>4, <1>7, <2>2
  <2>3. QED
    BY <2>1, <2>2
<1>9. ~Contains(u2, "close") /\ \A t : Contains(u, t) => Contains(u2, t)
  <2>1. ~Contains(u, "close")
    BY <1>5, <1>6 DEF Wired
  <2>2. QED
    BY <1>7, <1>8, <2>1
<1>10. \A q : ViewAfter(r2, q) = ViewAfter(r, q)
  BY <1>3 DEF ViewAfter
<1>11. /\ dirty[x] \/ Contains(u, "queryserverattrs") \/ ViewAfter(r, d) = num[x]
       /\ c \notin Hasty => Side(k, r, ctxs[x], ousted[x], u, d)
  BY <1>5 DEF Meets, k, r, u, d
<1>12. ASSUME c \notin Hasty
       PROVE  Side(k, r2, ctxs[x], ousted[x], u2, d)
  <2>1. ~Asking(c, x)
    BY <1>12 DEF MayCall
  <2>2. r.open
    BY DEF r
  <2>3. /\ ~Entering(u)
        /\ \A i \in 1 .. Len(d) : d[i].type \notin {"joinaccepted", "joindenied"}
    BY <2>1, <2>2 DEF Asking, Has, Entering, k, r, u, d
  <2>4. ~HasType(d, {"joinaccepted", "joindenied"})
    BY <1>2, <2>3 DEF HasType
  <2>5. Side(k, r, ctxs[x], ousted[x], u, d)
    BY <1>11, <1>12
  <2>6. Ordered(u1) /\ ~Entering(u1)
    <3>1. CASE l
      <4>1. ~Leaving(u)
        BY <1>3, <2>5, <3>1 DEF Side
      <4>2. Ordered(u)
        BY <2>5 DEF Side
      <4>3. Ordered(Append(u, "leavesession"))
        BY <1>2, <2>3, <4>1, <4>2, OrderedMore
      <4>4. QED
        BY <1>7, <2>3, <3>1, <4>3 DEF u1, Entering
    <3>2. CASE ~l
      BY <2>3, <2>5, <3>2 DEF u1, Side
    <3>3. QED
      BY <3>1, <3>2
  <2>7. Ordered(u2)
    <3>1. CASE j
      <4>1. Ordered(Append(u1, "joinsession"))
        BY <1>2, <1>7, <2>6, OrderedMore
      <4>2. QED
        BY <1>4, <3>1, <4>1
    <3>2. CASE ~j
      BY <1>4, <2>6, <3>2
    <3>3. QED
      BY <3>1, <3>2
  <2>8. /\ Entering(u2) <=> Entering(u) \/ j
        /\ Leaving(u2) <=> Leaving(u) \/ l
    BY <1>7, <1>8 DEF Entering, Leaving
  <2>9. CASE l \/ j
    <3>1. ~r2.joined
      BY <1>3, <2>9
    <3>2. Entering(u2) /\ ~Leaving(u2) => ~r.joined /\ ~Leaving(u)
      BY <1>3, <2>3, <2>8
    <3>3. Entering(u2) \/ Leaving(u2)
      BY <2>8, <2>9
    <3>4. QED
      BY <1>2, <1>3, <2>3, <2>4, <2>5, <2>7, <3>1, <3>2, <3>3, SideAsks
  <2>10. CASE ~l /\ ~j
    <3>1. r2.joined = r.joined
      BY <1>3, <2>10
    <3>2. JoinedAfter(r2, d) = JoinedAfter(r, d)
      BY <3>1 DEF JoinedAfter
    <3>3. (Entering(u2) <=> Entering(u)) /\ (Leaving(u2) <=> Leaving(u))
      BY <2>8, <2>10
    <3>4. QED
      BY <1>3, <2>5, <2>7, <3>1, <3>2, <3>3, SideStays
  <2>11. QED
    BY <2>9, <2>10
<1>13. /\ ctxs'[x] = ctxs[x] /\ num'[x] = num[x] /\ dirty'[x] = dirty[x]
       /\ ousted'[x] = ousted[x]
  BY DEF Beside
<1>14. dirty[x] \/ Contains(u2, "queryserverattrs") \/ ViewAfter(r2, d) = num[x]
  BY <1>9, <1>10, <1>11
<1>15. Meets(c, x)'
  BY <1>1, <1>6, <1>12, <1>13, <1>14 DEF Meets, r2, u2
<1>16. QED
  BY <1>9, <1>15 DEF k, u, u2

(* So the call keeps what is said of the client and x.                     *)
LEMMA AskKeeps ==
    ASSUME IInv, TypeOK', NEW c \in Clients, Beside(c), MayCall(c), NEW x \in Sessions,
           UNCHANGED <<game, end, down, minis>>,
           NEW l \in BOOLEAN, NEW j \in BOOLEAN, Asks(c, x, l, j)
    PROVE  Own(c, x)'
<1>1. Own(c, x) /\ (game[c] = x => InGame(c, x))
  BY OwnBefore DEF Own, Begun
<1>2. game' = game /\ end' = end /\ down' = down /\ minis' = minis
  OBVIOUS
<1>3. /\ servers'[c][x].open = servers[c][x].open /\ servers'[c][x].gen = servers[c][x].gen
      /\ servers'[c][x].sock = servers[c][x].sock
      /\ servers'[c][x].joined = IF l THEN FALSE ELSE servers[c][x].joined
      /\ l \/ j => servers[c][x].open
  BY DEF Asks
<1>4. \A k \in Conns : k[1] = c /\ k[2] = x /\ k # Conn(c, x) => up'[k] = up[k]
  <2>1. TAKE k \in Conns
  <2>2. k[2] = x /\ ~Serving(x) => up[k] = <<>>
    BY UpServed
  <2>3. QED
    BY <2>2 DEF Asks
<1>5. CASE ~servers[c][x].open
  <2>1. ~servers[c][x].sock /\ ~servers[c][x].joined /\ ~l /\ ~j
    BY <1>1, <1>3, <1>5 DEF Own, Held
  <2>2. ASSUME NEW k \in Conns, k[1] = c, k[2] = x
        PROVE  /\ end'[k] # "open" /\ (end'[k] = "none" <=> end[k] = "none")
               /\ down'[k] = <<>> \/ down'[k] = down[k]
               /\ up'[k] # <<>> => Contains(minis[x], k)
    <3>1. Wired(k, servers[c][x], end[k], up[k], down[k], k \in linked, Contains(minis[x], k))
      BY <1>1, <2>2 DEF Own
    <3>2. up'[k] # <<>> => up'[k] = up[k]
      BY <2>1, <2>2 DEF Asks
    <3>3. QED
      BY <1>2, <1>5, <3>1, <3>2 DEF Wired
  <2>3. QED
    BY <1>1, <1>2, <1>3, <1>5, <2>1, <2>2, OwnCloses
<1>6. CASE servers[c][x].open
  <2> DEFINE h == Conn(c, x)
  <2>1. h \in Conns /\ h[1] = c /\ h[2] = x
    BY <1>6, ConnIs, IInvTyped
  <2>2. Held(c, x)
    BY <1>1 DEF Own
  <2>3. /\ servers'[c][x].sock => end'[h] = "open"
        /\ Serving(x) => servers'[c][x].sock
    BY <1>2, <1>3, <1>6, <2>2 DEF Held
  <2>4. /\ ~Contains(up'[h], "close")
        /\ up'[h] # <<>> => Contains(minis[x], h)
        /\ Serving(x) => \A t : Contains(up[h], t) => Contains(up'[h], t)
        /\ Serving(x) => Meets(c, x)'
    <3>1. CASE Serving(x)
      <4>1. Contains(minis[x], h)
        BY <1>6, <2>2, <3>1 DEF Held, Connected
      <4>2. QED
        BY <1>6, <3>1, <4>1, MeetsAsks
    <3>2. CASE ~Serving(x)
      <4>1. up'[h] = <<>>
        BY <2>1, <3>2 DEF Asks
      <4>2. QED
        BY <3>2, <4>1 DEF Contains
    <3>3. QED
      BY <3>1, <3>2
  <2>5. \A k \in Conns : k[1] = c /\ k[2] = x /\ k # h =>
              /\ end'[k] = end[k] /\ down'[k] = down[k] /\ up'[k] = up[k]
    BY <1>2, <1>4
  <2>6. /\ servers[c][x].open /\ servers'[c][x].open
        /\ servers'[c][x].gen = servers[c][x].gen
        /\ minis'[x] = minis[x] /\ (game'[c] = x => InGame(c, x))
        /\ end'[h] = end[h] /\ down'[h] = down[h]
    BY <1>1, <1>2, <1>3, <1>6
  <2>7. h = Conn(c, x)
    OBVIOUS
  <2> HIDE DEF h
  <2>8. QED
    BY <2>3, <2>4, <2>5, <2>6, <2>7, OwnStays
<1>7. QED
  BY <1>5, <1>6

LEMMA DeliverIs ==
    ASSUME IInv, NEW u \in [Conns -> Seq(ToServer)], Deliver(u)
    PROVE  /\ up' \in [Conns -> Seq(ToServer)]
           /\ \A k \in Conns : /\ up'[k] = IF Serving(k[2]) THEN u[k] ELSE <<>>
                               /\ u[k] = up[k] => up'[k] = up[k]
<1>1. \A k \in Conns : ~Serving(k[2]) => up[k] = <<>>
  BY UpServed
<1>2. QED
  BY <1>1 DEF Deliver

LEMMA UsedIs ==
    ASSUME TypeOK, UserAction
    PROVE  used' \in 0..MaxUserActions
BY Constants DEF TypeOK, UserAction

(* The types, after a step of client c.                                    *)
LEMMA TypesKept ==
    ASSUME TypeOK, NEW c \in Clients,
           UNCHANGED <<state, ctxs, max, num, dirty, ousted, roster, linked>>,
           minis' \in [Sessions -> Seq(Conns)],
           client' \in [Clients -> {"open", "closed", "aborted"}],
           NEW next \in [Sessions -> ServerContext],
           servers' = [servers EXCEPT ![c] = next],
           \A x \in Sessions : next[x].gen <= MaxConns[c],
           joinRef' \in [Clients -> Sessions \cup {None}],
           attrsDirty' \in [Clients -> BOOLEAN],
           game' \in [Clients -> Sessions \cup {None}],
           up' \in [Conns -> Seq(ToServer)], down' \in [Conns -> Seq(ClientMsg)],
           end' \in [Conns -> {"none", "open", "shut"}],
           used' \in 0..MaxUserActions
    PROVE  TypeOK'
<1>1. /\ servers' \in [Clients -> [Sessions -> ServerContext]]
      /\ \A b \in Clients : servers'[b] = IF b = c THEN next ELSE servers[b]
  BY DEF TypeOK
<1>2. \A b \in Clients, x \in Sessions : servers'[b][x].gen <= MaxConns[b]
  BY <1>1 DEF TypeOK
<1>3. QED
  BY <1>1, <1>2 DEF TypeOK

LEMMA JoinSessionKeeps ==
    ASSUME IInv, NEW c \in Clients, NEW x \in Sessions, JoinSession(c, x)
    PROVE  IInv'
<1> DEFINE y == joinRef[c]
           lft == Left(c)
           r2 == [lft[x] EXCEPT !.reply = "none"]
           next == [lft EXCEPT ![x].reply = "none"]
           u1 == LeaveSent(c)
           u2 == SendUp(LeaveSent(c), c, x, "joinsession")
<1>1. /\ UserAction /\ MayCall(c) /\ servers[c][x].open /\ ~lft[x].joined
      /\ servers' = [servers EXCEPT ![c] = next] /\ Deliver(u2)
      /\ joinRef' = [joinRef EXCEPT ![c] = x] /\ attrsDirty' = [attrsDirty EXCEPT ![c] = TRUE]
      /\ UNCHANGED <<server, client, game, minis, linked, down, end>>
  BY DEF JoinSession
<1>2. /\ Joined(c) => y \in Sessions /\ servers[c][y].open /\ servers[c][y].joined
      /\ u1 \in [Conns -> Seq(ToServer)]
      /\ \A k \in Conns :
            u1[k] = IF Joined(c) /\ k = Conn(c, y) /\ servers[c][y].sock
                    THEN Append(up[k], "leavesession") ELSE up[k]
      /\ lft \in [Sessions -> ServerContext]
      /\ \A z \in Sessions :
            /\ lft[z].open = servers[c][z].open /\ lft[z].gen = servers[c][z].gen
            /\ lft[z].sock = servers[c][z].sock /\ lft[z].view = servers[c][z].view
            /\ lft[z].joined = IF Joined(c) /\ z = y THEN FALSE ELSE servers[c][z].joined
  BY LeaveIs
<1>3. /\ u2 \in [Conns -> Seq(ToServer)]
      /\ \A k \in Conns : u2[k] = IF k = Conn(c, x) /\ servers[c][x].sock
                                  THEN Append(u1[k], "joinsession") ELSE u1[k]
  <2>1. "joinsession" \in ToServer
    BY DEF ToServer
  <2>2. QED
    BY <1>1, <1>2, <2>1, SendUpIs
<1> HIDE DEF u1, u2, lft
<1>4. /\ up' \in [Conns -> Seq(ToServer)]
      /\ \A k \in Conns : /\ up'[k] = IF Serving(k[2]) THEN u2[k] ELSE <<>>
                          /\ u2[k] = up[k] => up'[k] = up[k]
  BY <1>1, <1>3, DeliverIs
<1>5. /\ r2 \in ServerContext
      /\ r2.open = lft[x].open /\ r2.gen = lft[x].gen /\ r2.sock = lft[x].sock
      /\ r2.view = lft[x].view /\ r2.joined = lft[x].joined
  <2>1. lft[x] \in ServerContext
    BY <1>2
  <2>2. QED
    BY <2>1 DEF ServerContext
<1>6. /\ next \in [Sessions -> ServerContext]
      /\ \A z \in Sessions :
            /\ next[z].open = servers[c][z].open /\ next[z].gen = servers[c][z].gen
            /\ next[z].sock = servers[c][z].sock /\ next[z].view = servers[c][z].view
            /\ next[z].joined = IF Joined(c) /\ z = y THEN FALSE ELSE servers[c][z].joined
  <2>1. next = [lft EXCEPT ![x] = r2]
    BY <1>2
  <2> HIDE DEF r2, next
  <2>2. next \in [Sessions -> ServerContext]
    BY <1>2, <1>5, <2>1
  <2>3. \A z \in Sessions : next[z] = IF z = x THEN r2 ELSE lft[z]
    BY <1>2, <2>1
  <2>4. ASSUME NEW z \in Sessions
        PROVE  /\ next[z].open = servers[c][z].open /\ next[z].gen = servers[c][z].gen
               /\ next[z].sock = servers[c][z].sock /\ next[z].view = servers[c][z].view
               /\ next[z].joined = IF Joined(c) /\ z = y THEN FALSE ELSE servers[c][z].joined
    <3>1. CASE z = x
      <4>1. next[z] = r2
        BY <2>3, <3>1
      <4>2. QED
        BY <1>2, <1>5, <3>1, <4>1
    <3>2. CASE z # x
      <4>1. next[z] = lft[z]
        BY <2>3, <3>2
      <4> HIDE DEF y
      <4>2. /\ lft[z].open = servers[c][z].open /\ lft[z].gen = servers[c][z].gen
            /\ lft[z].sock = servers[c][z].sock /\ lft[z].view = servers[c][z].view
            /\ lft[z].joined = IF Joined(c) /\ z = y THEN FALSE ELSE servers[c][z].joined
        BY <1>2 DEF y
      <4>3. QED
        BY ONLY <4>1, <4>2
    <3>3. QED
      BY <3>1, <3>2
  <2>5. QED
    BY <2>2, <2>4
<1> HIDE DEF next, r2
<1>7. TypeOK /\ TypedServers
  BY IInvTyped DEF IInv
<1>8. TypeOK'
  <2>1. /\ joinRef' \in [Clients -> Sessions \cup {None}]
        /\ attrsDirty' \in [Clients -> BOOLEAN]
    BY <1>1, <1>7 DEF TypeOK
  <2>2. /\ UNCHANGED <<state, ctxs, max, num, dirty, ousted, roster, linked>>
        /\ minis' \in [Sessions -> Seq(Conns)]
        /\ client' \in [Clients -> {"open", "closed", "aborted"}]
        /\ game' \in [Clients -> Sessions \cup {None}]
        /\ down' \in [Conns -> Seq(ClientMsg)]
        /\ end' \in [Conns -> {"none", "open", "shut"}]
    BY <1>1, <1>7 DEF TypeOK, server
  <2>3. \A z \in Sessions : next[z].gen <= MaxConns[c]
    BY <1>6, <1>7 DEF TypeOK
  <2>4. used' \in 0..MaxUserActions
    BY <1>1, <1>7, UsedIs
  <2>5. QED
    BY <1>1, <1>4, <1>6, <1>7, <2>1, <2>2, <2>3, <2>4, TypesKept
<1>9. /\ servers'[c] = next /\ \A b \in Clients : b # c => servers'[b] = servers[b]
      /\ UNCHANGED <<state, ctxs, num, dirty, ousted, roster, linked>>
      /\ UNCHANGED <<game, end, down, minis>>
  BY <1>1, <1>7 DEF TypeOK, server
<1>10. \A z \in Sessions : servers[c][z].open =>
          Conn(c, z)[1] = c /\ Conn(c, z)[2] = z /\ Conn(c, z) \in Conns
  BY <1>7, ConnIs
<1>11. Beside(c)
  <2>1. ASSUME NEW k \in Conns, k[1] # c
        PROVE  up'[k] = up[k]
    <3>1. /\ k # Conn(c, x)
          /\ Joined(c) => k # Conn(c, y)
      BY <1>1, <1>2, <1>10, <2>1
    <3>2. QED
      BY <1>2, <1>3, <1>4, <3>1
  <2>2. QED
    BY <1>9, <2>1 DEF Beside
<1>12. ASSUME NEW z \in Sessions
       PROVE  Own(c, z)'
  <2> DEFINE l == Joined(c) /\ z = y
             j == z = x
  <2>1. l \in BOOLEAN /\ j \in BOOLEAN
    OBVIOUS
  <2>2. /\ l => servers[c][z].open /\ servers[c][z].joined
        /\ j => servers[c][z].open /\ (~l => ~servers[c][z].joined)
    BY <1>1, <1>2
  <2>3. /\ servers'[c][z].open = servers[c][z].open
        /\ servers'[c][z].gen = servers[c][z].gen
        /\ servers'[c][z].sock = servers[c][z].sock
        /\ servers'[c][z].view = servers[c][z].view
        /\ servers'[c][z].joined = IF l THEN FALSE ELSE servers[c][z].joined
    BY <1>6, <1>9
  <2>4. ASSUME NEW k \in Conns, k[1] = c, k[2] = z
        PROVE  up'[k] = IF ~Serving(z) THEN <<>>
                        ELSE LET u == IF l /\ k = Conn(c, z) THEN Append(up[k], "leavesession")
                                      ELSE up[k]
                             IN  IF j /\ k = Conn(c, z) THEN Append(u, "joinsession") ELSE u
    <3>1. CASE ~Serving(z)
      BY <1>4, <2>4, <3>1
    <3>2. CASE Serving(z)
      <4>1. servers[c][z].open => servers[c][z].sock
        BY <3>2, OwnBefore DEF Own, Held
      <4>2. Joined(c) /\ k = Conn(c, y) => z = y
        BY <1>2, <1>10, <2>4
      <4>3. k = Conn(c, x) => z = x
        BY <1>1, <1>10, <2>4
      <4>4. u1[k] = IF l /\ k = Conn(c, z) THEN Append(up[k], "leavesession") ELSE up[k]
        BY <1>2, <2>2, <4>1, <4>2
      <4>5. u2[k] = IF j /\ k = Conn(c, z) THEN Append(u1[k], "joinsession") ELSE u1[k]
        BY <1>3, <2>2, <4>1, <4>3
      <4>6. up'[k] = u2[k]
        BY <1>4, <2>4, <3>2
      <4>7. QED
        BY <3>2, <4>4, <4>5, <4>6
    <3>3. QED
      BY <3>1, <3>2
  <2> HIDE DEF l, j
  <2>5. Asks(c, z, l, j)
    BY <2>2, <2>3, <2>4 DEF Asks
  <2>6. QED
    BY <1>1, <1>8, <1>9, <1>11, <2>1, <2>5, AskKeeps
<1>13. QED
  BY <1>8, <1>11, <1>12, ClientKeeps

LEMMA LeaveSessionKeeps ==
    ASSUME IInv, NEW c \in Clients, LeaveSession(c)
    PROVE  IInv'
<1> DEFINE y == joinRef[c]
           next == Left(c)
           u1 == LeaveSent(c)
<1>1. /\ UserAction /\ MayCall(c)
      /\ servers' = [servers EXCEPT ![c] = next] /\ Deliver(u1)
      /\ joinRef' = [joinRef EXCEPT ![c] = None]
      /\ UNCHANGED <<server, client, attrsDirty, game, minis, linked, down, end>>
  BY DEF LeaveSession
<1>2. /\ Joined(c) => y \in Sessions /\ servers[c][y].open /\ servers[c][y].joined
      /\ u1 \in [Conns -> Seq(ToServer)]
      /\ \A k \in Conns :
            u1[k] = IF Joined(c) /\ k = Conn(c, y) /\ servers[c][y].sock
                    THEN Append(up[k], "leavesession") ELSE up[k]
      /\ next \in [Sessions -> ServerContext]
      /\ \A z \in Sessions :
            /\ next[z].open = servers[c][z].open /\ next[z].gen = servers[c][z].gen
            /\ next[z].sock = servers[c][z].sock /\ next[z].view = servers[c][z].view
            /\ next[z].joined = IF Joined(c) /\ z = y THEN FALSE ELSE servers[c][z].joined
  BY LeaveIs
<1> HIDE DEF u1, next
<1>4. /\ up' \in [Conns -> Seq(ToServer)]
      /\ \A k \in Conns : /\ up'[k] = IF Serving(k[2]) THEN u1[k] ELSE <<>>
                          /\ u1[k] = up[k] => up'[k] = up[k]
  BY <1>1, <1>2, DeliverIs
<1>7. TypeOK /\ TypedServers
  BY IInvTyped DEF IInv
<1>8. TypeOK'
  <2>1. joinRef' \in [Clients -> Sessions \cup {None}]
    BY <1>1, <1>7 DEF TypeOK
  <2>2. /\ UNCHANGED <<state, ctxs, max, num, dirty, ousted, roster, linked>>
        /\ minis' \in [Sessions -> Seq(Conns)]
        /\ client' \in [Clients -> {"open", "closed", "aborted"}]
        /\ game' \in [Clients -> Sessions \cup {None}]
        /\ attrsDirty' \in [Clients -> BOOLEAN]
        /\ down' \in [Conns -> Seq(ClientMsg)]
        /\ end' \in [Conns -> {"none", "open", "shut"}]
    BY <1>1, <1>7 DEF TypeOK, server
  <2>3. \A z \in Sessions : next[z].gen <= MaxConns[c]
    BY <1>2, <1>7 DEF TypeOK
  <2>4. used' \in 0..MaxUserActions
    BY <1>1, <1>7, UsedIs
  <2>5. QED
    BY <1>1, <1>2, <1>4, <1>7, <2>1, <2>2, <2>3, <2>4, TypesKept
<1>9. /\ servers'[c] = next /\ \A b \in Clients : b # c => servers'[b] = servers[b]
      /\ UNCHANGED <<state, ctxs, num, dirty, ousted, roster, linked>>
      /\ UNCHANGED <<game, end, down, minis>>
  BY <1>1, <1>7 DEF TypeOK, server
<1>10. \A z \in Sessions : servers[c][z].open =>
          Conn(c, z)[1] = c /\ Conn(c, z)[2] = z /\ Conn(c, z) \in Conns
  BY <1>7, ConnIs
<1>11. Beside(c)
  <2>1. ASSUME NEW k \in Conns, k[1] # c
        PROVE  up'[k] = up[k]
    <3>1. Joined(c) => k # Conn(c, y)
      BY <1>1, <1>2, <1>10, <2>1
    <3>2. QED
      BY <1>2, <1>4, <3>1
  <2>2. QED
    BY <1>9, <2>1 DEF Beside
<1>12. ASSUME NEW z \in Sessions
       PROVE  Own(c, z)'
  <2> DEFINE l == Joined(c) /\ z = y
  <2>1. l \in BOOLEAN /\ FALSE \in BOOLEAN
    OBVIOUS
  <2>2. l => servers[c][z].open /\ servers[c][z].joined
    BY <1>2
  <2>3. /\ servers'[c][z].open = servers[c][z].open
        /\ servers'[c][z].gen = servers[c][z].gen
        /\ servers'[c][z].sock = servers[c][z].sock
        /\ servers'[c][z].view = servers[c][z].view
        /\ servers'[c][z].joined = IF l THEN FALSE ELSE servers[c][z].joined
    BY <1>2, <1>9
  <2>4. ASSUME NEW k \in Conns, k[1] = c, k[2] = z
        PROVE  up'[k] = IF ~Serving(z) THEN <<>>
                        ELSE IF l /\ k = Conn(c, z) THEN Append(up[k], "leavesession")
                             ELSE up[k]
    <3>1. CASE ~Serving(z)
      BY <1>4, <2>4, <3>1
    <3>2. CASE Serving(z)
      <4>1. servers[c][z].open => servers[c][z].sock
        BY <3>2, OwnBefore DEF Own, Held
      <4>2. Joined(c) /\ k = Conn(c, y) => z = y
        BY <1>2, <1>10, <2>4
      <4>4. u1[k] = IF l /\ k = Conn(c, z) THEN Append(up[k], "leavesession") ELSE up[k]
        BY <1>2, <2>2, <4>1, <4>2
      <4>6. up'[k] = u1[k]
        BY <1>4, <2>4, <3>2
      <4>7. QED
        BY <3>2, <4>4, <4>6
    <3>3. QED
      BY <3>1, <3>2
  <2> HIDE DEF l
  <2>5. Asks(c, z, l, FALSE)
    BY <2>2, <2>3, <2>4 DEF Asks
  <2>6. QED
    BY <1>1, <1>8, <1>9, <1>11, <2>1, <2>5, AskKeeps
<1>13. QED
  BY <1>8, <1>11, <1>12, ClientKeeps

-----------------------------------------------------------------------------
(* The end of a client, and of a context.                                  *)
LEMMA ReleasedIs ==
    ASSUME NEW g \in Nat
    PROVE  LET r == [Closed EXCEPT !.gen = g]
           IN r \in ServerContext /\ r.gen = g /\ ~r.open /\ ~r.sock /\ ~r.joined
<1>1. 0 \in 0..MaxClients
  BY Constants
<1>2. QED
  BY <1>1 DEF Closed, ServerContext

LEMMA GoodbyeIs ==
    ASSUME NEW r
    PROVE  Goodbye(r) \in Seq(ToServer)
<1>1. "leavesession" \in ToServer /\ "close" \in ToServer
  BY DEF ToServer
<1>2. /\ <<"leavesession">> \in Seq(ToServer) /\ <<>> \in Seq(ToServer)
      /\ <<"close">> \in Seq(ToServer)
  BY <1>1
<1>3. QED
  BY <1>2 DEF Goodbye

(* Every context of the client is released.                                *)
LEMMA ReleaseKeeps ==
    ASSUME IInv, NEW c \in Clients,
           servers' = [servers EXCEPT ![c] = [x \in Sessions |->
                          [Closed EXCEPT !.gen = servers[c][x].gen]]],
           joinRef' = [joinRef EXCEPT ![c] = None],
           client' \in [Clients -> {"open", "closed", "aborted"}],
           ShutEnds(LiveConns(c)),
           UNCHANGED <<server, attrsDirty, game, minis, linked>>,
           up' \in [Conns -> Seq(ToServer)],
           \A k \in Conns : /\ k[1] # c => up'[k] = up[k]
                            /\ up'[k] # <<>> => Contains(minis[k[2]], k),
           used' \in 0..MaxUserActions
    PROVE  IInv'
<1> DEFINE next == [x \in Sessions |-> [Closed EXCEPT !.gen = servers[c][x].gen]]
<1>1. TypeOK /\ TypedServers
  BY IInvTyped DEF IInv
<1>2. ASSUME NEW x \in Sessions
      PROVE  /\ next[x] \in ServerContext /\ next[x].gen = servers[c][x].gen
             /\ ~next[x].open /\ ~next[x].sock /\ ~next[x].joined
  <2>1. servers[c][x].gen \in Nat
    BY <1>1, ConnIs
  <2>2. QED
    BY <2>1, ReleasedIs
<1>3. next \in [Sessions -> ServerContext]
  BY <1>2
<1> HIDE DEF next
<1>4. /\ end' \in [Conns -> {"none", "open", "shut"}]
      /\ \A k \in Conns :
            /\ k[1] # c => end'[k] = end[k]
            /\ k[1] = c => end'[k] # "open" /\ (end'[k] = "none" <=> end[k] = "none")
  BY <1>1 DEF ShutEnds, LiveConns, TypeOK
<1>5. /\ down' \in [Conns -> Seq(ClientMsg)]
      /\ \A k \in Conns :
            /\ k[1] # c => down'[k] = down[k]
            /\ down'[k] = <<>> \/ down'[k] = down[k]
  BY <1>1 DEF ShutEnds, LiveConns, TypeOK
<1>6. /\ servers' = [servers EXCEPT ![c] = next]
      /\ servers'[c] = next /\ \A b \in Clients : b # c => servers'[b] = servers[b]
      /\ UNCHANGED <<state, ctxs, max, num, dirty, ousted, roster, linked>>
      /\ game' = game /\ minis' = minis
  BY <1>1 DEF TypeOK, server, next
<1>7. TypeOK'
  <2>1. /\ joinRef' \in [Clients -> Sessions \cup {None}]
        /\ attrsDirty' \in [Clients -> BOOLEAN]
        /\ minis' \in [Sessions -> Seq(Conns)]
        /\ game' \in [Clients -> Sessions \cup {None}]
    BY <1>1 DEF TypeOK
  <2>2. \A x \in Sessions : next[x].gen <= MaxConns[c]
    BY <1>1, <1>2 DEF TypeOK
  <2>3. QED
    BY <1>1, <1>3, <1>4, <1>5, <1>6, <2>1, <2>2, TypesKept
<1>8. Beside(c)
  BY <1>4, <1>5, <1>6 DEF Beside
<1>9. ASSUME NEW x \in Sessions
      PROVE  Own(c, x)'
  <2>1. /\ ~servers'[c][x].open /\ ~servers'[c][x].sock /\ ~servers'[c][x].joined
        /\ servers'[c][x].gen = servers[c][x].gen
    BY <1>2, <1>6
  <2>2. minis'[x] = minis[x] /\ (game'[c] = x => InGame(c, x))
    BY <1>6, OwnBefore DEF Own, Begun
  <2>3. \A k \in Conns : k[1] = c /\ k[2] = x =>
              /\ end'[k] # "open" /\ (end'[k] = "none" <=> end[k] = "none")
              /\ down'[k] = <<>> \/ down'[k] = down[k]
              /\ up'[k] # <<>> => Contains(minis[x], k)
    BY <1>4, <1>5
  <2>4. QED
    BY <1>7, <1>8, <2>1, <2>2, <2>3, OwnCloses
<1>10. QED
  BY <1>7, <1>8, <1>9, ClientKeeps

LEMMA DiesKeeps ==
    ASSUME IInv, NEW c \in Clients, Dies(c), used' \in 0..MaxUserActions
    PROVE  IInv'
<1>1. TypeOK
  BY DEF IInv
<1>2. client' \in [Clients -> {"open", "closed", "aborted"}]
  BY <1>1 DEF Dies, TypeOK
<1>3. up' \in [Conns -> Seq(ToServer)]
  BY <1>1 DEF Dies, TypeOK
<1>4. \A k \in Conns : /\ k[1] # c => up'[k] = up[k]
                       /\ up'[k] # <<>> => Contains(minis[k[2]], k)
  BY UpServed DEF Dies
<1>5. QED
  BY <1>2, <1>3, <1>4, ReleaseKeeps DEF Dies

LEMMA CloseClientKeeps ==
    ASSUME IInv, NEW c \in Clients, CloseClient(c)
    PROVE  IInv'
<1> DEFINE xs == {x \in Sessions : servers[c][x].open}
           u1 == LeaveSent(c)
           Says(k) == k[1] = c /\ k[2] \in xs /\ k = Conn(c, k[2]) /\ servers[c][k[2]].sock
           u == [k \in Conns |-> IF Says(k) THEN u1[k] \o Goodbye(Left(c)[k[2]]) ELSE up[k]]
<1>1. TypeOK
  BY DEF IInv
<1>2. /\ UserAction /\ Deliver(u) /\ ShutEnds(LiveConns(c))
      /\ servers' = [servers EXCEPT ![c] = [x \in Sessions |->
                          [Closed EXCEPT !.gen = servers[c][x].gen]]]
      /\ joinRef' = [joinRef EXCEPT ![c] = None]
      /\ client' = [client EXCEPT ![c] = "closed"]
      /\ UNCHANGED <<server, attrsDirty, game, minis, linked>>
  BY DEF CloseClient
<1>3. u1 \in [Conns -> Seq(ToServer)]
  BY LeaveIs
<1>4. up \in [Conns -> Seq(ToServer)]
  BY <1>1 DEF TypeOK
<1> HIDE DEF u1
<1>5. u \in [Conns -> Seq(ToServer)]
  <2>1. ASSUME NEW k \in Conns
        PROVE  u[k] \in Seq(ToServer)
    <3>1. u1[k] \in Seq(ToServer) /\ Goodbye(Left(c)[k[2]]) \in Seq(ToServer)
      BY <1>3, GoodbyeIs
    <3>2. u1[k] \o Goodbye(Left(c)[k[2]]) \in Seq(ToServer)
      BY <3>1
    <3>3. QED
      BY <1>4, <3>2
  <2>2. QED
    BY <2>1
<1>6. \A k \in Conns : ~Says(k) => u[k] = up[k]
  OBVIOUS
<1> HIDE DEF u
<1>7. /\ up' \in [Conns -> Seq(ToServer)]
      /\ \A k \in Conns : /\ up'[k] = IF Serving(k[2]) THEN u[k] ELSE <<>>
                          /\ u[k] = up[k] => up'[k] = up[k]
  BY <1>2, <1>5, DeliverIs
<1>8. ASSUME NEW k \in Conns
      PROVE  /\ k[1] # c => up'[k] = up[k]
             /\ up'[k] # <<>> => Contains(minis[k[2]], k)
  <2>1. CASE ~Says(k)
    BY <1>6, <1>7, <2>1, UpServed
  <2>2. CASE Says(k)
    <3>1. k[1] = c /\ k[2] \in Sessions /\ k = Conn(c, k[2]) /\ servers[c][k[2]].open
      BY <2>2
    <3>2. Serving(k[2]) => Contains(minis[k[2]], k)
      BY <3>1, OwnBefore DEF Own, Held, Connected
    <3>3. QED
      BY <1>7, <3>1, <3>2
  <2>3. QED
    BY <2>1, <2>2
<1>9. client' \in [Clients -> {"open", "closed", "aborted"}]
  BY <1>1, <1>2 DEF TypeOK
<1>10. used' \in 0..MaxUserActions
  BY <1>1, <1>2, UsedIs
<1>11. QED
  BY <1>2, <1>7, <1>8, <1>9, <1>10, ReleaseKeeps

LEMMA UserKeeps ==
    ASSUME IInv, NEW c \in Clients, User(c)
    PROVE  IInv'
<1>1. TypeOK
  BY DEF IInv
<1>2. CASE \E x \in Sessions : JoinSession(c, x)
  BY <1>2, JoinSessionKeeps
<1>3. CASE \E x \in Sessions : JoinAborts(c, x)
  BY <1>1, <1>3, UsedIs, DiesKeeps DEF JoinAborts
<1>4. CASE LeaveSession(c)
  BY <1>4, LeaveSessionKeeps
<1>5. CASE CloseClient(c)
  BY <1>5, CloseClientKeeps
<1>6. CASE ClientCrash(c)
  BY <1>1, <1>6, UsedIs, DiesKeeps DEF ClientCrash
<1>7. QED
  BY <1>2, <1>3, <1>4, <1>5, <1>6 DEF User

-----------------------------------------------------------------------------
(* A frame of a client.                                                    *)
LEMMA ReadIs ==
    ASSUME IInv, NEW c \in Clients, NEW x \in Sessions, servers[c][x].open
    PROVE  /\ Read(c, x) \in ServerContext
           /\ Read(c, x).open /\ Read(c, x).gen = servers[c][x].gen
           /\ Read(c, x).joined = JoinedAfter(servers[c][x], down[Conn(c, x)])
           /\ Read(c, x).view = ViewAfter(servers[c][x], down[Conn(c, x)])
           /\ Read(c, x).sock <=> Contains(minis[x], Conn(c, x))
<1> DEFINE r == servers[c][x]
           k == Conn(c, x)
           q == down[k]
<1>1. r \in ServerContext /\ r.open /\ k \in Conns /\ k[2] = x
  BY IInvTyped, ConnIs
<1>2. q \in Seq(ClientMsg) /\ minis[x] \in Seq(Conns)
  BY <1>1 DEF IInv, TypeOK
<1> HIDE DEF k, r, q
<1>3. ASSUME NEW T
      PROVE  /\ Latest(q, T) # 0 => q[Latest(q, T)].type \in T
             /\ Latest(q, T) # 0 => q[Latest(q, T)] \in ClientMsg
  BY <1>2, LatestIs
<1>4. JoinedAfter(r, q) \in BOOLEAN
  BY <1>1 DEF JoinedAfter, ServerContext
<1>5. ViewAfter(r, q) \in 0..MaxClients
  BY <1>1, <1>3 DEF ViewAfter, ServerContext, ClientMsg
<1>6. ReplyAfter(r, q) \in {"none", "accepted", "denied"}
  BY <1>1, <1>3 DEF ReplyAfter, ServerContext, Answers
<1>7. AtEnd(k) <=> ~Contains(minis[x], k)
  BY <1>1, <1>2 DEF AtEnd, ToSet, Contains
<1>8. Read(c, x) = [r EXCEPT !.joined = JoinedAfter(r, q), !.reply = ReplyAfter(r, q),
                             !.view = ViewAfter(r, q), !.sock = ~AtEnd(k)]
  BY DEF Read, r, q, k
<1>9. /\ r = [open |-> r.open, gen |-> r.gen, joined |-> r.joined, reply |-> r.reply,
              sock |-> r.sock, view |-> r.view]
      /\ r.gen \in Nat /\ r.open \in BOOLEAN
  BY <1>1 DEF ServerContext
<1>10. Read(c, x) = [open |-> r.open, gen |-> r.gen, joined |-> JoinedAfter(r, q),
                     reply |-> ReplyAfter(r, q), sock |-> ~AtEnd(k), view |-> ViewAfter(r, q)]
  BY <1>8, <1>9
<1>11. Read(c, x) \in ServerContext
  BY <1>4, <1>5, <1>6, <1>9, <1>10 DEF ServerContext
<1>12. /\ Read(c, x).open = r.open /\ Read(c, x).gen = r.gen
       /\ Read(c, x).joined = JoinedAfter(r, q) /\ Read(c, x).view = ViewAfter(r, q)
       /\ Read(c, x).sock = ~AtEnd(k)
  BY ONLY <1>10
<1>13. Read(c, x).open /\ (Read(c, x).sock <=> Contains(minis[x], k))
  BY <1>1, <1>7, <1>12
<1>14. QED
  BY <1>11, <1>12, <1>13 DEF r, q, k

(* A context that stays, in a frame: its connection is read or it is not,  *)
(* and the client may say its attributes.                                  *)
Frames(c, x, read, w) ==
    LET k == Conn(c, x)
        r == servers[c][x]
        r2 == servers'[c][x]
    IN /\ w \in {<<>>, <<"clientattr">>}
       /\ r.open /\ r.sock
       /\ r2 = IF read THEN Read(c, x) ELSE r
       /\ read => ~Over(c, x)
       /\ up'[k] = IF Serving(x) THEN up[k] \o w ELSE <<>>
       /\ down'[k] = IF read THEN <<>> ELSE down[k]
       /\ end'[k] = IF r2.sock THEN end[k] ELSE "shut"
       /\ \A j \in Conns : j[1] = c /\ j[2] = x /\ j # k =>
             /\ end'[j] = end[j] /\ down'[j] = down[j] /\ up'[j] = up[j]

LEMMA SaidMore ==
    ASSUME NEW u \in Seq(ToServer), NEW w \in {<<>>, <<"clientattr">>}, NEW u2, u2 = u \o w
    PROVE  /\ u2 \in Seq(ToServer)
           /\ \A t : Contains(u2, t) <=> Contains(u, t) \/ (w # <<>> /\ t = "clientattr")
           /\ Ordered(u) => Ordered(u2)
<1>1. "clientattr" \in ToServer /\ "clientattr" \notin Requests
  BY DEF ToServer, Requests
<1>2. CASE w = <<>>
  <2>1. u2 = u
    BY <1>2
  <2>2. QED
    BY <1>2, <2>1
<1>3. CASE w = <<"clientattr">>
  <2>1. u2 = Append(u, "clientattr")
    BY <1>3
  <2>2. w # <<>>
    BY <1>3
  <2>3. /\ u2 \in Seq(ToServer)
        /\ \A t : Contains(u2, t) <=> Contains(u, t) \/ t = "clientattr"
    BY <1>1, <2>1, AppendedElement
  <2>4. Ordered(u) => Ordered(u2)
    BY <1>1, <2>1, OrderedMore
  <2>5. QED
    BY <2>2, <2>3, <2>4
<1>4. QED
  BY <1>2, <1>3

(* What has been read counts as it did when it was under way.              *)
LEMMA MeetsFrames ==
    ASSUME IInv, TypeOK', NEW c \in Clients, Beside(c), NEW x \in Sessions,
           NEW read \in BOOLEAN, NEW w, Frames(c, x, read, w), Serving(x)
    PROVE  Meets(c, x)'
<1> DEFINE k == Conn(c, x)
           r == servers[c][x]
           r2 == servers'[c][x]
           u == up[k]
           u2 == up'[k]
           d == down[k]
           d2 == down'[k]
<1>1. /\ r.open /\ r2 = IF read THEN Read(c, x) ELSE r
      /\ u2 = u \o w /\ w \in {<<>>, <<"clientattr">>}
      /\ d2 = IF read THEN <<>> ELSE d
  BY DEF Frames
<1>2. /\ k \in Conns /\ k[1] = c /\ k[2] = x /\ k[3] = r.gen /\ r.gen \in Nat
  BY <1>1, ConnIs, IInvTyped
<1>3. /\ u \in Seq(ToServer) /\ d \in Seq(ClientMsg) /\ d2 \in Seq(ClientMsg)
  BY <1>2 DEF IInv, TypeOK
<1>4. /\ r2.gen = r.gen /\ r2.open
      /\ read => r2.joined = JoinedAfter(r, d) /\ r2.view = ViewAfter(r, d)
  BY <1>1, ReadIs
<1>5. Conn(c, x)' = k
  BY <1>4 DEF Conn
<1>6. Meets(c, x)
  BY <1>1, OwnBefore DEF Own
<1> HIDE DEF k, r, r2, u, u2, d, d2
<1>7. /\ u2 \in Seq(ToServer)
      /\ \A t : Contains(u2, t) <=> Contains(u, t) \/ (w # <<>> /\ t = "clientattr")
      /\ Ordered(u) => Ordered(u2)
  BY <1>1, <1>3, SaidMore
<1>8. (Entering(u2) <=> Entering(u)) /\ (Leaving(u2) <=> Leaving(u))
  BY <1>7 DEF Entering, Leaving
<1>9. /\ dirty[x] \/ Contains(u, "queryserverattrs") \/ ViewAfter(r, d) = num[x]
      /\ c \notin Hasty => Side(k, r, ctxs[x], ousted[x], u, d)
  BY <1>6 DEF Meets, k, r, u, d
<1>10. /\ <<>> \in Seq(ClientMsg) /\ (\A T : ~HasType(<<>>, T))
       /\ \A T : Latest(<<>>, T) = 0
  <2>1. <<>> \in Seq(ClientMsg) /\ Len(<<>>) = 0 /\ (\A T : ~HasType(<<>>, T))
    BY DEF HasType
  <2>2. ASSUME NEW T
        PROVE  Latest(<<>>, T) = 0
    <3>1. Latest(<<>>, T) \in 0 .. Len(<<>>)
      BY <2>1, LatestIs
    <3>2. QED
      BY <2>1, <3>1
  <2>3. QED
    BY <2>1, <2>2
<1>11. /\ read => ViewAfter(r2, d2) = r2.view /\ JoinedAfter(r2, d2) = r2.joined
       /\ ~read => r2 = r /\ d2 = d
  BY <1>1, <1>10 DEF ViewAfter, JoinedAfter
<1>12. ViewAfter(r2, d2) = ViewAfter(r, d) /\ JoinedAfter(r2, d2) = JoinedAfter(r, d)
  BY <1>4, <1>11
<1>13. \/ r2.joined = r.joined /\ d2 = d
       \/ r2.joined = JoinedAfter(r, d) /\ ~HasType(d2, {"joinaccepted", "joindenied"})
  BY <1>1, <1>4, <1>10, <1>11
<1>14. c \notin Hasty => Side(k, r2, ctxs[x], ousted[x], u2, d2)
  <2>1. SUFFICES ASSUME c \notin Hasty
                 PROVE  Side(k, r2, ctxs[x], ousted[x], u2, d2)
    OBVIOUS
  <2>2. Side(k, r, ctxs[x], ousted[x], u, d)
    BY <1>9, <2>1
  <2>3. Ordered(u2)
    BY <1>7, <2>2 DEF Side
  <2>4. QED
    BY <1>4, <1>8, <1>12, <1>13, <2>2, <2>3, SideStays
<1>15. /\ ctxs'[x] = ctxs[x] /\ num'[x] = num[x] /\ dirty'[x] = dirty[x]
       /\ ousted'[x] = ousted[x]
  BY DEF Beside
<1>16. dirty[x] \/ Contains(u2, "queryserverattrs") \/ ViewAfter(r2, d2) = num[x]
  BY <1>7, <1>9, <1>12
<1>17. QED
  BY <1>5, <1>14, <1>15, <1>16 DEF Meets, r2, u2, d2

LEMMA FramesKeeps ==
    ASSUME IInv, TypeOK', NEW c \in Clients, Beside(c), NEW x \in Sessions,
           NEW read \in BOOLEAN, NEW w, Frames(c, x, read, w),
           minis'[x] = minis[x], game'[c] = x => InGame(c, x)
    PROVE  Own(c, x)'
<1> DEFINE h == Conn(c, x)
           r == servers[c][x]
           r2 == servers'[c][x]
<1>1. /\ w \in {<<>>, <<"clientattr">>}
      /\ r.open /\ r.sock
      /\ r2 = IF read THEN Read(c, x) ELSE r
      /\ read => ~Over(c, x)
      /\ up'[h] = IF Serving(x) THEN up[h] \o w ELSE <<>>
      /\ down'[h] = IF read THEN <<>> ELSE down[h]
      /\ end'[h] = IF r2.sock THEN end[h] ELSE "shut"
      /\ \A j \in Conns : j[1] = c /\ j[2] = x /\ j # h =>
            /\ end'[j] = end[j] /\ down'[j] = down[j] /\ up'[j] = up[j]
  BY DEF Frames
<1>2. /\ h \in Conns /\ h[1] = c /\ h[2] = x
  BY <1>1, ConnIs, IInvTyped
<1>3. /\ r2.open /\ r2.gen = r.gen
      /\ read => (r2.sock <=> Contains(minis[x], h))
  BY <1>1, ReadIs
<1>4. /\ Wired(h, r, end[h], up[h], down[h], h \in linked, Contains(minis[x], h))
      /\ Held(c, x)
  BY <1>2, OwnBefore DEF Own
<1>5. /\ end[h] = "open"
      /\ Serving(x) => Contains(minis[x], h)
  BY <1>1, <1>4 DEF Held, Connected
<1>6. /\ end'[h] = end[h] \/ end'[h] = "shut"
      /\ r2.sock => end'[h] = "open"
      /\ Serving(x) => r2.sock
  BY <1>1, <1>3, <1>5
<1>7. up[h] \in Seq(ToServer) /\ down[h] \in Seq(ClientMsg)
  BY <1>2 DEF IInv, TypeOK
<1>8. /\ ~Contains(up'[h], "close")
      /\ up'[h] # <<>> => Contains(minis[x], h)
      /\ Serving(x) => \A t : Contains(up[h], t) => Contains(up'[h], t)
  <2>1. CASE ~Serving(x)
    <3>1. up'[h] = <<>>
      BY <1>1, <2>1
    <3>2. QED
      BY <2>1, <3>1 DEF Contains
  <2>2. CASE Serving(x)
    <3>1. ~Contains(up[h], "close")
      BY <1>4, <1>5 DEF Wired
    <3>2. up'[h] = up[h] \o w
      BY <1>1, <2>2
    <3>3. \A t : Contains(up'[h], t) <=> Contains(up[h], t) \/ (w # <<>> /\ t = "clientattr")
      BY <1>1, <1>7, <3>2, SaidMore
    <3>4. QED
      BY <1>5, <2>2, <3>1, <3>3
  <2>3. QED
    BY <2>1, <2>2
<1>9. HasType(down'[h], {"start"}) <=> HasType(down[h], {"start"})
  <2>1. CASE ~read
    BY <1>1, <2>1
  <2>2. CASE read
    <3>1. ~Has(h, "start")
      BY <1>1, <2>2 DEF Over
    <3>2. ~HasType(down[h], {"start"})
      BY <1>7, <3>1 DEF Has, HasType
    <3>3. ~HasType(down'[h], {"start"})
      BY <1>1, <2>2 DEF HasType
    <3>4. QED
      BY <3>2, <3>3
  <2>3. QED
    BY <2>1, <2>2
<1>10. Serving(x) => Meets(c, x)'
  BY MeetsFrames
<1>11. h = Conn(c, x)
  OBVIOUS
<1>12. \A k \in Conns : k[1] = c /\ k[2] = x /\ k # h =>
              /\ end'[k] = end[k] /\ down'[k] = down[k] /\ up'[k] = up[k]
  BY <1>1
<1>13. /\ servers[c][x].open /\ servers'[c][x].open
       /\ servers'[c][x].gen = servers[c][x].gen
       /\ servers'[c][x].sock => end'[h] = "open"
       /\ Serving(x) => servers'[c][x].sock
  BY <1>1, <1>3, <1>6
<1>14. end'[h] = end[h] \/ end'[h] = "shut"
  BY <1>6
<1> HIDE DEF h, r, r2
<1>15. QED
  BY <1>8, <1>9, <1>10, <1>11, <1>12, <1>13, <1>14, OwnStays

LEMMA OpenedIs ==
    ASSUME NEW g \in Nat
    PROVE  Opened(g) \in ServerContext /\ Opened(g).gen = g /\ Opened(g).open /\ Opened(g).sock
<1>1. 0 \in 0..MaxClients
  BY Constants
<1>2. QED
  BY <1>1 DEF Opened, Closed, ServerContext

(* The whole frame: contexts that are made, released, read and left alone. *)
LEMMA FrameKeeps ==
    ASSUME IInv, NEW c \in Clients, NEW N \in SUBSET Heard(c), NEW E \in SUBSET Known(c),
           NEW R \in SUBSET (Waiting(c) \ E), ClientTrigger(c, N, E, R)
    PROVE  IInv'
<1> DEFINE read == [x \in Sessions |-> IF x \in R THEN Read(c, x) ELSE servers[c][x]]
           over == {x \in R : Over(c, x)}
           next == [x \in Sessions |->
                       IF x \in N THEN Opened(servers[c][x].gen + 1)
                       ELSE IF x \in E \cup over
                            THEN [Closed EXCEPT !.gen = servers[c][x].gen]
                            ELSE read[x]]
           ref == IF joinRef[c] \in E \cup over THEN None ELSE joinRef[c]
           tell == ref # None /\ next[ref].joined /\ attrsDirty[c]
           made == {<<c, x, next[x].gen>> : x \in N}
           said(x) == IF x \in N THEN <<"handshake", "queryserverattrs">>
                      ELSE IF ~read[x].sock THEN <<>>
                      ELSE IF x \in E \cup over THEN Goodbye(read[x])
                      ELSE IF tell /\ x = ref THEN <<"clientattr">> ELSE <<>>
           mine(k) == k[1] = c /\ k[3] = next[k[2]].gen /\ k[2] \in N \cup Known(c)
           shut == {k \in LiveConns(c) : mine(k) /\ ~next[k[2]].sock}
           u == [k \in Conns |-> IF mine(k) THEN up[k] \o said(k[2]) ELSE up[k]]
<1>1. /\ servers' = [servers EXCEPT ![c] = next]
      /\ joinRef' = [joinRef EXCEPT ![c] = ref]
      /\ attrsDirty' = [attrsDirty EXCEPT ![c] = @ /\ ~tell]
      /\ game' = [game EXCEPT ![c] = IF \E x \in R : Has(Conn(c, x), "start")
                                     THEN CHOOSE x \in R : Has(Conn(c, x), "start") ELSE @]
      /\ Deliver(u)
      /\ minis' = [x \in Sessions |-> IF x \in N THEN Append(minis[x], <<c, x, next[x].gen>>)
                                      ELSE minis[x]]
      /\ end' = [k \in Conns |-> IF k \in made THEN "open"
                                 ELSE IF k \in shut THEN "shut" ELSE end[k]]
      /\ down' = [k \in Conns |-> IF k \in shut \/ (mine(k) /\ k[2] \in R) THEN <<>>
                                  ELSE down[k]]
      /\ used' = used + Cardinality(E)
      /\ UNCHANGED <<server, client, linked>>
  BY DEF ClientTrigger, Frame
<1>2. TypeOK /\ TypedServers
  BY IInvTyped DEF IInv
<1>3. /\ \A x \in N : /\ x \in Sessions /\ Serving(x) /\ ~servers[c][x].open
                      /\ servers[c][x].gen < MaxConns[c]
      /\ \A x \in Known(c) : x \in Sessions /\ servers[c][x].open /\ x \notin N
      /\ \A x \in R \cup E : x \in Known(c)
      /\ R \cap E = {}
  BY DEF Heard, Known, Waiting
<1>4. \A x \in Known(c) \ E : servers[c][x].sock
  BY DEF ClientTrigger, TriggerFails
<1>5. ASSUME NEW x \in Sessions
      PROVE  /\ read[x] \in ServerContext /\ read[x].gen = servers[c][x].gen
             /\ read[x].open = servers[c][x].open
             /\ servers[c][x] \in ServerContext /\ servers[c][x].gen \in Nat
             /\ servers[c][x].gen <= MaxConns[c]
  <2>1. /\ servers[c][x] \in ServerContext /\ servers[c][x].gen \in Nat
        /\ servers[c][x].gen <= MaxConns[c]
    BY <1>2, ConnIs DEF TypedServers
  <2>2. CASE x \in R
    <3>1. servers[c][x].open
      BY <1>3, <2>2
    <3>2. read[x] = Read(c, x)
      BY <2>2
    <3>3. QED
      BY <2>1, <3>1, <3>2, ReadIs
  <2>3. CASE x \notin R
    BY <2>1, <2>3
  <2>4. QED
    BY <2>2, <2>3
<1>6. \A x \in over : x \in R
  OBVIOUS
<1>7. ASSUME NEW x \in Sessions
      PROVE  /\ x \in N => next[x] = Opened(servers[c][x].gen + 1)
             /\ x \in E \cup over => next[x] = [Closed EXCEPT !.gen = servers[c][x].gen]
             /\ x \notin N /\ x \notin E \cup over => next[x] = read[x]
  BY <1>3, <1>6
<1>8. \A k : k \in shut <=>
         k \in Conns /\ k[1] = c /\ end[k] = "open" /\ mine(k) /\ ~next[k[2]].sock
  BY DEF LiveConns
<1>9. \A x \in Sessions : /\ x \in R => read[x] = Read(c, x)
                          /\ x \notin R => read[x] = servers[c][x]
  OBVIOUS
<1>10. ASSUME NEW x \in R
       PROVE  x \in over <=> Over(c, x)
  OBVIOUS
<1> HIDE DEF read, over, next, tell, said, shut
<1>11. ASSUME NEW x \in Sessions
       PROVE  /\ next[x] \in ServerContext /\ next[x].gen <= MaxConns[c]
              /\ x \in N => next[x].gen = servers[c][x].gen + 1 /\ next[x].sock /\ next[x].open
              /\ x \notin N => next[x].gen = servers[c][x].gen
              /\ x \in E \cup over => ~next[x].open /\ ~next[x].sock /\ ~next[x].joined
  <2>1. CASE x \in N
    <3>1. servers[c][x].gen + 1 \in Nat /\ servers[c][x].gen + 1 <= MaxConns[c]
      BY <1>3, <1>5, <2>1, Constants
    <3>2. next[x] = Opened(servers[c][x].gen + 1)
      BY <1>7, <2>1
    <3>3. x \notin E \cup over
      BY <1>3, <1>6, <2>1
    <3>4. QED
      BY <2>1, <3>1, <3>2, <3>3, OpenedIs
  <2>2. CASE x \in E \cup over
    <3>1. next[x] = [Closed EXCEPT !.gen = servers[c][x].gen]
      BY <1>7, <2>2
    <3>2. x \notin N
      BY <1>3, <1>6, <2>2
    <3>3. servers[c][x].gen \in Nat /\ servers[c][x].gen <= MaxConns[c]
      BY <1>5
    <3>4. QED
      BY <3>1, <3>2, <3>3, ReleasedIs
  <2>3. CASE x \notin N /\ x \notin E \cup over
    BY <1>5, <1>7, <2>3
  <2>4. QED
    BY <2>1, <2>2, <2>3
<1>12. next \in [Sessions -> ServerContext]
  <2>1. next = [x \in Sessions |-> next[x]]
    BY DEF next
  <2>2. QED
    BY <1>11, <2>1
<1>13. \A x \in Sessions : said(x) \in Seq(ToServer)
  <2>1. TAKE x \in Sessions
  <2>2. /\ "handshake" \in ToServer /\ "queryserverattrs" \in ToServer
        /\ "clientattr" \in ToServer
    BY DEF ToServer
  <2>3. /\ <<"handshake", "queryserverattrs">> \in Seq(ToServer) /\ <<>> \in Seq(ToServer)
        /\ <<"clientattr">> \in Seq(ToServer)
    BY <2>2
  <2>4. QED
    BY <2>3, GoodbyeIs DEF said
<1>14. ASSUME NEW k \in Conns
       PROVE  /\ mine(k) => k[1] = c
              /\ mine(k) /\ k[2] \notin N => k = Conn(c, k[2]) /\ k[2] \in Known(c)
              /\ \A x \in Known(c) : k = Conn(c, x) => mine(k) /\ k[2] = x
              /\ mine(k) /\ k[2] \in N => k[3] = servers[c][k[2]].gen + 1
              /\ k \in made <=> mine(k) /\ k[2] \in N
  <2>1. /\ k[1] \in Clients /\ k[2] \in Sessions /\ k = <<k[1], k[2], k[3]>>
    BY ConnParts
  <2>2. mine(k) /\ k[2] \notin N => k = Conn(c, k[2]) /\ k[2] \in Known(c)
    BY <1>2, <1>11, <2>1, ConnIs
  <2>3. \A x \in Known(c) : k = Conn(c, x) => mine(k) /\ k[2] = x
    <3>1. TAKE x \in Known(c)
    <3>2. x \in Sessions /\ x \notin N
      BY <1>3
    <3>3. k = Conn(c, x) => k[1] = c /\ k[2] = x /\ k[3] = servers[c][x].gen
      BY <1>2, <3>2, ConnIs
    <3>4. QED
      BY <1>11, <3>2, <3>3
  <2>4. mine(k) /\ k[2] \in N => k[3] = servers[c][k[2]].gen + 1
    BY <1>11, <2>1
  <2>5. k \in made => mine(k) /\ k[2] \in N
    OBVIOUS
  <2>6. mine(k) /\ k[2] \in N => k \in made
    BY <2>1
  <2>7. QED
    BY <2>2, <2>3, <2>4, <2>5, <2>6
<1>15. u \in [Conns -> Seq(ToServer)] /\ \A k \in Conns : ~mine(k) => u[k] = up[k]
  <2>1. up \in [Conns -> Seq(ToServer)]
    BY <1>2 DEF TypeOK
  <2>2. ASSUME NEW k \in Conns
        PROVE  up[k] \o said(k[2]) \in Seq(ToServer)
    <3>1. said(k[2]) \in Seq(ToServer) /\ up[k] \in Seq(ToServer)
      BY <1>13, <2>1, ConnParts
    <3>2. QED
      BY <3>1
  <2>3. QED
    BY <2>1, <2>2
<1>16. /\ up' \in [Conns -> Seq(ToServer)]
       /\ \A k \in Conns : /\ up'[k] = IF Serving(k[2]) THEN u[k] ELSE <<>>
                           /\ u[k] = up[k] => up'[k] = up[k]
  BY <1>1, <1>15, DeliverIs
<1>17. ASSUME NEW k \in Conns
       PROVE  /\ ~mine(k) => up'[k] = up[k]
              /\ mine(k) => up'[k] = IF Serving(k[2]) THEN up[k] \o said(k[2]) ELSE <<>>
  BY <1>15, <1>16
<1> HIDE DEF u
<1>18. ASSUME NEW k \in Conns
       PROVE  /\ end'[k] = IF k \in made THEN "open" ELSE IF k \in shut THEN "shut" ELSE end[k]
              /\ down'[k] = IF k \in shut \/ (mine(k) /\ k[2] \in R) THEN <<>> ELSE down[k]
  BY <1>1
<1>19. \A x \in N : <<c, x, next[x].gen>> \in Conns
  <2>1. TAKE x \in N
  <2>2. x \in Sessions /\ servers[c][x].gen \in Nat /\ MaxConns[c] \in Nat
    BY <1>3, <1>5, Constants
  <2>3. next[x].gen \in 1 .. MaxConns[c]
    BY <1>11, <2>2
  <2>4. QED
    BY <2>2, <2>3, ConnParts
<1>20. TypeOK'
  <2>1. joinRef' \in [Clients -> Sessions \cup {None}]
    BY <1>1, <1>2 DEF TypeOK
  <2>2. attrsDirty' \in [Clients -> BOOLEAN]
    BY <1>1, <1>2 DEF TypeOK
  <2>3. game' \in [Clients -> Sessions \cup {None}]
    <3> DEFINE P(x) == Has(Conn(c, x), "start")
    <3>1. (\E x \in R : P(x)) => (CHOOSE x \in R : P(x)) \in R
      OBVIOUS
    <3>2. R \subseteq Sessions
      BY <1>3
    <3> DEFINE g == IF \E x \in R : P(x) THEN CHOOSE x \in R : P(x) ELSE game[c]
    <3>3. g \in Sessions \cup {None}
      BY <1>2, <3>1, <3>2 DEF TypeOK
    <3>4. game' = [game EXCEPT ![c] = g]
      BY <1>1
    <3> HIDE DEF g
    <3>5. QED
      BY <1>2, <3>3, <3>4 DEF TypeOK
  <2>4. minis' \in [Sessions -> Seq(Conns)]
    <3>1. ASSUME NEW x \in Sessions
          PROVE  minis'[x] \in Seq(Conns)
      <4>1. minis[x] \in Seq(Conns)
        BY <1>2 DEF TypeOK
      <4>2. CASE x \in N
        <5>1. minis'[x] = Append(minis[x], <<c, x, next[x].gen>>)
          BY <1>1, <4>2
        <5>2. <<c, x, next[x].gen>> \in Conns
          BY <1>19, <4>2
        <5>3. QED
          BY ONLY <4>1, <5>1, <5>2
      <4>3. CASE x \notin N
        BY <1>1, <4>1, <4>3
      <4>4. QED
        BY <4>2, <4>3
    <3>2. QED
      BY <1>1, <3>1
  <2>5. end' \in [Conns -> {"none", "open", "shut"}] /\ down' \in [Conns -> Seq(ClientMsg)]
    <3>1. ASSUME NEW k \in Conns
          PROVE  end'[k] \in {"none", "open", "shut"} /\ down'[k] \in Seq(ClientMsg)
      <4>1. end[k] \in {"none", "open", "shut"} /\ down[k] \in Seq(ClientMsg)
        BY <1>2 DEF TypeOK
      <4>2. <<>> \in Seq(ClientMsg)
        OBVIOUS
      <4>3. QED
        BY <1>18, <4>1, <4>2
    <3>2. QED
      BY <1>1, <3>1
  <2>6. used' \in 0..MaxUserActions
    <3>1. E \subseteq Sessions
      BY <1>3
    <3>2. Cardinality(E) \in Nat
      BY <3>1, FS_Subset, FS_CardinalityType, Constants
    <3>3. used + Cardinality(E) <= MaxUserActions
      BY DEF ClientTrigger
    <3>4. QED
      BY <1>1, <1>2, <3>2, <3>3, Constants DEF TypeOK
  <2>7. client' \in [Clients -> {"open", "closed", "aborted"}]
    BY <1>1, <1>2 DEF TypeOK
  <2>8. UNCHANGED <<state, ctxs, max, num, dirty, ousted, roster, linked>>
    BY <1>1 DEF server
  <2>9. QED
    BY <1>1, <1>2, <1>11, <1>12, <1>16, <2>1, <2>2, <2>3, <2>4, <2>5, <2>6, <2>7, <2>8, TypesKept
<1>21. Beside(c)
  <2>1. /\ UNCHANGED <<state, ctxs, num, dirty, ousted, roster, linked>>
        /\ \A b \in Clients : b # c => servers'[b] = servers[b] /\ game'[b] = game[b]
    BY <1>1, <1>2 DEF server, TypeOK
  <2>2. ASSUME NEW k \in Conns, k[1] # c
        PROVE  /\ up'[k] = up[k] /\ down'[k] = down[k] /\ end'[k] = end[k]
               /\ Contains(minis'[k[2]], k) <=> Contains(minis[k[2]], k)
    <3>1. ~mine(k) /\ k \notin made /\ k \notin shut
      BY <1>8, <1>14, <2>2
    <3>2. up'[k] = up[k] /\ down'[k] = down[k] /\ end'[k] = end[k]
      BY <1>17, <1>18, <3>1
    <3>3. k[2] \in Sessions
      BY ConnParts
    <3>4. CASE k[2] \in N
      <4> DEFINE e == <<c, k[2], next[k[2]].gen>>
                 q == minis[k[2]]
      <4>1. e \in Conns /\ e # k /\ q \in Seq(Conns) /\ minis'[k[2]] = Append(q, e)
        <5>1. e \in Conns
          BY <1>19, <3>4
        <5>2. e[1] = c
          OBVIOUS
        <5>3. q \in Seq(Conns)
          BY <1>2, <3>3 DEF TypeOK
        <5>4. minis'[k[2]] = Append(q, e)
          BY <1>1, <3>3, <3>4
        <5>5. QED
          BY <2>2, <5>1, <5>2, <5>3, <5>4
      <4> HIDE DEF e, q
      <4>2. \A j : Contains(Append(q, e), j) <=> Contains(q, j) \/ j = e
        BY ONLY <4>1, AppendedElement
      <4>3. QED
        BY <3>2, <4>1, <4>2 DEF q
    <3>5. CASE k[2] \notin N
      BY <1>1, <3>2, <3>3, <3>5
    <3>6. QED
      BY <3>4, <3>5
  <2>3. QED
    BY <2>1, <2>2 DEF Beside
<1>22. ASSUME NEW x \in Sessions, game'[c] = x
       PROVE  InGame(c, x)
  <2>1. Begun(c, x)
    BY OwnBefore DEF Own
  <2>2. CASE \E y \in R : Has(Conn(c, y), "start")
    <3> DEFINE P(y) == Has(Conn(c, y), "start")
               z == CHOOSE y \in R : P(y)
    <3>1. z \in R /\ P(z)
      BY <2>2
    <3>2. game'[c] = z
      BY <1>1, <1>2, <2>2 DEF TypeOK
    <3> HIDE DEF z
    <3>3. z = x /\ servers[c][x].open
      BY <1>3, <1>22, <3>1, <3>2
    <3>4. Conn(c, x) \in Conns /\ Conn(c, x)[1] = c /\ Conn(c, x)[2] = x
      BY <1>2, <3>3, ConnIs
    <3>5. down[Conn(c, x)] \in Seq(ClientMsg)
      BY <1>2, <3>4 DEF TypeOK
    <3>6. HasType(down[Conn(c, x)], {"start"})
      BY <3>1, <3>3, <3>5 DEF Has, HasType
    <3>7. QED
      BY <2>1, <3>4, <3>6 DEF Begun
  <2>3. CASE ~\E y \in R : Has(Conn(c, y), "start")
    <3>1. game'[c] = game[c]
      BY <1>1, <1>2, <2>3 DEF TypeOK
    <3>2. QED
      BY <1>22, <2>1, <3>1 DEF Begun
  <2>4. QED
    BY <2>2, <2>3
<1>23. servers'[c] = next
  BY <1>1, <1>2 DEF TypeOK
<1>24. ASSUME NEW x \in N
       PROVE  Own(c, x)'
  <2> DEFINE h == <<c, x, servers[c][x].gen + 1>>
  <2>1. /\ x \in Sessions /\ Serving(x) /\ ~servers[c][x].open
        /\ servers[c][x].gen < MaxConns[c] /\ x \notin R /\ servers[c][x].gen \in Nat
    BY <1>3, <1>5
  <2>2. servers'[c][x] = Opened(servers[c][x].gen + 1) /\ next[x].gen = servers[c][x].gen + 1
    BY <1>7, <1>11, <1>23, <2>1
  <2>3. h \in Conns /\ h[1] = c /\ h[2] = x /\ h[3] = servers[c][x].gen + 1
    BY <1>19, <2>2
  <2>4. minis'[x] = Append(minis[x], h)
    BY <1>1, <2>1, <2>2
  <2>5. mine(h) /\ h \in made
    BY <1>14, <2>2, <2>3
  <2>6. h \notin shut
    BY <1>8, <1>11, <2>1, <2>3
  <2>7. Wired(h, servers[c][x], end[h], up[h], down[h], h \in linked, Contains(minis[x], h))
    BY <2>1, <2>3, OwnBefore DEF Own
  <2>8. up[h] = <<>> /\ down[h] = <<>>
    BY <2>1, <2>3, <2>7 DEF Wired
  <2>9. end'[h] = "open" /\ down'[h] = <<>>
    BY <1>18, <2>3, <2>5, <2>6, <2>8
  <2>10. up'[h] = <<"handshake", "queryserverattrs">>
    <3>1. said(x) = <<"handshake", "queryserverattrs">>
      BY DEF said
    <3>2. up'[h] = up[h] \o said(h[2])
      BY <1>17, <2>1, <2>3, <2>5
    <3>3. up'[h] = <<>> \o <<"handshake", "queryserverattrs">>
      BY <2>3, <2>8, <3>1, <3>2
    <3>4. QED
      BY <3>3
  <2>11. ASSUME NEW k \in Conns, k[1] = c, k[2] = x, k # h
         PROVE  end'[k] = end[k] /\ down'[k] = down[k] /\ up'[k] = up[k]
    <3>1. ~mine(k)
      BY <1>14, <2>3, <2>11, ConnParts
    <3>2. k \notin made /\ k \notin shut
      BY <1>8, <1>14, <3>1
    <3>3. QED
      BY <1>17, <1>18, <3>1, <3>2
  <2>12. game'[c] = x => InGame(c, x)
    BY <1>22, <2>1
  <2>13. h = <<c, x, servers[c][x].gen + 1>>
    OBVIOUS
  <2> HIDE DEF h, made, mine
  <2>14. QED
    BY <1>20, <1>21, <2>1, <2>2, <2>4, <2>9, <2>10, <2>11, <2>12, <2>13, OwnOpens
<1>25. ASSUME NEW x \in Sessions, x \notin N, x \in E \cup over \/ x \notin Known(c)
       PROVE  Own(c, x)'
  <2>1. /\ ~next[x].open /\ ~next[x].sock /\ ~next[x].joined
        /\ next[x].gen = servers[c][x].gen
    <3>1. CASE x \in E \cup over
      BY <1>11, <1>25, <3>1
    <3>2. CASE x \notin Known(c)
      <4>1. ~servers[c][x].open /\ x \notin E \cup over /\ x \notin R
        BY <1>3, <1>6, <3>2 DEF Known
      <4>2. next[x] = servers[c][x]
        BY <1>7, <1>9, <1>25, <4>1
      <4>3. Held(c, x)
        BY OwnBefore DEF Own
      <4>4. QED
        BY <4>1, <4>2, <4>3 DEF Held
    <3>3. QED
      BY <1>25, <3>1, <3>2
  <2>2. ASSUME NEW k \in Conns, k[1] = c, k[2] = x
        PROVE  /\ end'[k] # "open" /\ (end'[k] = "none" <=> end[k] = "none")
               /\ down'[k] = <<>> \/ down'[k] = down[k]
               /\ up'[k] # <<>> => Contains(minis[x], k)
    <3>1. Wired(k, servers[c][x], end[k], up[k], down[k], k \in linked, Contains(minis[x], k))
      BY <2>2, OwnBefore DEF Own
    <3>2. k \notin made
      BY <1>14, <1>25, <2>2
    <3>3. end[k] = "open" => k \in shut
      <4>1. SUFFICES ASSUME end[k] = "open"
                     PROVE  k \in shut
        OBVIOUS
      <4>2. servers[c][x].open /\ k[3] = servers[c][x].gen
        BY <3>1, <4>1 DEF Wired
      <4>3. x \in Known(c)
        BY <4>2 DEF Known
      <4>4. k = Conn(c, x)
        BY <1>2, <2>2, <4>2, ConnIs
      <4>5. mine(k)
        BY <1>14, <4>3, <4>4
      <4>6. QED
        BY <1>8, <2>1, <2>2, <4>1, <4>5
    <3>4. k \in shut => end[k] = "open"
      BY <1>8
    <3>5. end'[k] # "open" /\ (end'[k] = "none" <=> end[k] = "none")
      BY <1>18, <3>2, <3>3, <3>4
    <3>6. down'[k] = <<>> \/ down'[k] = down[k]
      BY <1>18
    <3>7. up'[k] # <<>> => Contains(minis[x], k)
      <4>1. CASE ~mine(k)
        BY <1>17, <2>2, <4>1, UpServed
      <4>2. CASE mine(k)
        <5>1. k = Conn(c, x) /\ x \in Known(c)
          BY <1>14, <1>25, <2>2, <4>2
        <5>2. Serving(x) => Contains(minis[x], k)
          BY <1>3, <5>1, OwnBefore DEF Own, Held, Connected
        <5>3. QED
          BY <1>17, <2>2, <4>2, <5>2
      <4>3. QED
        BY <4>1, <4>2
    <3>8. QED
      BY <3>5, <3>6, <3>7
  <2>3. minis'[x] = minis[x] /\ (game'[c] = x => InGame(c, x))
    BY <1>1, <1>22, <1>25
  <2>4. /\ ~servers'[c][x].open /\ ~servers'[c][x].sock /\ ~servers'[c][x].joined
        /\ servers'[c][x].gen = servers[c][x].gen
    BY <1>23, <2>1
  <2> HIDE DEF made, mine
  <2>5. QED
    BY <1>20, <1>21, <2>2, <2>3, <2>4, OwnCloses
<1>26. ASSUME NEW x \in Known(c), x \notin E \cup over
       PROVE  Own(c, x)'
  <2> DEFINE k == Conn(c, x)
             w == said(x)
             rd == x \in R
  <2>1. /\ x \in Sessions /\ servers[c][x].open /\ x \notin N /\ servers[c][x].sock
    BY <1>3, <1>4, <1>26
  <2>2. k \in Conns /\ k[1] = c /\ k[2] = x
    BY <1>2, <2>1, ConnIs
  <2>3. next[x] = read[x]
    BY <1>7, <1>26, <2>1
  <2>4. mine(k) /\ k \notin made
    BY <1>14, <1>26, <2>1, <2>2
  <2>5. Held(c, x)
    BY <2>1, OwnBefore DEF Own
  <2>6. end[k] = "open"
    BY <2>1, <2>5 DEF Held
  <2>7. k \in shut <=> ~next[x].sock
    BY <1>8, <2>2, <2>4, <2>6
  <2>8. w \in {<<>>, <<"clientattr">>}
    BY <1>26, <2>1 DEF said
  <2>9. servers'[c][x] = IF rd THEN Read(c, x) ELSE servers[c][x]
    BY <1>9, <1>23, <2>1, <2>3
  <2>10. rd => ~Over(c, x)
    BY <1>10, <1>26
  <2>11. up'[k] = IF Serving(x) THEN up[k] \o w ELSE <<>>
    BY <1>17, <2>2, <2>4
  <2>12. down'[k] = IF rd THEN <<>> ELSE down[k]
    <3>1. ~rd => k \notin shut
      <4>1. ~rd => next[x] = servers[c][x]
        BY <1>9, <2>1, <2>3
      <4>2. QED
        BY <2>1, <2>7, <4>1
    <3>2. down'[k] = IF k \in shut \/ (mine(k) /\ k[2] \in R) THEN <<>> ELSE down[k]
      BY <1>18, <2>2
    <3>3. QED
      BY <2>2, <2>4, <3>1, <3>2
  <2>13. end'[k] = IF servers'[c][x].sock THEN end[k] ELSE "shut"
    BY <1>18, <1>23, <2>2, <2>4, <2>7
  <2>14. ASSUME NEW j \in Conns, j[1] = c /\ j[2] = x /\ j # k
         PROVE  end'[j] = end[j] /\ down'[j] = down[j] /\ up'[j] = up[j]
    <3>1. ~mine(j)
      BY <1>14, <2>1, <2>14
    <3>2. j \notin made /\ j \notin shut
      BY <1>8, <1>14, <3>1
    <3>3. QED
      BY <1>17, <1>18, <3>1, <3>2
  <2>15. minis'[x] = minis[x] /\ (game'[c] = x => InGame(c, x))
    BY <1>1, <1>22, <2>1
  <2> HIDE DEF w, rd, made, mine
  <2>16. Frames(c, x, rd, w)
    BY <2>1, <2>8, <2>9, <2>10, <2>11, <2>12, <2>13, <2>14 DEF Frames
  <2>17. rd \in BOOLEAN
    BY DEF rd
  <2>18. QED
    BY <1>20, <1>21, <2>1, <2>15, <2>16, <2>17, FramesKeeps
<1>27. \A x \in Sessions : Own(c, x)'
  BY <1>24, <1>25, <1>26
<1> HIDE DEF made, mine
<1>28. QED
  BY <1>20, <1>21, <1>27, ClientKeeps

LEMMA ClientStepKeeps ==
    ASSUME IInv, NEW c \in Clients, ClientStep(c)
    PROVE  IInv'
<1>1. CASE \E N \in SUBSET Heard(c), E \in SUBSET Known(c) :
              \E R \in SUBSET (Waiting(c) \ E) : ClientTrigger(c, N, E, R)
  BY <1>1, FrameKeeps
<1>2. CASE \E R \in SUBSET Waiting(c) : TriggerAborts(c, R)
  <2>1. Dies(c) /\ used' = used
    BY <1>2 DEF TriggerAborts
  <2>2. used' \in 0..MaxUserActions
    BY <2>1 DEF IInv, TypeOK
  <2>3. QED
    BY <2>1, <2>2, DiesKeeps
<1>3. QED
  BY <1>1, <1>2 DEF ClientStep

-----------------------------------------------------------------------------
(* The invariant is inductive, and the theorems.                           *)
LEMMA NextInv == IInv /\ [Next]_vars => IInv'
<1> SUFFICES ASSUME IInv, [Next]_vars
             PROVE  IInv'
  OBVIOUS
<1>1. CASE \E x \in Sessions : Host(x)
  BY <1>1, HostStepKeeps
<1>2. CASE \E c \in Clients : User(c) \/ ClientStep(c)
  BY <1>2, UserKeeps, ClientStepKeeps
<1>3. CASE UNCHANGED vars
  <2>1. ASSUME NEW x \in Sessions
        PROVE  SessionInv(x)'
    <3>1. SessionInv(x) /\ down \in [Conns -> Seq(ClientMsg)]
      BY DEF IInv, TypeOK
    <3>2. QED
      BY <1>3, <3>1, Untouched DEF vars, server, peer, wire
  <2>2. TypeOK'
    BY <1>3 DEF IInv, TypeOK, vars, server, peer, wire
  <2>3. QED
    BY <2>1, <2>2 DEF IInv
<1>4. QED
  BY <1>1, <1>2, <1>3 DEF Next

LEMMA Invariance == Spec => []IInv
<1>1. Init => IInv
  BY InitInv
<1>2. IInv /\ [Next]_vars => IInv'
  BY NextInv
<1>3. QED
  BY <1>1, <1>2, PTL DEF Spec

(* The types of the state; the number of players that a session announces  *)
(* stays within what SetMaxNumClients allowed at most.                     *)
THEOREM TypeCorrect == Spec => []TypeOK
<1>1. IInv => TypeOK
  BY DEF IInv
<1>2. QED
  BY <1>1, Invariance, PTL

(* What the invariant says of a client and a host that serves it.          *)
LEMMA QuietEnds ==
    ASSUME IInv, NEW c \in Clients, NEW x \in Sessions, servers[c][x].open, Serving(x)
    PROVE  /\ Conn(c, x) \in Conns /\ down[Conn(c, x)] \in Seq(ClientMsg)
           /\ Meets(c, x) /\ num[x] = Len(ctxs[x]) /\ Seated(x)
           /\ \A T : HasType(down[Conn(c, x)], T) <=>
                        \E i \in 1 .. Len(down[Conn(c, x)]) : down[Conn(c, x)][i].type \in T
           /\ down[Conn(c, x)] = <<>> =>
                 /\ JoinedAfter(servers[c][x], down[Conn(c, x)]) = servers[c][x].joined
                 /\ ViewAfter(servers[c][x], down[Conn(c, x)]) = servers[c][x].view
<1> DEFINE d == down[Conn(c, x)]
           r == servers[c][x]
<1>1. Conn(c, x) \in Conns
  BY IInvTyped, ConnIs
<1>2. d \in Seq(ClientMsg)
  BY <1>1 DEF IInv, TypeOK
<1>3. Meets(c, x) /\ num[x] = Len(ctxs[x]) /\ Seated(x)
  BY DEF IInv, SessionInv, Agreeing
<1> HIDE DEF d, r
<1>4. \A T : HasType(d, T) <=> \E i \in 1 .. Len(d) : d[i].type \in T
  BY <1>2 DEF HasType
<1>5. ASSUME d = <<>>
      PROVE  JoinedAfter(r, d) = r.joined /\ ViewAfter(r, d) = r.view
  <2>1. ASSUME NEW T
        PROVE  Latest(d, T) = 0
    <3>1. Latest(d, T) \in 0 .. Len(d) /\ Len(d) = 0
      BY <1>2, <1>5, LatestIs
    <3>2. QED
      BY <3>1
  <2>2. QED
    BY <2>1 DEF JoinedAfter, ViewAfter
<1>6. QED
  BY <1>1, <1>2, <1>3, <1>4, <1>5 DEF d, r

(* A context of the client is one of its last connection if that is its    *)
(* first.                                                                  *)
LEMMA ContextIsCounted ==
    ASSUME IInv, NEW c \in Clients, NEW x \in Sessions
    PROVE  /\ At(ctxs[x], Conn(c, x)) # {} => Counted(c, x)
           /\ /\ Counted(c, x) /\ servers[c][x].open /\ servers[c][x].gen = 1 /\ Serving(x)
              => At(ctxs[x], Conn(c, x)) # {}
<1>1. ctxs[x] \in Seq(Context)
  BY DEF IInv, TypeOK
<1>2. \A i \in DOMAIN ctxs[x] : ctxs[x][i].conn \in Conns
  <2>1. TAKE i \in DOMAIN ctxs[x]
  <2>2. ctxs[x][i] \in Context
    BY <1>1
  <2>3. QED
    BY <2>2 DEF Context
<1>3. Counted(c, x) <=> \E i \in DOMAIN ctxs[x] : ctxs[x][i].conn[1] = c
  BY <1>1 DEF Counted, ToSet, GuidOf
<1>4. Conn(c, x)[1] = c
  BY IInvTyped, ConnIs
<1>5. At(ctxs[x], Conn(c, x)) # {} => Counted(c, x)
  BY <1>3, <1>4 DEF At
<1>6. ASSUME Counted(c, x), servers[c][x].open, servers[c][x].gen = 1, Serving(x)
      PROVE  At(ctxs[x], Conn(c, x)) # {}
  <2>1. PICK i \in DOMAIN ctxs[x] : ctxs[x][i].conn[1] = c
    BY <1>3, <1>6
  <2> DEFINE k == ctxs[x][i].conn
  <2>2. k \in Conns /\ k[1] = c
    BY <1>2, <2>1
  <2>3. k[2] = x /\ k[3] <= servers[k[1]][x].gen
    BY <1>6, QuietEnds DEF Seated
  <2> HIDE DEF k
  <2>4. k[3] \in Nat /\ k[3] >= 1
    BY <2>2, ConnParts, Constants
  <2>5. k[3] = servers[c][x].gen
    BY <1>6, <2>2, <2>3, <2>4
  <2>6. k = Conn(c, x)
    BY <2>2, <2>3, <2>5, IInvTyped, ConnIs
  <2>7. QED
    BY <2>6 DEF At, k
<1>7. QED
  BY <1>5, <1>6

(* The two sides agree: nSessionServer's contexts and isJoined of the      *)
(* nSessionServerContext, once nothing is under way on the only connection *)
(* that a client who waits for answers has made.                           *)
THEOREM SidesStayAgreed == Spec => []SidesAgree
<1>1. IInv => SidesAgree
  <2>1. SUFFICES ASSUME IInv, NEW c \in Clients \ Hasty, NEW x \in Sessions,
                        servers[c][x].open, servers[c][x].gen = 1, Serving(x),
                        Quiet(Conn(c, x))
                 PROVE  servers[c][x].joined <=> Counted(c, x)
    BY DEF SidesAgree
  <2> DEFINE k == Conn(c, x)
             r == servers[c][x]
  <2>2. up[k] = <<>> /\ down[k] = <<>>
    BY <2>1 DEF Quiet
  <2>3. /\ Side(k, r, ctxs[x], ousted[x], up[k], down[k])
        /\ JoinedAfter(r, down[k]) = r.joined
    BY <2>1, <2>2, QuietEnds DEF Meets
  <2>4. ~Entering(up[k]) /\ ~Leaving(up[k])
    BY <2>2 DEF Entering, Leaving, Contains
  <2>5. k \notin ousted[x]
    <3>1. \A j \in ousted[x] : j[3] > 1
      BY <2>1 DEF IInv, TypeOK
    <3>2. k[3] = 1
      BY <2>1, IInvTyped, ConnIs
    <3>3. QED
      BY <3>1, <3>2
  <2>6. r.joined <=> At(ctxs[x], k) # {}
    BY <2>1, <2>3, <2>4, <2>5 DEF Side
  <2>7. QED
    BY <2>1, <2>6, ContextIsCounted
<1>2. QED
  BY <1>1, Invariance, PTL

(* A place for everyone who is joined: the client that believes itself     *)
(* joined has a context at the host, or its kick is under way, or the      *)
(* leave message of an older connection has released its context.          *)
THEOREM JoinedStaysCounted == Spec => []JoinedIsCounted
<1>1. IInv => JoinedIsCounted
  <2>1. SUFFICES ASSUME IInv, NEW c \in Clients \ Hasty, NEW x \in Sessions,
                        servers[c][x].open, servers[c][x].joined, Serving(x),
                        ~Has(Conn(c, x), "kick")
                 PROVE  Counted(c, x) \/ Conn(c, x) \in ousted[x]
    BY DEF JoinedIsCounted
  <2> DEFINE k == Conn(c, x)
             r == servers[c][x]
             d == down[k]
  <2>2. /\ Side(k, r, ctxs[x], ousted[x], up[k], d) /\ d \in Seq(ClientMsg)
        /\ \A T : HasType(d, T) <=> \E i \in 1 .. Len(d) : d[i].type \in T
    BY <2>1, QuietEnds DEF Meets
  <2>3. ~HasType(d, {"joinaccepted", "joindenied"}) /\ ~Entering(up[k]) /\ ~Leaving(up[k])
    BY <2>1, <2>2 DEF Side
  <2>4. ~HasType(d, Answers)
    BY <2>1, <2>2, <2>3 DEF Has, Answers
  <2>5. JoinedAfter(r, d)
    BY <2>1, <2>2, <2>4, NoAnswers
  <2>6. At(ctxs[x], k) # {} \/ k \in ousted[x]
    BY <2>2, <2>3, <2>5 DEF Side
  <2>7. QED
    BY <2>1, <2>6, ContextIsCounted
<1>2. QED
  BY <1>1, Invariance, PTL

(* What a client shows of a session is up to date once the host has        *)
(* nothing to publish and nothing is under way between them.               *)
THEOREM AttributesConverge == Spec => []AttrsConverge
<1>1. IInv => AttrsConverge
  <2>1. SUFFICES ASSUME IInv, NEW c \in Clients, NEW x \in Sessions,
                        servers[c][x].open, Serving(x), ~dirty[x], Quiet(Conn(c, x))
                 PROVE  servers[c][x].view = Len(ctxs[x])
    BY DEF AttrsConverge
  <2> DEFINE k == Conn(c, x)
  <2>2. up[k] = <<>> /\ down[k] = <<>>
    BY <2>1 DEF Quiet
  <2>3. ~Contains(up[k], "queryserverattrs")
    BY <2>2 DEF Contains
  <2>4. /\ dirty[x] \/ Contains(up[k], "queryserverattrs")
                    \/ ViewAfter(servers[c][x], down[k]) = num[x]
        /\ num[x] = Len(ctxs[x])
        /\ ViewAfter(servers[c][x], down[k]) = servers[c][x].view
    BY <2>1, <2>2, QuietEnds DEF Meets
  <2>5. QED
    BY <2>1, <2>3, <2>4
<1>2. QED
  BY <1>1, Invariance, PTL

(* Whom the started game lets in and who is told to open it are the same:  *)
(* no client opens its nNetClient for a game that does not expect it, and  *)
(* none that is expected, and still connected as it was, misses its start. *)
THEOREM StartIsAgreed == Spec => []StartAgreed
<1>1. ASSUME IInv
      PROVE  StartedIsExpected
  <2>1. ASSUME NEW c \in Clients, game[c] # None, state[game[c]] = "started"
        PROVE  Contains(roster[game[c]], c)
    <3>1. game[c] \in Sessions
      BY <1>1, <2>1 DEF IInv, TypeOK
    <3>2. InGame(c, game[c])
      BY <1>1, <3>1 DEF IInv, SessionInv, Starting
    <3>3. QED
      BY <2>1, <3>2 DEF InGame
  <2>2. QED
    BY <2>1 DEF StartedIsExpected
<1>2. ASSUME IInv
      PROVE  StartIsDelivered
  <2>1. SUFFICES ASSUME NEW c \in Clients, NEW x \in Sessions, state[x] = "started",
                        Contains(roster[x], c), servers[c][x].open, servers[c][x].gen = 1
                 PROVE  Has(Conn(c, x), "start")
    BY DEF StartIsDelivered
  <2>2. HasType(down[Conn(c, x)], {"start"})
    BY <1>2, <2>1 DEF IInv, SessionInv, Starting
  <2>3. Serving(x)
    BY <2>1 DEF Serving
  <2>4. \E i \in 1 .. Len(down[Conn(c, x)]) : down[Conn(c, x)][i].type \in {"start"}
    BY <1>2, <2>1, <2>2, <2>3, QuietEnds
  <2>5. QED
    BY <2>4 DEF Has
<1>3. IInv => StartAgreed
  BY <1>1, <1>2 DEF StartAgreed
<1>4. QED
  BY <1>3, Invariance, PTL
=============================================================================
