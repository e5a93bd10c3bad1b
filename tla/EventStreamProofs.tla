-------------------------- MODULE EventStreamProofs --------------------------
(***************************************************************************)
(* Proofs about EventStream: no event is lost silently between two that a  *)
(* client has, whatever the sizes of the ring and of the queues, as long   *)
(* as a queue is no longer than the ring.                                  *)
(*                                                                         *)
(* What a client has says too little about the frames on their way to it.  *)
(* The inductive invariant describes them: the ring has the youngest cold  *)
(* events (Youngest), a queue ends with the newest event and has no gap    *)
(* (EndsWith), and Following says which cold events behind those that a    *)
(* client has are in the rest of its snapshot, in its queue, or counted as *)
(* lost.  The lemmas of the first section argue about it in sets of ids;   *)
(* those further down apply them to the actions.                           *)
(***************************************************************************)
EXTENDS EventStream, SequenceTheorems, TLAPS

-----------------------------------------------------------------------------
(* What a connection owes, in sets of ids: C the cold events, n the newest   *)
(* event, m the length of the queue (which ends with the newest event), G    *)
(* what the client has got, S what it has got or was told of or was dropped  *)
(* late, L what was dropped and is not told yet, B the rest of the snapshot. *)

Between(C, G, S) == \A k \in C : \A g, h \in G : g < k /\ k < h => k \in S

\* Cold events behind one that the client has or will have are on their way or
\* accounted for; where the queue repeats the snapshot, they come with it; what
\* was dropped although there are older and younger ones comes with it too.
Following(C, n, m, G, S, L, B) ==
    /\ \A k \in C : \A g \in G \cup B : g < k => k \in S \cup L \cup B \/ k > n - m
    /\ \A k \in C : \A h \in G \cup B : k > n - m /\ k < h => k \in S \cup B
    /\ \A k \in C \cap L : \A g, h \in G \cup B : g < k /\ k < h => k \in S \cup B
    /\ \A k \in B : \A h \in G : k < h => k \in S

\* The oldest frame of the queue is delivered.
LEMMA FromQueue ==
  ASSUME NEW C \in SUBSET Nat, NEW n \in Nat, NEW m \in Nat, m >= 1,
         NEW G \in SUBSET Nat, NEW S, NEW L, NEW S2, NEW L2,
         Between(C, G, S), Following(C, n, m, G, S, L, {}),
         S \subseteq S2, n - m + 1 \in S2, L \subseteq S2, L2 \subseteq S2
  PROVE  /\ Between(C, G \cup {n - m + 1}, S2)
         /\ Following(C, n, m - 1, G \cup {n - m + 1}, S2, L2, {})
<1> DEFINE i == n - m + 1
<1>1. i \in Int /\ n - (m - 1) = i
  OBVIOUS
<1>2. \A k \in C : k \in Nat /\ (k < i <=> ~(k > n - m)) /\ (k > i <=> k > n - (m - 1))
  OBVIOUS
<1>3. /\ \A k \in C : \A g \in G : g < k => k \in S2 \/ k > n - m
      /\ \A k \in C : \A h \in G : k > n - m /\ k < h => k \in S2
      /\ \A k \in C : \A g, h \in G : g < k /\ k < h => k \in S2
  BY DEF Between, Following
<1>4. Between(C, G \cup {i}, S2)
  <2> SUFFICES ASSUME NEW k \in C, NEW g \in G \cup {i}, NEW h \in G \cup {i}, g < k, k < h
               PROVE  k \in S2
    BY DEF Between
  <2>1. CASE g \in G /\ h \in G
    BY <1>3, <2>1
  <2>2. CASE g = i /\ h \in G
    BY <1>2, <1>3, <2>2
  <2>3. CASE g \in G /\ h = i
    BY <1>2, <1>3, <2>3
  <2>4. CASE g = i /\ h = i
    BY <1>2, <2>4
  <2> QED BY <2>1, <2>2, <2>3, <2>4
<1>5. \A k \in C : \A g \in G \cup {i} : g < k => k \in S2 \/ k > n - (m - 1)
  <2> SUFFICES ASSUME NEW k \in C, NEW g \in G \cup {i}, g < k, k # i
               PROVE  k \in S2 \/ k > n - (m - 1)
    OBVIOUS
  <2>1. CASE g = i
    BY <1>2, <2>1
  <2>2. CASE g \in G
    BY <1>2, <1>3, <2>2
  <2> QED BY <2>1, <2>2
<1>6. \A k \in C : \A h \in G \cup {i} : k > n - (m - 1) /\ k < h => k \in S2
  BY <1>2, <1>3
<1> QED
  BY <1>4, <1>5, <1>6 DEF Following

\* The oldest frame of the snapshot is delivered.
LEMMA FromBacklog ==
  ASSUME NEW C \in SUBSET Nat, NEW n \in Nat, NEW m \in Nat, NEW B \in SUBSET C,
         NEW G \in SUBSET Nat, NEW S, NEW L, NEW i \in B, \A b \in B : i <= b,
         Between(C, G, S), Following(C, n, m, G, S, L, B)
  PROVE  /\ Between(C, G \cup {i}, S \cup {i})
         /\ Following(C, n, m, G \cup {i}, S \cup {i}, L, B \ {i})
<1>1. /\ \A k \in C : \A g \in G \cup B : g < k => k \in S \cup L \cup B \/ k > n - m
      /\ \A k \in C : \A h \in G \cup B : k > n - m /\ k < h => k \in S \cup B
      /\ \A k \in C \cap L : \A g, h \in G \cup B : g < k /\ k < h => k \in S \cup B
      /\ \A k \in B : \A h \in G : k < h => k \in S
      /\ \A k \in C : \A g, h \in G : g < k /\ k < h => k \in S
  BY DEF Between, Following
<1>2. \* what lies between two of them is accounted for, or still in the snapshot
      ASSUME NEW k \in C, NEW g \in G \cup B, NEW h \in G \cup B, g < k, k < h
      PROVE  k \in S \cup B
  <2>1. k \in S \cup L \cup B \/ k > n - m
    BY <1>1, <1>2
  <2> QED BY <1>1, <1>2, <2>1
<1>3. Between(C, G \cup {i}, S \cup {i})
  <2> SUFFICES ASSUME NEW k \in C, NEW g \in G \cup {i}, NEW h \in G \cup {i}, g < k, k < h, k # i
               PROVE  k \in S
    BY DEF Between
  <2>1. k \in S \cup B
    BY <1>2
  <2>2. CASE k \in B
    <3>1. ~(k < i)
      BY <2>2
    <3>2. h \in G
      BY <3>1
    <3> QED BY <1>1, <2>2, <3>2
  <2> QED BY <2>1, <2>2
<1>4. (G \cup {i}) \cup (B \ {i}) = G \cup B /\ (S \cup {i}) \cup (B \ {i}) = S \cup B
  OBVIOUS
<1>5. \A k \in B \ {i} : \A h \in G \cup {i} : k < h => k \in S \cup {i}
  BY <1>1
<1>6. \A k \in C : \A g \in G \cup B : g < k => k \in (S \cup {i}) \cup L \cup (B \ {i}) \/ k > n - m
  BY <1>1
<1> QED
  BY <1>1, <1>3, <1>4, <1>5, <1>6 DEF Following

\* A new event, behind a queue that is full or not.
LEMMA FromBroadcast ==
  ASSUME NEW n \in Nat, NEW C \in SUBSET (1..n), NEW m \in Nat, NEW B \in SUBSET C,
         NEW G \in SUBSET (1..n), NEW S, NEW L, NEW S2, NEW m2 \in Nat, NEW L2,
         NEW C2, C2 = C \/ C2 = C \cup {n + 1}, S \subseteq S2,
         \/ m2 = m + 1 /\ L2 = L
         \/ m2 = m /\ m >= 1 /\ L2 = L \cup {n - m + 1},
         Between(C, G, S), Following(C, n, m, G, S, L, B)
  PROVE  Between(C2, G, S2) /\ Following(C2, n + 1, m2, G, S2, L2, B)
<1>1. /\ \A k \in C : \A g \in G \cup B : g < k => k \in S \cup L \cup B \/ k > n - m
      /\ \A k \in C : \A h \in G \cup B : k > n - m /\ k < h => k \in S \cup B
      /\ \A k \in C \cap L : \A g, h \in G \cup B : g < k /\ k < h => k \in S \cup B
      /\ \A k \in B : \A h \in G : k < h => k \in S
      /\ \A k \in C : \A g, h \in G : g < k /\ k < h => k \in S
  BY DEF Between, Following
<1>2. \A k \in C2 : (k \in C /\ k \in 1..n) \/ k = n + 1
  OBVIOUS
<1>3. \A h \in G \cup B : h \in 1..n
  OBVIOUS
<1>4. \A k \in C2 : k > n - m => k > (n + 1) - m2 \/ k \in L2
  BY <1>2
<1>5. \A k \in C2 : k > (n + 1) - m2 => k > n - m
  BY <1>2
<1>6. Between(C2, G, S2)
  BY <1>1, <1>2, <1>3 DEF Between
<1>7. \A k \in C2 : \A g \in G \cup B : g < k => k \in S2 \cup L2 \cup B \/ k > (n + 1) - m2
  BY <1>1, <1>2, <1>4
<1>8. \A k \in C2 : \A h \in G \cup B : k > (n + 1) - m2 /\ k < h => k \in S2 \cup B
  BY <1>1, <1>2, <1>3, <1>5
<1>9. \A k \in C2 \cap L2 : \A g, h \in G \cup B : g < k /\ k < h => k \in S2 \cup B
  <2> SUFFICES ASSUME NEW k \in C2 \cap L2, NEW g \in G \cup B, NEW h \in G \cup B, g < k, k < h
               PROVE  k \in S2 \cup B
    OBVIOUS
  <2>1. k \in C
    BY <1>2, <1>3
  <2>2. CASE k \in L
    BY <1>1, <2>1, <2>2
  <2>3. CASE k = n - m + 1
    <3>1. k > n - m
      BY <2>3
    <3> QED BY <1>1, <2>1, <3>1
  <2> QED BY <2>2, <2>3
<1> QED
  BY <1>1, <1>6, <1>7, <1>8, <1>9 DEF Following

Retained(C, n, m, G, L, R, first, since, T, B) ==
    /\ \A r \in R : first <= r
    /\ \A k \in C : k \in R \/ k < first
    /\ \A k \in C : k > n - m => k \in R
    /\ \A h \in G : h <= n - m /\ \A k \in L : h < k
    /\ since > 0 => \A k \in C : since < k /\ k < first => k \in T
    /\ B = {r \in R : r > since}

\* A snapshot: B is what the ring has behind the client's last id, and T what
\* the replay_window_expired frame stands for; what the queue has is younger.
LEMMA FromSnapshot ==
  ASSUME NEW n \in Nat, NEW C \in SUBSET (1..n), NEW m \in Nat,
         NEW G \in SUBSET (1..n), NEW S, NEW L, NEW R \in SUBSET C, NEW since \in Nat, NEW T, NEW B,
         NEW first \in Nat,
         Between(C, G, S), G \subseteq S,
         since \in G \/ (since = 0 /\ G = {}),
         Retained(C, n, m, G, L, R, first, since, T, B)
  PROVE  /\ Between(C, G, S \cup T)
         /\ Following(C, n, m, G, S \cup T, L, B)
<1> USE DEF Retained
<1>1. \A k \in C : \A g, h \in G : g < k /\ k < h => k \in S
  BY DEF Between
<1>2. \A k \in C : \A h \in G : k <= since /\ h < k => k \in S
  BY <1>1
<1>3. Between(C, G, S \cup T)
  BY <1>1 DEF Between
<1>4. ASSUME NEW k \in C, NEW g \in G \cup B, g < k
      PROVE  k \in (S \cup T) \cup B
  <2>1. CASE k \in R
    <3>1. CASE k > since
      BY <2>1, <3>1
    <3>2. CASE ~(k > since)
      <4>1. g \in G
        BY <1>4, <3>2
      <4> QED BY <1>2, <1>4, <3>2, <4>1
    <3> QED BY <3>1, <3>2
  <2>2. CASE k \notin R
    <3>1. k < first
      BY <2>2
    <3>2. g \in G
      BY <1>4, <3>1
    <3>3. since > 0
      BY <3>2
    <3>4. CASE since < k
      BY <3>1, <3>3, <3>4
    <3>5. CASE ~(since < k)
      BY <1>2, <1>4, <3>2, <3>5
    <3> QED BY <3>4, <3>5
  <2> QED BY <2>1, <2>2
<1>5. \A k \in C : k > n - m => k \in B
  OBVIOUS
<1>6. ASSUME NEW k \in B, NEW h \in G, k < h
      PROVE  k \in S
  <2>1. since \in G /\ since < k
    BY <1>6
  <2> QED BY <1>1, <1>6, <2>1
<1> QED
  BY <1>3, <1>4, <1>5, <1>6 DEF Following

-----------------------------------------------------------------------------
(* The ring r of length N: the youngest of the cold events, oldest first; it *)
(* has all of them unless it is full.                                        *)

Youngest(r, N, C, n) ==
    /\ \A j \in 1..N : r[j] \in C /\ r[j] <= n - N + j
    /\ \A j, k \in 1..N : j < k => r[j] < r[k]
    /\ \A k \in C : (\E j \in 1..N : r[j] = k) \/ (N = RingSize /\ k < r[1])

\* A hot event is not retained.
LEMMA RingStays ==
  ASSUME NEW n \in Nat, NEW C \in SUBSET (1..n), NEW N \in Nat, NEW r, Youngest(r, N, C, n)
  PROVE  Youngest(r, N, C, n + 1)
<1>1. \A j \in 1..N : r[j] \in 1..n /\ r[j] <= n - N + j
  BY DEF Youngest
<1>2. \A j \in 1..N : r[j] <= (n + 1) - N + j
  BY <1>1
<1> QED BY <1>2 DEF Youngest

\* A ring that is not full grows.
LEMMA RingGrows ==
  ASSUME NEW n \in Nat, NEW C \in SUBSET (1..n), NEW N \in Nat, N # RingSize, NEW r, NEW r2,
         Youngest(r, N, C, n), \A j \in 1..N : r2[j] = r[j], r2[N + 1] = n + 1
  PROVE  Youngest(r2, N + 1, C \cup {n + 1}, n + 1)
<1>1. /\ \A j \in 1..N : r[j] \in C /\ r[j] \in 1..n /\ r[j] <= n - N + j
      /\ \A j, k \in 1..N : j < k => r[j] < r[k]
      /\ \A k \in C : \E j \in 1..N : r[j] = k
  BY DEF Youngest
<1>2. \A j \in 1..(N + 1) : j \in 1..N \/ j = N + 1
  OBVIOUS
<1>3. \A j \in 1..(N + 1) : r2[j] \in C \cup {n + 1} /\ r2[j] <= (n + 1) - (N + 1) + j
  <2>1. (n + 1) - (N + 1) + (N + 1) = n + 1
    OBVIOUS
  <2>2. \A j \in 1..N : (n + 1) - (N + 1) + j = n - N + j
    OBVIOUS
  <2> QED BY <1>1, <1>2, <2>1, <2>2
<1>4. \A j, k \in 1..(N + 1) : j < k => r2[j] < r2[k]
  <2> SUFFICES ASSUME NEW j \in 1..(N + 1), NEW k \in 1..(N + 1), j < k PROVE r2[j] < r2[k]
    OBVIOUS
  <2>1. j \in 1..N
    OBVIOUS
  <2> QED BY <1>1, <1>2, <2>1
<1>5. \A k \in C \cup {n + 1} : \E j \in 1..(N + 1) : r2[j] = k
  <2>1. N + 1 \in 1..(N + 1) /\ \A j \in 1..N : j \in 1..(N + 1)
    OBVIOUS
  <2> QED BY <1>1, <2>1
<1> QED BY <1>3, <1>4, <1>5 DEF Youngest

\* A full ring loses its oldest event.
LEMMA RingTurns ==
  ASSUME NEW n \in Nat, NEW C \in SUBSET (1..n), NEW N \in Nat, N >= 1, N = RingSize, NEW r, NEW r2,
         Youngest(r, N, C, n), \A j \in 1..(N - 1) : r2[j] = r[j + 1], r2[N] = n + 1
  PROVE  Youngest(r2, N, C \cup {n + 1}, n + 1)
<1>1. /\ \A j \in 1..N : r[j] \in C /\ r[j] \in 1..n /\ r[j] <= n - N + j
      /\ \A j, k \in 1..N : j < k => r[j] < r[k]
      /\ \A k \in C : (\E j \in 1..N : r[j] = k) \/ k < r[1]
  BY DEF Youngest
<1>2. /\ \A j \in 1..N : j \in 1..(N - 1) \/ j = N
      /\ \A j \in 1..(N - 1) : j + 1 \in 1..N
      /\ 1 \in 1..N
  OBVIOUS
<1>3. \A j \in 1..(N - 1) : r2[j] \in C /\ r2[j] \in 1..n /\ r2[j] <= n - N + (j + 1)
  BY <1>1, <1>2
<1>4. \A j \in 1..N : r2[j] \in C \cup {n + 1} /\ r2[j] <= (n + 1) - N + j
  <2>1. (n + 1) - N + N = n + 1 /\ \A j \in 1..(N - 1) : (n + 1) - N + j = n - N + (j + 1)
    OBVIOUS
  <2> QED BY <1>2, <1>3, <2>1
<1>5. \A j, k \in 1..N : j < k => r2[j] < r2[k]
  <2> SUFFICES ASSUME NEW j \in 1..N, NEW k \in 1..N, j < k PROVE r2[j] < r2[k]
    OBVIOUS
  <2>1. j \in 1..(N - 1) /\ j + 1 \in 1..N /\ r2[j] = r[j + 1]
    OBVIOUS
  <2>2. CASE k = N
    BY <1>3, <2>1, <2>2
  <2>3. CASE k # N
    <3>1. k \in 1..(N - 1) /\ k + 1 \in 1..N /\ r2[k] = r[k + 1] /\ j + 1 < k + 1
      BY <2>3
    <3> QED BY <1>1, <2>1, <3>1
  <2> QED BY <2>2, <2>3
<1>6. r[1] <= r2[1]
  <2>1. CASE N = 1
    BY <1>1, <1>2, <2>1
  <2>2. CASE N # 1
    <3>1. 1 \in 1..(N - 1) /\ 2 \in 1..N /\ 1 < 2
      BY <2>2
    <3> QED BY <1>1, <1>2, <3>1
  <2> QED BY <2>1, <2>2
<1>7. r2[1] \in Nat /\ (N = 1 \/ r[1] < r2[1]) /\ (N = 1 => r2[1] = n + 1)
  <2>1. CASE N = 1
    BY <2>1
  <2>2. CASE N # 1
    <3>1. 1 \in 1..(N - 1) /\ 2 \in 1..N /\ 1 < 2
      BY <2>2
    <3> QED BY <1>1, <1>2, <1>3, <2>2, <3>1
  <2> QED BY <2>1, <2>2
<1>8. ASSUME NEW k \in C \cup {n + 1}
      PROVE  (\E j \in 1..N : r2[j] = k) \/ k < r2[1]
  <2>1. CASE k = n + 1
    BY <1>2, <2>1
  <2>2. CASE k \in C /\ k < r[1]
    <3>1. k \in 1..n /\ r[1] \in Nat
      BY <1>1, <1>2, <2>2
    <3> QED BY <1>6, <1>7, <2>2, <3>1
  <2>3. ASSUME NEW j \in 1..N, k = r[j]
        PROVE  (\E i \in 1..N : r2[i] = k) \/ k < r2[1]
    <3>1. CASE j = 1
      <4>1. r[1] \in 1..n
        BY <1>1, <1>2
      <4> QED BY <1>7, <2>3, <3>1, <4>1
    <3>2. CASE j # 1
      <4>1. j - 1 \in 1..(N - 1) /\ j - 1 \in 1..N /\ (j - 1) + 1 = j
        BY <3>2
      <4> QED BY <2>3, <4>1
    <3> QED BY <3>1, <3>2
  <2> QED BY <1>1, <2>1, <2>2, <2>3
<1> QED BY <1>4, <1>5, <1>8 DEF Youngest

-----------------------------------------------------------------------------
(* The inductive invariant *)

ConnStates == {"off", "hello", "replay", "live", "drain"}

RingKept == ring \in Seq(Ids) /\ Len(ring) <= RingSize /\ Youngest(ring, Len(ring), cold, seq)

\* A queue of consecutive events that ends with n; what becomes of it.
EndsWith(q, n) == \A j \in DOMAIN q : q[j] = n - Len(q) + j
Taken(q, i) == Append(IF Len(q) = QueueSize THEN Tail(q) ELSE q, i)

\* The queue has the youngest events, oldest first.
QueueKept(c) ==
    queue[c] \in Seq(Ids) /\ Len(queue[c]) <= QueueSize /\ EndsWith(queue[c], seq)

BacklogIds(c) == {backlog[c][j] : j \in DOMAIN backlog[c]}

BacklogKept(c) ==
    /\ backlog[c] \in Seq(Ids) /\ BacklogIds(c) \subseteq cold
    /\ \A j, k \in DOMAIN backlog[c] : j < k => backlog[c][j] < backlog[c][k]
    /\ conn[c] = "replay" <=> backlog[c] # <<>>

Accounted(c) == got[c] \cup told[c] \cup late[c]

ClientTyped(c) ==
    /\ conn[c] \in ConnStates /\ dropped[c] \in Nat
    /\ got[c] \subseteq 1..seq /\ lost[c] \subseteq Ids /\ told[c] \subseteq Ids /\ late[c] \subseteq Ids
    /\ lastId[c] \in got[c] \/ (lastId[c] = 0 /\ got[c] = {})

\* What each state of a connection means for the queue and for what was lost.
Phase(c) ==
    /\ conn[c] = "off" => queue[c] = <<>>
    /\ conn[c] = "hello" => \A h \in got[c] : h <= seq - Len(queue[c]) /\ \A k \in lost[c] : h < k
    /\ conn[c] \in {"replay", "live", "drain"} =>
          Following(cold, seq, Len(queue[c]), got[c], Accounted(c), lost[c], BacklogIds(c))
    /\ conn[c] = "drain" => lost[c] \subseteq late[c]
    /\ dropped[c] = 0 \/ conn[c] = "off" => lost[c] = {}

ClientKept(c) ==
    /\ ClientTyped(c) /\ QueueKept(c) /\ BacklogKept(c)
    /\ Between(cold, got[c], Accounted(c)) /\ Phase(c)

Shape ==
    /\ seq \in 0..MaxEvents /\ cold \subseteq 1..seq
    /\ conn \in [Clients -> ConnStates]
    /\ backlog \in [Clients -> Seq(Ids)] /\ queue \in [Clients -> Seq(Ids)]
    /\ dropped \in [Clients -> Nat] /\ lastId \in [Clients -> 0..MaxEvents]
    /\ got \in [Clients -> SUBSET Ids] /\ lost \in [Clients -> SUBSET Ids]
    /\ told \in [Clients -> SUBSET Ids] /\ late \in [Clients -> SUBSET Ids]
    /\ breaks \in [Clients -> 0..MaxDisconnects]

StreamInv == Shape /\ RingKept /\ \A c \in Clients : ClientKept(c)

LEMMA StreamInitInv == StreamConstantsAssumption /\ StreamInit => StreamInv
<1> SUFFICES ASSUME StreamConstantsAssumption, StreamInit PROVE StreamInv
  OBVIOUS
<1>1. Shape
  BY DEF StreamConstantsAssumption, StreamInit, Shape, ConnStates
<1>2. RingKept
  BY DEF StreamConstantsAssumption, StreamInit, RingKept, Youngest
<1>3. ASSUME NEW c \in Clients PROVE ClientKept(c)
  <2>1. /\ conn[c] = "off" /\ queue[c] = <<>> /\ backlog[c] = <<>> /\ got[c] = {} /\ lost[c] = {}
        /\ told[c] = {} /\ late[c] = {} /\ lastId[c] = 0 /\ dropped[c] = 0
    BY DEF StreamInit
  <2>2. ClientTyped(c) /\ BacklogKept(c)
    BY <2>1 DEF ClientTyped, BacklogKept, BacklogIds, ConnStates
  <2>3. QueueKept(c)
    BY <2>1 DEF QueueKept, EndsWith, StreamConstantsAssumption
  <2>4. Between(cold, got[c], Accounted(c)) /\ Phase(c)
    BY <2>1 DEF Between, Phase
  <2> QED BY <2>2, <2>3, <2>4 DEF ClientKept
<1> QED BY <1>1, <1>2, <1>3 DEF StreamInv

\* A client whose connection does not move keeps its part, if no event comes.
LEMMA ClientLeft ==
  ASSUME NEW c \in Clients, ClientKept(c), UNCHANGED <<seq, cold>>,
         conn'[c] = conn[c], backlog'[c] = backlog[c], queue'[c] = queue[c], dropped'[c] = dropped[c],
         lastId'[c] = lastId[c], got'[c] = got[c], lost'[c] = lost[c], told'[c] = told[c],
         late'[c] = late[c]
  PROVE  ClientKept(c)'
BY DEF ClientKept, ClientTyped, QueueKept, BacklogKept, BacklogIds, Accounted, Phase

\* What the queue has of cold events, the ring has, as it is no shorter.
LEMMA QueueInRing ==
  ASSUME StreamConstantsAssumption, Shape, RingKept, NEW c \in Clients, QueueKept(c),
         NEW k \in cold, k > seq - Len(queue[c])
  PROVE  \E j \in 1..Len(ring) : ring[j] = k
<1>1. /\ RingSize \in Nat /\ QueueSize \in Nat /\ RingSize >= 1 /\ QueueSize <= RingSize
      /\ seq \in Nat /\ k \in Nat
  BY DEF StreamConstantsAssumption, Shape
<1>2. Len(queue[c]) \in Nat /\ Len(queue[c]) <= QueueSize
  BY DEF QueueKept
<1>3. SUFFICES ASSUME Len(ring) = RingSize, k < ring[1] PROVE FALSE
  BY DEF RingKept, Youngest
<1>4. 1 \in 1..Len(ring)
  BY <1>1, <1>3
<1>5. ring[1] \in cold /\ ring[1] <= seq - Len(ring) + 1
  BY <1>4 DEF RingKept, Youngest
<1>6. ring[1] \in Nat
  <2>1. ring[1] \in 1..seq
    BY <1>5 DEF Shape
  <2> QED BY <1>1, <2>1
<1> QED BY <1>1, <1>2, <1>3, <1>5, <1>6

-----------------------------------------------------------------------------
(* A new event *)

LEMMA RingRetains ==
  ASSUME StreamConstantsAssumption, Shape, RingKept, NEW isCold \in BOOLEAN, Broadcast(isCold)
  PROVE  RingKept'
<1>1. /\ seq \in Nat /\ seq + 1 \in Ids /\ cold \in SUBSET (1..seq) /\ seq' = seq + 1
      /\ RingSize \in Nat /\ RingSize >= 1
  <2>1. seq < MaxEvents /\ seq' = seq + 1
    BY DEF Broadcast
  <2> QED BY <2>1 DEF StreamConstantsAssumption, Shape, Ids
<1>2. \/ cold' = cold /\ ring' = ring
      \/ cold' = cold \cup {seq + 1} /\ ring' = Retain(seq + 1)
  BY DEF Broadcast
<1> DEFINE N == Len(ring)
<1>3. ring \in Seq(Ids) /\ N \in Nat /\ N <= RingSize /\ Youngest(ring, N, cold, seq)
  BY DEF RingKept
<1>4. CASE cold' = cold /\ ring' = ring
  <2>1. Youngest(ring, N, cold, seq + 1)
    BY <1>1, <1>3, RingStays
  <2> QED BY <1>1, <1>3, <1>4, <2>1 DEF RingKept
<1>5. CASE cold' = cold \cup {seq + 1} /\ ring' = Retain(seq + 1) /\ N # RingSize
  <2>1. ring' = Append(ring, seq + 1)
    BY <1>5 DEF Retain
  <2>2. /\ ring' \in Seq(Ids) /\ Len(ring') = N + 1 /\ ring'[N + 1] = seq + 1
        /\ \A j \in 1..N : ring'[j] = ring[j]
    BY <1>1, <1>3, <2>1
  <2>3. Youngest(ring', N + 1, cold \cup {seq + 1}, seq + 1)
    <3> HIDE DEF N
    <3> QED BY <1>1, <1>3, <1>5, <2>2, RingGrows
  <2>4. N + 1 <= RingSize
    BY <1>1, <1>3, <1>5
  <2> QED BY <1>1, <1>5, <2>2, <2>3, <2>4 DEF RingKept
<1>6. CASE cold' = cold \cup {seq + 1} /\ ring' = Retain(seq + 1) /\ N = RingSize
  <2>1. ring' = Append(Tail(ring), seq + 1)
    BY <1>6 DEF Retain
  <2>2. /\ Tail(ring) \in Seq(Ids) /\ Len(Tail(ring)) = N - 1
        /\ \A j \in 1..(N - 1) : Tail(ring)[j] = ring[j + 1]
    <3>1. ring # <<>>
      BY <1>1, <1>3, <1>6
    <3> QED BY <1>3, <3>1
  <2>3. /\ ring' \in Seq(Ids) /\ Len(ring') = N /\ ring'[N] = seq + 1
        /\ \A j \in 1..(N - 1) : ring'[j] = Tail(ring)[j]
    <3> DEFINE t == Tail(ring)
    <3>1. t \in Seq(Ids) /\ Len(t) = N - 1 /\ N - 1 \in Nat /\ (N - 1) + 1 = N
      BY <1>1, <1>3, <1>6, <2>2
    <3> HIDE DEF t, N
    <3>2. /\ Append(t, seq + 1) \in Seq(Ids) /\ Len(Append(t, seq + 1)) = N
          /\ Append(t, seq + 1)[N] = seq + 1
          /\ \A j \in 1..(N - 1) : Append(t, seq + 1)[j] = t[j]
      BY <1>1, <3>1
    <3> QED BY <2>1, <3>2 DEF t
  <2>4. Youngest(ring', N, cold \cup {seq + 1}, seq + 1)
    <3>1. \A j \in 1..(N - 1) : ring'[j] = ring[j + 1]
      BY <2>2, <2>3
    <3>2. N >= 1
      BY <1>1, <1>6
    <3> HIDE DEF N
    <3> QED BY <1>1, <1>3, <1>6, <2>3, <3>1, <3>2, RingTurns
  <2> QED BY <1>1, <1>3, <1>6, <2>3, <2>4 DEF RingKept
<1> QED BY <1>2, <1>4, <1>5, <1>6

\* A queue that ends with event n, and then with event n + 1.
LEMMA OneLonger ==
  ASSUME NEW n \in Nat, NEW N \in Nat, NEW q, NEW q2,
         \A j \in 1..N : q[j] = n - N + j, \A j \in 1..N : q2[j] = q[j], q2[N + 1] = n + 1
  PROVE  \A j \in 1..(N + 1) : q2[j] = (n + 1) - (N + 1) + j
<1> SUFFICES ASSUME NEW j \in 1..(N + 1) PROVE q2[j] = (n + 1) - (N + 1) + j
  OBVIOUS
<1>1. CASE j = N + 1
  BY <1>1
<1>2. CASE j # N + 1
  <2>1. j \in 1..N
    BY <1>2
  <2> QED BY <2>1
<1> QED BY <1>1, <1>2

\* The queue of a connection takes every event; a full one drops its oldest.
LEMMA QueueTakes ==
  ASSUME StreamConstantsAssumption, NEW n \in Nat, n + 1 \in Ids, NEW q \in Seq(Ids),
         Len(q) <= QueueSize, EndsWith(q, n)
  PROVE  /\ Taken(q, n + 1) \in Seq(Ids) /\ Len(Taken(q, n + 1)) <= QueueSize
         /\ EndsWith(Taken(q, n + 1), n + 1)
         /\ Len(Taken(q, n + 1)) = IF Len(q) = QueueSize THEN Len(q) ELSE Len(q) + 1
         /\ Len(q) = QueueSize => Len(q) >= 1 /\ Head(q) = n - Len(q) + 1
<1> DEFINE q2 == Taken(q, n + 1)
<1>1. QueueSize \in Nat /\ QueueSize >= 1 /\ Len(q) \in Nat /\ DOMAIN q = 1..Len(q)
  BY DEF StreamConstantsAssumption
<1> HIDE DEF q2
<1>2. CASE Len(q) # QueueSize
  <2>1. /\ q2 \in Seq(Ids) /\ Len(q2) = Len(q) + 1 /\ DOMAIN q2 = 1..(Len(q) + 1)
        /\ q2[Len(q) + 1] = n + 1 /\ \A j \in 1..Len(q) : q2[j] = q[j]
    <3>1. q2 = Append(q, n + 1)
      BY <1>2 DEF q2, Taken
    <3> QED BY <3>1
  <2>2. \A a, b \in Nat : a <= b /\ a # b => a + 1 <= b
    OBVIOUS
  <2>3. Len(q) + 1 <= QueueSize
    BY <1>1, <1>2, <2>2
  <2>4. \A j \in 1..Len(q) : q[j] = n - Len(q) + j
    BY <1>1 DEF EndsWith
  <2> DEFINE N == Len(q)
  <2>5. N \in Nat /\ (\A j \in 1..N : q[j] = n - N + j) /\ (\A j \in 1..N : q2[j] = q[j]) /\ q2[N + 1] = n + 1
    BY <1>1, <2>1, <2>4
  <2> HIDE DEF N
  <2>6. \A j \in 1..(N + 1) : q2[j] = (n + 1) - (N + 1) + j
    BY <2>5, OneLonger
  <2> QED BY <1>2, <2>1, <2>3, <2>6 DEF N, q2, EndsWith
<1>3. CASE Len(q) = QueueSize
  <2> DEFINE t == Tail(q)
             N == Len(q)
  <2>1. /\ t \in Seq(Ids) /\ Len(t) = N - 1 /\ Head(q) = q[1]
        /\ \A j \in 1..(N - 1) : t[j] = q[j + 1]
    <3>1. q # <<>>
      BY <1>1, <1>3
    <3> QED BY <3>1
  <2>2. q2 = Append(t, n + 1)
    BY <1>3 DEF q2, Taken
  <2>3. N \in Nat /\ N >= 1 /\ N - 1 \in Nat /\ (N - 1) + 1 = N /\ N = QueueSize /\ DOMAIN q = 1..N
    BY <1>1, <1>3
  <2>4. \A j \in 1..N : q[j] = n - N + j
    BY <2>3 DEF EndsWith
  <2> HIDE DEF t, N
  <2>5. /\ q2 \in Seq(Ids) /\ Len(q2) = N /\ DOMAIN q2 = 1..N
        /\ q2[N] = n + 1 /\ \A j \in 1..(N - 1) : q2[j] = t[j]
    BY <2>1, <2>2, <2>3
  <2>6. ASSUME NEW j \in 1..N PROVE q2[j] = (n + 1) - N + j
    <3>1. CASE j = N
      BY <2>3, <2>5, <3>1
    <3>2. CASE j # N
      <4>1. j \in 1..(N - 1) /\ j + 1 \in 1..N
        BY <2>3, <3>2
      <4>2. q2[j] = n - N + (j + 1)
        BY <2>1, <2>4, <2>5, <4>1
      <4> QED BY <2>3, <4>1, <4>2
    <3> QED BY <3>1, <3>2
  <2>7. Head(q) = n - N + 1
    BY <2>1, <2>3, <2>4
  <2> QED BY <1>3, <2>3, <2>5, <2>6, <2>7 DEF N, q2, EndsWith
<1> QED BY <1>2, <1>3

LEMMA ClientHears ==
  ASSUME StreamConstantsAssumption, Shape, NEW isCold \in BOOLEAN, Broadcast(isCold),
         NEW c \in Clients, ClientKept(c)
  PROVE  ClientKept(c)'
<1> DEFINE m == Len(queue[c])
<1>1. /\ seq \in Nat /\ seq + 1 \in Ids /\ cold \in SUBSET (1..seq) /\ seq' = seq + 1
      /\ cold' = cold \/ cold' = cold \cup {seq + 1}
  <2>1. /\ seq < MaxEvents /\ seq' = seq + 1
        /\ cold' = cold \/ cold' = cold \cup {seq + 1}
    BY DEF Broadcast
  <2> QED BY <2>1 DEF StreamConstantsAssumption, Shape, Ids
<1>2. /\ UNCHANGED <<conn, backlog, lastId, got, told, breaks>>
      /\ queue'[c] = IF ~Attached(c) THEN queue[c]
                     ELSE Append(IF Full(c) THEN Tail(queue[c]) ELSE queue[c], seq + 1)
      /\ dropped'[c] = dropped[c] + IF Attached(c) /\ Full(c) THEN 1 ELSE 0
      /\ lost'[c] = IF Attached(c) /\ Full(c) THEN lost[c] \cup {Head(queue[c])} ELSE lost[c]
      /\ late'[c] = IF (Attached(c) /\ Full(c)) /\ conn[c] = "drain"
                    THEN late[c] \cup {Head(queue[c])} ELSE late[c]
  BY DEF Broadcast, client
<1>3. /\ ClientTyped(c) /\ QueueKept(c) /\ BacklogKept(c) /\ Phase(c)
      /\ Between(cold, got[c], Accounted(c))
  BY DEF ClientKept
<1>4. /\ queue[c] \in Seq(Ids) /\ m \in Nat /\ m <= QueueSize
      /\ EndsWith(queue[c], seq)
  BY <1>3 DEF QueueKept
<1>5. /\ got[c] \in SUBSET (1..seq) /\ BacklogIds(c) \in SUBSET cold /\ dropped[c] \in Nat
      /\ lost[c] \subseteq Ids /\ told[c] \subseteq Ids /\ late[c] \subseteq Ids
      /\ conn[c] \in ConnStates
  BY <1>3 DEF ClientTyped, BacklogKept
<1>6. BacklogKept(c)'
  <2>1. BacklogIds(c)' = BacklogIds(c)
    BY <1>2 DEF BacklogIds
  <2> QED BY <1>1, <1>2, <1>3, <2>1 DEF BacklogKept
<1>7. CASE ~Attached(c)
  <2>1. /\ conn[c] = "off" /\ queue'[c] = queue[c] /\ dropped'[c] = dropped[c] /\ lost'[c] = lost[c]
        /\ late'[c] = late[c]
    BY <1>2, <1>5, <1>7 DEF Attached
  <2>2. queue[c] = <<>> /\ lost[c] = {}
    BY <1>3, <2>1 DEF Phase
  <2>3. QueueKept(c)'
    BY <1>1, <1>4, <2>1, <2>2 DEF QueueKept, EndsWith
  <2>4. ClientTyped(c)'
    <3>1. got[c] \subseteq 1..(seq + 1)
      BY <1>1, <1>5
    <3> QED BY <1>1, <1>2, <1>3, <2>1, <3>1 DEF ClientTyped
  <2>5. Phase(c)'
    BY <1>2, <2>1, <2>2 DEF Phase
  <2>6. Between(cold, got[c], Accounted(c))'
    <3>1. \A k \in cold' : k \in cold \/ k = seq + 1
      BY <1>1
    <3>2. \A h \in got[c] : h \in Nat /\ h <= seq
      BY <1>1, <1>5
    <3>3. Accounted(c)' = Accounted(c) /\ got'[c] = got[c]
      BY <1>2, <2>1 DEF Accounted
    <3>4. ASSUME NEW k \in cold', NEW g \in got[c], NEW h \in got[c], g < k, k < h
          PROVE  k \in Accounted(c)
      <4>1. k \in cold
        BY <1>1, <3>1, <3>2, <3>4
      <4> QED BY <1>3, <3>4, <4>1 DEF Between
    <3> QED BY <3>3, <3>4 DEF Between
  <2> QED BY <1>6, <2>3, <2>4, <2>5, <2>6 DEF ClientKept
<1>8. CASE Attached(c)
  <2>1. queue'[c] = Taken(queue[c], seq + 1)
    BY <1>2, <1>8 DEF Full, Taken
  <2>2. /\ queue'[c] \in Seq(Ids) /\ Len(queue'[c]) <= QueueSize /\ EndsWith(queue'[c], seq + 1)
        /\ Len(queue'[c]) = IF m = QueueSize THEN m ELSE m + 1
        /\ m = QueueSize => m >= 1 /\ Head(queue[c]) = seq - m + 1
    <3>1. seq \in Nat /\ seq + 1 \in Ids
      BY <1>1
    <3> QED BY <1>4, <2>1, <3>1, QueueTakes
  <2>3. QueueKept(c)'
    BY <1>1, <2>2 DEF QueueKept
  <2>4. /\ lost'[c] = IF m = QueueSize THEN lost[c] \cup {seq - m + 1} ELSE lost[c]
        /\ late'[c] = IF m = QueueSize /\ conn[c] = "drain" THEN late[c] \cup {seq - m + 1} ELSE late[c]
        /\ dropped'[c] = IF m = QueueSize THEN dropped[c] + 1 ELSE dropped[c]
    <3>1. Full(c) <=> m = QueueSize
      BY DEF Full
    <3>2. CASE Full(c)
      BY <1>2, <1>8, <2>2, <3>1, <3>2
    <3>3. CASE ~Full(c)
      BY <1>2, <1>5, <3>1, <3>3
    <3> QED BY <3>2, <3>3
  <2>5. m = QueueSize => seq - m + 1 \in Ids
    <3>1. SUFFICES ASSUME m = QueueSize PROVE seq - m + 1 \in Ids
      OBVIOUS
    <3>2. queue[c] # <<>>
      BY <1>4, <2>2, <3>1
    <3>3. Head(queue[c]) \in Ids
      BY <1>4, <3>2
    <3> QED BY <2>2, <3>1, <3>3
  <2>6. Accounted(c) \subseteq Accounted(c)'
    BY <1>2, <2>4 DEF Accounted
  <2> DEFINE m2 == Len(queue'[c])
  <2>7. ClientTyped(c)'
    <3>1. got[c] \subseteq 1..(seq + 1)
      BY <1>1, <1>5
    <3>2. lost'[c] \subseteq Ids /\ late'[c] \subseteq Ids
      BY <1>5, <2>4, <2>5
    <3>3. dropped'[c] \in Nat
      BY <1>5, <2>4
    <3> QED BY <1>1, <1>2, <1>3, <3>1, <3>2, <3>3 DEF ClientTyped
  <2>8. Between(cold, got[c], Accounted(c))'
    <3>1. \A k \in cold' : k \in cold \/ k = seq + 1
      BY <1>1
    <3>2. \A h \in got[c] : h \in Nat /\ h <= seq
      BY <1>1, <1>5
    <3> QED BY <1>1, <1>2, <1>3, <2>6, <3>1, <3>2 DEF Between
  <2>9. conn[c] \in {"replay", "live", "drain"} =>
          Following(cold', seq + 1, m2, got[c], Accounted(c)', lost'[c], BacklogIds(c))
    <3>1. SUFFICES ASSUME Following(cold, seq, m, got[c], Accounted(c), lost[c], BacklogIds(c))
                   PROVE  Following(cold', seq + 1, m2, got[c], Accounted(c)', lost'[c], BacklogIds(c))
      BY <1>3 DEF Phase
    <3>2. m2 \in Nat /\ \/ m2 = m + 1 /\ lost'[c] = lost[c]
                        \/ m2 = m /\ m >= 1 /\ lost'[c] = lost[c] \cup {seq - m + 1}
      BY <1>4, <2>2, <2>4
    <3>3. Between(cold, got[c], Accounted(c))
      BY <1>3
    <3>4. m \in Nat
      BY <1>4
    <3>5. got[c] \in SUBSET (1..seq) /\ BacklogIds(c) \in SUBSET cold
      BY <1>5
    <3>6. /\ seq \in Nat /\ cold \in SUBSET (1..seq)
          /\ cold' = cold \/ cold' = cold \cup {seq + 1}
      BY <1>1
    <3> HIDE DEF m, m2
    <3> QED BY <2>6, <3>1, <3>2, <3>3, <3>4, <3>5, <3>6, FromBroadcast
  <2>10. conn[c] = "hello" => \A h \in got[c] : h <= (seq + 1) - m2 /\ \A k \in lost'[c] : h < k
    <3> SUFFICES ASSUME conn[c] = "hello", NEW h \in got[c]
                 PROVE  h <= (seq + 1) - m2 /\ \A k \in lost'[c] : h < k
      OBVIOUS
    <3>1. h \in Nat /\ h <= seq - m /\ \A k \in lost[c] : h < k
      BY <1>1, <1>3, <1>5 DEF Phase
    <3>2. m2 = m \/ m2 = m + 1
      BY <2>2
    <3> HIDE DEF m, m2
    <3>3. h <= (seq + 1) - m2
      BY <1>1, <1>4, <3>1, <3>2
    <3>4. \A k \in lost'[c] : k \in lost[c] \/ k = seq - m + 1
      BY <2>4
    <3>5. h < seq - m + 1
      BY <1>1, <1>4, <3>1
    <3> QED BY <3>1, <3>3, <3>4, <3>5
  <2>11. Phase(c)'
    <3>1. BacklogIds(c)' = BacklogIds(c) /\ conn'[c] = conn[c] /\ got'[c] = got[c]
      BY <1>2 DEF BacklogIds
    <3>2. conn[c] = "drain" => lost'[c] \subseteq late'[c]
      BY <1>3, <2>4 DEF Phase
    <3>3. dropped'[c] = 0 => lost'[c] = {}
      BY <1>3, <1>5, <2>4 DEF Phase
    <3>4. conn[c] # "off"
      BY <1>8 DEF Attached
    <3> HIDE DEF m2
    <3> QED BY <1>1, <2>9, <2>10, <3>1, <3>2, <3>3, <3>4 DEF Phase, m2
  <2> QED BY <1>6, <2>3, <2>7, <2>8, <2>11 DEF ClientKept
<1> QED BY <1>7, <1>8

-----------------------------------------------------------------------------
(* The steps of a connection *)

LEMMA ConnectKeeps ==
  ASSUME Shape, NEW c \in Clients, ClientKept(c), Connect(c)
  PROVE  ClientKept(c)'
<1>1. /\ conn[c] = "off" /\ conn'[c] = "hello"
      /\ UNCHANGED <<seq, cold, ring, backlog, queue, dropped, lastId, got, lost, told, late, breaks>>
  BY DEF Connect, client, Shape
<1>2. /\ ClientTyped(c) /\ QueueKept(c) /\ BacklogKept(c) /\ Phase(c)
      /\ Between(cold, got[c], Accounted(c))
  BY DEF ClientKept
<1>3. queue[c] = <<>> /\ lost[c] = {} /\ backlog[c] = <<>>
  BY <1>1, <1>2 DEF Phase, BacklogKept
<1>4. ClientTyped(c)' /\ QueueKept(c)' /\ BacklogKept(c)'
  BY <1>1, <1>2 DEF ClientTyped, QueueKept, BacklogKept, BacklogIds, ConnStates
<1>5. Between(cold, got[c], Accounted(c))'
  BY <1>1, <1>2 DEF Accounted
<1>6. \A h \in got[c] : h <= seq - Len(queue[c])
  <2>1. Len(queue[c]) = 0
    BY <1>3
  <2>2. seq \in Nat /\ \A h \in got[c] : h \in 1..seq
    BY <1>2 DEF ClientTyped, Shape
  <2> QED BY <2>1, <2>2
<1>7. Phase(c)'
  BY <1>1, <1>3, <1>6 DEF Phase
<1> QED BY <1>4, <1>5, <1>7 DEF ClientKept

\* What is replayed is what the ring has behind since.
LEMMA Replayed ==
  ASSUME Shape, RingKept, NEW since \in Nat, NEW replay \in ReplayOf(since)
  PROVE  /\ replay \in Seq(Ids)
         /\ \A j, k \in DOMAIN replay : j < k => replay[j] < replay[k]
         /\ {replay[j] : j \in DOMAIN replay} = {r \in {ring[j] : j \in DOMAIN ring} : r > since}
<1> DEFINE N == Len(ring)
<1>1. ring \in Seq(Ids) /\ N \in Nat /\ DOMAIN ring = 1..N
  BY DEF RingKept
<1>2. PICK k \in 1..(N + 1) : /\ \A j \in 1..N : ring[j] > since <=> j >= k
                              /\ replay = SubSeq(ring, k, N)
  BY <1>1 DEF ReplayOf
<1>3. \A i, j \in 1..N : i < j => ring[i] < ring[j]
  BY DEF RingKept, Youngest
<1>4. \A i \in 1..N : ring[i] \in Ids
  BY <1>1
<1> HIDE DEF N
<1>5. /\ replay \in Seq(Ids) /\ Len(replay) = N - k + 1 /\ DOMAIN replay = 1..(N - k + 1)
      /\ \A j \in 1..(N - k + 1) : replay[j] = ring[k + j - 1]
  <2>1. \A i \in k..N : ring[i] \in Ids
    BY <1>1, <1>2, <1>4
  <2>2. /\ SubSeq(ring, k, N) \in Seq(Ids)
        /\ Len(SubSeq(ring, k, N)) = N - k + 1
        /\ \A j \in 1..(N - k + 1) : SubSeq(ring, k, N)[j] = ring[k + j - 1]
    BY <1>1, <1>2, <2>1, SubSeqProperties
  <2> QED BY <1>2, <2>2
<1>6. \A j \in 1..(N - k + 1) : k + j - 1 \in 1..N /\ k + j - 1 >= k
  BY <1>1, <1>2
<1>7. \A i, j \in DOMAIN replay : i < j => replay[i] < replay[j]
  <2> SUFFICES ASSUME NEW i \in 1..(N - k + 1), NEW j \in 1..(N - k + 1), i < j
               PROVE  ring[k + i - 1] < ring[k + j - 1]
    BY <1>5
  <2>1. k + i - 1 < k + j - 1
    BY <1>1, <1>2
  <2> QED BY <1>3, <1>6, <2>1
<1>8. ASSUME NEW r
      PROVE  (\E j \in DOMAIN replay : r = replay[j]) <=> (\E j \in 1..N : r = ring[j] /\ ring[j] > since)
  <2>1. ASSUME NEW j \in DOMAIN replay, r = replay[j]
        PROVE  \E i \in 1..N : r = ring[i] /\ ring[i] > since
    <3>1. k + j - 1 \in 1..N /\ k + j - 1 >= k /\ r = ring[k + j - 1]
      BY <1>5, <1>6, <2>1
    <3> QED BY <1>2, <3>1
  <2>2. ASSUME NEW i \in 1..N, r = ring[i], ring[i] > since
        PROVE  \E j \in DOMAIN replay : r = replay[j]
    <3>1. i >= k
      BY <1>2, <2>2
    <3>2. i - k + 1 \in 1..(N - k + 1) /\ k + (i - k + 1) - 1 = i
      BY <1>1, <1>2, <3>1
    <3>3. replay[i - k + 1] = ring[i]
      BY <1>5, <3>2
    <3> QED BY <1>5, <2>2, <3>2, <3>3
  <2> QED BY <2>1, <2>2
<1>9. {replay[j] : j \in DOMAIN replay} = {r \in {ring[j] : j \in DOMAIN ring} : r > since}
  BY <1>1, <1>8
<1> QED BY <1>5, <1>7, <1>9

LEMMA HasFirst == ASSUME NEW S, NEW q \in Seq(S), q # <<>> PROVE 1 \in 1..Len(q)
OBVIOUS

\* The oldest event of a ring that is not empty.
LEMMA RingFirst ==
  ASSUME NEW n \in Nat, NEW C \in SUBSET (1..n), NEW N \in Nat, NEW r, Youngest(r, N, C, n),
         1 \in 1..N
  PROVE  /\ r[1] \in Nat /\ r[1] \in C
         /\ \A j \in 1..N : r[1] <= r[j]
         /\ \A k \in C : (\E j \in 1..N : r[j] = k) \/ k < r[1]
<1>1. \A j \in 1..N : r[j] \in C /\ r[j] \in Nat
  <2>1. \A k \in C : k \in Nat
    OBVIOUS
  <2> QED BY <2>1 DEF Youngest
<1>2. \A j \in 1..N : j = 1 \/ 1 < j
  OBVIOUS
<1>3. \A j \in 1..N : r[1] <= r[j]
  BY <1>1, <1>2 DEF Youngest
<1> QED BY <1>1, <1>3 DEF Youngest

LEMMA SnapshotKeeps ==
  ASSUME StreamConstantsAssumption, Shape, RingKept, NEW c \in Clients, ClientKept(c), Snapshot(c)
  PROVE  ClientKept(c)'
<1> DEFINE since == lastId[c]
           R == {ring[j] : j \in DOMAIN ring}
           T == IF Expired(since) THEN since + 1 .. ring[1] - 1 ELSE {}
<1>1. PICK replay \in ReplayOf(since) :
         /\ conn[c] = "hello" /\ backlog'[c] = replay
         /\ conn'[c] = IF replay = <<>> THEN "live" ELSE "replay"
         /\ told'[c] = told[c] \cup T
         /\ UNCHANGED <<seq, cold, ring, queue, dropped, lastId, got, lost, late, breaks>>
  BY DEF Snapshot, Shape, client
<1>2. /\ ClientTyped(c) /\ QueueKept(c) /\ BacklogKept(c) /\ Phase(c)
      /\ Between(cold, got[c], Accounted(c))
  BY DEF ClientKept
<1>3. /\ seq \in Nat /\ cold \in SUBSET (1..seq) /\ got[c] \in SUBSET (1..seq)
      /\ since \in got[c] \/ (since = 0 /\ got[c] = {})
      /\ \A k \in cold : k \in Ids
  <2>1. /\ seq \in 0..MaxEvents /\ MaxEvents \in Nat /\ cold \subseteq 1..seq
    BY DEF Shape, StreamConstantsAssumption
  <2> QED BY <1>2, <2>1 DEF ClientTyped, Ids
<1>4. since \in Nat
  BY <1>3
<1>5. /\ replay \in Seq(Ids)
      /\ \A j, k \in DOMAIN replay : j < k => replay[j] < replay[k]
      /\ {replay[j] : j \in DOMAIN replay} = {r \in R : r > since}
  BY <1>1, <1>4, Replayed
<1>6. /\ ring \in Seq(Ids) /\ DOMAIN ring = 1..Len(ring) /\ Len(ring) \in Nat
      /\ \A j \in 1..Len(ring) : ring[j] \in cold
      /\ \A j, k \in 1..Len(ring) : j < k => ring[j] < ring[k]
      /\ \A k \in cold : (\E j \in 1..Len(ring) : ring[j] = k) \/ (Len(ring) = RingSize /\ k < ring[1])
      /\ RingSize >= 1
  BY DEF RingKept, Youngest, StreamConstantsAssumption
<1>7. R \in SUBSET cold
  BY <1>6
<1> DEFINE first == IF ring = <<>> THEN 0 ELSE ring[1]
<1>8. /\ first \in Nat
      /\ \A r \in R : first <= r
      /\ \A k \in cold : k \in R \/ (k < first /\ ring # <<>>)
  <2>1. CASE ring = <<>>
    <3>1. Len(ring) = 0 /\ R = {} /\ cold = {}
      BY <1>6, <2>1, <1>3 DEF StreamConstantsAssumption
    <3> QED BY <2>1, <3>1
  <2>2. CASE ring # <<>>
    <3>1. 1 \in 1..Len(ring)
      BY <1>6, <2>2, HasFirst
    <3>2. seq \in Nat /\ cold \in SUBSET (1..seq)
      BY <1>3
    <3>3. Youngest(ring, Len(ring), cold, seq) /\ Len(ring) \in Nat
      BY <1>6 DEF RingKept
    <3>4. /\ ring[1] \in Nat /\ \A j \in 1..Len(ring) : ring[1] <= ring[j]
          /\ \A k \in cold : (\E j \in 1..Len(ring) : ring[j] = k) \/ k < ring[1]
      BY ONLY <3>1, <3>2, <3>3, RingFirst
    <3>5. first = ring[1]
      BY <2>2
    <3>6. \A r \in R : ring[1] <= r
      BY <1>6, <3>4
    <3>7. \A k \in cold : k \in R \/ k < ring[1]
      BY <1>6, <3>4
    <3> QED BY <2>2, <3>4, <3>5, <3>6, <3>7
  <2> QED BY <2>1, <2>2
<1>9. \A k \in cold : k > seq - Len(queue[c]) => k \in R
  BY <1>2, <1>6, QueueInRing
<1>10. \A h \in got[c] : h <= seq - Len(queue[c]) /\ \A k \in lost[c] : h < k
  BY <1>1, <1>2 DEF Phase
<1>11. \A k \in cold : k > seq - Len(queue[c]) => k > since
  <2>1. Len(queue[c]) \in Nat
    BY <1>2 DEF QueueKept
  <2>2. \A k \in cold : k \in Nat /\ k >= 1
    BY <1>3
  <2> QED BY <1>3, <1>4, <1>10, <2>1, <2>2
<1>12. since > 0 => \A k \in cold : since < k /\ k < first => k \in T
  <2> SUFFICES ASSUME since > 0, NEW k \in cold, since < k, k < first PROVE k \in T
    OBVIOUS
  <2>1. ring # <<>> /\ first = ring[1] /\ k \in Nat
    BY <1>3, <1>8
  <2>2. since < ring[1] - 1 /\ k \in since + 1 .. ring[1] - 1
    BY <1>4, <1>8, <2>1
  <2> QED BY <2>1, <2>2 DEF Expired
<1>13. got[c] \subseteq Accounted(c)
  BY DEF Accounted
<1>14. \A k \in lost[c] : k \in Nat
  BY <1>2 DEF ClientTyped, Ids
<1> DEFINE B == {r \in R : r > since}
<1>15. /\ Between(cold, got[c], Accounted(c) \cup T)
       /\ Following(cold, seq, Len(queue[c]), got[c], Accounted(c) \cup T, lost[c], B)
  <2>1. Len(queue[c]) \in Nat
    BY <1>2 DEF QueueKept
  <2>2. \A k \in cold : k \in R \/ k < first
    BY <1>8
  <2>3. seq \in Nat /\ cold \in SUBSET (1..seq)
    BY <1>3
  <2>4. got[c] \in SUBSET (1..seq) /\ (since \in got[c] \/ (since = 0 /\ got[c] = {}))
    BY <1>3
  <2>5. Retained(cold, seq, Len(queue[c]), got[c], lost[c], R, first, since, T, B)
    BY <1>8, <1>9, <1>10, <1>12, <2>2 DEF Retained
  <2>6. Between(cold, got[c], Accounted(c))
    BY <1>2
  <2>7. first \in Nat
    BY <1>8
  <2> HIDE DEF since, R, T, first, B
  <2> QED
    BY ONLY <2>1, <2>2, <2>3, <2>4, <2>5, <2>6, <2>7, <1>4, <1>7, <1>13,
       FromSnapshot
<1>16. Accounted(c)' = Accounted(c) \cup T
  BY <1>1 DEF Accounted
<1>17. BacklogIds(c)' = B
  BY <1>1, <1>5 DEF BacklogIds
<1>18. BacklogKept(c)'
  <2>1. B \subseteq cold
    BY <1>7
  <2>2. conn'[c] = "replay" <=> replay # <<>>
    BY <1>1
  <2> QED BY <1>1, <1>5, <1>17, <2>1, <2>2 DEF BacklogKept
<1>19. T \subseteq Ids
  <2> SUFFICES ASSUME Expired(since) PROVE since + 1 .. ring[1] - 1 \subseteq Ids
    OBVIOUS
  <2>1. ring # <<>>
    BY DEF Expired
  <2>2. 1 \in 1..Len(ring)
    BY <1>6, <2>1, HasFirst
  <2>3. ring[1] \in 1..MaxEvents /\ MaxEvents \in Nat
    BY <1>3, <1>6, <2>2 DEF Ids, StreamConstantsAssumption
  <2> QED BY <1>4, <2>3 DEF Ids
<1>20. ClientTyped(c)'
  <2>1. told'[c] \subseteq Ids
    BY <1>1, <1>2, <1>19 DEF ClientTyped
  <2>2. conn'[c] \in ConnStates
    BY <1>1 DEF ConnStates
  <2> QED BY <1>1, <1>2, <2>1, <2>2 DEF ClientTyped
<1>21. QueueKept(c)'
  BY <1>1, <1>2 DEF QueueKept
<1>22. Phase(c)'
  <2>1. conn'[c] \in {"live", "replay"}
    BY <1>1
  <2>2. dropped[c] = 0 => lost[c] = {}
    BY <1>2 DEF Phase
  <2> HIDE DEF B, T
  <2> QED BY <1>1, <1>15, <1>16, <1>17, <2>1, <2>2 DEF Phase
<1>23. Between(cold, got[c], Accounted(c))'
  <2> HIDE DEF T
  <2> QED BY <1>1, <1>15, <1>16
<1> QED BY <1>18, <1>20, <1>21, <1>22, <1>23 DEF ClientKept

\* A sequence that loses its first element.
LEMMA TailOf ==
  ASSUME NEW S, NEW q \in Seq(S), q # <<>>
  PROVE  /\ Tail(q) \in Seq(S) /\ Len(Tail(q)) = Len(q) - 1 /\ Len(q) \in Nat /\ Len(q) >= 1
         /\ DOMAIN q = 1..Len(q) /\ DOMAIN Tail(q) = 1..(Len(q) - 1)
         /\ \A j \in 1..(Len(q) - 1) : Tail(q)[j] = q[j + 1]
         /\ Head(q) = q[1] /\ q[1] \in S
OBVIOUS

IdsOf(q) == {q[j] : j \in DOMAIN q}
Ascends(q) == \A j, k \in DOMAIN q : j < k => q[j] < q[k]

\* The first frame of a snapshot is its oldest.
LEMMA TailIds ==
  ASSUME NEW q \in Seq(Ids), q # <<>>, Ascends(q)
  PROVE  /\ Head(q) \in IdsOf(q) /\ \A b \in IdsOf(q) : Head(q) <= b
         /\ IdsOf(Tail(q)) = IdsOf(q) \ {Head(q)} /\ Ascends(Tail(q))
<1> DEFINE N == Len(q)
           t == Tail(q)
<1>1. /\ N \in Nat /\ N >= 1 /\ DOMAIN q = 1..N /\ DOMAIN t = 1..(N - 1)
      /\ \A j \in 1..(N - 1) : t[j] = q[j + 1]
      /\ Head(q) = q[1]
  BY TailOf
<1>2. \A j \in 1..N : q[j] \in Nat
  <2>1. \A j \in 1..N : q[j] \in Ids
    BY <1>1
  <2> QED BY <2>1 DEF Ids
<1> HIDE DEF N, t
<1>3. \A j \in 1..N : j = 1 \/ (1 < j /\ j - 1 \in 1..(N - 1) /\ (j - 1) + 1 = j)
  BY <1>1
<1>4. \A j \in 1..(N - 1) : j + 1 \in 1..N /\ 1 < j + 1
  BY <1>1
<1>5. 1 \in 1..N
  BY <1>1
<1>6. \A j, k \in 1..N : j < k => q[j] < q[k]
  BY <1>1 DEF Ascends
<1>7. \A j \in 1..N : j = 1 \/ q[1] < q[j]
  BY <1>3, <1>5, <1>6
<1>8. \A j \in 1..N : q[1] <= q[j]
  BY <1>2, <1>5, <1>7
<1>9. IdsOf(t) = IdsOf(q) \ {q[1]}
  <2>1. ASSUME NEW k \in IdsOf(t) PROVE k \in IdsOf(q) /\ k # q[1]
    <3>1. PICK j \in 1..(N - 1) : k = q[j + 1]
      BY <1>1, <2>1 DEF IdsOf
    <3>2. j + 1 \in 1..N /\ j + 1 # 1
      BY <1>4, <3>1
    <3>3. q[1] < q[j + 1] /\ q[1] \in Nat /\ q[j + 1] \in Nat
      BY <1>2, <1>5, <1>7, <3>2
    <3> QED BY <1>1, <3>1, <3>2, <3>3 DEF IdsOf
  <2>2. ASSUME NEW k \in IdsOf(q), k # q[1] PROVE k \in IdsOf(t)
    <3>1. PICK j \in 1..N : k = q[j]
      BY <1>1 DEF IdsOf
    <3>2. j - 1 \in 1..(N - 1) /\ (j - 1) + 1 = j
      BY <1>3, <2>2, <3>1
    <3>3. t[j - 1] = k
      BY <1>1, <3>1, <3>2
    <3> QED BY <1>1, <3>2, <3>3 DEF IdsOf
  <2> QED BY <2>1, <2>2
<1>10. Ascends(t)
  <2> SUFFICES ASSUME NEW j \in 1..(N - 1), NEW k \in 1..(N - 1), j < k PROVE t[j] < t[k]
    BY <1>1 DEF Ascends
  <2>1. j + 1 < k + 1
    BY <1>1
  <2> QED BY <1>1, <1>4, <1>6, <2>1
<1>11. q[1] \in IdsOf(q) /\ \A b \in IdsOf(q) : q[1] <= b
  BY <1>1, <1>5, <1>8 DEF IdsOf
<1> QED BY <1>1, <1>9, <1>10, <1>11 DEF t

\* The frame that the queue gives is the oldest of the consecutive events it has.
LEMMA QueueGives ==
  ASSUME NEW n \in Nat, NEW q \in Seq(Ids), q # <<>>, EndsWith(q, n)
  PROVE  /\ Tail(q) \in Seq(Ids) /\ Len(Tail(q)) = Len(q) - 1 /\ EndsWith(Tail(q), n)
         /\ Len(q) \in Nat /\ Len(q) >= 1
         /\ Head(q) = n - Len(q) + 1 /\ Head(q) \in Ids /\ Head(q) <= n
<1> DEFINE N == Len(q)
           t == Tail(q)
<1>1. /\ t \in Seq(Ids) /\ Len(t) = N - 1 /\ N \in Nat /\ N >= 1
      /\ DOMAIN q = 1..N /\ DOMAIN t = 1..(N - 1)
      /\ \A j \in 1..(N - 1) : t[j] = q[j + 1]
      /\ Head(q) = q[1] /\ q[1] \in Ids
  BY TailOf
<1>2. \A j \in 1..N : q[j] = n - N + j
  BY <1>1 DEF EndsWith
<1> HIDE DEF N, t
<1>3. \A j \in 1..(N - 1) : t[j] = n - (N - 1) + j
  <2> SUFFICES ASSUME NEW j \in 1..(N - 1) PROVE t[j] = n - (N - 1) + j
    OBVIOUS
  <2>1. j + 1 \in 1..N
    BY <1>1
  <2>2. t[j] = n - N + (j + 1)
    BY <1>1, <1>2, <2>1
  <2> QED BY <1>1, <2>2
<1>4. EndsWith(t, n)
  BY <1>1, <1>3 DEF EndsWith
<1>5. q[1] = n - N + 1 /\ n - N + 1 <= n
  BY <1>1, <1>2
<1> QED BY <1>1, <1>4, <1>5 DEF N, t

LEMMA ReplayKeeps ==
  ASSUME StreamConstantsAssumption, Shape, NEW c \in Clients, ClientKept(c), ReplayFrame(c)
  PROVE  ClientKept(c)'
<1> DEFINE q == backlog[c]
           i == Head(q)
           B == BacklogIds(c)
<1>1. /\ conn[c] = "replay" /\ conn'[c] = IF Len(q) = 1 THEN "live" ELSE "replay"
      /\ backlog'[c] = Tail(q) /\ lastId'[c] = i /\ got'[c] = got[c] \cup {i}
      /\ UNCHANGED <<seq, cold, ring, queue, dropped, lost, told, late, breaks>>
  BY DEF ReplayFrame, Deliver, Shape
<1>2. /\ ClientTyped(c) /\ QueueKept(c) /\ BacklogKept(c) /\ Phase(c)
      /\ Between(cold, got[c], Accounted(c))
  BY DEF ClientKept
<1>3. /\ q \in Seq(Ids) /\ q # <<>> /\ B \subseteq cold /\ Ascends(q) /\ B = IdsOf(q)
  BY <1>1, <1>2 DEF BacklogKept, Ascends, BacklogIds, IdsOf
<1>4. /\ i \in B /\ \A b \in B : i <= b
      /\ IdsOf(Tail(q)) = B \ {i} /\ Ascends(Tail(q))
  BY <1>3, TailIds
<1>5. Tail(q) \in Seq(Ids) /\ Len(Tail(q)) = Len(q) - 1 /\ Len(q) \in Nat /\ Len(q) >= 1
  BY <1>3, TailOf
<1>6. Tail(q) = <<>> <=> Len(q) = 1
  <2>1. Tail(q) = <<>> <=> Len(Tail(q)) = 0
    BY <1>5, EmptySeq
  <2>2. Len(q) - 1 = 0 <=> Len(q) = 1
    BY <1>5
  <2> QED BY <1>5, <2>1, <2>2
<1>7. BacklogIds(c)' = B \ {i}
  BY <1>1, <1>4 DEF BacklogIds, IdsOf
<1>8. seq \in Nat /\ cold \in SUBSET Nat /\ cold \subseteq 1..seq /\ got[c] \in SUBSET Nat
  BY <1>2 DEF Shape, ClientTyped
<1> HIDE DEF q, i, B
<1>9. BacklogKept(c)'
  <2>1. \A j, k \in DOMAIN (backlog'[c]) : j < k => backlog'[c][j] < backlog'[c][k]
    BY <1>1, <1>4 DEF Ascends
  <2>2. conn'[c] = "replay" <=> backlog'[c] # <<>>
    BY <1>1, <1>6
  <2>3. B \ {i} \subseteq cold'
    BY <1>1, <1>3
  <2> QED BY <1>1, <1>5, <1>7, <2>1, <2>2, <2>3 DEF BacklogKept
<1>10. i \in 1..seq
  BY <1>3, <1>4, <1>8
<1>11. Accounted(c)' = Accounted(c) \cup {i}
  BY <1>1 DEF Accounted
<1>12. /\ Between(cold, got[c] \cup {i}, Accounted(c) \cup {i})
       /\ Following(cold, seq, Len(queue[c]), got[c] \cup {i}, Accounted(c) \cup {i}, lost[c], B \ {i})
  <2>1. Following(cold, seq, Len(queue[c]), got[c], Accounted(c), lost[c], B)
    BY <1>1, <1>2 DEF Phase, B
  <2>2. Len(queue[c]) \in Nat
    BY <1>2 DEF QueueKept
  <2>3. B \in SUBSET cold
    BY <1>3
  <2>4. Between(cold, got[c], Accounted(c))
    BY <1>2
  <2> QED BY ONLY <1>4, <1>8, <2>1, <2>2, <2>3, <2>4, FromBacklog
<1>13. ClientTyped(c)'
  BY <1>1, <1>2, <1>10 DEF ClientTyped, ConnStates
<1>14. QueueKept(c)'
  BY <1>1, <1>2 DEF QueueKept
<1>15. Phase(c)'
  <2>1. conn'[c] \in {"live", "replay"}
    BY <1>1
  <2>2. dropped[c] = 0 => lost[c] = {}
    BY <1>2 DEF Phase
  <2> QED BY <1>1, <1>7, <1>11, <1>12, <2>1, <2>2 DEF Phase
<1>16. Between(cold, got[c], Accounted(c))'
  BY <1>1, <1>11, <1>12
<1> QED BY <1>9, <1>13, <1>14, <1>15, <1>16 DEF ClientKept

\* A frame of the queue, when what was dropped is told or counts as late.
LEMMA QueueFrame ==
  ASSUME StreamConstantsAssumption, Shape, NEW c \in Clients, ClientKept(c),
         conn[c] \in {"live", "drain"}, queue[c] # <<>>, Deliver(c, Head(queue[c])),
         queue' = [queue EXCEPT ![c] = Tail(@)], UNCHANGED <<seq, cold, backlog, late>>,
         conn'[c] \in {"live", "drain"}, dropped'[c] \in Nat, told'[c] \subseteq Ids,
         told[c] \subseteq told'[c], lost[c] \subseteq told'[c] \cup late[c],
         lost'[c] \subseteq lost[c], conn'[c] = "drain" => lost'[c] \subseteq late[c],
         dropped'[c] = 0 => lost'[c] = {}
  PROVE  ClientKept(c)'
<1> DEFINE q == queue[c]
           i == Head(q)
           S2 == Accounted(c)'
<1>1. /\ queue'[c] = Tail(q) /\ lastId'[c] = i /\ got'[c] = got[c] \cup {i}
      /\ UNCHANGED <<seq, cold, backlog, late>>
  BY DEF Deliver, Shape
<1>2. /\ ClientTyped(c) /\ QueueKept(c) /\ BacklogKept(c) /\ Phase(c)
      /\ Between(cold, got[c], Accounted(c))
  BY DEF ClientKept
<1>3. seq \in Nat /\ cold \in SUBSET Nat /\ got[c] \in SUBSET Nat /\ got[c] \subseteq 1..seq
  BY <1>2 DEF Shape, ClientTyped
<1>4. q \in Seq(Ids) /\ Len(q) <= QueueSize /\ EndsWith(q, seq)
  BY <1>2 DEF QueueKept
<1>5. /\ Tail(q) \in Seq(Ids) /\ Len(Tail(q)) = Len(q) - 1 /\ EndsWith(Tail(q), seq)
      /\ Len(q) \in Nat /\ Len(q) >= 1
      /\ i = seq - Len(q) + 1 /\ i \in Ids /\ i <= seq
  BY <1>3, <1>4, QueueGives
<1>6. backlog[c] = <<>> /\ backlog'[c] = <<>> /\ BacklogIds(c) = {} /\ BacklogIds(c)' = {}
  BY <1>1, <1>2 DEF BacklogKept, BacklogIds
<1> HIDE DEF q, i, S2
<1>7. i \in 1..seq
  BY <1>3, <1>5 DEF Ids
<1>8. Accounted(c) \subseteq S2 /\ i \in S2 /\ lost[c] \subseteq S2 /\ lost'[c] \subseteq S2
  BY <1>1 DEF Accounted, S2
<1>9. /\ Between(cold, got[c] \cup {i}, S2)
      /\ Following(cold, seq, Len(q) - 1, got[c] \cup {i}, S2, lost'[c], {})
  <2>1. Following(cold, seq, Len(q), got[c], Accounted(c), lost[c], {})
    BY <1>2, <1>6 DEF Phase, q
  <2>2. Between(cold, got[c], Accounted(c))
    BY <1>2
  <2>3. seq - Len(q) + 1 \in S2 /\ Len(q) \in Nat /\ Len(q) >= 1
    BY <1>5, <1>8
  <2>4. seq - Len(q) + 1 = i
    BY <1>5
  <2>5. /\ Between(cold, got[c] \cup {seq - Len(q) + 1}, S2)
        /\ Following(cold, seq, Len(q) - 1, got[c] \cup {seq - Len(q) + 1}, S2, lost'[c], {})
    BY ONLY <1>3, <1>8, <2>1, <2>2, <2>3, FromQueue
  <2> QED BY ONLY <2>4, <2>5
<1>10. ClientTyped(c)'
  <2>1. got'[c] \subseteq 1..seq
    BY <1>1, <1>3, <1>7
  <2> QED BY <1>1, <1>2, <2>1 DEF ClientTyped, ConnStates
<1>11. QueueKept(c)'
  <2>1. Len(Tail(q)) <= QueueSize
    BY <1>4, <1>5 DEF StreamConstantsAssumption
  <2> QED BY <1>1, <1>5, <2>1 DEF QueueKept
<1>12. BacklogKept(c)'
  BY <1>6 DEF BacklogKept
<1>13. Phase(c)'
  BY <1>1, <1>5, <1>6, <1>9 DEF Phase, S2
<1>14. Between(cold, got[c], Accounted(c))'
  BY <1>1, <1>9 DEF S2
<1> QED BY <1>10, <1>11, <1>12, <1>13, <1>14 DEF ClientKept

LEMMA LiveKeeps ==
  ASSUME StreamConstantsAssumption, Shape, NEW c \in Clients, ClientKept(c), LiveFrame(c)
  PROVE  ClientKept(c)'
<1>1. /\ conn[c] \in {"live", "drain"} /\ conn'[c] \in {"live", "drain"} /\ queue[c] # <<>>
      /\ Deliver(c, Head(queue[c])) /\ queue' = [queue EXCEPT ![c] = Tail(@)]
      /\ UNCHANGED <<seq, cold, backlog, late>>
  BY DEF LiveFrame, Shape
<1>2. dropped[c] \in Nat /\ told[c] \subseteq Ids /\ lost[c] \subseteq Ids
  BY DEF ClientKept, ClientTyped
<1>3. /\ dropped'[c] = 0 /\ lost'[c] = {} /\ told[c] \subseteq told'[c]
      /\ lost[c] \subseteq told'[c] /\ told'[c] \subseteq Ids
  <2>1. CASE dropped[c] = 0 /\ UNCHANGED <<dropped, lost, told>>
    <3>1. lost[c] = {}
      BY <2>1 DEF ClientKept, Phase
    <3> QED BY <1>2, <2>1, <3>1
  <2>2. CASE /\ dropped[c] > 0 /\ dropped' = [dropped EXCEPT ![c] = 0]
             /\ lost' = [lost EXCEPT ![c] = {}] /\ told' = [told EXCEPT ![c] = @ \cup lost[c]]
    <3>1. dropped'[c] = 0 /\ lost'[c] = {} /\ told'[c] = told[c] \cup lost[c]
      BY <2>2 DEF Shape
    <3> QED BY <1>2, <3>1
  <2> QED BY <2>1, <2>2 DEF LiveFrame
<1>4. /\ dropped'[c] \in Nat /\ lost'[c] \subseteq lost[c] /\ lost[c] \subseteq told'[c] \cup late[c]
      /\ (conn'[c] = "drain" => lost'[c] \subseteq late[c]) /\ (dropped'[c] = 0 => lost'[c] = {})
  BY <1>3
<1> QED BY ONLY <1>1, <1>3, <1>4, StreamConstantsAssumption, Shape, ClientKept(c), c \in Clients, QueueFrame

LEMMA DrainKeeps ==
  ASSUME StreamConstantsAssumption, Shape, NEW c \in Clients, ClientKept(c), DrainFrame(c)
  PROVE  ClientKept(c)'
<1>1. /\ conn[c] \in {"live", "drain"} /\ conn'[c] \in {"live", "drain"} /\ queue[c] # <<>>
      /\ Deliver(c, Head(queue[c])) /\ queue' = [queue EXCEPT ![c] = Tail(@)]
      /\ UNCHANGED <<seq, cold, backlog, late>>
  BY DEF DrainFrame
<1>2. /\ dropped'[c] \in Nat /\ told'[c] = told[c] /\ told'[c] \subseteq Ids /\ lost'[c] = lost[c]
      /\ lost[c] \subseteq late[c] /\ (dropped'[c] = 0 => lost'[c] = {})
  BY DEF DrainFrame, ClientKept, ClientTyped, Phase
<1> QED BY ONLY <1>1, <1>2, StreamConstantsAssumption, Shape, ClientKept(c), c \in Clients, QueueFrame

\* A connection ends: what the client has was accounted for all along.
LEMMA ForgetKeeps ==
  ASSUME Shape, NEW c \in Clients, ClientKept(c), Forget(c),
         UNCHANGED <<seq, cold, ring, client, told, late>>
  PROVE  ClientKept(c)'
<1>1. /\ conn'[c] = "off" /\ backlog'[c] = <<>> /\ queue'[c] = <<>> /\ dropped'[c] = 0 /\ lost'[c] = {}
      /\ UNCHANGED <<seq, cold, lastId, got, told, late>>
  BY DEF Forget, Shape, client
<1>2. /\ ClientTyped(c) /\ QueueKept(c) /\ Between(cold, got[c], Accounted(c))
  BY DEF ClientKept
<1>3. ClientTyped(c)'
  BY <1>1, <1>2 DEF ClientTyped, ConnStates
<1>4. QueueKept(c)'
  <2>1. <<>> \in Seq(Ids) /\ Len(<<>>) = 0 /\ DOMAIN <<>> = {} /\ Len(queue[c]) \in Nat /\ Len(queue[c]) <= QueueSize
    BY <1>2 DEF QueueKept
  <2>2. 0 <= QueueSize
    BY StreamConstantsAssumption DEF StreamConstantsAssumption
  <2> QED BY <1>1, <2>1, <2>2 DEF QueueKept, EndsWith
<1>5. BacklogKept(c)'
  BY <1>1 DEF BacklogKept, BacklogIds
<1>6. Between(cold, got[c], Accounted(c))' /\ Phase(c)'
  BY <1>1, <1>2 DEF Accounted, Phase
<1> QED BY <1>3, <1>4, <1>5, <1>6 DEF ClientKept

-----------------------------------------------------------------------------
(* Every step *)

\* What a client does leaves the connections of the others alone.
ClientStep(c) == Connect(c) \/ Snapshot(c) \/ Send(c) \/ Disconnect(c)

LEMMA ShapeKept ==
  ASSUME StreamConstantsAssumption, StreamInv, NEW c \in Clients, ClientStep(c), ClientKept(c)'
  PROVE  Shape'
<1>1. /\ Shape /\ RingKept /\ UNCHANGED <<seq, cold, ring>>
  BY DEF StreamInv, ClientStep, Connect, Snapshot, Send, ReplayFrame, LiveFrame, DrainFrame,
         DrainEnd, Disconnect
<1>2. \A d \in Clients \ {c} :
         /\ conn'[d] = conn[d] /\ backlog'[d] = backlog[d] /\ queue'[d] = queue[d]
         /\ dropped'[d] = dropped[d] /\ lastId'[d] = lastId[d] /\ got'[d] = got[d]
         /\ lost'[d] = lost[d] /\ told'[d] = told[d] /\ late'[d] = late[d]
  <2>1. CASE Connect(c)
    BY <1>1, <2>1 DEF Connect, client, Shape
  <2>2. CASE Snapshot(c)
    BY <1>1, <2>2 DEF Snapshot, client, Shape
  <2>3. CASE ReplayFrame(c)
    BY <1>1, <2>3 DEF ReplayFrame, Deliver, Shape
  <2>4. CASE LiveFrame(c)
    BY <1>1, <2>4 DEF LiveFrame, Deliver, Shape
  <2>5. CASE DrainFrame(c)
    BY <1>1, <2>5 DEF DrainFrame, Deliver, Shape
  <2>6. CASE DrainEnd(c)
    BY <1>1, <2>6 DEF DrainEnd, Forget, client, Shape
  <2>7. CASE Disconnect(c)
    BY <1>1, <2>7 DEF Disconnect, Forget, client, Shape
  <2> QED BY <2>1, <2>2, <2>3, <2>4, <2>5, <2>6, <2>7 DEF ClientStep, Send
<1>3. /\ conn'[c] \in ConnStates /\ backlog'[c] \in Seq(Ids) /\ queue'[c] \in Seq(Ids)
      /\ dropped'[c] \in Nat /\ lastId'[c] \in 0..MaxEvents /\ got'[c] \in SUBSET Ids
      /\ lost'[c] \in SUBSET Ids /\ told'[c] \in SUBSET Ids /\ late'[c] \in SUBSET Ids
  <2>1. /\ ClientTyped(c)' /\ queue'[c] \in Seq(Ids) /\ backlog'[c] \in Seq(Ids)
    BY DEF ClientKept, QueueKept, BacklogKept
  <2>2. seq \in 0..MaxEvents /\ MaxEvents \in Nat /\ seq' = seq
    BY <1>1 DEF Shape, StreamConstantsAssumption
  <2>3. \A x \in 1..seq : x \in Ids /\ x \in 0..MaxEvents
    BY <2>2 DEF Ids
  <2>4. lastId'[c] \in 0..MaxEvents /\ got'[c] \in SUBSET Ids
    BY <2>1, <2>2, <2>3 DEF ClientTyped
  <2> QED BY <2>1, <2>4 DEF ClientTyped
<1>4. CASE Connect(c)
  BY <1>1, <1>3, <1>4 DEF Connect, client, Shape
<1>5. CASE Snapshot(c)
  BY <1>1, <1>3, <1>5 DEF Snapshot, client, Shape
<1>6. CASE ReplayFrame(c)
  BY <1>1, <1>3, <1>6 DEF ReplayFrame, Deliver, Shape
<1>7. CASE LiveFrame(c)
  BY <1>1, <1>3, <1>7 DEF LiveFrame, Deliver, Shape
<1>8. CASE DrainFrame(c)
  BY <1>1, <1>3, <1>8 DEF DrainFrame, Deliver, Shape
<1>9. CASE DrainEnd(c)
  BY <1>1, <1>3, <1>9 DEF DrainEnd, Forget, client, Shape
<1>10. CASE Disconnect(c)
  BY <1>1, <1>3, <1>10 DEF Disconnect, Forget, client, Shape, StreamConstantsAssumption
<1> QED BY <1>4, <1>5, <1>6, <1>7, <1>8, <1>9, <1>10 DEF ClientStep, Send

LEMMA ShapeHears ==
  ASSUME StreamConstantsAssumption, StreamInv, NEW isCold \in BOOLEAN, Broadcast(isCold),
         \A c \in Clients : ClientKept(c)'
  PROVE  Shape'
<1>1. /\ Shape /\ seq' = seq + 1 /\ seq' \in 0..MaxEvents /\ seq + 1 \in Ids
      /\ cold' = cold \/ cold' = cold \cup {seq + 1}
      /\ UNCHANGED <<conn, backlog, lastId, got, told, breaks>>
  <2>1. /\ Shape /\ seq < MaxEvents /\ seq' = seq + 1
        /\ cold' = cold \/ cold' = cold \cup {seq + 1}
        /\ UNCHANGED <<conn, backlog, lastId, got, told, breaks>>
    BY DEF Broadcast, client, StreamInv
  <2>2. seq \in 0..MaxEvents /\ MaxEvents \in Nat
    BY <2>1 DEF Shape, StreamConstantsAssumption
  <2>3. seq + 1 \in 0..MaxEvents /\ seq + 1 \in Ids
    BY <2>1, <2>2 DEF Ids
  <2> QED BY <2>1, <2>3
<1>2. cold' \subseteq 1..seq'
  <2>1. seq \in Nat /\ cold \subseteq 1..seq
    BY <1>1 DEF Shape, StreamConstantsAssumption
  <2>2. \A k \in 1..seq : k \in 1..(seq + 1)
    BY <2>1
  <2>3. seq + 1 \in 1..(seq + 1)
    BY <2>1
  <2> QED BY <1>1, <2>1, <2>2, <2>3
<1>3. \A c \in Clients : /\ queue'[c] \in Seq(Ids) /\ dropped'[c] \in Nat
                         /\ lost'[c] \in SUBSET Ids /\ late'[c] \in SUBSET Ids
  BY DEF ClientKept, ClientTyped, QueueKept
<1>4. /\ queue' \in [Clients -> Seq(Ids)] /\ dropped' \in [Clients -> Nat]
      /\ lost' \in [Clients -> SUBSET Ids] /\ late' \in [Clients -> SUBSET Ids]
  <2>1. queue' = [c \in Clients |-> queue'[c]]
    BY Zenon DEF Broadcast
  <2>2. dropped' = [c \in Clients |-> dropped'[c]]
    BY Zenon DEF Broadcast
  <2>3. lost' = [c \in Clients |-> lost'[c]]
    BY Zenon DEF Broadcast
  <2>4. late' = [c \in Clients |-> late'[c]]
    BY Zenon DEF Broadcast
  <2> QED BY <1>3, <2>1, <2>2, <2>3, <2>4
<1> QED BY <1>1, <1>2, <1>4 DEF Shape

\* The ring and the connections are kept by every step.
LEMMA StreamStep ==
  ASSUME StreamConstantsAssumption, StreamInv, [StreamNext]_streamVars
  PROVE  StreamInv'
<1>1. Shape /\ RingKept /\ \A c \in Clients : ClientKept(c)
  BY DEF StreamInv
<1>2. ASSUME NEW isCold \in BOOLEAN, Broadcast(isCold) PROVE StreamInv'
  <2>1. RingKept'
    BY <1>1, <1>2, RingRetains
  <2>2. \A c \in Clients : ClientKept(c)'
    BY <1>1, <1>2, ClientHears
  <2>3. Shape'
    BY <1>2, <2>2, ShapeHears
  <2> QED BY <2>1, <2>2, <2>3 DEF StreamInv
<1>3. ASSUME NEW c \in Clients, ClientStep(c), UNCHANGED <<seq, cold, ring>>, ClientKept(c)',
             \A d \in Clients \ {c} :
                /\ conn'[d] = conn[d] /\ backlog'[d] = backlog[d] /\ queue'[d] = queue[d]
                /\ dropped'[d] = dropped[d] /\ lastId'[d] = lastId[d] /\ got'[d] = got[d]
                /\ lost'[d] = lost[d] /\ told'[d] = told[d] /\ late'[d] = late[d]
      PROVE  StreamInv'
  <2>1. RingKept'
    BY <1>1, <1>3 DEF RingKept
  <2>2. ASSUME NEW d \in Clients PROVE ClientKept(d)'
    <3>1. CASE d = c
      BY <1>3, <3>1
    <3>2. CASE d # c
      <4>1. d \in Clients \ {c}
        BY <3>2
      <4> QED BY <1>1, <1>3, <4>1, ClientLeft
    <3> QED BY <3>1, <3>2
  <2>3. Shape'
    BY <1>3, ShapeKept
  <2> QED BY <2>1, <2>2, <2>3 DEF StreamInv
<1>4. ASSUME NEW c \in Clients, ClientStep(c) PROVE StreamInv'
  <2>1. CASE Connect(c)
    <3>1. ClientKept(c)'
      BY <1>1, <2>1, ConnectKeeps
    <3> QED BY <1>1, <1>3, <1>4, <2>1, <3>1 DEF Connect, client, Shape
  <2>2. CASE Snapshot(c)
    <3>1. ClientKept(c)'
      BY <1>1, <2>2, SnapshotKeeps
    <3> QED BY <1>1, <1>3, <1>4, <2>2, <3>1 DEF Snapshot, client, Shape
  <2>3. CASE ReplayFrame(c)
    <3>1. ClientKept(c)'
      BY <1>1, <2>3, ReplayKeeps
    <3> QED BY <1>1, <1>3, <1>4, <2>3, <3>1 DEF ReplayFrame, Deliver, Shape
  <2>4. CASE LiveFrame(c)
    <3>1. ClientKept(c)'
      BY <1>1, <2>4, LiveKeeps
    <3> QED BY <1>1, <1>3, <1>4, <2>4, <3>1 DEF LiveFrame, Deliver, Shape
  <2>5. CASE DrainFrame(c)
    <3>1. ClientKept(c)'
      BY <1>1, <2>5, DrainKeeps
    <3> QED BY <1>1, <1>3, <1>4, <2>5, <3>1 DEF DrainFrame, Deliver, Shape
  <2>6. CASE DrainEnd(c)
    <3>1. ClientKept(c)'
      BY <1>1, <2>6, ForgetKeeps DEF DrainEnd
    <3> QED BY <1>1, <1>3, <1>4, <2>6, <3>1 DEF DrainEnd, Forget, client, Shape
  <2>7. CASE Disconnect(c)
    <3>1. ClientKept(c)'
      BY <1>1, <2>7, ForgetKeeps DEF Disconnect
    <3> QED BY <1>1, <1>3, <1>4, <2>7, <3>1 DEF Disconnect, Forget, client, Shape
  <2> QED BY <1>4, <2>1, <2>2, <2>3, <2>4, <2>5, <2>6, <2>7 DEF ClientStep, Send
<1>5. CASE UNCHANGED streamVars
  <2>1. UNCHANGED <<seq, cold, ring, conn, backlog, queue, dropped, lastId, got, lost, told, late, breaks>>
    BY <1>5 DEF streamVars, client
  <2>2. \A c \in Clients : ClientKept(c)'
    BY <1>1, <2>1, ClientLeft
  <2> QED BY <1>1, <2>1, <2>2 DEF StreamInv, Shape, RingKept
<1> QED BY <1>2, <1>4, <1>5 DEF StreamNext, ClientStep, Quiet

\* Whatever the sizes of the ring and of the queues, as long as a queue is no
\* longer than the ring (256 and 300 in the code): an event that a client missed
\* between two that it has was announced to it, whenever it was disconnected,
\* overrun or replayed to, except for what overflows after a terminal frame.
THEOREM LossesTold == StreamSpec => [](StreamTypeOK /\ NoSilentLoss)
<1>1. StreamInv => StreamTypeOK
  BY DEF StreamInv, Shape, ConnStates, RingKept, ClientKept, QueueKept, StreamTypeOK
<1>2. StreamInv => NoSilentLoss
  <2> SUFFICES ASSUME StreamInv, NEW c \in Clients, NEW i \in cold \ (got[c] \cup told[c] \cup late[c]),
                      NEW g \in got[c], NEW h \in got[c], ~(g < i), ~(i < h)
               PROVE  FALSE
    BY DEF NoSilentLoss
  <2>1. Between(cold, got[c], Accounted(c)) /\ ClientTyped(c)
    BY DEF StreamInv, ClientKept
  <2>2. i \in Nat /\ g \in Nat /\ h \in Nat
    BY <2>1 DEF StreamInv, Shape, ClientTyped
  <2>3. h < i /\ i < g
    BY <2>2
  <2> QED BY <2>1, <2>3 DEF Between, Accounted
<1>3. StreamInit => StreamInv
  BY StreamConstantsAssumption, StreamInitInv
<1>4. StreamInv /\ [StreamNext]_streamVars => StreamInv'
  BY StreamConstantsAssumption, StreamStep
<1> QED BY <1>1, <1>2, <1>3, <1>4, PTL DEF StreamSpec

\* What was dropped and is not told yet has a frame behind it that will tell:
\* a queue overflows only when it is full, and stays so until it is told.
LossInQueue == \A c \in Clients : conn[c] # "drain" /\ lost[c] # {} => queue[c] # <<>>

LEMMA LossInQueueNext ==
  ASSUME StreamInv, LossInQueue, [StreamNext]_streamVars
  PROVE  LossInQueue'
<1> SUFFICES ASSUME NEW c \in Clients, conn[c]' # "drain", lost[c]' # {} PROVE queue[c]' # <<>>
  BY DEF LossInQueue
<1>1. /\ c \in DOMAIN conn /\ c \in DOMAIN lost /\ c \in DOMAIN queue
      /\ Phase(c) /\ queue[c] \in Seq(Ids)
  BY DEF StreamInv, Shape, ClientKept, QueueKept
<1>2. ASSUME NEW isCold \in BOOLEAN, Broadcast(isCold) PROVE queue[c]' # <<>>
  <2>1. CASE conn[c] = "off"
    BY <1>1, <1>2, <2>1 DEF Broadcast, Attached, LossInQueue
  <2>2. CASE conn[c] # "off"
    <3>1. queue[c]' = Append(IF Full(c) THEN Tail(queue[c]) ELSE queue[c], seq + 1)
      BY <1>2, <2>2 DEF Broadcast, Attached
    <3>2. Full(c) => queue[c] # <<>>
      BY StreamConstantsAssumption DEF Full, StreamConstantsAssumption
    <3>3. (IF Full(c) THEN Tail(queue[c]) ELSE queue[c]) \in Seq(Ids)
      BY <1>1, <3>2
    <3> QED BY <3>1, <3>3
  <2> QED BY <2>1, <2>2
<1>3. ASSUME NEW d \in Clients, ClientStep(d) PROVE queue[c]' # <<>>
  <2>1. CASE d # c
    <3>1. conn[c]' = conn[c] /\ lost[c]' = lost[c] /\ queue[c]' = queue[c]
      BY <1>1, <1>3, <2>1 DEF ClientStep, Send, Connect, Snapshot, ReplayFrame, LiveFrame,
           DrainFrame, DrainEnd, Disconnect, Forget, Shape, StreamInv
    <3> QED BY <3>1 DEF LossInQueue
  <2>2. CASE d = c
    <3>1. CASE Connect(c) \/ Snapshot(c) \/ ReplayFrame(c)
      BY <3>1 DEF Connect, Snapshot, ReplayFrame, LossInQueue
    <3>2. ~LiveFrame(c)
      <4>1. LiveFrame(c) => lost[c]' = {}
        BY <1>1 DEF LiveFrame, Phase
      <4> QED BY <4>1
    <3>3. ~DrainFrame(c)
      BY DEF DrainFrame
    <3>4. ~DrainEnd(c) /\ ~Disconnect(c)
      BY <1>1 DEF DrainEnd, Disconnect, Forget
    <3> QED BY <1>3, <2>2, <3>1, <3>2, <3>3, <3>4 DEF ClientStep, Send
  <2> QED BY <2>1, <2>2
<1>4. CASE UNCHANGED streamVars
  BY <1>4 DEF streamVars, LossInQueue
<1> QED BY <1>2, <1>3, <1>4 DEF StreamNext, ClientStep, Quiet

\* A connection that has nothing left to send owes nothing: every cold event
\* younger than one that its client has was received, or announced, or
\* dropped while the last frames of a turn were sent.  It is what CatchesUp
\* says of a connection once it is served; that it is, is a matter of fairness.
THEOREM NothingOwed ==
    StreamSpec =>
    [](\A c \in Clients : conn[c] \in {"live", "drain"} /\ queue[c] = <<>> =>
          \A i \in cold \ (got[c] \cup told[c] \cup late[c]) : \A g \in got[c] : i < g)
<1> DEFINE Owed == \A c \in Clients : conn[c] \in {"live", "drain"} /\ queue[c] = <<>> =>
                      \A i \in cold \ (got[c] \cup told[c] \cup late[c]) : \A g \in got[c] : i < g
<1>1. StreamInv /\ LossInQueue => Owed
  <2> SUFFICES ASSUME StreamInv, LossInQueue, NEW c \in Clients, conn[c] \in {"live", "drain"},
                      queue[c] = <<>>, NEW i \in cold \ (got[c] \cup told[c] \cup late[c]),
                      NEW g \in got[c], ~(i < g)
               PROVE  FALSE
    OBVIOUS
  <2>1. ClientKept(c) /\ Shape
    BY DEF StreamInv
  <2>2. g \in 1..seq /\ i \in 1..seq /\ seq \in Nat /\ i \notin Accounted(c)
    BY <2>1 DEF ClientKept, ClientTyped, Shape, Accounted
  <2>3. g < i /\ ~(i > seq - 0)
    BY <2>2 DEF Accounted
  <2>4. Len(queue[c]) = 0 /\ BacklogIds(c) = {}
    BY <2>1 DEF ClientKept, BacklogKept, BacklogIds
  <2>5. i \notin lost[c]
    BY <2>1, <2>2 DEF ClientKept, Phase, Accounted, LossInQueue
  <2>6. Following(cold, seq, 0, got[c], Accounted(c), lost[c], {})
    BY <2>1, <2>4 DEF ClientKept, Phase
  <2> QED BY <2>2, <2>3, <2>5, <2>6 DEF Following
<1>2. StreamInit => StreamInv /\ LossInQueue
  BY StreamConstantsAssumption, StreamInitInv DEF StreamInit, LossInQueue
<1>3. StreamInv /\ [StreamNext]_streamVars => StreamInv'
  BY StreamConstantsAssumption, StreamStep
<1>4. StreamInv /\ LossInQueue /\ [StreamNext]_streamVars => LossInQueue'
  BY LossInQueueNext
<1> HIDE DEF Owed
<1>5. StreamSpec => []Owed
  BY <1>1, <1>2, <1>3, <1>4, PTL DEF StreamSpec
<1> QED BY <1>5 DEF Owed

=============================================================================
