-------------------------- MODULE ConversationProofs --------------------------
(***************************************************************************)
(* Proofs about what a conversation with the agent consists of: the        *)
(* messages that go to the model (AgentTurns) and the frames that come to  *)
(* a browser over the channel of a subtab (Channels).                      *)
(*                                                                         *)
(* Every call in a request has an answer behind it and every answer a call *)
(* before it, whatever was stopped, killed or reset, for any numbers of    *)
(* turns, rounds, calls in a round, messages in the window and resets.     *)
(*                                                                         *)
(* The frames of a channel are in causal order, and a browser is told of   *)
(* every one it does not get, for any sizes of the buffers, of the ring    *)
(* and of the queue, in whatever relation, and any number of connections.  *)
(***************************************************************************)
EXTENDS AgentTurns, Channels, FiniteSetTheorems, SequenceTheorems, FunctionTheorems,
        WellFoundedInduction, TLAPS

-----------------------------------------------------------------------------
(* Numbers and sequences *)

\* Numbers are well-founded: a set of them has a smallest one.
Less == OpToRel(<, Nat)

LEMMA HasLeast ==
  ASSUME NEW T \in SUBSET Nat, T # {}
  PROVE  \E x \in T : \A y \in T : x <= y
<1>1. IsWellFoundedOn(Less, Nat)
  BY NatLessThanWellFounded DEF OpToRel, Less
<1>2. PICK x \in T : \A y \in T : <<y, x>> \notin Less
  BY <1>1, WFMin
<1>3. ASSUME NEW y \in T PROVE x <= y
  <2>1. x \in Nat /\ y \in Nat /\ <<y, x>> \notin Less
    BY <1>2
  <2> QED BY <2>1 DEF OpToRel, Less
<1> QED BY <1>3

\* A finite set of numbers has a greatest one too.
LEMMA HasGreatest ==
  ASSUME NEW n \in Nat, NEW T \in SUBSET (1..n), T # {}
  PROVE  \E x \in T : \A y \in T : y <= x
<1> DEFINE D == {n - y : y \in T}
<1>1. D \in SUBSET Nat /\ D # {}
  <2>1. \A y \in T : n - y \in Nat
    OBVIOUS
  <2> QED BY <2>1
<1>2. PICK d \in D : \A e \in D : d <= e
  BY <1>1, HasLeast
<1>3. PICK x \in T : d = n - x
  BY <1>2
<1>4. ASSUME NEW y \in T PROVE y <= x
  <2>1. n - y \in D /\ x \in 1..n /\ y \in 1..n
    OBVIOUS
  <2>2. d <= n - y
    BY <1>2, <2>1
  <2> QED BY <1>3, <2>1, <2>2
<1> QED BY <1>4

\* Sets of numbers below a bound are finite.
LEMMA PartFinite ==
  ASSUME NEW n \in Nat, NEW T \in SUBSET (1..n)
  PROVE  IsFiniteSet(T) /\ Cardinality(T) \in Nat
<1>1. IsFiniteSet(1..n)
  BY FS_Interval
<1>2. IsFiniteSet(T)
  BY <1>1, FS_Subset
<1> QED BY <1>2, FS_CardinalityType

\* Min finds the smallest number of a set.
LEMMA MinIs ==
  ASSUME NEW T \in SUBSET Nat, T # {}
  PROVE  Min(T) \in T /\ \A y \in T : Min(T) <= y
  BY HasLeast DEF Min

\* How far a queue is over its limit.
LEMMA MaxIs ==
  ASSUME NEW k \in Int
  PROVE  Max({0, k}) = IF k > 0 THEN k ELSE 0
<1> DEFINE m == IF k > 0 THEN k ELSE 0
<1>1. m \in {0, k} /\ \A y \in {0, k} : m >= y
  OBVIOUS
<1>2. \A x \in {0, k} : (\A y \in {0, k} : x >= y) => x = m
  BY <1>1
<1> HIDE DEF m
<1>3. Max({0, k}) = m
  BY <1>1, <1>2 DEF Max
<1> QED BY <1>3 DEF m

\* A function on 1..n is a sequence of n members.
LEMMA Enumerated ==
  ASSUME NEW S, NEW n \in Nat, NEW x \in [1..n -> S]
  PROVE  x \in Seq(S) /\ Len(x) = n /\ (x = <<>> <=> n = 0)
  OBVIOUS

JoinedBy(S, a, z) ==
    /\ a \o z \in Seq(S) /\ Len(a \o z) = Len(a) + Len(z)
    /\ \A k \in 1..Len(a) : (a \o z)[k] = a[k]
    /\ \A k \in 1..Len(z) : (a \o z)[Len(a) + k] = z[k]

\* Two sequences one after the other, member by member; the same with DOMAIN below.
LEMMA JoinedSeqs ==
  ASSUME NEW S, NEW a \in Seq(S), NEW z \in Seq(S)
  PROVE  JoinedBy(S, a, z)
  BY DEF JoinedBy

\* Every member of a concatenation is a member of one of its parts.
LEMMA JoinedIs ==
  ASSUME NEW S, NEW s \in Seq(S), NEW t \in Seq(S)
  PROVE  /\ s \o t \in Seq(S) /\ Len(s \o t) = Len(s) + Len(t)
         /\ \A k \in DOMAIN (s \o t) :
               \/ k \in DOMAIN s /\ (s \o t)[k] = s[k]
               \/ k - Len(s) \in DOMAIN t /\ (s \o t)[k] = t[k - Len(s)] /\ k > Len(s)
         /\ \A k \in DOMAIN s : k \in DOMAIN (s \o t) /\ (s \o t)[k] = s[k]
         /\ \A k \in DOMAIN t : Len(s) + k \in DOMAIN (s \o t) /\ (s \o t)[Len(s) + k] = t[k]
<1>1. Len(s) \in Nat /\ Len(t) \in Nat /\ DOMAIN s = 1..Len(s) /\ DOMAIN t = 1..Len(t)
  OBVIOUS
<1>2. /\ s \o t \in Seq(S) /\ Len(s \o t) = Len(s) + Len(t)
      /\ \A k \in 1..(Len(s) + Len(t)) : (s \o t)[k] = IF k <= Len(s) THEN s[k] ELSE t[k - Len(s)]
  OBVIOUS
<1> QED BY <1>1, <1>2

\* RemoveAt takes one member out and leaves the others in their order.
LEMMA RemoveAtIs ==
  ASSUME NEW S, NEW s \in Seq(S), NEW i \in DOMAIN s
  PROVE  /\ RemoveAt(s, i) \in Seq(S) /\ Len(RemoveAt(s, i)) = Len(s) - 1
         /\ \A k \in DOMAIN RemoveAt(s, i) :
               RemoveAt(s, i)[k] = IF k < i THEN s[k] ELSE s[k + 1]
<1> DEFINE a == SubSeq(s, 1, i - 1)
           z == SubSeq(s, i + 1, Len(s))
<1>1. i \in 1..Len(s) /\ Len(s) \in Nat
  OBVIOUS
<1>2. /\ a \in Seq(S) /\ Len(a) = i - 1
      /\ \A k \in 1..(i - 1) : a[k] = s[k]
  <2>1. \A k \in 1..(i - 1) : s[k] \in S
    BY <1>1
  <2> QED BY <1>1, <2>1, SubSeqProperties
<1>3. /\ z \in Seq(S) /\ Len(z) = Len(s) - i
      /\ \A k \in 1..(Len(s) - i) : z[k] = s[i + k]
  <2>1. \A k \in (i + 1)..Len(s) : s[k] \in S
    BY <1>1
  <2> QED BY <1>1, <2>1, SubSeqProperties
<1>4. RemoveAt(s, i) = a \o z
  BY DEF RemoveAt
<1> HIDE DEF a, z
<1>5. PICK x \in Seq(S), y \in Seq(S) : x = a /\ y = z
  BY <1>2, <1>3
<1>6. JoinedBy(S, x, y)
  BY JoinedSeqs
<1> DEFINE t == x \o y
<1>7. /\ t \in Seq(S) /\ Len(t) = Len(s) - 1 /\ DOMAIN t = 1..(Len(s) - 1)
      /\ \A k \in 1..(i - 1) : t[k] = s[k]
      /\ \A k \in 1..(Len(s) - i) : t[(i - 1) + k] = s[i + k]
  <2>1. Len(x) = i - 1 /\ Len(y) = Len(s) - i
    BY <1>2, <1>3, <1>5
  <2>2. t \in Seq(S) /\ Len(t) = Len(s) - 1
    BY <1>1, <1>6, <2>1 DEF JoinedBy
  <2>3. /\ \A k \in 1..(i - 1) : t[k] = s[k]
        /\ \A k \in 1..(Len(s) - i) : t[(i - 1) + k] = s[i + k]
    BY <1>2, <1>3, <1>5, <1>6, <2>1 DEF JoinedBy
  <2> HIDE DEF t
  <2> QED BY <2>2, <2>3
<1> HIDE DEF t
<1>8. ASSUME NEW k \in 1..(Len(s) - 1)
      PROVE  t[k] = IF k < i THEN s[k] ELSE s[k + 1]
  <2>1. CASE k < i
    <3>1. k \in 1..(i - 1)
      BY <1>1, <2>1
    <3> QED BY <1>7, <2>1, <3>1
  <2>2. CASE ~(k < i)
    <3>1. k - (i - 1) \in 1..(Len(s) - i) /\ i + (k - (i - 1)) = k + 1 /\ (i - 1) + (k - (i - 1)) = k
      BY <1>1, <2>2
    <3> QED BY <1>7, <2>2, <3>1
  <2> QED BY <2>1, <2>2
<1>9. RemoveAt(s, i) = t
  BY <1>4, <1>5 DEF t
<1> QED BY <1>7, <1>8, <1>9

\* What is left of a sequence without its first frames.
LEMMA CutIs ==
  ASSUME NEW S, NEW s \in Seq(S), NEW n \in Nat, n <= Len(s)
  PROVE  LET r == SubSeq(s, n + 1, Len(s)) IN
         r \in Seq(S) /\ Len(r) = Len(s) - n /\ \A k \in 1..Len(r) : r[k] = s[n + k]
<1> DEFINE u == n + 1
           l == Len(s)
           r == SubSeq(s, u, l)
<1>1. u \in Int /\ l \in Nat /\ l \in Int /\ l - u + 1 = l - n /\ (u <= l <=> n # l)
      /\ DOMAIN s = 1..l /\ \A k \in 1..(l - n) : u + k - 1 = n + k
  OBVIOUS
<1>2. \A k \in u..l : s[k] \in S
  <2>1. \A k \in u..l : k \in 1..l
    OBVIOUS
  <2> HIDE DEF u, l
  <2> QED BY <1>1, <2>1
<1> HIDE DEF u, l
<1>3. /\ r \in Seq(S) /\ Len(r) = IF u <= l THEN l - u + 1 ELSE 0
      /\ \A k \in 1..(l - u + 1) : r[k] = s[u + k - 1]
  BY <1>1, <1>2, SubSeqProperties
<1> HIDE DEF r
<1>4. Len(r) = l - n
  BY <1>1, <1>3
<1>5. \A k \in 1..(l - n) : r[k] = s[n + k]
  BY <1>1, <1>3
<1> QED BY <1>3, <1>4, <1>5 DEF r, l, u

-----------------------------------------------------------------------------
(* AgentTurns *)

\* The messages that a turn saves.
IsMessage(m) ==
    \/ m = User
    \/ \E ids \in SUBSET CallIds : m = Assistant(ids)
    \/ \E id \in CallIds : m = Tool(id)

MessagesOf(s) == \A i \in DOMAIN s : IsMessage(s[i])

IsTool(s, i) == s[i].role = "tool"

\* If the message at i is the one that tool messages up to j answer, it calls ids.
Covers(s, i, j, ids) ==
    (~IsTool(s, i) /\ \A k \in (i + 1)..(j - 1) : IsTool(s, k)) => ids \subseteq s[i].calls

\* A tool message answers the nearest message before it that is not one, if
\* the window or a reset has left it; that makes the order of a transcript
\* the order of each of its suffixes.
InOrder(s) ==
    \A j \in DOMAIN s : IsTool(s, j) => \A i \in 1..(j - 1) : Covers(s, i, j, {s[j].of})

\* Tool messages for ids may come next.
AtEnd(s, ids) == \A i \in DOMAIN s : Covers(s, i, Len(s) + 1, ids)

-----------------------------------------------------------------------------
(* Messages *)

\* The bounds are numbers.
LEMMA BoundsTyped ==
  /\ MaxTurns \in Nat /\ MaxRounds \in Nat /\ MaxRounds > 0 /\ MaxCalls \in Nat
  /\ HistoryLimit \in Nat /\ HistoryLimit > 0 /\ MaxErased \in Nat
  BY AgentTurnsAssumption

LEMMA NoIdCalled == NoId \notin CallIds
  BY BoundsTyped DEF NoId, CallIds

LEMMA CallsFinite == IsFiniteSet(CallIds)
<1>1. MaxTurns * MaxRounds \in Int /\ 0 \in Int /\ 1 \in Int /\ MaxCalls \in Int
  BY BoundsTyped
<1>2. IsFiniteSet(0..MaxTurns * MaxRounds) /\ IsFiniteSet(1..MaxCalls)
  BY <1>1, FS_Interval
<1> QED BY <1>2, FS_Product DEF CallIds

\* What the fields of a message say by its role.
LEMMA Shape ==
  ASSUME NEW m, IsMessage(m)
  PROVE  /\ m \in Message
         /\ m.role = "tool" => m.of \in CallIds /\ m.calls = {} /\ m = Tool(m.of)
         /\ m.role # "tool" => m.of = NoId /\ m.calls \subseteq CallIds
<1>1. CASE m = User
  BY <1>1 DEF User, Message
<1>2. ASSUME NEW ids \in SUBSET CallIds, m = Assistant(ids) PROVE m \in Message /\ m.role = "assistant" /\ m.of = NoId /\ m.calls = ids
  BY <1>2 DEF Assistant, Message
<1>3. ASSUME NEW id \in CallIds, m = Tool(id) PROVE m \in Message /\ m.role = "tool" /\ m.of = id /\ m.calls = {}
  BY <1>3 DEF Tool, Message
<1> QED BY <1>1, <1>2, <1>3 DEF IsMessage, User

\* The messages that a turn saves.
LEMMA SavedShapes ==
  /\ IsMessage(User) /\ User.role = "user"
  /\ \A ids \in SUBSET CallIds :
        IsMessage(Assistant(ids)) /\ Assistant(ids).role = "assistant" /\ Assistant(ids).calls = ids
  /\ \A id \in CallIds : IsMessage(Tool(id)) /\ Tool(id).role = "tool" /\ Tool(id).of = id
  BY DEF IsMessage, User, Assistant, Tool

\* Nothing said yet is in order.
LEMMA EmptySound ==
  /\ <<>> \in Seq(Message) /\ <<>> \in Seq(CallIds) /\ MessagesOf(<<>>) /\ InOrder(<<>>)
  /\ \A ids : AtEnd(<<>>, ids)
  BY DEF MessagesOf, InOrder, AtEnd

\* A message more is a list of messages.
LEMMA AppendSound ==
  ASSUME NEW s \in Seq(Message), MessagesOf(s), NEW m, IsMessage(m)
  PROVE  Append(s, m) \in Seq(Message) /\ MessagesOf(Append(s, m))
<1>1. m \in Message
  BY Shape
<1> QED BY <1>1 DEF MessagesOf

\* An answer keeps the order when its call is in the open round at the end.
LEMMA AppendInOrder ==
  ASSUME NEW s \in Seq(Message), InOrder(s), NEW m \in Message,
         m.role = "tool" => AtEnd(s, {m.of})
  PROVE  InOrder(Append(s, m))
<1> DEFINE t == Append(s, m)
<1>1. /\ Len(s) \in Nat /\ DOMAIN s = 1..Len(s)
      /\ DOMAIN t = 1..(Len(s) + 1) /\ t[Len(s) + 1] = m
      /\ \A i \in 1..Len(s) : t[i] = s[i]
  OBVIOUS
<1> HIDE DEF t
<1>2. ASSUME NEW j \in DOMAIN t, IsTool(t, j), NEW i \in 1..(j - 1)
      PROVE  Covers(t, i, j, {t[j].of})
  <2>1. i \in DOMAIN s /\ t[i] = s[i] /\ \A k \in (i + 1)..(j - 1) : t[k] = s[k]
    BY <1>1
  <2>2. CASE j \in DOMAIN s
    <3>1. t[j] = s[j] /\ Covers(s, i, j, {s[j].of})
      BY <1>1, <1>2, <2>2 DEF InOrder, IsTool
    <3> QED BY <2>1, <3>1 DEF Covers, IsTool
  <2>3. CASE j = Len(s) + 1
    <3>1. t[j] = m /\ Covers(s, i, j, {m.of})
      BY <1>1, <1>2, <2>1, <2>3 DEF AtEnd, IsTool
    <3> QED BY <2>1, <3>1 DEF Covers, IsTool
  <2> QED BY <1>1, <2>2, <2>3
<1>3. InOrder(t)
  BY <1>2 DEF InOrder
<1> QED BY <1>3 DEF t

\* Calls at the end stay there when an answer follows, and a round with calls begins a new end.
LEMMA AppendAtEnd ==
  ASSUME NEW s \in Seq(Message), NEW m \in Message, NEW ids,
         IF m.role = "tool" THEN AtEnd(s, ids) ELSE ids \subseteq m.calls
  PROVE  AtEnd(Append(s, m), ids)
<1> DEFINE t == Append(s, m)
<1>1. /\ Len(s) \in Nat /\ DOMAIN s = 1..Len(s) /\ Len(t) = Len(s) + 1
      /\ DOMAIN t = 1..(Len(s) + 1) /\ t[Len(s) + 1] = m
      /\ \A i \in 1..Len(s) : t[i] = s[i]
  OBVIOUS
<1> HIDE DEF t
<1>2. ASSUME NEW i \in DOMAIN t PROVE Covers(t, i, Len(t) + 1, ids)
  <2>1. CASE i = Len(s) + 1
    BY <1>1, <2>1 DEF Covers, IsTool
  <2>2. CASE i \in DOMAIN s /\ m.role = "tool"
    <3>1. Covers(s, i, Len(s) + 1, ids) /\ t[i] = s[i]
      BY <1>1, <2>2 DEF AtEnd
    <3>2. \A k \in (i + 1)..(Len(s) + 1 - 1) : k \in (i + 1)..(Len(t) + 1 - 1) /\ t[k] = s[k]
      BY <1>1, <2>2
    <3> QED BY <3>1, <3>2 DEF Covers, IsTool
  <2>3. CASE i \in DOMAIN s /\ m.role # "tool"
    <3>1. Len(s) + 1 \in (i + 1)..(Len(t) + 1 - 1)
      BY <1>1, <2>3
    <3> QED BY <1>1, <2>3, <3>1 DEF Covers, IsTool
  <2> QED BY <1>1, <2>1, <2>2, <2>3
<1>3. AtEnd(t, ids)
  BY <1>2 DEF AtEnd
<1> QED BY <1>3 DEF t

LEMMA FewerAtEnd ==
  ASSUME NEW s, NEW ids, NEW some \in SUBSET ids, AtEnd(s, ids)
  PROVE  AtEnd(s, some)
  BY DEF AtEnd, Covers

\* A window into messages in order is in order, wherever it begins.
LEMMA SuffixSound ==
  ASSUME NEW s \in Seq(Message), MessagesOf(s), NEW n \in Nat, n > 0
  PROVE  LET t == SubSeq(s, n, Len(s)) IN
         t \in Seq(Message) /\ MessagesOf(t) /\ (InOrder(s) => InOrder(t))
<1> DEFINE t == SubSeq(s, n, Len(s))
<1>0. Len(s) \in Nat /\ DOMAIN s = 1..Len(s)
  OBVIOUS
<1>1. /\ t \in Seq(Message)
      /\ \A i \in DOMAIN t : i \in Nat /\ i > 0 /\ t[i] = s[i + n - 1] /\ i + n - 1 \in DOMAIN s
      /\ \A i \in DOMAIN t : \A k \in 1..i : k \in DOMAIN t
  <2>1. CASE n > Len(s)
    <3>1. t = <<>>
      BY <1>0, <2>1
    <3> QED BY <3>1
  <2>2. CASE n <= Len(s)
    <3>1. t \in Seq(Message) /\ Len(t) = Len(s) - n + 1 /\ \A i \in 1..(Len(s) - n + 1) : t[i] = s[n + i - 1]
      BY <1>0, <2>2, SubSeqProperties
    <3>2. DOMAIN t = 1..(Len(s) - n + 1)
      BY <3>1
    <3> HIDE DEF t
    <3>3. ASSUME NEW i \in DOMAIN t
          PROVE  /\ i \in Nat /\ i > 0 /\ t[i] = s[i + n - 1] /\ i + n - 1 \in DOMAIN s
                 /\ \A k \in 1..i : k \in DOMAIN t
      <4>1. i \in 1..(Len(s) - n + 1)
        BY <3>2
      <4>2. t[i] = s[n + i - 1]
        BY <3>1, <4>1
      <4>3. i \in Nat /\ i > 0 /\ n + i - 1 = i + n - 1 /\ i + n - 1 \in 1..Len(s)
        BY <1>0, <2>2, <4>1
      <4>4. \A k \in 1..i : k \in 1..(Len(s) - n + 1)
        BY <1>0, <2>2, <4>1
      <4> QED BY <1>0, <3>2, <4>2, <4>3, <4>4
    <3> QED BY <3>1, <3>3
  <2> QED BY <1>0, <2>1, <2>2
<1> HIDE DEF t
<1>2. MessagesOf(t)
  BY <1>1 DEF MessagesOf
<1>3. ASSUME InOrder(s), NEW j \in DOMAIN t, IsTool(t, j), NEW i \in 1..(j - 1)
      PROVE  Covers(t, i, j, {t[j].of})
  <2> DEFINE x == i + n - 1
             y == j + n - 1
  <2>0. j \in Nat /\ j > 0 /\ i \in 1..j /\ i \in Nat /\ i < j
    BY <1>1
  <2>1. /\ i \in DOMAIN t /\ t[i] = s[x] /\ t[j] = s[y] /\ y \in DOMAIN s
        /\ x \in Nat /\ y \in Nat /\ x \in 1..(y - 1)
    <3>1. i \in DOMAIN t
      BY <1>1, <2>0
    <3>2. t[i] = s[x] /\ t[j] = s[y] /\ y \in DOMAIN s
      BY <1>1, <3>1
    <3>3. x \in Nat /\ y \in Nat /\ x \in 1..(y - 1)
      BY <2>0
    <3> QED BY <3>1, <3>2, <3>3
  <2>2. Covers(s, x, y, {s[y].of})
    BY <1>3, <2>1 DEF InOrder, IsTool
  <2>3. ASSUME NEW k \in (x + 1)..(y - 1)
        PROVE  /\ k - n + 1 \in (i + 1)..(j - 1)
               /\ t[k - n + 1] = s[k]
    <3>1. k - n + 1 \in (i + 1)..(j - 1) /\ k - n + 1 \in 1..j /\ (k - n + 1) + n - 1 = k
      BY <2>0
    <3>2. k - n + 1 \in DOMAIN t
      BY <1>1, <3>1
    <3>3. t[k - n + 1] = s[(k - n + 1) + n - 1]
      BY <1>1, <3>2
    <3> QED BY <3>1, <3>3
  <2>4. (\A k \in (i + 1)..(j - 1) : IsTool(t, k)) => \A k \in (x + 1)..(y - 1) : IsTool(s, k)
    BY <2>3 DEF IsTool
  <2> QED BY <2>1, <2>2, <2>4 DEF Covers, IsTool
<1>4. InOrder(s) => InOrder(t)
  BY <1>3 DEF InOrder
<1> QED BY <1>1, <1>2, <1>4 DEF t

-----------------------------------------------------------------------------
(* Nearest messages, and sets laid out as sequences *)

\* Whatever follows a message that is not one of a tool has a nearest one.
LEMMA NearestIs ==
  ASSUME NEW s \in Seq(Message), NEW j \in Nat, NEW i0 \in 1..(j - 1), ~IsTool(s, i0)
  PROVE  \E i \in 1..(j - 1) : ~IsTool(s, i) /\ \A k \in (i + 1)..(j - 1) : IsTool(s, k)
<1> DEFINE T == {d \in 1..(j - 1) : ~IsTool(s, j - d)}
<1>1. T \in SUBSET Nat /\ T # {}
  <2>1. j - i0 \in 1..(j - 1) /\ j - (j - i0) = i0
    OBVIOUS
  <2>2. j - i0 \in T
    BY <2>1
  <2>3. \A d \in 1..(j - 1) : d \in Nat
    OBVIOUS
  <2>4. T \in SUBSET Nat
    BY <2>3
  <2> QED BY <2>2, <2>4
<1>2. PICK d \in T : \A e \in T : d <= e
  BY <1>1, HasLeast
<1>3. j - d \in 1..(j - 1) /\ ~IsTool(s, j - d) /\ d \in Nat
  BY <1>2
<1>4. ASSUME NEW k \in ((j - d) + 1)..(j - 1) PROVE IsTool(s, k)
  <2>1. j - k \in 1..(j - 1) /\ j - (j - k) = k /\ ~(d <= j - k)
    BY <1>3
  <2>2. j - k \notin T
    BY <1>2, <2>1
  <2> QED BY <2>1, <2>2
<1> QED BY <1>3, <1>4

\* SetToSeq lists every member of a finite set.
LEMMA SetToSeqIs ==
  ASSUME NEW S, IsFiniteSet(S)
  PROVE  /\ SetToSeq(S) \in Seq(S)
         /\ \A x \in S : \E i \in DOMAIN SetToSeq(S) : SetToSeq(S)[i] = x
<1> DEFINE n == Cardinality(S)
           f == SetToSeq(S)
<1>1. n \in Nat /\ ExistsBijection(1..n, S)
  BY FS_CardinalityType
<1>2. PICK g : g \in Bijection(1..n, S)
  BY <1>1 DEF ExistsBijection
<1>3. g \in [1..n -> S] /\ IsInjective(g)
  BY <1>2 DEF Bijection, Injection
<1>4. f \in [1..n -> S] /\ IsInjective(f)
  BY <1>3 DEF SetToSeq
<1> HIDE DEF f
<1>5. f \in Injection(1..n, S)
  BY <1>4 DEF Injection
<1>6. IsFiniteSet(1..n) /\ Cardinality(1..n) = n
  <2>1. /\ IsFiniteSet(1..n)
        /\ Cardinality(1..n) = IF 1 > n THEN 0 ELSE n - 1 + 1
    BY <1>1, FS_Interval
  <2> HIDE DEF n
  <2> QED BY <1>1, <2>1
<1>7. f \in Surjection(1..n, S)
  BY <1>5, <1>6, FS_Injection
<1>8. \A x \in S : \E i \in 1..n : f[i] = x
  BY <1>7 DEF Surjection
<1>9. f \in Seq(S) /\ DOMAIN f = 1..n
  BY <1>1, <1>4
<1> QED BY <1>8, <1>9 DEF f

-----------------------------------------------------------------------------
(* sanitize_openai_messages *)

\* Every call has an answer behind it.
CallsAnswered(r) ==
    \A i \in DOMAIN r : \A id \in r[i].calls : \E j \in (i + 1)..Len(r) : r[j] = Tool(id)

\* Every answer has a call before it.
AnswersCalled(r) ==
    \A j \in DOMAIN r : r[j].role = "tool" => \E i \in 1..(j - 1) : r[j].of \in r[i].calls

\* Calls without an answer are finitely many.
LEMMA DanglingIs ==
  ASSUME NEW s \in Seq(Message), MessagesOf(s)
  PROVE  Dangling(s) \in SUBSET CallIds /\ IsFiniteSet(Dangling(s))
<1>1. Dangling(s) \in SUBSET CallIds
  BY Shape DEF Dangling, MessagesOf
<1> QED BY <1>1, CallsFinite, FS_Subset

\* What the transcript looks like once the made-up answers are behind it.
LEMMA Completed ==
  ASSUME NEW s \in Seq(Message), MessagesOf(s), InOrder(s),
         NEW ids, ids = SetToSeq(Dangling(s)),
         NEW t, t = s \o [i \in DOMAIN ids |-> Tool(ids[i])]
  PROVE  /\ t \in Seq(Message) /\ MessagesOf(t) /\ CallsAnswered(t)
         /\ \A j \in DOMAIN t : IsTool(t, j) /\ (\E i \in 1..(j - 1) : ~IsTool(t, i)) =>
               \E i \in 1..(j - 1) : t[j].of \in t[i].calls
<1> DEFINE made == [i \in DOMAIN ids |-> Tool(ids[i])]
           L == Len(s)
<1>1. /\ ids \in Seq(CallIds)
      /\ \A i \in DOMAIN ids : ids[i] \in Dangling(s)
      /\ \A id \in Dangling(s) : \E i \in DOMAIN ids : ids[i] = id
  <2>1. /\ ids \in Seq(Dangling(s)) /\ Dangling(s) \in SUBSET CallIds
        /\ \A id \in Dangling(s) : \E i \in DOMAIN ids : ids[i] = id
    BY DanglingIs, SetToSeqIs
  <2> QED BY <2>1
<1>2. made \in Seq(Message) /\ Len(made) = Len(ids) /\ Len(ids) \in Nat /\ DOMAIN ids = 1..Len(ids)
  <2>1. \A i \in DOMAIN ids : IsMessage(Tool(ids[i]))
    BY <1>1, SavedShapes
  <2>2. \A i \in DOMAIN ids : Tool(ids[i]) \in Message
    BY <2>1, Shape
  <2>3. Len(ids) \in Nat /\ DOMAIN ids = 1..Len(ids)
    BY <1>1
  <2>4. made \in [1..Len(ids) -> Message]
    BY <2>2, <2>3
  <2> HIDE DEF made
  <2>5. made \in Seq(Message) /\ Len(made) = Len(ids)
    BY <2>3, <2>4, Enumerated
  <2> QED BY <2>3, <2>5
<1>3. /\ L \in Nat /\ DOMAIN s = 1..L /\ t \in Seq(Message)
      /\ Len(t) = L + Len(ids) /\ DOMAIN t = 1..(L + Len(ids))
      /\ \A i \in 1..L : t[i] = s[i]
      /\ \A i \in 1..Len(ids) : t[L + i] = Tool(ids[i])
  <2>1. L \in Nat /\ DOMAIN s = 1..L
    OBVIOUS
  <2>2. t = s \o made
    OBVIOUS
  <2>3. \A i \in 1..Len(ids) : made[i] = Tool(ids[i])
    BY <1>2
  <2> HIDE DEF made
  <2>4. /\ t \in Seq(Message) /\ Len(t) = L + Len(ids)
        /\ \A i \in 1..L : t[i] = s[i]
        /\ \A i \in 1..Len(ids) : t[L + i] = made[i]
    <3>1. made \in Seq(Message) /\ Len(made) = Len(ids)
      BY <1>2
    <3>2. PICK b \in Seq(Message) : b = made
      BY <3>1
    <3>3. JoinedBy(Message, s, b)
      BY JoinedSeqs
    <3> QED BY <2>2, <3>1, <3>2, <3>3 DEF JoinedBy
  <2>5. DOMAIN t = 1..(L + Len(ids))
    BY <2>4
  <2> QED BY <2>1, <2>3, <2>4, <2>5
<1>4. ASSUME NEW i \in DOMAIN t
      PROVE  \/ i \in DOMAIN s /\ t[i] = s[i]
             \/ \E k \in 1..Len(ids) : i = L + k /\ t[i] = Tool(ids[k])
  <2>1. i \in 1..L \/ i - L \in 1..Len(ids)
    BY <1>2, <1>3
  <2>2. CASE i \in 1..L
    BY <1>3, <2>2
  <2>3. CASE i - L \in 1..Len(ids)
    <3>1. i = L + (i - L)
      BY <1>3
    <3> QED BY <1>3, <2>3, <3>1
  <2> QED BY <2>1, <2>2, <2>3
<1> HIDE DEF made, L
<1>5. MessagesOf(t)
  <2>1. ASSUME NEW i \in DOMAIN t PROVE IsMessage(t[i])
    <3>1. CASE i \in DOMAIN s /\ t[i] = s[i]
      BY <3>1 DEF MessagesOf
    <3>2. ASSUME NEW k \in 1..Len(ids), t[i] = Tool(ids[k]) PROVE IsMessage(t[i])
      BY <1>1, <1>2, <3>2, SavedShapes
    <3> QED BY <1>4, <3>1, <3>2
  <2> QED BY <2>1 DEF MessagesOf
<1>6. CallsAnswered(t)
  <2>1. ASSUME NEW i \in DOMAIN t, NEW id \in t[i].calls
        PROVE  \E j \in (i + 1)..Len(t) : t[j] = Tool(id)
    <3>1. i \in DOMAIN s /\ t[i] = s[i]
      <4>1. ASSUME NEW k \in 1..Len(ids), t[i] = Tool(ids[k]) PROVE FALSE
        BY <2>1, <4>1 DEF Tool
      <4> QED BY <1>4, <4>1
    <3>2. id \in CallIds
      <4>1. IsMessage(s[i])
        BY <3>1 DEF MessagesOf
      <4> QED BY <2>1, <3>1, <4>1, Shape
    <3>3. CASE id \in Dangling(s)
      <4>1. PICK k \in DOMAIN ids : ids[k] = id
        BY <1>1, <3>3
      <4>2. L + k \in (i + 1)..Len(t)
        BY <1>2, <1>3, <3>1
      <4> QED BY <1>2, <1>3, <4>1, <4>2
    <3>4. CASE id \notin Dangling(s)
      <4>1. PICK j \in (i + 1)..Len(s) : s[j].of = id
        <5>1. SUFFICES ASSUME \A j \in (i + 1)..Len(s) : s[j].of # id PROVE FALSE
          OBVIOUS
        <5>2. id \in {x \in s[i].calls : \A j \in (i + 1)..Len(s) : s[j].of # x}
          BY <2>1, <3>1, <5>1
        <5> QED BY <3>1, <3>4, <5>2 DEF Dangling
      <4>2. j \in DOMAIN s /\ t[j] = s[j] /\ j \in (i + 1)..Len(t)
        BY <1>2, <1>3, <3>1 DEF L
      <4>3. IsMessage(s[j])
        BY <4>2 DEF MessagesOf
      <4>4. s[j] = Tool(id)
        BY <3>2, <4>1, <4>3, Shape, NoIdCalled
      <4> QED BY <4>2, <4>4
    <3> QED BY <3>3, <3>4
  <2> QED BY <2>1 DEF CallsAnswered
<1>7. ASSUME NEW j \in DOMAIN t, IsTool(t, j), NEW i0 \in 1..(j - 1), ~IsTool(t, i0)
      PROVE  \E i \in 1..(j - 1) : t[j].of \in t[i].calls
  <2>1. CASE j \in DOMAIN s /\ t[j] = s[j]
    <3>1. j \in Nat /\ \A i \in 1..(j - 1) : i \in 1..L /\ t[i] = s[i]
      BY <1>3, <2>1
    <3>2. ~IsTool(s, i0) /\ IsTool(s, j)
      BY <1>7, <2>1, <3>1 DEF IsTool
    <3>3. PICK i \in 1..(j - 1) : ~IsTool(s, i) /\ \A k \in (i + 1)..(j - 1) : IsTool(s, k)
      BY <3>1, <3>2, NearestIs
    <3>4. Covers(s, i, j, {s[j].of})
      BY <2>1, <3>2 DEF InOrder
    <3>5. s[j].of \in s[i].calls
      BY <3>3, <3>4 DEF Covers
    <3> QED BY <2>1, <3>1, <3>5
  <2>2. ASSUME NEW k \in 1..Len(ids), j = L + k, t[j] = Tool(ids[k])
        PROVE  \E i \in 1..(j - 1) : t[j].of \in t[i].calls
    <3>1. ids[k] \in Dangling(s) /\ t[j].of = ids[k]
      <4>1. ids[k] \in Dangling(s)
        BY <1>1, <1>2
      <4>2. Tool(ids[k]).of = ids[k]
        BY DEF Tool
      <4> QED BY <2>2, <4>1, <4>2
    <3>2. PICK i \in DOMAIN s : ids[k] \in s[i].calls
      BY <3>1 DEF Dangling
    <3>3. i \in 1..(j - 1) /\ t[i] = s[i]
      BY <1>2, <1>3, <2>2
    <3> QED BY <3>1, <3>2, <3>3
  <2> QED BY <1>4, <2>1, <2>2
<1> QED BY <1>3, <1>5, <1>6, <1>7

\* The repair before a request leaves no call without an answer and no answer without a call.
LEMMA SanitizedSound ==
  ASSUME NEW s \in Seq(Message), MessagesOf(s), InOrder(s)
  PROVE  CallsAnswered(Sanitized(s)) /\ AnswersCalled(Sanitized(s))
<1> DEFINE ids == SetToSeq(Dangling(s))
           t == s \o [i \in DOMAIN ids |-> Tool(ids[i])]
           kept == {i \in DOMAIN t : t[i].role # "tool"}
           r == IF kept = {} THEN <<>> ELSE SubSeq(t, Min(kept), Len(t))
<1>1. r = Sanitized(s)
  BY DEF Sanitized, WithoutOrphans
<1>2. /\ t \in Seq(Message) /\ MessagesOf(t) /\ CallsAnswered(t)
      /\ \A j \in DOMAIN t : IsTool(t, j) /\ (\E i \in 1..(j - 1) : ~IsTool(t, i)) =>
            \E i \in 1..(j - 1) : t[j].of \in t[i].calls
  BY Completed
<1> HIDE DEF t
<1>3. CASE kept = {}
  <2>1. r = <<>>
    BY <1>3
  <2> HIDE DEF r
  <2> QED BY <1>1, <2>1 DEF CallsAnswered, AnswersCalled
<1>4. CASE kept # {}
  <2> DEFINE m == Min(kept)
  <2>1. /\ Len(t) \in Nat /\ DOMAIN t = 1..Len(t) /\ kept \in SUBSET Nat
    BY <1>2
  <2>2. m \in kept /\ \A y \in kept : m <= y
    BY <1>4, <2>1, MinIs
  <2>3. r = SubSeq(t, m, Len(t))
    BY <1>4
  <2>4. m \in DOMAIN t /\ ~IsTool(t, m) /\ \A y \in DOMAIN t : ~IsTool(t, y) => m <= y
    BY <2>2 DEF IsTool
  <2> HIDE DEF kept, r, m
  <2>5. m \in Int /\ m > 0 /\ m <= Len(t)
    BY <2>1, <2>4
  <2>6. /\ Len(r) = Len(t) - m + 1
        /\ \A i \in 1..(Len(t) - m + 1) : r[i] = t[m + i - 1]
        /\ r \in Seq(Message)
    BY <1>2, <2>1, <2>3, <2>5, SubSeqProperties
  <2>7. DOMAIN r = 1..(Len(t) - m + 1)
    BY <2>6
  <2>8. ASSUME NEW i \in DOMAIN t, m <= i
        PROVE  i - m + 1 \in DOMAIN r /\ r[i - m + 1] = t[i]
    <3>1. i - m + 1 \in 1..(Len(t) - m + 1) /\ m + (i - m + 1) - 1 = i
      BY <2>1, <2>5, <2>8
    <3> QED BY <2>6, <2>7, <3>1
  <2>9. ASSUME NEW i \in DOMAIN r
        PROVE  i \in Int /\ m + i - 1 \in DOMAIN t /\ r[i] = t[m + i - 1]
    BY <2>1, <2>5, <2>6, <2>7
  <2>10. CallsAnswered(r)
    <3>1. ASSUME NEW i \in DOMAIN r, NEW id \in r[i].calls
          PROVE  \E j \in (i + 1)..Len(r) : r[j] = Tool(id)
      <4>1. i \in Int /\ m + i - 1 \in DOMAIN t /\ id \in t[m + i - 1].calls
        BY <2>9, <3>1
      <4>2. PICK j \in ((m + i - 1) + 1)..Len(t) : t[j] = Tool(id)
        BY <1>2, <4>1 DEF CallsAnswered
      <4>3. j \in DOMAIN t /\ m <= j /\ j - m + 1 \in (i + 1)..Len(r)
        BY <2>1, <2>5, <2>6, <2>7, <4>1, <4>2
      <4> QED BY <2>8, <4>2, <4>3
    <3> QED BY <3>1 DEF CallsAnswered
  <2>11. AnswersCalled(r)
    <3>1. ASSUME NEW j \in DOMAIN r, r[j].role = "tool"
          PROVE  \E i \in 1..(j - 1) : r[j].of \in r[i].calls
      <4> DEFINE y == m + j - 1
      <4>1. y \in DOMAIN t /\ r[j] = t[y] /\ IsTool(t, y) /\ j \in Int /\ y \in Int
        BY <2>5, <2>9, <3>1 DEF IsTool
      <4>2. m # y
        BY <2>4, <4>1
      <4>3. m \in 1..(y - 1)
        BY <2>5, <2>7, <3>1, <4>1, <4>2
      <4> HIDE DEF y
      <4>4. PICK i \in 1..(y - 1) : t[y].of \in t[i].calls
        BY <1>2, <2>4, <4>1, <4>3
      <4>5. i \in DOMAIN t
        BY <2>1, <4>1
      <4>6. ~IsTool(t, i)
        <5>1. IsMessage(t[i])
          BY <1>2, <4>5 DEF MessagesOf
        <5> QED BY <4>4, <5>1, Shape DEF IsTool
      <4>7. m <= i
        BY <2>4, <4>5, <4>6
      <4>8. i - m + 1 \in 1..(j - 1)
        BY <2>5, <4>1, <4>7 DEF y
      <4> QED BY <2>8, <4>1, <4>4, <4>5, <4>7, <4>8
    <3> QED BY <3>1 DEF AnswersCalled
  <2> QED BY <1>1, <2>10, <2>11
<1> QED BY <1>3, <1>4

-----------------------------------------------------------------------------
(* The turns *)

\* Each answer with tool calls has used up a round of its own.
UpTo(t) == t * MaxRounds

RoundsUsed ==
    /\ turnPc = "idle" => answers <= UpTo(turns)
    /\ turnPc # "idle" => answers + MaxRounds <= UpTo(turns) + turnRound
    /\ turnPc = "gateway" => answers + MaxRounds < UpTo(turns) + turnRound /\ turnRound >= 1

Ordered ==
    /\ InOrder(transcript) /\ InOrder(conversation)
    /\ turnPc = "tools" =>
          AtEnd(transcript, Range(todo)) /\ AtEnd(conversation, Range(todo))

TurnInv ==
    /\ TurnTypeOK /\ RoundsUsed
    /\ MessagesOf(transcript) /\ MessagesOf(conversation)
    /\ ~pruned => Ordered

\* The rounds that the turns so far may have used.
LEMMA UpToIs ==
  ASSUME NEW t \in 0..MaxTurns
  PROVE  /\ UpTo(t) \in Nat /\ UpTo(0) = 0 /\ UpTo(t) <= MaxTurns * MaxRounds
         /\ MaxTurns * MaxRounds \in Nat
         /\ t < MaxTurns => UpTo(t + 1) = UpTo(t) + MaxRounds
<1>1. t \in Nat /\ MaxTurns \in Nat /\ MaxRounds \in Nat /\ MaxTurns - t \in Nat
  BY BoundsTyped
<1>2. UpTo(t) \in Nat /\ MaxTurns * MaxRounds \in Nat /\ (MaxTurns - t) * MaxRounds \in Nat
  BY <1>1 DEF UpTo
<1>3. MaxTurns * MaxRounds = UpTo(t) + (MaxTurns - t) * MaxRounds
  BY <1>1 DEF UpTo
<1>4. UpTo(t + 1) = UpTo(t) + MaxRounds /\ UpTo(0) = 0
  BY <1>1 DEF UpTo
<1> QED BY <1>2, <1>3, <1>4

\* Messages without one of them are messages.
LEMMA RemovedSound ==
  ASSUME NEW s \in Seq(Message), MessagesOf(s), NEW i \in DOMAIN s
  PROVE  RemoveAt(s, i) \in Seq(Message) /\ MessagesOf(RemoveAt(s, i))
<1> DEFINE t == RemoveAt(s, i)
<1>1. /\ t \in Seq(Message) /\ Len(t) = Len(s) - 1
      /\ \A k \in DOMAIN t : t[k] = IF k < i THEN s[k] ELSE s[k + 1]
  BY RemoveAtIs
<1> HIDE DEF t
<1>2. ASSUME NEW k \in DOMAIN t PROVE IsMessage(t[k])
  <2>1. k \in 1..(Len(s) - 1) /\ Len(s) \in Nat /\ DOMAIN s = 1..Len(s)
    BY <1>1
  <2>2. k \in DOMAIN s /\ k + 1 \in DOMAIN s
    BY <2>1
  <2> QED BY <1>1, <2>2 DEF MessagesOf
<1> QED BY <1>1, <1>2 DEF MessagesOf, t

\* Before the first turn.
LEMMA InitTurnInv == TurnInit => TurnInv
<1> SUFFICES ASSUME TurnInit PROVE TurnInv
  OBVIOUS
<1>1. TurnTypeOK
  <2>1. 0 \in 0..MaxTurns /\ 0 \in 0..MaxRounds /\ 0 \in 0..MaxErased
    BY BoundsTyped
  <2>2. 0 \in 0..MaxTurns * MaxRounds
    BY <2>1, UpToIs
  <2> QED BY <2>1, <2>2, EmptySound DEF TurnInit, TurnTypeOK
<1>2. RoundsUsed
  <2>1. UpTo(0) = 0 
    BY BoundsTyped DEF UpTo
  <2> QED BY <2>1 DEF TurnInit, RoundsUsed
<1> QED BY <1>1, <1>2, EmptySound DEF TurnInit, TurnInv, Ordered

\* A step that leaves the messages alone and does not go on to the tools.
LEMMA QuietKeeps ==
  ASSUME TurnInv, TurnTypeOK', RoundsUsed', transcript' = transcript, pruned' = pruned,
         conversation' = conversation \/ conversation' = <<>>,
         turnPc' # "tools"
  PROVE  TurnInv'
<1>1. MessagesOf(transcript)' /\ MessagesOf(conversation)'
  BY EmptySound DEF TurnInv
<1>2. (~pruned => Ordered)'
  BY EmptySound DEF TurnInv, Ordered
<1> QED BY <1>1, <1>2 DEF TurnInv

\* Every step of a turn, of a stop, of a reset and of a deletion keeps the invariant.
LEMMA NextTurnInv == TurnInv /\ [TurnNext]_turnVars => TurnInv'
<1> SUFFICES ASSUME TurnInv, [TurnNext]_turnVars PROVE TurnInv'
  OBVIOUS
<1>0. /\ TurnTypeOK /\ RoundsUsed /\ MessagesOf(transcript) /\ MessagesOf(conversation)
      /\ ~pruned => Ordered
  BY DEF TurnInv
<1>t. /\ transcript \in Seq(Message) /\ conversation \in Seq(Message) /\ todo \in Seq(CallIds)
      /\ turnRound \in 0..MaxRounds /\ turns \in 0..MaxTurns /\ erased \in 0..MaxErased
      /\ answers \in 0..MaxTurns * MaxRounds /\ pruned \in BOOLEAN
  BY <1>0 DEF TurnTypeOK
<1>u. /\ UpTo(turns) \in Nat /\ UpTo(turns) <= MaxTurns * MaxRounds /\ MaxTurns * MaxRounds \in Nat
      /\ turns < MaxTurns => UpTo(turns + 1) = UpTo(turns) + MaxRounds
  BY <1>t, UpToIs
<1>1. CASE BeginTurn
  <2>1. turns' = turns + 1 /\ turns' \in 0..MaxTurns /\ turnRound' = 0 /\ 0 \in 0..MaxRounds
    BY <1>1, <1>t, BoundsTyped DEF BeginTurn
  <2>2. transcript' \in Seq(Message) /\ MessagesOf(transcript')
    BY <1>0, <1>1, <1>t, AppendSound, SavedShapes DEF BeginTurn, Save
  <2>3. ~pruned => InOrder(transcript')
    BY <1>0, <1>1, <1>t, AppendInOrder, SavedShapes, Shape DEF BeginTurn, Save, Ordered
  <2>4. TurnTypeOK'
    BY <1>1, <1>t, <2>1, <2>2 DEF BeginTurn, TurnGoto, TurnTypeOK
  <2>5. RoundsUsed'
    <3>1. /\ UpTo(turns') = UpTo(turns) + MaxRounds /\ answers' = answers /\ turnPc' = "load"
          /\ answers <= UpTo(turns)
      BY <1>0, <1>1, <1>u DEF BeginTurn, TurnGoto, RoundsUsed
    <3> QED BY <1>t, <1>u, <2>1, <3>1, BoundsTyped DEF RoundsUsed
  <2> QED BY <1>0, <1>1, <2>2, <2>3, <2>4, <2>5 DEF BeginTurn, TurnGoto, TurnInv, Ordered
<1>2. CASE LoadHistory
  <2> DEFINE n == Max({1, Len(transcript) - HistoryLimit + 1})
  <2>1. n \in Nat /\ n > 0
    <3>1. Len(transcript) - HistoryLimit + 1 \in Int
      BY <1>t, BoundsTyped
    <3>2. \E x \in {1, Len(transcript) - HistoryLimit + 1} : \A y \in {1, Len(transcript) - HistoryLimit + 1} : x >= y
      BY <3>1
    <3>3. n \in {1, Len(transcript) - HistoryLimit + 1} /\ n >= 1
      BY <3>2 DEF Max
    <3> HIDE DEF n
    <3> QED BY <3>1, <3>3
  <2>2. /\ conversation' \in Seq(Message) /\ MessagesOf(conversation')
        /\ ~pruned => InOrder(conversation')
    <3>1. conversation' = SubSeq(transcript, n, Len(transcript))
      BY <1>2 DEF LoadHistory
    <3> HIDE DEF n
    <3>2. /\ conversation' \in Seq(Message) /\ MessagesOf(conversation')
          /\ InOrder(transcript) => InOrder(conversation')
      BY <1>0, <1>t, <2>1, <3>1, SuffixSound
    <3> QED BY <1>0, <3>2 DEF Ordered
  <2>3. TurnTypeOK'
    BY <1>2, <1>t, <2>2 DEF LoadHistory, TurnGoto, TurnTypeOK
  <2>4. RoundsUsed'
    BY <1>0, <1>2, <1>t, <1>u DEF LoadHistory, TurnGoto, RoundsUsed
  <2> QED BY <1>0, <1>2, <2>2, <2>3, <2>4 DEF LoadHistory, TurnGoto, TurnInv, Ordered
<1>3. CASE StartRound
  <2>1. TurnTypeOK'
    <3>1. conversation' \in Seq(Message) /\ todo' \in Seq(CallIds)
      BY <1>3, <1>t, EmptySound DEF StartRound, EndTurn
    <3>2. turnRound' \in 0..MaxRounds
      BY <1>3, <1>t, BoundsTyped DEF StartRound
    <3> QED BY <1>3, <1>t, <3>1, <3>2 DEF StartRound, EndTurn, TurnGoto, TurnTypeOK
  <2>2. RoundsUsed'
    BY <1>0, <1>3, <1>t, <1>u, BoundsTyped DEF StartRound, EndTurn, TurnGoto, RoundsUsed, RoundsSpent
  <2>3. /\ transcript' = transcript /\ pruned' = pruned /\ turnPc' # "tools"
        /\ conversation' = conversation \/ conversation' = <<>>
    BY <1>3 DEF StartRound, EndTurn, TurnGoto
  <2> QED BY <2>1, <2>2, <2>3, QuietKeeps
<1>4. CASE GatewayTimeout
  <2>1. turnRound - 1 \in 0..MaxRounds
    BY <1>0, <1>4, <1>t, BoundsTyped DEF GatewayTimeout, RoundsUsed
  <2>2. TurnTypeOK'
    BY <1>4, <1>t, <2>1 DEF GatewayTimeout, TurnGoto, TurnTypeOK
  <2>3. RoundsUsed'
    BY <1>0, <1>4, <1>t, <1>u, BoundsTyped DEF GatewayTimeout, TurnGoto, RoundsUsed
  <2>4. transcript' = transcript /\ pruned' = pruned /\ turnPc' # "tools" /\ conversation' = conversation
    BY <1>4 DEF GatewayTimeout, TurnGoto
  <2> QED BY <2>2, <2>3, <2>4, QuietKeeps
<1>5. CASE GatewayError \/ StopTurn
  <2>1. TurnTypeOK'
    BY <1>5, <1>t, EmptySound DEF GatewayError, StopTurn, EndTurn, TurnGoto, TurnTypeOK
  <2>2. RoundsUsed'
    BY <1>0, <1>5, <1>t, <1>u, BoundsTyped DEF GatewayError, StopTurn, EndTurn, TurnGoto, RoundsUsed
  <2>3. transcript' = transcript /\ pruned' = pruned /\ turnPc' # "tools" /\ conversation' = <<>>
    BY <1>5 DEF GatewayError, StopTurn, EndTurn, TurnGoto
  <2> QED BY <2>1, <2>2, <2>3, QuietKeeps
<1>6. CASE FinalAnswer
  <2>1. IsMessage(Assistant({})) /\ Assistant({}).role # "tool" /\ Assistant({}) \in Message
    BY SavedShapes, Shape
  <2>2. /\ transcript' \in Seq(Message) /\ MessagesOf(transcript')
        /\ ~pruned => InOrder(transcript')
    BY <1>0, <1>6, <1>t, <2>1, AppendSound, AppendInOrder DEF FinalAnswer, Save, Ordered
  <2>3. TurnTypeOK'
    BY <1>6, <1>t, <2>2, EmptySound DEF FinalAnswer, EndTurn, TurnGoto, TurnTypeOK
  <2>4. RoundsUsed'
    BY <1>0, <1>6, <1>t, <1>u, BoundsTyped DEF FinalAnswer, EndTurn, TurnGoto, RoundsUsed
  <2> QED BY <1>6, <2>2, <2>3, <2>4, EmptySound DEF FinalAnswer, EndTurn, TurnGoto, TurnInv, Ordered
<1>7. CASE ToolAnswer
  <2>1. PICK n \in 1..MaxCalls, own \in BOOLEAN :
           LET ids == [i \in 1..n |-> <<IF own THEN answers + 1 ELSE 0, i>>] IN
           /\ answers' = IF own THEN answers + 1 ELSE answers
           /\ todo' = ids
           /\ Save(Assistant(Range(ids)))
           /\ conversation' = Append(conversation, Assistant(Range(ids)))
    BY <1>7 DEF ToolAnswer
  <2> DEFINE ids == [i \in 1..n |-> <<IF own THEN answers + 1 ELSE 0, i>>]
             m == Assistant(Range(ids))
  <2>2. /\ answers \in Nat /\ answers + 1 \in Nat /\ answers < MaxTurns * MaxRounds
        /\ answers + 1 + MaxRounds <= UpTo(turns) + turnRound
    <3>1. answers + MaxRounds < UpTo(turns) + turnRound
      BY <1>0, <1>7 DEF ToolAnswer, RoundsUsed
    <3> QED BY <1>t, <1>u, <3>1, BoundsTyped
  <2>3. (IF own THEN answers + 1 ELSE 0) \in 0..MaxTurns * MaxRounds
    BY <1>u, <2>2
  <2>4. ids \in Seq(CallIds) /\ Range(ids) \in SUBSET CallIds
    <3>1. n \in Nat /\ \A i \in 1..n : i \in 1..MaxCalls
      BY BoundsTyped
    <3>2. \A i \in 1..n : <<IF own THEN answers + 1 ELSE 0, i>> \in CallIds
      BY <2>3, <3>1 DEF CallIds
    <3>3. ids \in [1..n -> CallIds]
      BY <3>2
    <3> HIDE DEF ids
    <3> QED BY <3>1, <3>3, Enumerated DEF Range
  <2>5. /\ answers' = IF own THEN answers + 1 ELSE answers
        /\ todo' = ids /\ transcript' = Append(transcript, m) /\ conversation' = Append(conversation, m)
    BY <2>1 DEF Save
  <2> HIDE DEF ids
  <2>6. IsMessage(m) /\ m.role # "tool" /\ m.calls = Range(ids) /\ m \in Message
    BY <2>4, SavedShapes, Shape
  <2> HIDE DEF m
  <2>7. /\ transcript' \in Seq(Message) /\ MessagesOf(transcript')
        /\ conversation' \in Seq(Message) /\ MessagesOf(conversation')
    BY <1>0, <1>t, <2>5, <2>6, AppendSound
  <2>8. ~pruned => InOrder(transcript') /\ InOrder(conversation')
    BY <1>0, <1>t, <2>5, <2>6, AppendInOrder DEF Ordered
  <2>9. AtEnd(transcript', Range(todo')) /\ AtEnd(conversation', Range(todo'))
    BY <1>t, <2>5, <2>6, AppendAtEnd
  <2>10. answers' \in 0..MaxTurns * MaxRounds
    BY <1>u, <2>2, <2>5
  <2>11. TurnTypeOK'
    BY <1>7, <1>t, <2>4, <2>5, <2>7, <2>10 DEF ToolAnswer, TurnGoto, TurnTypeOK
  <2>12. RoundsUsed'
    <3>1. turnPc' = "tools" /\ turns' = turns /\ turnRound' = turnRound
      BY <1>7 DEF ToolAnswer, TurnGoto
    <3>2. answers' <= answers + 1
      BY <2>2, <2>5
    <3>3. answers' + MaxRounds <= UpTo(turns) + turnRound
      BY <1>t, <1>u, <2>2, <2>10, <3>2, BoundsTyped
    <3> QED BY <3>1, <3>3 DEF RoundsUsed
  <2>13. pruned' = pruned
    BY <1>7 DEF ToolAnswer
  <2> QED BY <2>7, <2>8, <2>9, <2>11, <2>12, <2>13 DEF TurnInv, Ordered
<1>8. CASE RunTool
  <2> DEFINE m == Tool(Head(todo))
  <2>1. /\ Head(todo) \in CallIds /\ Head(todo) \in Range(todo) /\ Tail(todo) \in Seq(CallIds)
        /\ Range(Tail(todo)) \in SUBSET Range(todo)
    <3>1. todo # <<>>
      BY <1>8 DEF RunTool
    <3>2. Head(todo) \in CallIds /\ Tail(todo) \in Seq(CallIds) /\ Head(todo) = todo[1] /\ 1 \in DOMAIN todo
      BY <1>t, <3>1
    <3>3. \A i \in DOMAIN Tail(todo) : i + 1 \in DOMAIN todo /\ Tail(todo)[i] = todo[i + 1]
      BY <1>t, <3>1
    <3> QED BY <3>2, <3>3 DEF Range
  <2>2. IsMessage(m) /\ m.role = "tool" /\ m.of = Head(todo) /\ m \in Message
    BY <2>1, SavedShapes, Shape
  <2>3. /\ transcript' = Append(transcript, m) /\ conversation' = Append(conversation, m)
        /\ todo' = Tail(todo) /\ turnPc = "tools"
        /\ UNCHANGED <<turnPc, turnRound, turns, answers, erased, pruned>>
    BY <1>8 DEF RunTool, Save
  <2> HIDE DEF m
  <2>4. /\ transcript' \in Seq(Message) /\ MessagesOf(transcript')
        /\ conversation' \in Seq(Message) /\ MessagesOf(conversation')
    BY <1>0, <1>t, <2>2, <2>3, AppendSound
  <2>5. TurnTypeOK'
    BY <1>0, <2>1, <2>3, <2>4 DEF TurnTypeOK
  <2>6. RoundsUsed'
    BY <1>0, <2>3 DEF RoundsUsed
  <2>7. ASSUME ~pruned PROVE Ordered'
    <3>1. /\ InOrder(transcript) /\ InOrder(conversation)
          /\ AtEnd(transcript, Range(todo)) /\ AtEnd(conversation, Range(todo))
      BY <1>0, <2>3, <2>7 DEF Ordered
    <3>2. /\ AtEnd(transcript, {m.of}) /\ AtEnd(conversation, {m.of})
          /\ AtEnd(transcript, Range(Tail(todo))) /\ AtEnd(conversation, Range(Tail(todo)))
      BY <2>1, <2>2, <3>1, FewerAtEnd
    <3>3. InOrder(transcript') /\ InOrder(conversation')
      BY <1>t, <2>2, <2>3, <3>1, <3>2, AppendInOrder
    <3>4. AtEnd(transcript', Range(todo')) /\ AtEnd(conversation', Range(todo'))
      BY <1>t, <2>2, <2>3, <3>2, AppendAtEnd
    <3> QED BY <3>3, <3>4 DEF Ordered
  <2> QED BY <2>3, <2>4, <2>5, <2>6, <2>7 DEF TurnInv
<1>9. CASE NextRound
  <2>1. TurnTypeOK'
    BY <1>9, <1>t DEF NextRound, TurnGoto, TurnTypeOK
  <2>2. RoundsUsed'
    BY <1>0, <1>9, <1>t, <1>u DEF NextRound, TurnGoto, RoundsUsed
  <2>3. transcript' = transcript /\ pruned' = pruned /\ turnPc' # "tools" /\ conversation' = conversation
    BY <1>9 DEF NextRound, TurnGoto
  <2> QED BY <2>1, <2>2, <2>3, QuietKeeps
<1>10. CASE ClearHistory
  <2>1. TurnTypeOK'
    BY <1>0, <1>10, <1>t, EmptySound, BoundsTyped DEF ClearHistory, TurnTypeOK
  <2>2. RoundsUsed'
    BY <1>0, <1>10 DEF ClearHistory, RoundsUsed
  <2> QED BY <1>0, <1>10, <2>1, <2>2, EmptySound DEF ClearHistory, TurnInv, Ordered
<1>11. CASE DeleteMessage
  <2>1. PICK i \in DOMAIN transcript : transcript' = RemoveAt(transcript, i)
    BY <1>11 DEF DeleteMessage
  <2>2. transcript' \in Seq(Message) /\ MessagesOf(transcript')
    BY <1>0, <1>t, <2>1, RemovedSound
  <2>3. TurnTypeOK'
    BY <1>0, <1>11, <1>t, <2>2, BoundsTyped DEF DeleteMessage, TurnTypeOK
  <2>4. RoundsUsed'
    BY <1>0, <1>11 DEF DeleteMessage, RoundsUsed
  <2> QED BY <1>0, <1>11, <2>2, <2>3, <2>4 DEF DeleteMessage, TurnInv
<1>12. CASE TurnsQuiet \/ UNCHANGED turnVars
  BY <1>0, <1>12 DEF TurnsQuiet, turnVars, TurnInv, TurnTypeOK, RoundsUsed, Ordered
<1> QED BY <1>1, <1>2, <1>3, <1>4, <1>5, <1>6, <1>7, <1>8, <1>9, <1>10, <1>11, <1>12
        DEF TurnNext, TurnProgress, GatewayAnswers

\* The invariant implies that requests are complete.
LEMMA InvAnswers == TurnInv => EveryCallAnswered
<1> SUFFICES ASSUME TurnInv, turnPc = "gateway", ~pruned
             PROVE  CallsAnswered(Request) /\ AnswersCalled(Request)
  BY DEF EveryCallAnswered, CallsAnswered, AnswersCalled
<1>1. conversation \in Seq(Message) /\ MessagesOf(conversation) /\ InOrder(conversation)
  BY DEF TurnInv, TurnTypeOK, Ordered
<1> QED BY <1>1, SanitizedSound DEF Request

\* Whatever was stopped, killed or reset in earlier turns, and wherever the
\* window begins, every call in a request has an answer behind it and every
\* answer a call before it, as long as nobody deletes single messages; and
\* every variable keeps its type.
THEOREM CallsHaveAnswers == TurnSpec => [](TurnTypeOK /\ EveryCallAnswered)
<1>1. TurnSpec => []TurnInv
  BY InitTurnInv, NextTurnInv, PTL DEF TurnSpec
<1>2. TurnInv => TurnTypeOK /\ EveryCallAnswered
  BY InvAnswers DEF TurnInv
<1> QED BY <1>1, <1>2, PTL

\* What a round has before it: the history, the gateway, the tools.
Stage(pc) == CASE pc = "load" -> 3 [] pc = "gateway" -> 2 [] pc = "tools" -> 1 [] OTHER -> 0

\* The turn has come closer to its end: a round more is used, of those that
\* MaxRounds allows, or less of the round is left.
Closer ==
    \/ turnRound' = turnRound + 1 /\ turnRound' <= MaxRounds
    \/ /\ turnRound' = turnRound
       /\ \/ Stage(turnPc') < Stage(turnPc)
          \/ turnPc' = turnPc /\ Len(todo') < Len(todo)

\* A turn that goes on comes closer to its end with every step of it, but for
\* one: a timeout of the gateway gives the round back (engine.py, current_turn
\* -= 1), and only as long as it is not the last.  With the gateway answering
\* some day this is why TurnsEnd holds; without that, the code has no bound.
THEOREM OnlyTimeoutsGoBack ==
    TurnSpec => [][turnPc # "idle" /\ turnPc' # "idle" /\ ~Closer
                   => \/ UNCHANGED <<turnPc, turnRound, todo>>
                      \/ GatewayTimeout /\ turnRound < MaxRounds]_turnVars
<1>1. ASSUME TurnTypeOK, TurnNext, turnPc # "idle", turnPc' # "idle", ~Closer
      PROVE  \/ UNCHANGED <<turnPc, turnRound, todo>>
             \/ GatewayTimeout /\ turnRound < MaxRounds
  <2>t. turnRound \in 0..MaxRounds /\ MaxRounds \in Nat /\ todo \in Seq(CallIds)
    BY <1>1, BoundsTyped DEF TurnTypeOK
  <2>1. CASE BeginTurn \/ GatewayError \/ FinalAnswer \/ StopTurn
    BY <1>1, <2>1 DEF BeginTurn, GatewayError, FinalAnswer, StopTurn, EndTurn, TurnGoto
  <2>2. CASE ClearHistory \/ DeleteMessage \/ TurnsQuiet
    BY <2>2 DEF ClearHistory, DeleteMessage, TurnsQuiet, turnVars
  <2>3. CASE GatewayTimeout
    BY <2>3 DEF GatewayTimeout
  <2>4. ~LoadHistory /\ ~ToolAnswer /\ ~NextRound
    <3>1. LoadHistory => Closer
      BY DEF LoadHistory, TurnGoto, Closer, Stage
    <3>2. ToolAnswer => Closer
      BY DEF ToolAnswer, TurnGoto, Closer, Stage
    <3>3. NextRound => Closer
      BY DEF NextRound, TurnGoto, Closer, Stage
    <3> QED BY <1>1, <3>1, <3>2, <3>3
  <2>5. ~StartRound
    <3>1. StartRound => turnPc' = "idle" \/ (turnRound < MaxRounds /\ turnRound' = turnRound + 1)
      BY DEF StartRound, EndTurn, TurnGoto
    <3> QED BY <1>1, <2>t, <3>1 DEF Closer
  <2>6. ~RunTool
    <3>1. RunTool => turnRound' = turnRound /\ turnPc' = turnPc /\ Len(todo') < Len(todo)
      BY <2>t DEF RunTool
    <3> QED BY <1>1, <3>1 DEF Closer
  <2> QED BY <1>1, <2>1, <2>2, <2>3, <2>4, <2>5, <2>6 DEF TurnNext, TurnProgress, GatewayAnswers
<1>2. TurnSpec => []TurnTypeOK
  BY CallsHaveAnswers, PTL
<1> QED BY <1>1, <1>2, PTL DEF TurnSpec

-----------------------------------------------------------------------------
(* Channels: the events, in the order in which they are sent *)

Has(x, n) == \E k \in DOMAIN x.events : x.events[k] = n

\* An entry or a frame has events of its type that were pushed, in ascending order.
Sound(p, x) ==
    /\ x \in Piece0
    /\ \A k \in DOMAIN x.events : x.events[k] \in DOMAIN p /\ p[x.events[k]] = x.type
    /\ \A k, l \in DOMAIN x.events : k < l => x.events[k] < x.events[l]

Orderly(p, f, b) ==
    /\ p \in Seq(Types) /\ Len(p) <= MaxPushes
    /\ f \in Seq(Piece0) /\ b \in Seq(Piece0)
    /\ Len(f) + Len(b) <= Len(p)
    /\ \A i \in DOMAIN f : Sound(p, f[i])
    /\ \A k \in DOMAIN b : Sound(p, b[k]) /\ b[k].type \in HotTypes
    /\ \A k, l \in DOMAIN b : b[k].type = b[l].type => k = l
    /\ \A n \in DOMAIN p : (\E i \in DOMAIN f : Has(f[i], n)) \/ (\E k \in DOMAIN b : Has(b[k], n))
    /\ \A i, j \in DOMAIN f : i < j /\ Related(f[i], f[j]) => Before(f[i], f[j])
    /\ \A i \in DOMAIN f, k \in DOMAIN b : Related(f[i], b[k]) => Before(f[i], b[k])

\* The parts of an entry or a frame.
LEMMA PieceIs ==
  ASSUME NEW x \in Piece0
  PROVE  x.type \in Types /\ x.events \in Seq(1..MaxPushes)
  BY DEF Piece0

\* The order of frames and entries is that of causes.
LEMMA OrderlyIsCausal ==
  ASSUME NEW p, NEW f, NEW b, Orderly(p, f, b)
  PROVE  LET pieces == f \o b IN
         /\ \A n \in DOMAIN p : \E i \in DOMAIN pieces : n \in ToSet(pieces[i].events)
         /\ \A i \in DOMAIN pieces : LET events == pieces[i].events IN
               /\ \A k \in DOMAIN events : events[k] \in DOMAIN p /\ p[events[k]] = pieces[i].type
               /\ \A k, l \in DOMAIN events : k < l => events[k] < events[l]
         /\ \A i, j \in DOMAIN pieces :
               i < j /\ Related(pieces[i], pieces[j]) => Before(pieces[i], pieces[j])
<1> DEFINE q == f \o b
<1>1. f \in Seq(Piece0) /\ b \in Seq(Piece0)
  BY DEF Orderly
<1>2. /\ \A k \in DOMAIN q :
               \/ k \in DOMAIN f /\ q[k] = f[k]
               \/ k - Len(f) \in DOMAIN b /\ q[k] = b[k - Len(f)] /\ k > Len(f)
      /\ \A k \in DOMAIN f : k \in DOMAIN q /\ q[k] = f[k]
      /\ \A k \in DOMAIN b : Len(f) + k \in DOMAIN q /\ q[Len(f) + k] = b[k]
      /\ DOMAIN q \subseteq Nat
      /\ Len(f) \in Nat /\ DOMAIN f = 1..Len(f)
  <2>1. q \in Seq(Piece0)
    BY <1>1, JoinedIs
  <2>2. DOMAIN q \subseteq Nat /\ Len(f) \in Nat /\ DOMAIN f = 1..Len(f)
    BY <1>1, <2>1
  <2> HIDE DEF q
  <2>3. /\ \A k \in DOMAIN q :
               \/ k \in DOMAIN f /\ q[k] = f[k]
               \/ k - Len(f) \in DOMAIN b /\ q[k] = b[k - Len(f)] /\ k > Len(f)
        /\ \A k \in DOMAIN f : k \in DOMAIN q /\ q[k] = f[k]
        /\ \A k \in DOMAIN b : Len(f) + k \in DOMAIN q /\ q[Len(f) + k] = b[k]
    BY <1>1, JoinedIs DEF q
  <2> QED BY <2>2, <2>3
<1> HIDE DEF q
<1>3. \A x, n : Has(x, n) <=> n \in ToSet(x.events)
  BY DEF Has, ToSet
<1>4. \A n \in DOMAIN p : \E i \in DOMAIN q : n \in ToSet(q[i].events)
  <2> TAKE n \in DOMAIN p
  <2>1. CASE \E i \in DOMAIN f : Has(f[i], n)
    BY <1>2, <1>3, <2>1
  <2>2. CASE \E k \in DOMAIN b : Has(b[k], n)
    BY <1>2, <1>3, <2>2
  <2> QED BY <2>1, <2>2 DEF Orderly
<1>5. \A i \in DOMAIN q : Sound(p, q[i])
  BY <1>2 DEF Orderly
<1>6. ASSUME NEW i \in DOMAIN q, NEW j \in DOMAIN q, i < j, Related(q[i], q[j])
      PROVE  Before(q[i], q[j])
  <2>1. CASE i \in DOMAIN f /\ q[i] = f[i] /\ j \in DOMAIN f /\ q[j] = f[j]
    BY <1>6, <2>1 DEF Orderly
  <2>2. CASE i \in DOMAIN f /\ q[i] = f[i] /\ j - Len(f) \in DOMAIN b /\ q[j] = b[j - Len(f)]
    BY <1>6, <2>2 DEF Orderly
  <2>3. CASE i > Len(f) /\ j \in DOMAIN f
    BY <1>2, <1>6, <2>3
  <2>4. CASE /\ i - Len(f) \in DOMAIN b /\ q[i] = b[i - Len(f)]
             /\ j - Len(f) \in DOMAIN b /\ q[j] = b[j - Len(f)]
    <3>1. q[i].type \in HotTypes /\ q[j].type \in HotTypes
      BY <2>4 DEF Orderly
    <3>2. q[i].type = q[j].type
      BY <1>6, <3>1 DEF Related
    <3>3. i - Len(f) = j - Len(f)
      BY <2>4, <3>2 DEF Orderly
    <3> QED BY <1>2, <1>6, <3>3
  <2> QED BY <1>2, <2>1, <2>2, <2>3, <2>4
<1> QED
  BY <1>4, <1>5, <1>6 DEF q, Sound

\* Before, by the events that pieces have.
LEMMA BeforeIs ==
  ASSUME NEW x, NEW y
  PROVE  Before(x, y) <=> \A m, n : Has(x, m) /\ Has(y, n) => m < n
  BY DEF Before, Has, ToSet

\* What a piece has is numbered below the next event.
LEMMA NumbersOf ==
  ASSUME NEW p \in Seq(Types), NEW x, Sound(p, x), NEW m, Has(x, m)
  PROVE  m \in 1..Len(p) /\ m < Len(p) + 1
  BY DEF Sound, Has

\* An entry stays sound when another event is pushed.
LEMMA SoundStays ==
  ASSUME NEW p \in Seq(Types), NEW t \in Types, NEW x, Sound(p, x)
  PROVE  Sound(Append(p, t), x)
<1>1. \A k \in DOMAIN p : k \in DOMAIN Append(p, t) /\ Append(p, t)[k] = p[k]
  OBVIOUS
<1> QED BY <1>1 DEF Sound

\* An entry with the newest event only.
LEMMA FreshPiece ==
  ASSUME NEW p \in Seq(Types), NEW t \in Types, Len(p) < MaxPushes
  PROVE  LET x == [type |-> t, events |-> <<Len(p) + 1>>] IN
         Sound(Append(p, t), x) /\ x.type = t /\ \A m : Has(x, m) <=> m = Len(p) + 1
<1> DEFINE n == Len(p) + 1
           x == [type |-> t, events |-> <<n>>]
<1>1. n \in DOMAIN Append(p, t) /\ Append(p, t)[n] = t
  OBVIOUS
<1>2. n \in 1..MaxPushes
  BY ChannelsAssumption DEF ChannelsAssumption
<1> HIDE DEF n
<1>3. <<n>> \in Seq(1..MaxPushes) /\ DOMAIN <<n>> = {1} /\ <<n>>[1] = n
  BY <1>2
<1>4. x \in Piece0 /\ x.type = t /\ x.events = <<n>>
  BY <1>3 DEF Piece0
<1> HIDE DEF x
<1>5. \A m : Has(x, m) <=> m = n
  BY <1>3, <1>4 DEF Has
<1>6. Sound(Append(p, t), x)
  BY <1>1, <1>3, <1>4 DEF Sound
<1> QED BY <1>4, <1>5, <1>6 DEF x, n

\* An entry with the newest event added.
LEMMA GrownPiece ==
  ASSUME NEW p \in Seq(Types), NEW t \in Types, Len(p) < MaxPushes,
         NEW x, Sound(p, x), x.type = t
  PROVE  LET y == [x EXCEPT !.events = Append(@, Len(p) + 1)] IN
         /\ Sound(Append(p, t), y) /\ y.type = t
         /\ \A m : Has(y, m) <=> Has(x, m) \/ m = Len(p) + 1
<1> DEFINE n == Len(p) + 1
           y == [x EXCEPT !.events = Append(@, n)]
           e == x.events
           g == Append(e, n)
<1>1. n \in DOMAIN Append(p, t) /\ Append(p, t)[n] = t
  OBVIOUS
<1>2. n \in 1..MaxPushes
  BY ChannelsAssumption DEF ChannelsAssumption
<1>3. x \in Piece0 /\ e \in Seq(1..MaxPushes)
  BY PieceIs DEF Sound
<1>4. \A m \in DOMAIN e : e[m] \in 1..Len(p)
  BY DEF Sound
<1>5. Sound(Append(p, t), x)
  BY SoundStays
<1>6. y.type = t /\ y.events = g /\ y \in Piece0
  <2>1. g \in Seq(1..MaxPushes)
    BY <1>2, <1>3
  <2> HIDE DEF g, n
  <2>2. y = [x EXCEPT !.events = g]
    BY DEF g
  <2> QED BY <1>3, <2>1, <2>2 DEF Piece0
<1>7. /\ DOMAIN g = 1..(Len(e) + 1) /\ DOMAIN e = 1..Len(e) /\ Len(e) \in Nat
      /\ \A k \in DOMAIN e : g[k] = e[k]
      /\ g[Len(e) + 1] = n
  <2> HIDE DEF n
  <2> QED BY <1>2, <1>3
<1> HIDE DEF y, g, e
<1>8. \A k \in DOMAIN g : k \in DOMAIN e \/ k = Len(e) + 1
  BY <1>7
<1>9. \A m : Has(y, m) <=> Has(x, m) \/ m = n
  BY <1>6, <1>7, <1>8 DEF Has, e
<1>10. \A k, l \in DOMAIN g : k < l => g[k] < g[l]
  <2> SUFFICES ASSUME NEW k \in DOMAIN g, NEW l \in DOMAIN g, k < l PROVE g[k] < g[l]
    OBVIOUS
  <2>1. k \in DOMAIN e /\ g[k] = e[k]
    BY <1>7, <1>8
  <2>2. CASE l \in DOMAIN e
    BY <1>7, <2>1, <2>2 DEF Sound, e
  <2>3. CASE l = Len(e) + 1
    BY <1>4, <1>7, <2>1, <2>3 DEF n
  <2> QED BY <1>8, <2>2, <2>3
<1>11. \A k \in DOMAIN g : g[k] \in DOMAIN Append(p, t) /\ Append(p, t)[g[k]] = t
  <2> SUFFICES ASSUME NEW k \in DOMAIN g
               PROVE  g[k] \in DOMAIN Append(p, t) /\ Append(p, t)[g[k]] = t
    OBVIOUS
  <2>1. CASE k \in DOMAIN e
    BY <1>5, <1>7, <2>1 DEF Sound, e
  <2>2. CASE k = Len(e) + 1
    BY <1>1, <1>7, <2>2
  <2> QED BY <1>8, <2>1, <2>2
<1>12. Sound(Append(p, t), y)
  BY <1>6, <1>10, <1>11 DEF Sound
<1> QED BY <1>6, <1>9, <1>12 DEF y, n

\* The entry of type t has taken the next event.
Took(p, b, c, t) ==
    /\ c \in Seq(Piece0) /\ Len(c) <= Len(b) + 1
    /\ \A k \in DOMAIN c :
          \/ k \in DOMAIN b /\ c[k] = b[k] /\ b[k].type # t
          \/ /\ c[k].type = t /\ Sound(Append(p, t), c[k])
             /\ \A m : Has(c[k], m) =>
                   m = Len(p) + 1 \/ \E j \in DOMAIN b : b[j].type = t /\ Has(b[j], m)
    /\ \E k \in DOMAIN c : c[k].type = t /\ Has(c[k], Len(p) + 1)
    /\ \A j \in DOMAIN b : \A m : Has(b[j], m) => \E k \in DOMAIN c : Has(c[k], m)
    /\ \A k, l \in DOMAIN c : c[k].type = c[l].type => k = l

\* What the batcher does with a delta: one entry of its type, with its number as the last.
LEMMA BufferedTook ==
  ASSUME Orderly(pushed, frames, buffers), NEW t \in HotTypes, Len(pushed) < MaxPushes
  PROVE  Took(pushed, buffers, Buffered(t, Len(pushed) + 1), t)
<1> DEFINE n == Len(pushed) + 1
           c == Buffered(t, n)
           E == Entry(t)
<1>1. /\ pushed \in Seq(Types) /\ buffers \in Seq(Piece0)
      /\ \A k \in DOMAIN buffers : Sound(pushed, buffers[k]) /\ buffers[k].type \in HotTypes
      /\ \A k, l \in DOMAIN buffers : buffers[k].type = buffers[l].type => k = l
  BY DEF Orderly
<1>2. t \in Types /\ DOMAIN buffers = 1..Len(buffers) /\ Len(buffers) \in Nat
  BY <1>1 DEF Types
<1>3. CASE E = {}
  <2> DEFINE x == [type |-> t, events |-> <<n>>]
  <2>1. Sound(Append(pushed, t), x) /\ x.type = t /\ \A m : Has(x, m) <=> m = n
    BY <1>1, <1>2, FreshPiece
  <2>2. x \in Piece0
    BY <2>1 DEF Sound
  <2>3. c = Append(buffers, x)
    BY <1>3 DEF Buffered
  <2> HIDE DEF x, n
  <2>4. /\ c \in Seq(Piece0) /\ Len(c) = Len(buffers) + 1 /\ DOMAIN c = 1..(Len(buffers) + 1)
        /\ \A k \in 1..Len(buffers) : c[k] = buffers[k]
        /\ c[Len(buffers) + 1] = x
    BY <1>1, <1>2, <2>2, <2>3
  <2> HIDE DEF c
  <2>5. \A k \in DOMAIN buffers : buffers[k].type # t
    BY <1>3 DEF Entry
  <2>6. \A k \in DOMAIN c : (k \in DOMAIN buffers /\ c[k] = buffers[k]) \/ (k = Len(buffers) + 1 /\ c[k] = x)
    BY <1>2, <2>4
  <2>7. Len(buffers) + 1 \in DOMAIN c /\ \A k \in DOMAIN buffers : k \in DOMAIN c
    BY <1>2, <2>4
  <2>8. \A k, l \in DOMAIN c : c[k].type = c[l].type => k = l
    BY <1>1, <2>1, <2>5, <2>6
  <2>9. \A j \in DOMAIN buffers : \A m : Has(buffers[j], m) => \E k \in DOMAIN c : Has(c[k], m)
    BY <1>2, <2>4, <2>7
  <2>10. \E k \in DOMAIN c : c[k].type = t /\ Has(c[k], n)
    BY <2>1, <2>4, <2>7
  <2>11. ASSUME NEW k \in DOMAIN c
         PROVE  \/ k \in DOMAIN buffers /\ c[k] = buffers[k] /\ buffers[k].type # t
                \/ /\ c[k].type = t /\ Sound(Append(pushed, t), c[k])
                   /\ \A m : Has(c[k], m) => m = n
    BY <2>1, <2>5, <2>6
  <2>12. Len(c) <= Len(buffers) + 1
    BY <1>2, <2>4
  <2> QED BY <2>4, <2>8, <2>9, <2>10, <2>11, <2>12 DEF Took, n, c
<1>4. CASE E # {}
  <2>1. PICK e \in DOMAIN buffers : buffers[e].type = t
    BY <1>4 DEF Entry
  <2>2. E = {e}
    BY <1>1, <2>1 DEF Entry
  <2> DEFINE y == [buffers[e] EXCEPT !.events = Append(@, n)]
  <2>3. Sound(Append(pushed, t), y) /\ y.type = t /\ \A m : Has(y, m) <=> Has(buffers[e], m) \/ m = n
    BY <1>1, <1>2, <2>1, GrownPiece
  <2>4. y \in Piece0
    BY <2>3 DEF Sound
  <2>5. c = [i \in DOMAIN buffers |-> IF i = e THEN y ELSE buffers[i]]
    BY <2>2 DEF Buffered
  <2> HIDE DEF y, n
  <2>6. /\ c \in Seq(Piece0) /\ Len(c) = Len(buffers) /\ DOMAIN c = DOMAIN buffers
        /\ c[e] = y /\ \A k \in DOMAIN buffers : k # e => c[k] = buffers[k]
    <3>1. DOMAIN c = 1..Len(buffers) /\ \A k \in 1..Len(buffers) : c[k] \in Piece0
      BY <1>1, <1>2, <2>4, <2>5
    <3>2. c[e] = y /\ \A k \in DOMAIN buffers : k # e => c[k] = buffers[k]
      BY <2>1, <2>5
    <3>3. c = [k \in 1..Len(buffers) |-> c[k]]
      BY <1>2, <2>5
    <3> HIDE DEF c
    <3> QED BY <1>2, <3>1, <3>2, <3>3
  <2> HIDE DEF c
  <2>7. \A k \in DOMAIN buffers : k # e => buffers[k].type # t
    BY <1>1, <2>1
  <2>8. \A k, l \in DOMAIN c : c[k].type = c[l].type => k = l
    BY <1>1, <2>3, <2>6, <2>7
  <2>9. \A j \in DOMAIN buffers : \A m : Has(buffers[j], m) => \E k \in DOMAIN c : Has(c[k], m)
    BY <2>3, <2>6
  <2>10. \E k \in DOMAIN c : c[k].type = t /\ Has(c[k], n)
    BY <2>3, <2>6
  <2>11. ASSUME NEW k \in DOMAIN c
         PROVE  \/ k \in DOMAIN buffers /\ c[k] = buffers[k] /\ buffers[k].type # t
                \/ /\ c[k].type = t /\ Sound(Append(pushed, t), c[k])
                   /\ \A m : Has(c[k], m) => m = n \/ \E j \in DOMAIN buffers : buffers[j].type = t /\ Has(buffers[j], m)
    <3>1. CASE k = e
      BY <2>1, <2>3, <2>6, <3>1
    <3>2. CASE k # e
      BY <2>6, <2>7, <3>2
    <3> QED BY <3>1, <3>2
  <2>12. Len(c) <= Len(buffers) + 1
    BY <1>2, <2>6
  <2> QED BY <2>6, <2>8, <2>9, <2>10, <2>11, <2>12 DEF Took, n, c
<1> QED BY <1>3, <1>4

\* An event more is in the buffer of its type.
LEMMA TookOrderly ==
  ASSUME NEW p, NEW f, NEW b, NEW c, NEW t \in HotTypes, Orderly(p, f, b), Len(p) < MaxPushes,
         Took(p, b, c, t)
  PROVE  Orderly(Append(p, t), f, c)
<1> DEFINE n == Len(p) + 1
           q == Append(p, t)
<1>1. /\ p \in Seq(Types) /\ f \in Seq(Piece0) /\ b \in Seq(Piece0) /\ t \in Types
      /\ Len(f) + Len(b) <= Len(p) /\ c \in Seq(Piece0) /\ Len(c) <= Len(b) + 1
      /\ \A i \in DOMAIN f : Sound(p, f[i])
      /\ \A k \in DOMAIN b : Sound(p, b[k]) /\ b[k].type \in HotTypes
  BY DEF Orderly, Took, Types
<1>2. q \in Seq(Types) /\ Len(q) = n /\ Len(q) <= MaxPushes /\ DOMAIN q = DOMAIN p \cup {n}
  BY <1>1, ChannelsAssumption DEF ChannelsAssumption
<1>3. Len(f) + Len(c) <= Len(q)
  BY <1>1, <1>2
<1>4. \A i \in DOMAIN f : Sound(q, f[i])
  BY <1>1, SoundStays
<1>5. \A k \in DOMAIN c : Sound(q, c[k]) /\ c[k].type \in HotTypes
  BY <1>1, SoundStays DEF Took
<1>6. \A m \in DOMAIN q : (\E i \in DOMAIN f : Has(f[i], m)) \/ (\E k \in DOMAIN c : Has(c[k], m))
  <2> TAKE m \in DOMAIN q
  <2>1. CASE m = n
    BY <2>1 DEF Took
  <2>2. CASE m \in DOMAIN p
    BY <2>2 DEF Orderly, Took
  <2> QED BY <1>2, <2>1, <2>2
<1>7. ASSUME NEW i \in DOMAIN f, NEW k \in DOMAIN c, Related(f[i], c[k])
      PROVE  Before(f[i], c[k])
  <2>1. CASE k \in DOMAIN b /\ c[k] = b[k]
    BY <1>7, <2>1 DEF Orderly
  <2>2. CASE /\ c[k].type = t
             /\ \A m : Has(c[k], m) => m = n \/ \E j \in DOMAIN b : b[j].type = t /\ Has(b[j], m)
    <3> SUFFICES ASSUME NEW m, NEW l, Has(f[i], m), Has(c[k], l) PROVE m < l
      BY BeforeIs
    <3>1. CASE l = n
      BY <1>1, <3>1, NumbersOf
    <3>2. ASSUME NEW j \in DOMAIN b, b[j].type = t, Has(b[j], l) PROVE m < l
      <4>1. Related(f[i], b[j])
        BY <1>7, <2>2, <3>2 DEF Related
      <4>2. Before(f[i], b[j])
        BY <4>1 DEF Orderly
      <4> QED BY <3>2, <4>2, BeforeIs
    <3> QED BY <2>2, <3>1, <3>2
  <2> QED BY <2>1, <2>2 DEF Took
<1>8. /\ \A k, l \in DOMAIN c : c[k].type = c[l].type => k = l
      /\ \A i, j \in DOMAIN f : i < j /\ Related(f[i], f[j]) => Before(f[i], f[j])
  BY DEF Took, Orderly
<1> HIDE DEF q, n
<1> QED BY <1>1, <1>2, <1>3, <1>4, <1>5, <1>6, <1>7, <1>8 DEF Orderly, q

\* An entry is sent.
LEMMA SentOrderly ==
  ASSUME NEW p, NEW f, NEW b, Orderly(p, f, b), NEW i \in DOMAIN b
  PROVE  Orderly(p, f \o <<b[i]>>, RemoveAt(b, i))
<1> DEFINE x == b[i]
           g == f \o <<x>>
           c == RemoveAt(b, i)
<1>1. /\ p \in Seq(Types) /\ f \in Seq(Piece0) /\ b \in Seq(Piece0) /\ x \in Piece0
      /\ Len(f) + Len(b) <= Len(p) /\ Len(p) <= MaxPushes
      /\ \A k \in DOMAIN f : Sound(p, f[k])
      /\ \A k \in DOMAIN b : Sound(p, b[k]) /\ b[k].type \in HotTypes
  BY DEF Orderly
<1>2. /\ Len(f) \in Nat /\ Len(b) \in Nat /\ Len(p) \in Nat /\ i \in 1..Len(b)
      /\ DOMAIN b = 1..Len(b) /\ DOMAIN f = 1..Len(f)
  BY <1>1
<1>3. /\ c \in Seq(Piece0) /\ Len(c) = Len(b) - 1 /\ DOMAIN c = 1..(Len(b) - 1)
      /\ \A k \in DOMAIN c : c[k] = IF k < i THEN b[k] ELSE b[k + 1]
  <2>1. /\ c \in Seq(Piece0) /\ Len(c) = Len(b) - 1
        /\ \A k \in DOMAIN c : c[k] = IF k < i THEN b[k] ELSE b[k + 1]
    BY <1>1, RemoveAtIs
  <2> HIDE DEF c
  <2> QED BY <1>2, <2>1
<1> HIDE DEF x
<1>4. /\ g \in Seq(Piece0) /\ Len(g) = Len(f) + 1 /\ DOMAIN g = 1..(Len(f) + 1)
      /\ \A k \in DOMAIN f : g[k] = f[k]
      /\ g[Len(f) + 1] = x
  BY <1>1, <1>2
<1> HIDE DEF g, c
<1>5. \A k \in DOMAIN c : \E j \in DOMAIN b : j # i /\ c[k] = b[j] /\ j = IF k < i THEN k ELSE k + 1
  <2> TAKE k \in DOMAIN c
  <2>1. k \in DOMAIN b /\ k + 1 \in DOMAIN b /\ k \in Int /\ i \in Int
    BY <1>2, <1>3
  <2>2. CASE k < i
    BY <1>3, <2>1, <2>2
  <2>3. CASE ~(k < i)
    BY <1>3, <2>1, <2>3
  <2> QED BY <2>2, <2>3
<1>6. \A j \in DOMAIN b : j # i => \E k \in DOMAIN c : c[k] = b[j]
  <2> SUFFICES ASSUME NEW j \in DOMAIN b, j # i PROVE \E k \in DOMAIN c : c[k] = b[j]
    OBVIOUS
  <2>1. CASE j < i
    <3>1. j \in DOMAIN c
      BY <1>2, <1>3, <2>1
    <3> QED BY <1>3, <2>1, <3>1
  <2>2. CASE ~(j < i)
    <3>1. j - 1 \in DOMAIN c /\ ~(j - 1 < i) /\ (j - 1) + 1 = j
      BY <1>2, <1>3, <2>2
    <3> QED BY <1>3, <3>1
  <2> QED BY <2>1, <2>2
<1>7. \A k \in DOMAIN g : (k \in DOMAIN f /\ g[k] = f[k]) \/ (k = Len(f) + 1 /\ g[k] = x)
  BY <1>2, <1>4
<1>8. Len(g) + Len(c) <= Len(p)
  BY <1>1, <1>2, <1>3, <1>4
<1>9. \A k \in DOMAIN g : Sound(p, g[k])
  BY <1>1, <1>7 DEF x
<1>10. \A k \in DOMAIN c : Sound(p, c[k]) /\ c[k].type \in HotTypes
  BY <1>1, <1>5
<1>11. \A k, l \in DOMAIN c : c[k].type = c[l].type => k = l
  <2> SUFFICES ASSUME NEW k \in DOMAIN c, NEW l \in DOMAIN c, c[k].type = c[l].type PROVE k = l
    OBVIOUS
  <2>1. PICK j \in DOMAIN b : c[k] = b[j] /\ j = IF k < i THEN k ELSE k + 1
    BY <1>5
  <2>2. PICK h \in DOMAIN b : c[l] = b[h] /\ h = IF l < i THEN l ELSE l + 1
    BY <1>5
  <2>3. j = h
    BY <2>1, <2>2 DEF Orderly
  <2>4. k \in Int /\ l \in Int /\ i \in Int
    BY <1>2, <1>3
  <2> QED BY <2>1, <2>2, <2>3, <2>4
<1>12. \A m \in DOMAIN p : (\E k \in DOMAIN g : Has(g[k], m)) \/ (\E k \in DOMAIN c : Has(c[k], m))
  <2> TAKE m \in DOMAIN p
  <2>1. ASSUME NEW k \in DOMAIN f, Has(f[k], m) PROVE \E h \in DOMAIN g : Has(g[h], m)
    <3>1. k \in DOMAIN g /\ g[k] = f[k]
      BY <1>2, <1>4
    <3> QED BY <2>1, <3>1
  <2>2. ASSUME Has(x, m) PROVE \E h \in DOMAIN g : Has(g[h], m)
    <3>1. Len(f) + 1 \in DOMAIN g
      BY <1>2, <1>4
    <3> QED BY <1>4, <2>2, <3>1
  <2>3. ASSUME NEW j \in DOMAIN b, j # i, Has(b[j], m) PROVE \E k \in DOMAIN c : Has(c[k], m)
    BY <1>6, <2>3
  <2> QED BY <2>1, <2>2, <2>3 DEF Orderly, x
<1>13. ASSUME NEW k \in DOMAIN g, NEW l \in DOMAIN g, k < l, Related(g[k], g[l])
       PROVE  Before(g[k], g[l])
  <2>1. k \in DOMAIN f /\ g[k] = f[k]
    BY <1>2, <1>4, <1>13
  <2>2. CASE l \in DOMAIN f /\ g[l] = f[l]
    BY <1>13, <2>1, <2>2 DEF Orderly
  <2>3. CASE g[l] = x
    BY <1>13, <2>1, <2>3 DEF Orderly, x
  <2> QED BY <1>7, <2>2, <2>3
<1>14. ASSUME NEW k \in DOMAIN g, NEW l \in DOMAIN c, Related(g[k], c[l])
       PROVE  Before(g[k], c[l])
  <2>1. PICK j \in DOMAIN b : j # i /\ c[l] = b[j]
    BY <1>5
  <2>2. CASE k \in DOMAIN f /\ g[k] = f[k]
    BY <1>14, <2>1, <2>2 DEF Orderly
  <2>3. CASE g[k] = x
    <3>1. x.type \in HotTypes /\ b[j].type \in HotTypes /\ x.type # b[j].type
      BY <2>1 DEF Orderly, x
    <3>2. ~Related(x, b[j])
      BY <3>1 DEF Related
    <3> QED BY <1>14, <2>1, <2>3, <3>2
  <2> QED BY <1>7, <2>2, <2>3
<1>15. Orderly(p, g, c)
  BY <1>1, <1>3, <1>4, <1>8, <1>9, <1>10, <1>11, <1>12, <1>13, <1>14 DEF Orderly
<1> QED BY <1>15 DEF g, c, x

\* All that is pending is sent, and an event that is not a delta behind it.
LEMMA FlushedOrderly ==
  ASSUME NEW p, NEW f, NEW b, NEW t \in {"cold", "status"}, Orderly(p, f, b), Len(p) < MaxPushes
  PROVE  Orderly(Append(p, t), f \o Append(b, [type |-> t, events |-> <<Len(p) + 1>>]), <<>>)
<1> DEFINE n == Len(p) + 1
           q == Append(p, t)
           x == [type |-> t, events |-> <<n>>]
           c == Append(b, x)
           g == f \o c
           none == <<>>
<1>1. /\ p \in Seq(Types) /\ f \in Seq(Piece0) /\ b \in Seq(Piece0) /\ t \in Types
      /\ Len(f) + Len(b) <= Len(p)
      /\ \A i \in DOMAIN f : Sound(p, f[i])
      /\ \A k \in DOMAIN b : Sound(p, b[k]) /\ b[k].type \in HotTypes
  BY DEF Orderly, Types
<1>2. q \in Seq(Types) /\ Len(q) = n /\ Len(q) <= MaxPushes /\ DOMAIN q = DOMAIN p \cup {n}
  BY <1>1, ChannelsAssumption DEF ChannelsAssumption
<1>3. Sound(q, x) /\ \A m : Has(x, m) <=> m = n
  BY <1>1, FreshPiece
<1>4. x \in Piece0
  BY <1>3 DEF Sound
<1> HIDE DEF x, n, q
<1>5. /\ c \in Seq(Piece0) /\ Len(c) = Len(b) + 1 /\ DOMAIN c = 1..(Len(b) + 1)
      /\ DOMAIN b = 1..Len(b) /\ Len(b) \in Nat /\ Len(f) \in Nat /\ DOMAIN f = 1..Len(f)
      /\ \A k \in DOMAIN b : c[k] = b[k]
      /\ c[Len(b) + 1] = x
  BY <1>1, <1>4
<1> HIDE DEF c
<1>6. /\ g \in Seq(Piece0) /\ Len(g) = Len(f) + Len(c)
      /\ \A k \in DOMAIN g :
            \/ k \in DOMAIN f /\ g[k] = f[k]
            \/ k - Len(f) \in DOMAIN c /\ g[k] = c[k - Len(f)] /\ k > Len(f)
      /\ \A k \in DOMAIN f : k \in DOMAIN g /\ g[k] = f[k]
      /\ \A k \in DOMAIN c : Len(f) + k \in DOMAIN g /\ g[Len(f) + k] = c[k]
  BY <1>1, <1>5, JoinedIs
<1> HIDE DEF g
<1>7. DOMAIN g \subseteq Nat
  BY <1>6
<1>8. \* a frame, an entry, or the event
      \A k \in DOMAIN g :
         \/ k \in DOMAIN f /\ g[k] = f[k]
         \/ k > Len(f) /\ k - Len(f) \in DOMAIN b /\ g[k] = b[k - Len(f)]
         \/ k = Len(f) + Len(c) /\ g[k] = x
  <2> TAKE k \in DOMAIN g
  <2>1. CASE k \in DOMAIN f /\ g[k] = f[k]
    BY <2>1
  <2>2. CASE k - Len(f) \in DOMAIN c /\ g[k] = c[k - Len(f)] /\ k > Len(f)
    <3>1. k - Len(f) \in DOMAIN b \/ k - Len(f) = Len(b) + 1
      BY <1>5, <2>2
    <3>2. CASE k - Len(f) \in DOMAIN b
      BY <1>5, <2>2, <3>2
    <3>3. CASE k - Len(f) = Len(b) + 1
      <4>1. k = Len(f) + Len(c)
        BY <1>5, <1>7, <3>3
      <4> QED BY <1>5, <2>2, <3>3, <4>1
    <3> QED BY <3>1, <3>2, <3>3
  <2> QED BY <1>6, <2>1, <2>2
<1>9. Len(g) + Len(none) <= Len(q) /\ none \in Seq(Piece0) /\ DOMAIN none = {}
  <2>1. Len(none) = 0 /\ none \in Seq(Piece0) /\ DOMAIN none = {}
    OBVIOUS
  <2>2. Len(g) <= Len(q) /\ Len(g) \in Nat
    BY <1>1, <1>2, <1>5, <1>6 DEF n
  <2> QED BY <2>1, <2>2
<1> HIDE DEF none
<1>10. \A k \in DOMAIN f : Sound(q, f[k])
  BY <1>1, SoundStays DEF q
<1>11. \A k \in DOMAIN b : Sound(q, b[k])
  BY <1>1, SoundStays DEF q
<1>12. \A k \in DOMAIN g : Sound(q, g[k])
  BY <1>3, <1>8, <1>10, <1>11
<1>13. \A m \in DOMAIN q : \E k \in DOMAIN g : Has(g[k], m)
  <2> TAKE m \in DOMAIN q
  <2>1. CASE m = n
    <3>1. Len(b) + 1 \in DOMAIN c
      BY <1>5
    <3> QED BY <1>3, <1>5, <1>6, <2>1, <3>1
  <2>2. ASSUME NEW i \in DOMAIN f, Has(f[i], m) PROVE \E k \in DOMAIN g : Has(g[k], m)
    BY <1>6, <2>2
  <2>3. ASSUME NEW j \in DOMAIN b, Has(b[j], m) PROVE \E k \in DOMAIN g : Has(g[k], m)
    <3>1. j \in DOMAIN c /\ c[j] = b[j]
      BY <1>5
    <3> QED BY <1>6, <2>3, <3>1
  <2> QED BY <1>2, <2>1, <2>2, <2>3 DEF Orderly
<1>14. ASSUME NEW k \in DOMAIN g, NEW l \in DOMAIN g, k < l, Related(g[k], g[l])
       PROVE  Before(g[k], g[l])
  <2> SUFFICES ASSUME NEW u, NEW v, Has(g[k], u), Has(g[l], v) PROVE u < v
    BY BeforeIs
  <2>1. \A j \in DOMAIN g : j \in Nat /\ j <= Len(f) + Len(c)
    BY <1>6
  <2>2. ASSUME g[l] = x PROVE u < v
    <3>1. CASE k = Len(f) + Len(c)
      BY <1>14, <2>1, <3>1
    <3>2. CASE k \in DOMAIN f /\ g[k] = f[k]
      BY <1>1, <1>3, <2>2, <3>2, NumbersOf DEF n
    <3>3. CASE k - Len(f) \in DOMAIN b /\ g[k] = b[k - Len(f)]
      BY <1>1, <1>3, <2>2, <3>3, NumbersOf DEF n
    <3> QED BY <1>8, <3>1, <3>2, <3>3
  <2>3. ASSUME l \in DOMAIN f, g[l] = f[l] PROVE u < v
    <3>1. k \in DOMAIN f /\ g[k] = f[k]
      BY <1>5, <1>6, <1>7, <1>14, <2>3
    <3>2. Before(f[k], f[l])
      BY <1>14, <2>3, <3>1 DEF Orderly
    <3> QED BY <2>3, <3>1, <3>2, BeforeIs
  <2>4. ASSUME l > Len(f), l - Len(f) \in DOMAIN b, g[l] = b[l - Len(f)] PROVE u < v
    <3>1. CASE k \in DOMAIN f /\ g[k] = f[k]
      <4>1. Before(f[k], b[l - Len(f)])
        BY <1>14, <2>4, <3>1 DEF Orderly
      <4> QED BY <2>4, <3>1, <4>1, BeforeIs
    <3>2. CASE k - Len(f) \in DOMAIN b /\ g[k] = b[k - Len(f)]
      <4>1. g[k].type \in HotTypes /\ g[l].type \in HotTypes
        BY <1>1, <2>4, <3>2
      <4>2. g[k].type = g[l].type
        BY <1>14, <4>1 DEF Related
      <4>3. k - Len(f) = l - Len(f)
        BY <2>4, <3>2, <4>2 DEF Orderly
      <4> QED BY <1>5, <1>7, <1>14, <4>3
    <3>3. CASE k = Len(f) + Len(c)
      BY <1>5, <1>7, <1>14, <2>1, <3>3
    <3> QED BY <1>8, <3>1, <3>2, <3>3
  <2> QED BY <1>8, <2>2, <2>3, <2>4
<1>15. Orderly(q, g, none)
  BY <1>2, <1>6, <1>9, <1>12, <1>13, <1>14 DEF Orderly
<1> QED BY <1>15 DEF q, g, c, x, n, none

-----------------------------------------------------------------------------
(* Channels: the ring *)

Cold(f) == {n \in DOMAIN f : f[n].type = "cold"}

\* The ring has the youngest of the frames that are retained.
Youngest(f, h) ==
    /\ h \subseteq Cold(f) /\ Cardinality(h) <= HistorySize
    /\ \A c \in Cold(f), r \in h : r < c => c \in h
    /\ Cold(f) # {} => h # {}

\* A set of numbers in ascending order.
Sorts(s, ids) ==
    /\ s \in [1..Cardinality(ids) -> ids]
    /\ \A i, j \in 1..Cardinality(ids) : i < j => s[i] < s[j]

Unsorted(n, ids) == ids \in SUBSET (1..n) /\ ~\E s : Sorts(s, ids)

\* There is such an order: the smallest set without one would have one
\* without its greatest number.
LEMMA HasOrder ==
  ASSUME NEW n \in Nat, NEW ids \in SUBSET (1..n)
  PROVE  \E s : Sorts(s, ids)
<1> DEFINE T == {m \in Nat : \E I \in SUBSET (1..n) : Unsorted(n, I) /\ Cardinality(I) = m}
<1> SUFFICES ASSUME T # {} PROVE FALSE
  <2>1. Cardinality(ids) \in Nat
    BY PartFinite
  <2> QED BY <2>1 DEF Unsorted
<1>1. PICK m \in T : \A y \in T : m <= y
  <2>1. T \in SUBSET Nat
    OBVIOUS
  <2> HIDE DEF T
  <2> QED BY <2>1, HasLeast
<1>2. PICK I \in SUBSET (1..n) : Unsorted(n, I) /\ Cardinality(I) = m
  BY <1>1
<1>3. m \in Nat /\ \A J \in SUBSET (1..n) : Cardinality(J) \in Nat /\ Cardinality(J) < m => \E s : Sorts(s, J)
  <2>1. m \in Nat
    BY <1>1
  <2>2. ASSUME NEW J \in SUBSET (1..n), Cardinality(J) \in Nat, Cardinality(J) < m PROVE \E s : Sorts(s, J)
    <3>1. Cardinality(J) \notin T
      BY <1>1, <2>1, <2>2
    <3> QED BY <2>2, <3>1 DEF Unsorted
  <2> QED BY <2>1, <2>2
<1> HIDE DEF T
<1>4. CASE I = {}
  <2>1. Cardinality(I) = 0
    BY <1>4, FS_EmptySet
  <2>2. Sorts([k \in 1..0 |-> 1], I)
    BY <2>1 DEF Sorts
  <2> QED BY <1>2, <2>2 DEF Unsorted
<1>5. CASE I # {}
  <2>1. PICK x \in I : \A y \in I : y <= x
    BY <1>5, HasGreatest
  <2> DEFINE J == I \ {x}
  <2>2. IsFiniteSet(I) /\ Cardinality(I) \in Nat
    BY PartFinite
  <2>3. J \in SUBSET (1..n) /\ Cardinality(J) = m - 1
    BY <1>2, <2>2, FS_RemoveElement
  <2>4. Cardinality(J) \in Nat
    BY <2>3, PartFinite
  <2>5. PICK s : Sorts(s, J)
    BY <1>3, <2>3, <2>4
  <2> DEFINE t == [k \in 1..m |-> IF k = m THEN x ELSE s[k]]
  <2>6. s \in [1..(m - 1) -> J] /\ \A i, j \in 1..(m - 1) : i < j => s[i] < s[j]
    BY <2>3, <2>5 DEF Sorts
  <2>7. m \in Nat /\ m - 1 \in Nat /\ \A k \in 1..m : k = m \/ k \in 1..(m - 1)
    BY <1>3, <2>3, <2>4
  <2>8. ASSUME NEW i \in 1..m, NEW j \in 1..m, i < j PROVE t[i] < t[j]
    <3>1. i \in 1..(m - 1) /\ t[i] = s[i] /\ s[i] \in J
      BY <2>6, <2>7, <2>8
    <3>2. CASE j = m
      <4>1. t[j] = x /\ s[i] # x /\ s[i] <= x /\ s[i] \in 1..n /\ x \in 1..n
        BY <2>1, <3>1, <3>2
      <4> QED BY <3>1, <4>1
    <3>3. CASE j # m
      <4>1. j \in 1..(m - 1) /\ t[j] = s[j]
        BY <2>7, <3>3
      <4> QED BY <2>6, <2>8, <3>1, <4>1
    <3> QED BY <3>2, <3>3
  <2>9. t \in [1..m -> I]
    <3>1. \A k \in 1..m : t[k] \in I
      BY <2>6, <2>7
    <3> QED BY <3>1
  <2>10. Sorts(t, I)
    BY <1>2, <2>8, <2>9 DEF Sorts
  <2> QED BY <1>2, <2>10 DEF Unsorted
<1> QED BY <1>4, <1>5

\* The ring is replayed in ascending order, every frame of it.
LEMMA AscendingIs ==
  ASSUME NEW n \in Nat, NEW ids \in SUBSET (1..n)
  PROVE  /\ Ascending(ids) \in Seq(ids)
         /\ \A i, j \in DOMAIN Ascending(ids) : i < j => Ascending(ids)[i] < Ascending(ids)[j]
         /\ \A x \in ids : \E i \in DOMAIN Ascending(ids) : Ascending(ids)[i] = x
<1> DEFINE s == Ascending(ids)
           c == Cardinality(ids)
<1>1. IsFiniteSet(ids) /\ c \in Nat
  BY PartFinite
<1>2. PICK t : Sorts(t, ids)
  BY HasOrder
<1>3. t \in [1..c -> ids] /\ DOMAIN t = 1..c
  BY <1>2 DEF Sorts
<1>4. Sorts(s, ids)
  BY <1>2 DEF Sorts, Ascending
<1> HIDE DEF s
<1>5. s \in [1..c -> ids] /\ \A i, j \in 1..c : i < j => s[i] < s[j]
  BY <1>4 DEF Sorts
<1>6. s \in Injection(1..c, ids)
  <2>1. \A i, j \in 1..c : s[i] = s[j] => i = j
    <3> SUFFICES ASSUME NEW i \in 1..c, NEW j \in 1..c, s[i] = s[j], i # j PROVE FALSE
      OBVIOUS
    <3>1. s[i] \in 1..n /\ s[j] \in 1..n
      BY <1>5
    <3>2. i < j \/ j < i
      BY <1>1
    <3> QED BY <1>5, <3>1, <3>2
  <2> QED BY <1>5, <2>1, Fun_IsInj
<1>7. Cardinality(1..c) = c
  BY <1>1, FS_Interval
<1>8. s \in Surjection(1..c, ids)
  BY <1>1, <1>6, <1>7, FS_Injection
<1>9. \A x \in ids : \E i \in 1..c : s[i] = x
  BY <1>8 DEF Surjection
<1>10. s \in Seq(ids) /\ DOMAIN s = 1..c
  BY <1>1, <1>5
<1> QED BY <1>5, <1>9, <1>10 DEF s

\* The newest ids.
LEMMA RetainedIs ==
  ASSUME NEW n \in Nat, NEW ids \in SUBSET (1..n)
  PROVE  /\ Retained(ids) \subseteq ids /\ Cardinality(Retained(ids)) <= HistorySize
         /\ \A c \in ids, r \in Retained(ids) : r < c => c \in Retained(ids)
         /\ ids # {} => Retained(ids) # {}
<1> DEFINE From(x) == {m \in ids : m >= x}
           R == Retained(ids)
<1>0. HistorySize \in Nat /\ HistorySize >= 1
  BY ChannelsAssumption DEF ChannelsAssumption
<1>1. R = {x \in ids : Cardinality(From(x)) <= HistorySize}
  BY DEF Retained
<1>2. \A x : IsFiniteSet(From(x)) /\ Cardinality(From(x)) \in Nat
  <2> TAKE x
  <2>1. From(x) \in SUBSET (1..n)
    OBVIOUS
  <2> HIDE DEF From
  <2> QED BY <2>1, PartFinite
<1>3. ASSUME NEW c \in ids, NEW r \in R, r < c PROVE c \in R
  <2>1. From(c) \in SUBSET From(r)
    <3>1. r \in ids /\ r \in 1..n /\ c \in 1..n
      BY <1>1
    <3>2. \A m \in ids : m >= c => m >= r
      BY <1>3, <3>1
    <3> QED BY <3>2
  <2>2. Cardinality(From(c)) <= Cardinality(From(r))
    <3> HIDE DEF From
    <3> QED BY <1>2, <2>1, FS_Subset
  <2>3. Cardinality(From(r)) <= HistorySize
    BY <1>1
  <2>4. Cardinality(From(c)) \in Nat /\ Cardinality(From(r)) \in Nat
    BY <1>2
  <2>5. Cardinality(From(c)) <= HistorySize
    <3> HIDE DEF From
    <3> QED BY <1>0, <2>2, <2>3, <2>4
  <2> QED BY <1>1, <2>5
<1>4. ASSUME ids # {} PROVE R # {}
  <2>1. PICK x \in ids : \A y \in ids : y <= x
    BY <1>4, HasGreatest
  <2>2. From(x) = {x}
    <3>1. \A m \in ids : m >= x => m = x
      BY <2>1
    <3>2. x >= x
      OBVIOUS
    <3> QED BY <3>1, <3>2
  <2>3. Cardinality(From(x)) = 1
    BY <2>2, FS_Singleton
  <2>4. x \in R
    BY <1>0, <1>1, <2>3
  <2> QED BY <2>4
<1>5. Cardinality(R) <= HistorySize
  <2>1. CASE R = {}
    <3>1. Cardinality(R) = 0
      BY <2>1, FS_EmptySet
    <3> QED BY <1>0, <3>1
  <2>2. CASE R # {}
    <3>1. R \in SUBSET Nat
      <4>1. \A x \in R : x \in 1..n
        BY <1>1
      <4> QED BY <4>1
    <3>2. PICK x \in R : \A y \in R : x <= y
      <4> HIDE DEF R
      <4> QED BY <2>2, <3>1, HasLeast
    <3>3. R \in SUBSET From(x)
      <4>1. \A y \in R : y \in ids /\ y >= x
        BY <1>1, <3>2
      <4> QED BY <4>1
    <3>4. Cardinality(R) <= Cardinality(From(x)) /\ Cardinality(R) \in Nat
      <4> HIDE DEF From, R
      <4>1. IsFiniteSet(R)
        BY <1>2, <3>3, FS_Subset
      <4> QED BY <1>2, <3>3, <4>1, FS_Subset, FS_CardinalityType
    <3>5. Cardinality(From(x)) <= HistorySize /\ Cardinality(From(x)) \in Nat
      BY <1>1, <1>2
    <3> HIDE DEF From, R
    <3> QED BY <1>0, <3>4, <3>5
  <2> QED BY <2>1, <2>2
<1>6. R \subseteq ids
  BY <1>1
<1> HIDE DEF R
<1> QED BY <1>3, <1>4, <1>5, <1>6 DEF R

\* The ring after an emission.
LEMMA YoungestNext ==
  ASSUME NEW f \in Seq(Piece0), NEW ps \in Seq(Piece0), NEW h, Youngest(f, h)
  PROVE  Youngest(f \o ps, Retained(h \cup {Len(f) + i : i \in {j \in DOMAIN ps : ps[j].type = "cold"}}))
<1> DEFINE g == f \o ps
           new == {Len(f) + i : i \in {j \in DOMAIN ps : ps[j].type = "cold"}}
           R == Retained(h \cup new)
           n == Len(g)
<1>1. /\ Len(f) \in Nat /\ DOMAIN f = 1..Len(f) /\ Len(ps) \in Nat /\ DOMAIN ps = 1..Len(ps)
      /\ n = Len(f) + Len(ps) /\ n \in Nat /\ DOMAIN g = 1..n
      /\ \A k \in 1..Len(f) : g[k] = f[k]
      /\ \A k \in 1..Len(ps) : g[Len(f) + k] = ps[k]
  <2>1. JoinedBy(Piece0, f, ps)
    BY JoinedSeqs
  <2>2. g \in Seq(Piece0) /\ Len(f) \in Nat /\ DOMAIN f = 1..Len(f) /\ Len(ps) \in Nat /\ DOMAIN ps = 1..Len(ps)
    BY <2>1 DEF JoinedBy
  <2>3. /\ n = Len(f) + Len(ps)
        /\ \A k \in 1..Len(f) : g[k] = f[k]
        /\ \A k \in 1..Len(ps) : g[Len(f) + k] = ps[k]
    BY <2>1 DEF JoinedBy
  <2> HIDE DEF g
  <2> QED BY <2>2, <2>3
<1> HIDE DEF g, n
<1>2. \A c \in Cold(g) : c \in Cold(f) \/ c \in new
  <2> SUFFICES ASSUME NEW c \in 1..n, g[c].type = "cold" PROVE c \in Cold(f) \/ c \in new
    BY <1>1 DEF Cold
  <2>1. CASE c <= Len(f)
    <3>1. c \in 1..Len(f)
      BY <1>1, <2>1
    <3> QED BY <1>1, <3>1 DEF Cold
  <2>2. CASE c > Len(f)
    <3>1. c - Len(f) \in 1..Len(ps) /\ Len(f) + (c - Len(f)) = c
      BY <1>1, <2>2
    <3>2. ps[c - Len(f)].type = "cold"
      BY <1>1, <3>1
    <3> QED BY <1>1, <3>1, <3>2
  <2> QED BY <1>1, <2>1, <2>2
<1>3. \A c \in new : c \in 1..n /\ g[c].type = "cold" /\ c > Len(f)
  <2> SUFFICES ASSUME NEW j \in 1..Len(ps), ps[j].type = "cold"
               PROVE  Len(f) + j \in 1..n /\ g[Len(f) + j].type = "cold" /\ Len(f) + j > Len(f)
    BY <1>1
  <2> QED BY <1>1
<1>4. \A c \in h : c \in 1..n /\ g[c].type = "cold" /\ c <= Len(f)
  BY <1>1 DEF Youngest, Cold
<1>5. h \cup new \in SUBSET (1..n)
  BY <1>3, <1>4
<1> HIDE DEF new
<1>6. /\ R \subseteq h \cup new /\ Cardinality(R) <= HistorySize
      /\ \A c \in h \cup new, r \in R : r < c => c \in R
      /\ h \cup new # {} => R # {}
  <2>1. n \in Nat
    BY <1>1
  <2> QED BY <1>5, <2>1, RetainedIs
<1> HIDE DEF R
<1>7. R \subseteq Cold(g)
  BY <1>1, <1>3, <1>4, <1>6 DEF Cold
<1>8. ASSUME NEW c \in Cold(g), NEW r \in R, r < c PROVE c \in R
  <2>1. CASE c \in new
    BY <1>6, <1>8, <2>1
  <2>2. CASE c \in Cold(f) /\ r \in h
    <3>1. c \in h
      BY <1>8, <2>2 DEF Youngest
    <3> QED BY <1>6, <1>8, <3>1
  <2>3. CASE c \in Cold(f) /\ r \in new
    BY <1>1, <1>3, <1>8, <2>3 DEF Cold
  <2> QED BY <1>2, <1>6, <2>1, <2>2, <2>3
<1>9. Cold(g) # {} => R # {}
  BY <1>2, <1>6 DEF Youngest
<1>10. Youngest(g, R)
  BY <1>6, <1>7, <1>8, <1>9 DEF Youngest
<1> QED BY <1>10 DEF g, R, new

-----------------------------------------------------------------------------
(* Channels: the queue and the browser behind it *)

Known(f) == {x \in Frames : x[1] = "channel" => x[2] \in DOMAIN f}

Linked(f, x, y) == x[1] = "channel" /\ y[1] = "channel" =>
    /\ x[2] < y[2]
    /\ \A k \in (x[2] + 1)..(y[2] - 1) : f[k].type # "cold"

Chain(f, s) == \A i \in 1..(Len(s) - 1) : Linked(f, s[i], s[i + 1])

Complete(f, x) == x[1] = "channel" => \A k \in DOMAIN f : k > x[2] => f[k].type # "cold"

\* The last frame of a queue, or the one before it.
EndOf(e, q) == IF q = <<>> THEN e ELSE q[Len(q)]

Line(f, e, q, d) ==
    /\ Chain(f, q)
    /\ d = 0 /\ q # <<>> => Linked(f, e, q[1])
    /\ d > 0 => q # <<>>
    /\ Len(q) <= SessionQueue

\* The last frame that the browser was sent, or is about to be.
Sent(s, b) ==
    IF s.held # NoFrame THEN s.held ELSE IF b.got # <<>> THEN b.got[Len(b.got)] ELSE Gap

Wired(f, s, b) ==
    /\ b \in [cursor : 0..(MaxPushes + MaxMirrored), got : Seq(Known(f)), connects : 0..MaxConnects]
    /\ s \in [open : BOOLEAN, queue : Seq(Known(f)), dropped : Nat, held : Known(f) \cup {NoFrame}]
    /\ ~s.open => s = Closed
    /\ s.held # NoFrame => b.got # <<>> /\ b.got[Len(b.got)] = Gap
    /\ b.got # <<>> /\ b.got[Len(b.got)] # Gap => b.cursor = b.got[Len(b.got)][2]

Told(f, s, b) ==
    /\ Wired(f, s, b)
    /\ Chain(f, b.got)
    /\ Line(f, Sent(s, b), s.queue, s.dropped)
    /\ s.open => Complete(f, EndOf(Sent(s, b), s.queue))

\* A queue that lost its oldest frames has no hole between the others.
LEMMA ChainCut ==
  ASSUME NEW S, NEW f, NEW s \in Seq(S), NEW n \in Nat, Chain(f, s),
         NEW r \in Seq(S), Len(r) = Len(s) - n, \A k \in 1..Len(r) : r[k] = s[n + k]
  PROVE  Chain(f, r)
<1> SUFFICES ASSUME NEW k \in 1..(Len(r) - 1) PROVE Linked(f, r[k], r[k + 1])
  BY DEF Chain
<1>1. Len(s) \in Nat /\ Len(r) \in Nat
  OBVIOUS
<1>2. n + k \in 1..(Len(s) - 1) /\ k \in 1..Len(r) /\ k + 1 \in 1..Len(r) /\ n + (k + 1) = (n + k) + 1
  BY <1>1
<1>3. Linked(f, s[n + k], s[(n + k) + 1])
  BY <1>2 DEF Chain
<1>4. r[k] = s[n + k] /\ r[k + 1] = s[n + (k + 1)]
  BY <1>2
<1> QED BY <1>2, <1>3, <1>4

\* Frames that continue a queue leave no hole in it.
LEMMA ChainJoined ==
  ASSUME NEW S, NEW f, NEW e, NEW q \in Seq(S), NEW fs \in Seq(S), Chain(f, q), Chain(f, fs),
         fs # <<>>, Linked(f, EndOf(e, q), fs[1])
  PROVE  Chain(f, q \o fs)
<1> DEFINE all == q \o fs
<1>1. /\ all \in Seq(S) /\ Len(all) = Len(q) + Len(fs)
      /\ \A k \in 1..Len(q) : all[k] = q[k]
      /\ \A k \in 1..Len(fs) : all[Len(q) + k] = fs[k]
  BY JoinedSeqs DEF JoinedBy
<1>2. Len(q) \in Nat /\ Len(fs) \in Nat /\ 1 \in 1..Len(fs) /\ (q = <<>> <=> Len(q) = 0)
  OBVIOUS
<1> HIDE DEF all
<1> SUFFICES ASSUME NEW k \in 1..(Len(all) - 1) PROVE Linked(f, all[k], all[k + 1])
  BY DEF Chain, all
<1>3. CASE k < Len(q)
  <2>1. k \in 1..(Len(q) - 1) /\ k \in 1..Len(q) /\ k + 1 \in 1..Len(q)
    BY <1>1, <1>2, <1>3
  <2>2. Linked(f, q[k], q[k + 1])
    BY <2>1 DEF Chain
  <2> QED BY <1>1, <2>1, <2>2
<1>4. CASE k = Len(q)
  <2>1. k \in 1..Len(q) /\ q # <<>>
    BY <1>2, <1>4
  <2>2. EndOf(e, q) = q[k] /\ all[k] = q[k] /\ all[k + 1] = fs[1]
    BY <1>1, <1>2, <1>4, <2>1 DEF EndOf
  <2> QED BY <2>2
<1>5. CASE k > Len(q)
  <2>1. /\ k - Len(q) \in 1..(Len(fs) - 1) /\ k - Len(q) \in 1..Len(fs) /\ (k - Len(q)) + 1 \in 1..Len(fs)
        /\ Len(q) + (k - Len(q)) = k /\ Len(q) + ((k - Len(q)) + 1) = k + 1
    BY <1>1, <1>2, <1>5
  <2>2. Linked(f, fs[k - Len(q)], fs[(k - Len(q)) + 1])
    BY <2>1 DEF Chain
  <2>3. PICK j \in 1..Len(fs) : j = k - Len(q) /\ j + 1 \in 1..Len(fs) /\ Len(q) + j = k /\ Len(q) + (j + 1) = k + 1
    BY <2>1
  <2>4. all[Len(q) + j] = fs[j] /\ all[Len(q) + (j + 1)] = fs[j + 1]
    BY <1>1, <2>3
  <2>5. all[k] = fs[k - Len(q)] /\ all[k + 1] = fs[(k - Len(q)) + 1]
    BY <2>3, <2>4
  <2> QED BY <2>2, <2>5
<1> QED BY <1>1, <1>2, <1>3, <1>4, <1>5

\* What a queue is after frames have been put into it.
Continued(S, f, e, q, d, fs) ==
    LET all == q \o fs
        over == Max({0, Len(all) - SessionQueue})
        r == SubSeq(all, over + 1, Len(all))
    IN /\ r \in Seq(S) /\ d + over \in Nat /\ Line(f, e, r, d + over)
       /\ EndOf(e, r) = fs[Len(fs)]

\* An overflowing queue is a line again, behind a loss that is counted.
LEMMA EnqueuedLine ==
  ASSUME NEW S, NEW f, NEW e, NEW q \in Seq(S), NEW d \in Nat, NEW fs \in Seq(S),
         Line(f, e, q, d), Chain(f, fs), fs # <<>>, Linked(f, EndOf(e, q), fs[1])
  PROVE  Continued(S, f, e, q, d, fs)
<1> DEFINE all == q \o fs
           over == Max({0, Len(all) - SessionQueue})
           r == SubSeq(all, over + 1, Len(all))
<1>1. /\ all \in Seq(S) /\ Len(all) = Len(q) + Len(fs)
      /\ \A k \in 1..Len(q) : all[k] = q[k]
      /\ \A k \in 1..Len(fs) : all[Len(q) + k] = fs[k]
  BY JoinedSeqs DEF JoinedBy
<1>2. /\ Len(q) \in Nat /\ Len(fs) \in Nat \ {0} /\ SessionQueue \in Nat \ {0} /\ Len(q) <= SessionQueue
      /\ (q = <<>> <=> Len(q) = 0)
  BY ChannelsAssumption DEF ChannelsAssumption, Line
<1>3. Chain(f, all)
  BY ChainJoined DEF Line
<1> HIDE DEF all
<1>4. Len(all) \in Nat /\ Len(all) - SessionQueue \in Int
  BY <1>1, <1>2
<1>5. over = IF Len(all) - SessionQueue > 0 THEN Len(all) - SessionQueue ELSE 0
  BY <1>4, MaxIs
<1> HIDE DEF over
<1>6. over \in Nat /\ over < Len(all) /\ over <= Len(all) /\ Len(all) - over <= SessionQueue
  BY <1>1, <1>2, <1>4, <1>5
<1>7. r \in Seq(S) /\ Len(r) = Len(all) - over /\ \A k \in 1..Len(r) : r[k] = all[over + k]
  BY <1>1, <1>6, CutIs
<1> HIDE DEF r
<1>8. Chain(f, r)
  BY <1>1, <1>3, <1>6, <1>7, ChainCut
<1>9. r # <<>> /\ Len(r) <= SessionQueue /\ Len(r) \in Nat \ {0} /\ 1 \in 1..Len(r) /\ Len(r) \in 1..Len(r)
  BY <1>4, <1>6, <1>7
<1>10. ASSUME d + over = 0 PROVE Linked(f, e, r[1])
  <2>1. d = 0 /\ over = 0
    BY <1>6, <1>10
  <2>2. r[1] = all[1]
    BY <1>7, <1>9, <2>1
  <2>3. CASE q = <<>>
    <3>1. Len(q) = 0 /\ 1 \in 1..Len(fs) /\ EndOf(e, q) = e /\ Len(q) + 1 = 1
      BY <1>2, <2>3 DEF EndOf
    <3>2. all[1] = fs[1]
      BY <1>1, <3>1
    <3> QED BY <2>2, <3>1, <3>2
  <2>4. CASE q # <<>>
    <3>1. 1 \in 1..Len(q)
      BY <1>2, <2>4
    <3> QED BY <1>1, <2>1, <2>2, <2>4, <3>1 DEF Line
  <2> QED BY <2>3, <2>4
<1>11. Line(f, e, r, d + over)
  BY <1>8, <1>9, <1>10 DEF Line
<1>12. EndOf(e, r) = fs[Len(fs)]
  <2>1. over + Len(r) = Len(all) /\ Len(fs) \in 1..Len(fs)
    BY <1>2, <1>4, <1>6, <1>7
  <2>2. r[Len(r)] = all[Len(all)]
    <3>1. r[Len(r)] = all[over + Len(r)]
      BY <1>7, <1>9
    <3> QED BY <2>1, <3>1
  <2>3. all[Len(all)] = fs[Len(fs)]
    BY <1>1, <2>1
  <2> QED BY <1>9, <2>2, <2>3 DEF EndOf
<1>13. d + over \in Nat
  BY <1>6
<1> QED BY <1>7, <1>11, <1>12, <1>13 DEF r, over, all, Continued

\* What is in a queue is a frame, whose id a browser may remember.
LEMMA KnownIs ==
  ASSUME NEW f, NEW x \in Known(f)
  PROVE  /\ x \in Frames /\ x # NoFrame
         /\ x[1] = "channel" => x[2] \in DOMAIN f /\ x[2] \in 1..(MaxPushes + MaxMirrored)
         /\ x # Gap => x[2] \in 1..(MaxPushes + MaxMirrored)
<1>1. x \in Frames /\ (x[1] = "channel" => x[2] \in DOMAIN f)
  BY DEF Known
<1>2. x = Gap \/ x \in {"channel", "agent"} \X (1..(MaxPushes + MaxMirrored))
  BY <1>1 DEF Frames
<1>3. CASE x = Gap
  BY <1>1, <1>3 DEF Gap, NoFrame
<1>4. CASE x \in {"channel", "agent"} \X (1..(MaxPushes + MaxMirrored))
  BY <1>1, <1>4 DEF NoFrame
<1> QED BY <1>2, <1>3, <1>4

LEMMA GapKnown ==
  ASSUME NEW f
  PROVE  Gap \in Known(f) /\ Gap[1] # "channel"
  BY DEF Gap, Known, Frames

\* The last frame sent is one that exists.
LEMMA SentIs ==
  ASSUME NEW f, NEW s, NEW b, Wired(f, s, b)
  PROVE  Sent(s, b) \in Known(f)
<1>1. s.held \in Known(f) \cup {NoFrame} /\ b.got \in Seq(Known(f))
  BY DEF Wired
<1>2. b.got # <<>> => b.got[Len(b.got)] \in Known(f)
  BY <1>1
<1> QED BY <1>1, <1>2, GapKnown DEF Sent

\* So is the last one of the queue.
LEMMA EndIs ==
  ASSUME NEW S, NEW e \in S, NEW q \in Seq(S)
  PROVE  EndOf(e, q) \in S
  BY DEF EndOf

\* Frames that are broadcast later change nothing of what lies between earlier ones.
Grown(f, g) == \A n \in DOMAIN f : n \in DOMAIN g /\ g[n] = f[n]

\* A broadcast only adds frames.
LEMMA JoinedGrown ==
  ASSUME NEW S, NEW f \in Seq(S), NEW ps \in Seq(S)
  PROVE  Grown(f, f \o ps)
<1>1. JoinedBy(S, f, ps)
  BY JoinedSeqs
<1>2. Len(f) \in Nat /\ Len(ps) \in Nat /\ DOMAIN f = 1..Len(f)
  OBVIOUS
<1>3. DOMAIN (f \o ps) = 1..(Len(f) + Len(ps))
  BY <1>1 DEF JoinedBy
<1> QED BY <1>1, <1>2, <1>3 DEF JoinedBy, Grown

\* Frames that exist go on to exist.
LEMMA KnownGrows ==
  ASSUME NEW f, NEW g, Grown(f, g)
  PROVE  Known(f) \subseteq Known(g)
  BY DEF Known, Grown

\* Nor does it open a hole between two frames, ...
LEMMA LinkGrows ==
  ASSUME NEW f \in Seq(Piece0), NEW g, Grown(f, g), NEW x \in Known(f), NEW y \in Known(f), Linked(f, x, y)
  PROVE  Linked(g, x, y)
<1> SUFFICES ASSUME x[1] = "channel", y[1] = "channel"
             PROVE  x[2] < y[2] /\ \A k \in (x[2] + 1)..(y[2] - 1) : g[k].type # "cold"
  BY DEF Linked
<1>1. x[2] \in 1..Len(f) /\ y[2] \in 1..Len(f) /\ Len(f) \in Nat /\ DOMAIN f = 1..Len(f)
  BY KnownIs
<1>2. \A k \in (x[2] + 1)..(y[2] - 1) : k \in 1..Len(f)
  BY <1>1
<1> QED BY <1>1, <1>2 DEF Linked, Grown

\* ... in what a browser has received, ...
LEMMA ChainGrows ==
  ASSUME NEW f \in Seq(Piece0), NEW g, Grown(f, g), NEW s \in Seq(Known(f)), Chain(f, s)
  PROVE  Chain(g, s)
<1> SUFFICES ASSUME NEW i \in 1..(Len(s) - 1) PROVE Linked(g, s[i], s[i + 1])
  BY DEF Chain
<1>1. s[i] \in Known(f) /\ s[i + 1] \in Known(f)
  <2>1. i \in 1..Len(s) /\ i + 1 \in 1..Len(s)
    OBVIOUS
  <2> QED BY <2>1
<1>2. Linked(f, s[i], s[i + 1])
  BY DEF Chain
<1> QED BY <1>1, <1>2, LinkGrows

\* ... or in a queue.
LEMMA LineGrows ==
  ASSUME NEW f \in Seq(Piece0), NEW g, Grown(f, g), NEW e \in Known(f), NEW q \in Seq(Known(f)), NEW d,
         Line(f, e, q, d)
  PROVE  Line(g, e, q, d)
<1>1. Chain(g, q)
  BY ChainGrows DEF Line
<1>2. ASSUME d = 0, q # <<>> PROVE Linked(g, e, q[1])
  <2>1. q[1] \in Known(f)
    BY <1>2
  <2>2. Linked(f, e, q[1])
    BY <1>2 DEF Line
  <2> QED BY <2>1, <2>2, LinkGrows
<1> QED BY <1>1, <1>2 DEF Line

\* The types stay as well.
LEMMA WiredGrows ==
  ASSUME NEW f, NEW g, Grown(f, g), NEW s, NEW b, Wired(f, s, b)
  PROVE  Wired(g, s, b)
<1>1. Known(f) \subseteq Known(g)
  BY KnownGrows
<1>2. Seq(Known(f)) \subseteq Seq(Known(g))
  BY <1>1
<1>3. b \in [cursor : 0..(MaxPushes + MaxMirrored), got : Seq(Known(g)), connects : 0..MaxConnects]
  BY <1>2 DEF Wired
<1>4. s \in [open : BOOLEAN, queue : Seq(Known(g)), dropped : Nat, held : Known(g) \cup {NoFrame}]
  BY <1>1, <1>2 DEF Wired
<1> QED BY <1>3, <1>4 DEF Wired

\* Frames that continue the queue of a listener, up to the last cold one, keep the invariant.
LEMMA EnqueuedTold ==
  ASSUME NEW g, NEW s, NEW b, Wired(g, s, b), Chain(g, b.got),
         Line(g, Sent(s, b), s.queue, s.dropped), s.open = TRUE,
         NEW fs \in Seq(Known(g)), fs # <<>>, Chain(g, fs),
         Linked(g, EndOf(Sent(s, b), s.queue), fs[1]), Complete(g, fs[Len(fs)])
  PROVE  Told(g, EnqueueAll(s, fs), b)
<1> DEFINE K == Known(g)
           all == s.queue \o fs
           over == Max({0, Len(all) - SessionQueue})
           r == SubSeq(all, over + 1, Len(all))
           z == EnqueueAll(s, fs)
           e == Sent(s, b)
<1>1. s \in [open : BOOLEAN, queue : Seq(K), dropped : Nat, held : K \cup {NoFrame}]
  BY DEF Wired
<1>2. s.queue \in Seq(K) /\ s.dropped \in Nat /\ s.held \in K \cup {NoFrame}
  BY <1>1
<1>3. /\ r \in Seq(K) /\ s.dropped + over \in Nat /\ Line(g, e, r, s.dropped + over)
      /\ EndOf(e, r) = fs[Len(fs)]
  <2> HIDE DEF K, e
  <2>1. fs \in Seq(K) /\ Line(g, e, s.queue, s.dropped) /\ Linked(g, EndOf(e, s.queue), fs[1])
    BY DEF K, e
  <2>2. Continued(K, g, e, s.queue, s.dropped, fs)
    BY <1>2, <2>1, EnqueuedLine
  <2> QED BY <2>2 DEF Continued
<1>4. z = [s EXCEPT !.queue = r, !.dropped = s.dropped + over]
  BY DEF EnqueueAll
<1> HIDE DEF r, over, all, z, K
<1>5. /\ z \in [open : BOOLEAN, queue : Seq(K), dropped : Nat, held : K \cup {NoFrame}]
      /\ z.open = TRUE /\ z.queue = r /\ z.dropped = s.dropped + over /\ z.held = s.held
  BY <1>1, <1>3, <1>4
<1>6. Sent(z, b) = e
  BY <1>5 DEF Sent
<1>7. Wired(g, z, b)
  BY <1>5 DEF Wired, K
<1>8. Complete(g, EndOf(Sent(z, b), z.queue))
  BY <1>3, <1>5, <1>6
<1> QED BY <1>3, <1>5, <1>6, <1>7, <1>8 DEF Told, z

\* One frame more that continues what was received.
LEMMA ChainAppend ==
  ASSUME NEW S, NEW f, NEW s \in Seq(S), NEW x \in S, Chain(f, s),
         s # <<>> => Linked(f, s[Len(s)], x)
  PROVE  Chain(f, Append(s, x))
<1> DEFINE t == Append(s, x)
<1>1. /\ Len(s) \in Nat /\ Len(t) = Len(s) + 1 /\ t[Len(s) + 1] = x /\ \A k \in 1..Len(s) : t[k] = s[k]
      /\ (Len(s) # 0 => s # <<>>)
  OBVIOUS
<1> HIDE DEF t
<1>2. ASSUME NEW i \in 1..(Len(t) - 1) PROVE Linked(f, t[i], t[i + 1])
  <2>1. CASE i = Len(s)
    <3>1. i \in 1..Len(s) /\ s # <<>>
      BY <1>1, <2>1
    <3> QED BY <1>1, <2>1, <3>1
  <2>2. CASE i # Len(s)
    <3>1. i \in 1..(Len(s) - 1) /\ i \in 1..Len(s) /\ i + 1 \in 1..Len(s)
      BY <1>1, <2>2
    <3>2. Linked(f, s[i], s[i + 1])
      BY <3>1 DEF Chain
    <3> QED BY <1>1, <3>1, <3>2
  <2> QED BY <2>1, <2>2
<1> QED BY <1>2 DEF Chain, t

\* The oldest frame is taken from a queue.
LEMMA TailLine ==
  ASSUME NEW S, NEW f, NEW e, NEW d, NEW q \in Seq(S), q # <<>>, Line(f, e, q, d)
  PROVE  /\ Head(q) \in S /\ Head(q) = q[1] /\ Tail(q) \in Seq(S)
         /\ Line(f, Head(q), Tail(q), 0)
         /\ EndOf(Head(q), Tail(q)) = EndOf(e, q)
<1> DEFINE t == Tail(q)
<1>1. /\ Head(q) \in S /\ Head(q) = q[1] /\ t \in Seq(S) /\ Len(t) = Len(q) - 1 /\ Len(q) \in Nat \ {0}
      /\ \A k \in 1..(Len(q) - 1) : t[k] = q[k + 1]
  OBVIOUS
<1> HIDE DEF t
<1>2. t = <<>> <=> Len(q) = 1
  BY <1>1
<1>3. ASSUME NEW i \in 1..(Len(t) - 1) PROVE Linked(f, t[i], t[i + 1])
  <2>1. /\ i + 1 \in 1..(Len(q) - 1) /\ i \in 1..(Len(q) - 1)
    BY <1>1
  <2>2. Linked(f, q[i + 1], q[(i + 1) + 1])
    BY <2>1 DEF Line, Chain
  <2> QED BY <1>1, <2>1, <2>2
<1>4. ASSUME t # <<>> PROVE Linked(f, Head(q), t[1])
  <2>1. 1 \in 1..(Len(q) - 1)
    BY <1>1, <1>2, <1>4
  <2>2. Linked(f, q[1], q[1 + 1])
    BY <2>1 DEF Line, Chain
  <2> QED BY <1>1, <2>1, <2>2
<1>5. Len(t) <= SessionQueue
  <2>1. Len(q) <= SessionQueue /\ SessionQueue \in Nat
    BY ChannelsAssumption DEF ChannelsAssumption, Line
  <2> QED BY <1>1, <2>1
<1>6. EndOf(Head(q), t) = EndOf(e, q)
  <2>1. CASE t = <<>>
    BY <1>1, <1>2, <2>1 DEF EndOf
  <2>2. CASE t # <<>>
    <3>1. Len(q) - 1 \in 1..(Len(q) - 1) /\ (Len(q) - 1) + 1 = Len(q)
      BY <1>1, <1>2, <2>2
    <3>2. t[Len(q) - 1] = q[Len(q)]
      BY <1>1, <3>1
    <3> QED BY <1>1, <2>2, <3>2 DEF EndOf
  <2> QED BY <2>1, <2>2
<1>7. Line(f, Head(q), t, 0)
  BY <1>3, <1>4, <1>5 DEF Line, Chain
<1> QED BY <1>1, <1>6, <1>7 DEF t

\* The next frame is sent when nothing was dropped.
LEMMA ToldTake ==
  ASSUME NEW f, NEW s, NEW b, Told(f, s, b), s.open, s.held = NoFrame, s.queue # <<>>, s.dropped = 0,
         NEW x, x = Head(s.queue),
         NEW s2, s2 = [s EXCEPT !.queue = Tail(@)],
         NEW b2, b2 = [b EXCEPT !.cursor = IF x = Gap THEN @ ELSE x[2], !.got = Append(@, x)]
  PROVE  Told(f, s2, b2)
<1> DEFINE K == Known(f)
<1>1. /\ b \in [cursor : 0..(MaxPushes + MaxMirrored), got : Seq(K), connects : 0..MaxConnects]
      /\ s \in [open : BOOLEAN, queue : Seq(K), dropped : Nat, held : K \cup {NoFrame}]
      /\ Chain(f, b.got) /\ Line(f, Sent(s, b), s.queue, 0)
  BY DEF Told, Wired
<1>2. s.queue \in Seq(K) /\ b.got \in Seq(K) /\ b.cursor \in 0..(MaxPushes + MaxMirrored)
  BY <1>1
<1>3. /\ x \in K /\ x = s.queue[1] /\ Tail(s.queue) \in Seq(K)
      /\ Line(f, x, Tail(s.queue), 0) /\ EndOf(x, Tail(s.queue)) = EndOf(Sent(s, b), s.queue)
  BY <1>1, <1>2, TailLine
<1>4. x # NoFrame /\ (x # Gap => x[2] \in 0..(MaxPushes + MaxMirrored))
  <2>1. x # NoFrame /\ (x # Gap => x[2] \in 1..(MaxPushes + MaxMirrored))
    BY <1>3, KnownIs
  <2> QED BY <2>1, ChannelsAssumption DEF ChannelsAssumption
<1> DEFINE c2 == IF x = Gap THEN b.cursor ELSE x[2]
           g2 == Append(b.got, x)
<1>5. g2 \in Seq(K) /\ g2 # <<>> /\ g2[Len(g2)] = x
  BY <1>2, <1>3
<1>6. c2 \in 0..(MaxPushes + MaxMirrored)
  BY <1>2, <1>4
<1>7. b2 = [b EXCEPT !.cursor = c2, !.got = g2]
  OBVIOUS
<1>8. Chain(f, g2)
  <2>1. b.got # <<>> => Sent(s, b) = b.got[Len(b.got)]
    BY DEF Sent
  <2>2. Linked(f, Sent(s, b), x)
    BY <1>1, <1>3 DEF Line
  <2>3. b.got # <<>> => Linked(f, b.got[Len(b.got)], x)
    BY <2>1, <2>2
  <2> QED BY <1>1, <1>2, <1>3, <2>3, ChainAppend
<1> HIDE DEF K, c2, g2
<1>9. /\ b2 \in [cursor : 0..(MaxPushes + MaxMirrored), got : Seq(K), connects : 0..MaxConnects]
      /\ b2.cursor = c2 /\ b2.got = g2
  BY <1>1, <1>5, <1>6, <1>7
<1> DEFINE q2 == Tail(s.queue)
<1> HIDE DEF q2
<1>10. /\ s2 \in [open : BOOLEAN, queue : Seq(K), dropped : Nat, held : K \cup {NoFrame}]
       /\ s2.open = s.open /\ s2.queue = q2 /\ s2.dropped = 0 /\ s2.held = NoFrame
  <2>1. s2 = [s EXCEPT !.queue = q2]
    BY DEF q2
  <2>2. q2 \in Seq(K)
    BY <1>3 DEF q2
  <2> QED BY <1>1, <2>1, <2>2
<1>11. Sent(s2, b2) = x
  BY <1>5, <1>9, <1>10 DEF Sent
<1>12. Wired(f, s2, b2)
  BY <1>5, <1>9, <1>10 DEF Wired, K, c2
<1>13. Line(f, Sent(s2, b2), s2.queue, s2.dropped)
  BY <1>3, <1>10, <1>11 DEF q2
<1>14. Complete(f, EndOf(Sent(s2, b2), s2.queue))
  BY <1>3, <1>10, <1>11 DEF q2, Told
<1> QED BY <1>8, <1>9, <1>12, <1>13, <1>14 DEF Told

\* A loss is told before the frame behind it.
LEMMA ToldLoss ==
  ASSUME NEW f, NEW s, NEW b, Told(f, s, b), s.open, s.held = NoFrame, s.queue # <<>>,
         NEW x, x = Head(s.queue),
         NEW s2, s2 = [s EXCEPT !.queue = Tail(@), !.dropped = 0, !.held = x],
         NEW b2, b2 = [b EXCEPT !.cursor = IF Gap = Gap THEN @ ELSE Gap[2], !.got = Append(@, Gap)]
  PROVE  Told(f, s2, b2)
<1> DEFINE K == Known(f)
<1>1. /\ b \in [cursor : 0..(MaxPushes + MaxMirrored), got : Seq(K), connects : 0..MaxConnects]
      /\ s \in [open : BOOLEAN, queue : Seq(K), dropped : Nat, held : K \cup {NoFrame}]
      /\ Chain(f, b.got) /\ Line(f, Sent(s, b), s.queue, s.dropped)
  BY DEF Told, Wired
<1>2. s.queue \in Seq(K) /\ b.got \in Seq(K)
  BY <1>1
<1>3. /\ x \in K /\ Tail(s.queue) \in Seq(K)
      /\ Line(f, x, Tail(s.queue), 0) /\ EndOf(x, Tail(s.queue)) = EndOf(Sent(s, b), s.queue)
  BY <1>1, <1>2, TailLine
<1>4. x # NoFrame
  BY <1>3, KnownIs
<1> DEFINE g2 == Append(b.got, Gap)
           q2 == Tail(s.queue)
<1>5. g2 \in Seq(K) /\ g2 # <<>> /\ g2[Len(g2)] = Gap
  BY <1>2, GapKnown
<1>6. b2 = [b EXCEPT !.got = g2]
  BY <1>1
<1>7. Chain(f, g2)
  <2>1. \A y : Linked(f, y, Gap)
    BY GapKnown DEF Linked
  <2>2. Gap \in K
    BY GapKnown
  <2> QED BY <1>1, <1>2, <2>1, <2>2, ChainAppend
<1> HIDE DEF K, g2, q2
<1>8. /\ b2 \in [cursor : 0..(MaxPushes + MaxMirrored), got : Seq(K), connects : 0..MaxConnects]
      /\ b2.got = g2
  BY <1>1, <1>5, <1>6
<1>9. /\ s2 \in [open : BOOLEAN, queue : Seq(K), dropped : Nat, held : K \cup {NoFrame}]
      /\ s2.open = s.open /\ s2.queue = q2 /\ s2.dropped = 0 /\ s2.held = x
  <2>1. s2 = [s EXCEPT !.queue = q2, !.dropped = 0, !.held = x]
    BY DEF q2
  <2>2. q2 \in Seq(K)
    BY <1>3 DEF q2
  <2>3. x \in K \cup {NoFrame}
    BY <1>3
  <2>4. /\ s2.open = s.open /\ s2.queue = q2 /\ s2.dropped = 0 /\ s2.held = x
    BY <1>1, <2>1
  <2>5. s2 = [open |-> s.open, queue |-> q2, dropped |-> 0, held |-> x]
    BY <1>1, <2>1
  <2>6. s.open \in BOOLEAN
    BY <1>1
  <2> QED BY <2>2, <2>3, <2>4, <2>5, <2>6
<1>10. Sent(s2, b2) = x
  BY <1>4, <1>9 DEF Sent
<1>11. Wired(f, s2, b2)
  BY <1>5, <1>8, <1>9 DEF Wired, K
<1>12. Line(f, Sent(s2, b2), s2.queue, s2.dropped)
  BY <1>3, <1>9, <1>10 DEF q2
<1>13. Complete(f, EndOf(Sent(s2, b2), s2.queue))
  BY <1>3, <1>9, <1>10 DEF q2, Told
<1> QED BY <1>7, <1>8, <1>11, <1>12, <1>13 DEF Told

\* The frame that was held back follows its stream_gap.
LEMMA ToldHeld ==
  ASSUME NEW f, NEW s, NEW b, Told(f, s, b), s.held # NoFrame,
         NEW x, x = s.held,
         NEW s2, s2 = [s EXCEPT !.held = NoFrame],
         NEW b2, b2 = [b EXCEPT !.cursor = IF x = Gap THEN @ ELSE x[2], !.got = Append(@, x)]
  PROVE  Told(f, s2, b2)
<1> DEFINE K == Known(f)
<1>1. /\ b \in [cursor : 0..(MaxPushes + MaxMirrored), got : Seq(K), connects : 0..MaxConnects]
      /\ s \in [open : BOOLEAN, queue : Seq(K), dropped : Nat, held : K \cup {NoFrame}]
      /\ Chain(f, b.got) /\ Line(f, Sent(s, b), s.queue, s.dropped)
  BY DEF Told, Wired
<1>2. b.got \in Seq(K) /\ b.cursor \in 0..(MaxPushes + MaxMirrored) /\ x \in K
  BY <1>1
<1>3. x # Gap => x[2] \in 0..(MaxPushes + MaxMirrored)
  <2>1. x # Gap => x[2] \in 1..(MaxPushes + MaxMirrored)
    BY <1>2, KnownIs
  <2> QED BY <2>1, ChannelsAssumption DEF ChannelsAssumption
<1> DEFINE c2 == IF x = Gap THEN b.cursor ELSE x[2]
           g2 == Append(b.got, x)
<1>4. g2 \in Seq(K) /\ g2 # <<>> /\ g2[Len(g2)] = x
  BY <1>2
<1>5. c2 \in 0..(MaxPushes + MaxMirrored)
  BY <1>2, <1>3
<1>6. b2 = [b EXCEPT !.cursor = c2, !.got = g2]
  OBVIOUS
<1>7. Chain(f, g2)
  <2>1. b.got[Len(b.got)] = Gap
    BY DEF Told, Wired
  <2>2. Linked(f, b.got[Len(b.got)], x)
    BY <2>1, GapKnown DEF Linked
  <2> QED BY <1>1, <1>2, <2>2, ChainAppend
<1> HIDE DEF K, c2, g2
<1>8. /\ b2 \in [cursor : 0..(MaxPushes + MaxMirrored), got : Seq(K), connects : 0..MaxConnects]
      /\ b2.cursor = c2 /\ b2.got = g2
  BY <1>1, <1>4, <1>5, <1>6
<1>9. /\ s2 \in [open : BOOLEAN, queue : Seq(K), dropped : Nat, held : K \cup {NoFrame}]
      /\ s2.open = s.open /\ s2.queue = s.queue /\ s2.dropped = s.dropped /\ s2.held = NoFrame
  BY <1>1
<1>10. Sent(s2, b2) = x /\ Sent(s, b) = x
  BY <1>4, <1>8, <1>9 DEF Sent
<1>11. s.open
  <2>1. Closed.held = NoFrame
    BY DEF Closed
  <2> QED BY <2>1 DEF Told, Wired
<1>12. Wired(f, s2, b2)
  BY <1>4, <1>8, <1>9, <1>11 DEF Wired, K, c2
<1>13. Line(f, Sent(s2, b2), s2.queue, s2.dropped)
  BY <1>1, <1>9, <1>10
<1>14. Complete(f, EndOf(Sent(s2, b2), s2.queue))
  BY <1>9, <1>10, <1>11 DEF Told
<1> QED BY <1>7, <1>8, <1>12, <1>13, <1>14 DEF Told

\* A listener that left.
LEMMA ClosedIs ==
  ASSUME NEW K
  PROVE  /\ Closed \in [open : BOOLEAN, queue : Seq(K), dropped : Nat, held : K \cup {NoFrame}]
         /\ ~Closed.open /\ Closed.queue = <<>> /\ Closed.dropped = 0 /\ Closed.held = NoFrame
<1>1. <<>> \in Seq(K)
  OBVIOUS
<1> QED BY <1>1 DEF Closed

\* Nothing waits for it.
LEMMA EmptyLine ==
  ASSUME NEW f, NEW e
  PROVE  Line(f, e, <<>>, 0)
<1>1. Len(<<>>) = 0 /\ 1..(0 - 1) = {} /\ SessionQueue \in Nat
  BY ChannelsAssumption DEF ChannelsAssumption
<1> QED BY <1>1 DEF Line, Chain

\* What was received stays without a hole when the browser leaves.
LEMMA ToldLeave ==
  ASSUME NEW f, NEW s, NEW b, Told(f, s, b)
  PROVE  Told(f, Closed, b)
<1>1. Wired(f, Closed, b)
  BY ClosedIs DEF Told, Wired
<1>2. Line(f, Sent(Closed, b), Closed.queue, Closed.dropped)
  BY ClosedIs, EmptyLine
<1> QED BY <1>1, <1>2, ClosedIs DEF Told

\* Frames that are broadcast continue the queue of a listener.
LEMMA ToldEmit ==
  ASSUME NEW f \in Seq(Piece0), NEW ps \in Seq(Piece0), Len(f) + Len(ps) <= MaxPushes, ps # <<>>,
         NEW s, NEW b, Told(f, s, b), s.open,
         NEW fs, fs = [i \in DOMAIN ps |-> <<"channel", Len(f) + i>>]
  PROVE  Told(f \o ps, EnqueueAll(s, fs), b)
<1> DEFINE g == f \o ps
           K == Known(f)
           n == Len(f)
           m == Len(ps)
<1>1. /\ n \in Nat /\ m \in Nat \ {0} /\ DOMAIN f = 1..n /\ DOMAIN ps = 1..m
      /\ DOMAIN g = 1..(n + m) /\ \A k \in 1..n : g[k] = f[k]
  <2>1. n \in Nat /\ m \in Nat \ {0} /\ DOMAIN f = 1..n /\ DOMAIN ps = 1..m
    OBVIOUS
  <2>2. JoinedBy(Piece0, f, ps)
    BY JoinedSeqs
  <2> QED BY <2>1, <2>2 DEF JoinedBy
<1>2. Grown(f, g)
  BY JoinedGrown
<1>3. /\ Wired(f, s, b) /\ Chain(f, b.got) /\ Line(f, Sent(s, b), s.queue, s.dropped)
      /\ Complete(f, EndOf(Sent(s, b), s.queue))
  BY DEF Told
<1>4. b.got \in Seq(K) /\ s.queue \in Seq(K) /\ Sent(s, b) \in K /\ s.open = TRUE
  <2>1. b.got \in Seq(K) /\ s.queue \in Seq(K)
    BY <1>3 DEF Wired
  <2>2. s.open \in BOOLEAN
    BY <1>3 DEF Wired
  <2> QED BY <1>3, <2>1, <2>2, SentIs
<1>5. EndOf(Sent(s, b), s.queue) \in K
  <2> HIDE DEF K
  <2> QED BY <1>4, EndIs
<1> HIDE DEF g, K
<1>6. Wired(g, s, b)
  BY <1>2, <1>3, WiredGrows
<1>7. Chain(g, b.got)
  BY <1>2, <1>3, <1>4, ChainGrows DEF K
<1>8. Line(g, Sent(s, b), s.queue, s.dropped)
  BY <1>2, <1>3, <1>4, LineGrows DEF K
<1>9. \A i \in 1..m : fs[i] = <<"channel", n + i>> /\ fs[i][1] = "channel" /\ fs[i][2] = n + i
  BY <1>1
<1>16. 1 \in 1..m /\ m \in 1..m
  BY <1>1
<1>10. \A i \in 1..m : fs[i] \in Known(g)
  <2> TAKE i \in 1..m
  <2>1. n + i \in 1..(n + m) /\ n + i \in 1..(MaxPushes + MaxMirrored)
    BY <1>1, ChannelsAssumption DEF ChannelsAssumption
  <2>2. fs[i] \in Frames
    BY <1>9, <2>1 DEF Frames
  <2> QED BY <1>1, <1>9, <2>1, <2>2 DEF Known
<1> HIDE DEF n, m
<1>11. fs \in Seq(Known(g)) /\ Len(fs) = m /\ fs # <<>>
  <2>1. fs \in [1..m -> Known(g)]
    BY <1>1, <1>10
  <2>2. m \in Nat /\ m # 0
    BY <1>1
  <2> QED BY <2>1, <2>2, Enumerated
<1>12. Chain(g, fs)
  <2> SUFFICES ASSUME NEW i \in 1..(m - 1) PROVE Linked(g, fs[i], fs[i + 1])
    BY <1>11 DEF Chain
  <2>1. i \in 1..m /\ i + 1 \in 1..m /\ n + i < n + (i + 1) /\ ((n + i) + 1)..((n + (i + 1)) - 1) = {}
    BY <1>1
  <2>2. fs[i][2] = n + i /\ fs[i + 1][2] = n + (i + 1)
    BY <1>9, <2>1
  <2> QED BY <2>1, <2>2 DEF Linked
<1>13. Linked(g, EndOf(Sent(s, b), s.queue), fs[1])
  <2> DEFINE x == EndOf(Sent(s, b), s.queue)
  <2> HIDE DEF x
  <2> SUFFICES ASSUME x[1] = "channel"
               PROVE  x[2] < fs[1][2] /\ \A k \in (x[2] + 1)..(fs[1][2] - 1) : g[k].type # "cold"
    BY DEF Linked, x
  <2>1. fs[1][2] = n + 1
    BY <1>9, <1>16
  <2>2. x[2] \in 1..n
    BY <1>1, <1>5, KnownIs DEF K, x
  <2>3. \A k \in (x[2] + 1)..n : k \in 1..n /\ k > x[2]
    BY <1>1, <2>2
  <2>4. \A k \in (x[2] + 1)..n : g[k].type # "cold"
    BY <1>1, <1>3, <2>3 DEF Complete, x
  <2>5. (n + 1) - 1 = n /\ x[2] < n + 1
    BY <1>1, <2>2
  <2> QED BY <2>1, <2>4, <2>5
<1>14. Complete(g, fs[Len(fs)])
  <2>1. fs[m][2] = n + m /\ \A k \in 1..(n + m) : ~(k > n + m)
    <3>1. fs[m][2] = n + m
      BY <1>9, <1>16
    <3>2. \A k \in 1..(n + m) : ~(k > n + m)
      BY <1>1
    <3> QED BY <3>1, <3>2
  <2> QED BY <1>1, <1>11, <2>1 DEF Complete
<1>15. Told(g, EnqueueAll(s, fs), b)
  BY <1>4, <1>6, <1>7, <1>8, <1>11, <1>12, <1>13, <1>14, EnqueuedTold
<1> QED BY <1>15 DEF g

\* Frames that are broadcast while nobody listens.
LEMMA ToldAway ==
  ASSUME NEW f \in Seq(Piece0), NEW ps \in Seq(Piece0), NEW s, NEW b, Told(f, s, b), ~s.open
  PROVE  Told(f \o ps, s, b)
<1>1. Grown(f, f \o ps)
  BY JoinedGrown
<1>2. /\ Wired(f, s, b) /\ Chain(f, b.got) /\ Line(f, Sent(s, b), s.queue, s.dropped)
  BY DEF Told
<1>3. b.got \in Seq(Known(f)) /\ s.queue \in Seq(Known(f))
  BY <1>2 DEF Wired
<1> DEFINE g == f \o ps
<1> HIDE DEF g
<1>4. Wired(g, s, b)
  BY <1>1, <1>2, WiredGrows DEF g
<1>5. Chain(g, b.got)
  BY <1>1, <1>2, <1>3, ChainGrows DEF g
<1>6. Line(g, Sent(s, b), s.queue, s.dropped)
  BY <1>1, <1>2, <1>3, SentIs, LineGrows DEF g
<1> QED BY <1>4, <1>5, <1>6 DEF Told, g

\* A frame of the agent session between two of the channel.
LEMMA ToldMirror ==
  ASSUME NEW f, NEW s, NEW b, Told(f, s, b), s.open, NEW m \in 1..MaxMirrored
  PROVE  Told(f, EnqueueAll(s, <<<<"agent", m>>>>), b)
<1> DEFINE x == <<"agent", m>>
           fs == <<x>>
<1>1. x \in Known(f)
  <2>1. m \in 1..(MaxPushes + MaxMirrored)
    BY ChannelsAssumption DEF ChannelsAssumption
  <2> QED BY <2>1 DEF Known, Frames
<1>2. x[1] # "channel"
  OBVIOUS
<1> HIDE DEF x
<1>3. fs \in Seq(Known(f)) /\ fs # <<>> /\ Len(fs) = 1 /\ fs[1] = x
  BY <1>1
<1> HIDE DEF fs
<1>4. Chain(f, fs) /\ Linked(f, EndOf(Sent(s, b), s.queue), fs[1]) /\ Complete(f, fs[Len(fs)])
  <2>1. \A i \in 1..(1 - 1) : FALSE
    OBVIOUS
  <2> QED BY <1>2, <1>3, <2>1 DEF Chain, Linked, Complete
<1>5. /\ Wired(f, s, b) /\ Chain(f, b.got) /\ Line(f, Sent(s, b), s.queue, s.dropped)
  BY DEF Told
<1>6. s.open = TRUE
  <2>1. s.open \in BOOLEAN
    BY <1>5 DEF Wired
  <2> QED BY <2>1
<1>7. Told(f, EnqueueAll(s, fs), b)
  BY <1>3, <1>4, <1>5, <1>6, EnqueuedTold
<1> QED BY <1>7 DEF fs, x

\* Unless its window has expired, the ring has all that a browser has missed.
LEMMA RingReaches ==
  ASSUME NEW f \in Seq(Piece0), Youngest(f, history), NEW since \in Nat, since > 0, ~WindowExpired(since),
         NEW c \in Cold(f), since < c
  PROVE  c \in history
<1>1. history # {} /\ history \in SUBSET Nat /\ c \in Nat
  BY DEF Youngest, Cold
<1>2. Min(history) \in history /\ Min(history) \in Nat
  BY <1>1, MinIs
<1>3. ~(since < Min(history) - 1)
  BY <1>1 DEF WindowExpired
<1>4. c = Min(history) \/ Min(history) < c
  BY <1>1, <1>2, <1>3
<1> QED BY <1>2, <1>4 DEF Youngest

\* The frames that are put into a new queue, before and behind them the frames
\* with the ids that the browser knows and will know.
Replayed(f, fs, since) ==
    /\ fs \in Seq(Known(f)) /\ Chain(f, fs)
    /\ fs # <<>> => Complete(f, fs[Len(fs)])
    /\ fs # <<>> /\ since > 0 => Linked(f, <<"channel", since>>, fs[1])
    /\ fs = <<>> /\ since > 0 => Complete(f, <<"channel", since>>)

\* The younger part of the ring has no hole and ends with the last cold frame.
LEMMA SuffixReplayed ==
  ASSUME NEW f \in Seq(Piece0), Len(f) <= MaxPushes, Youngest(f, history), NEW since \in Nat,
         NEW a, a = Ascending({n \in history : n > since}),
         NEW fs, fs = [i \in DOMAIN a |-> <<"channel", a[i]>>]
  PROVE  /\ fs \in Seq(Known(f)) /\ Chain(f, fs)
         /\ fs # <<>> => Complete(f, fs[Len(fs)])
         /\ fs = <<>> <=> \A n \in history : ~(n > since)
         /\ ~WindowExpired(since) => Replayed(f, fs, since)
<1> DEFINE N == {n \in history : n > since}
           l == Len(a)
<1>1. /\ Len(f) \in Nat /\ DOMAIN f = 1..Len(f) /\ history \subseteq 1..Len(f)
      /\ \A c \in history : f[c].type = "cold"
  BY DEF Youngest, Cold
<1>2. /\ a \in Seq(N) /\ \A i, j \in DOMAIN a : i < j => a[i] < a[j]
      /\ \A x \in N : \E i \in DOMAIN a : a[i] = x
  <2>1. N \in SUBSET (1..Len(f))
    BY <1>1
  <2> HIDE DEF N
  <2> QED BY <1>1, <2>1, AscendingIs DEF N
<1>3. l \in Nat /\ DOMAIN a = 1..l /\ \A i \in 1..l : a[i] \in N /\ a[i] \in 1..Len(f) /\ a[i] > since
  <2>1. l \in Nat /\ DOMAIN a = 1..l /\ \A i \in 1..l : a[i] \in N
    <3> HIDE DEF N
    <3>1. a \in Seq(N)
      BY <1>2
    <3> QED BY ONLY <3>1 DEF l
  <2> QED BY <1>1, <2>1
<1>4. \A i \in 1..l : fs[i] = <<"channel", a[i]>> /\ fs[i][1] = "channel" /\ fs[i][2] = a[i]
  BY <1>3
<1>5. \A i \in 1..l : fs[i] \in Known(f)
  <2> TAKE i \in 1..l
  <2>1. a[i] \in 1..Len(f) /\ a[i] \in 1..(MaxPushes + MaxMirrored)
    BY <1>1, <1>3, ChannelsAssumption DEF ChannelsAssumption
  <2> QED BY <1>1, <1>4, <2>1 DEF Known, Frames
<1>6. fs \in [1..l -> Known(f)]
  BY <1>3, <1>5
<1> HIDE DEF N, l
<1>7. fs \in Seq(Known(f)) /\ Len(fs) = l
  BY <1>3, <1>6, Enumerated
<1>8. fs = <<>> <=> l = 0
  BY <1>3, <1>6, Enumerated
<1>9. \* an id in the ring, above that of a frame, is that of a later one
      ASSUME NEW i \in 1..l, NEW k \in history, k > a[i] PROVE \E j \in 1..l : a[j] = k /\ i < j
  <2>1. k \in N
    BY <1>1, <1>3, <1>9 DEF N
  <2>2. PICK j \in 1..l : a[j] = k
    BY <1>2, <1>3, <2>1
  <2>3. i < j
    <3> SUFFICES ASSUME ~(i < j) PROVE FALSE
      OBVIOUS
    <3>1. a[i] \in 1..Len(f) /\ a[j] \in 1..Len(f)
      BY <1>3
    <3>2. CASE i = j
      BY <1>9, <2>2, <3>1, <3>2
    <3>3. CASE j < i
      <4>1. a[j] < a[i]
        BY <1>2, <1>3, <3>3
      <4> QED BY <1>9, <2>2, <3>1, <4>1
    <3> QED BY <1>3, <3>2, <3>3
  <2> QED BY <2>2, <2>3
<1>10. Chain(f, fs)
  <2> SUFFICES ASSUME NEW i \in 1..(l - 1) PROVE Linked(f, fs[i], fs[i + 1])
    BY <1>7 DEF Chain
  <2>1. i \in 1..l /\ i + 1 \in 1..l /\ i < i + 1
    BY <1>3
  <2>2. a[i] < a[i + 1] /\ a[i] \in 1..Len(f) /\ a[i + 1] \in 1..Len(f)
    BY <1>2, <1>3, <2>1
  <2>3. ASSUME NEW k \in (a[i] + 1)..(a[i + 1] - 1), f[k].type = "cold" PROVE FALSE
    <3>1. k \in 1..Len(f) /\ a[i] < k /\ k < a[i + 1] /\ k > a[i]
      BY <1>1, <2>2
    <3>2. k \in history
      <4>1. a[i] \in history /\ k \in Cold(f)
        BY <1>1, <1>3, <2>1, <2>3, <3>1 DEF N, Cold
      <4> QED BY <3>1, <4>1 DEF Youngest
    <3>3. PICK j \in 1..l : a[j] = k /\ i < j
      BY <1>9, <2>1, <3>1, <3>2
    <3>4. i + 1 = j \/ i + 1 < j
      BY <3>3
    <3>5. CASE i + 1 = j
      BY <2>2, <3>1, <3>3, <3>5
    <3>6. CASE i + 1 < j
      <4>1. a[i + 1] < a[j]
        BY <1>2, <1>3, <2>1, <3>6
      <4> QED BY <2>2, <3>1, <3>3, <4>1
    <3> QED BY <3>4, <3>5, <3>6
  <2> QED BY <1>4, <2>1, <2>2, <2>3 DEF Linked
<1>11. ASSUME fs # <<>> PROVE Complete(f, fs[Len(fs)])
  <2>1. l \in 1..l
    BY <1>3, <1>8, <1>11
  <2> SUFFICES ASSUME NEW k \in 1..Len(f), k > a[l], f[k].type = "cold" PROVE FALSE
    BY <1>1, <1>4, <1>7, <2>1 DEF Complete
  <2>2. k \in history
    <3>1. a[l] \in history /\ k \in Cold(f) /\ a[l] \in 1..Len(f)
      BY <1>1, <1>3, <2>1 DEF N, Cold
    <3>2. a[l] < k
      BY <3>1
    <3> QED BY <3>1, <3>2 DEF Youngest
  <2>3. PICK j \in 1..l : a[j] = k /\ l < j
    BY <1>9, <2>1, <2>2
  <2> QED BY <1>3, <2>3
<1>12. fs = <<>> <=> \A n \in history : ~(n > since)
  <2>1. ASSUME fs = <<>>, NEW n \in history, n > since PROVE FALSE
    <3>1. n \in N
      BY <2>1 DEF N
    <3> QED BY <1>2, <1>3, <1>8, <2>1, <3>1
  <2>2. ASSUME fs # <<>> PROVE \E n \in history : n > since
    <3>1. 1 \in 1..l
      BY <1>3, <1>8, <2>2
    <3> QED BY <1>3, <3>1 DEF N
  <2> QED BY <2>1, <2>2
<1>13. ASSUME ~WindowExpired(since), fs # <<>>, since > 0 PROVE Linked(f, <<"channel", since>>, fs[1])
  <2>1. 1 \in 1..l /\ l \in Nat
    BY <1>3, <1>8, <1>13
  <2>2. a[1] \in 1..Len(f) /\ a[1] > since
    BY <1>3, <2>1
  <2>3. ASSUME NEW k \in (since + 1)..(a[1] - 1), f[k].type = "cold" PROVE FALSE
    <3>1. k \in 1..Len(f) /\ since < k /\ k < a[1] /\ k > since
      BY <1>1, <2>2
    <3>2. k \in history
      BY <1>1, <1>13, <2>3, <3>1, RingReaches DEF Cold
    <3>3. k \in N
      BY <3>1, <3>2 DEF N
    <3>4. PICK j \in 1..l : a[j] = k
      BY <1>2, <1>3, <3>3
    <3>5. j = 1 \/ 1 < j
      OBVIOUS
    <3>6. CASE j = 1
      BY <2>2, <3>1, <3>4, <3>6
    <3>7. CASE 1 < j
      <4>1. a[1] < a[j]
        BY <1>2, <1>3, <2>1, <3>7
      <4> QED BY <2>2, <3>1, <3>4, <4>1
    <3> QED BY <3>5, <3>6, <3>7
  <2>4. <<"channel", since>>[2] = since /\ fs[1][2] = a[1] /\ since < a[1]
    BY <1>4, <2>1, <2>2
  <2> QED BY <2>3, <2>4 DEF Linked
<1>14. ASSUME ~WindowExpired(since), fs = <<>>, since > 0 PROVE Complete(f, <<"channel", since>>)
  <2> SUFFICES ASSUME NEW k \in 1..Len(f), k > since, f[k].type = "cold" PROVE FALSE
    BY <1>1 DEF Complete
  <2>1. k \in history
    <3>1. since < k /\ k \in Cold(f)
      BY <1>1 DEF Cold
    <3> QED BY <1>14, <3>1, RingReaches
  <2> QED BY <1>12, <1>14, <2>1
<1> QED BY <1>7, <1>10, <1>11, <1>12, <1>13, <1>14 DEF Replayed

\* A browser that knows no id has nothing to miss.
LEMMA NothingReplayed ==
  ASSUME NEW f
  PROVE  Replayed(f, <<>>, 0)
<1>1. <<>> \in Seq(Known(f)) /\ Len(<<>>) = 0 /\ 1..(0 - 1) = {}
  OBVIOUS
<1> QED BY <1>1 DEF Replayed, Chain

\* The replay continues what the browser has, or begins with a stream_gap.
LEMMA ReplayIs ==
  ASSUME NEW f \in Seq(Piece0), Len(f) <= MaxPushes, Youngest(f, history), NEW since \in Nat,
         NEW all \in BOOLEAN
  PROVE  Replayed(f, Replay(since, all), since)
<1> DEFINE a == Ascending({n \in history : n > since})
           fs == [i \in DOMAIN a |-> <<"channel", a[i]>>]
           K == Known(f)
<1>1. /\ fs \in Seq(K) /\ Chain(f, fs)
      /\ fs # <<>> => Complete(f, fs[Len(fs)])
      /\ fs = <<>> <=> \A n \in history : ~(n > since)
      /\ ~WindowExpired(since) => Replayed(f, fs, since)
  BY SuffixReplayed
<1>2. CASE since = 0 /\ ~all
  BY <1>2, NothingReplayed DEF Replay
<1>3. CASE ~(since = 0 /\ ~all) /\ ~WindowExpired(since)
  <2>1. Replay(since, all) = <<>> \o fs
    BY <1>3 DEF Replay
  <2> HIDE DEF fs
  <2>2. <<>> \o fs = fs
    BY <1>1
  <2> QED BY <1>1, <1>3, <2>1, <2>2
<1>4. CASE ~(since = 0 /\ ~all) /\ WindowExpired(since)
  <2> DEFINE all2 == <<Gap>> \o fs
             q == <<Gap>>
  <2>1. Replay(since, all) = all2
    BY <1>4 DEF Replay
  <2> HIDE DEF fs
  <2>2. fs # <<>>
    <3>1. since > 0 /\ history # {} /\ since < Min(history) - 1 /\ history \in SUBSET Nat
      BY <1>4 DEF WindowExpired, Youngest, Cold
    <3>2. Min(history) \in history /\ Min(history) \in Nat
      BY <3>1, MinIs
    <3>3. Min(history) > since
      BY <3>1, <3>2
    <3> QED BY <1>1, <3>2, <3>3
  <2>3. Gap \in K /\ Gap[1] # "channel" /\ \A y : Linked(f, Gap, y) /\ Linked(f, y, Gap)
    BY GapKnown DEF Linked
  <2> HIDE DEF K
  <2>4. q \in Seq(K) /\ Len(q) = 1 /\ q[1] = Gap /\ q # <<>>
    BY <2>3
  <2> HIDE DEF q
  <2>5. Chain(f, q)
    <3>1. 1..(1 - 1) = {}
      OBVIOUS
    <3> QED BY <2>4, <3>1 DEF Chain
  <2>6. EndOf(Gap, q) = Gap
    BY <2>4 DEF EndOf
  <2>7. Chain(f, q \o fs)
    BY <1>1, <2>2, <2>3, <2>4, <2>5, <2>6, ChainJoined
  <2>8. JoinedBy(K, q, fs)
    BY <1>1, <2>4, JoinedSeqs
  <2>9. Len(fs) \in Nat \ {0} /\ Len(fs) \in 1..Len(fs)
    BY <1>1, <2>2
  <2>10. /\ q \o fs \in Seq(K) /\ Len(q \o fs) = 1 + Len(fs)
         /\ (q \o fs)[1] = Gap /\ (q \o fs)[1 + Len(fs)] = fs[Len(fs)]
    BY <2>4, <2>8, <2>9 DEF JoinedBy
  <2>11. q \o fs # <<>>
    BY <2>9, <2>10
  <2>12. Replayed(f, q \o fs, since)
    BY <1>1, <2>2, <2>3, <2>7, <2>10, <2>11 DEF Replayed, K
  <2> QED BY <2>1, <2>12 DEF q
<1> QED BY <1>2, <1>3, <1>4

\* Nothing is put into a queue.
LEMMA EnqueuedNothing ==
  ASSUME NEW s \in [open : BOOLEAN, queue : {<<>>}, dropped : {0}, held : {NoFrame}]
  PROVE  EnqueueAll(s, <<>>) = s
<1>1. s.queue = <<>> /\ s.dropped = 0
  OBVIOUS
<1>2. <<>> \o <<>> = <<>> /\ Len(<<>>) = 0 /\ SubSeq(<<>>, 1, 0) = <<>>
  OBVIOUS
<1>3. Max({0, 0 - SessionQueue}) = 0
  <2>1. SessionQueue \in Nat
    BY ChannelsAssumption DEF ChannelsAssumption
  <2>2. 0 - SessionQueue \in Int /\ ~(0 - SessionQueue > 0)
    BY <2>1
  <2> QED BY <2>2, MaxIs
<1>4. EnqueueAll(s, <<>>) = [s EXCEPT !.queue = <<>>, !.dropped = 0]
  <2>1. 0 + 1 = 1 /\ 0 + 0 = 0
    OBVIOUS
  <2>2. EnqueueAll(s, <<>>) = [s EXCEPT !.queue = SubSeq(<<>>, 0 + 1, 0), !.dropped = 0 + 0]
    BY <1>1, <1>2, <1>3 DEF EnqueueAll
  <2> QED BY <1>2, <2>1, <2>2
<1> QED BY <1>1, <1>4

LEMMA ToldConnect ==
  ASSUME NEW f \in Seq(Piece0), Len(f) <= MaxPushes, Youngest(f, history),
         NEW s, NEW b, Told(f, s, b), ~s.open, b.connects < MaxConnects,
         NEW all \in BOOLEAN,
         NEW b2, b2 = [b EXCEPT !.connects = @ + 1]
  PROVE  Told(f, EnqueueAll([Closed EXCEPT !.open = TRUE], Replay(b.cursor, all)), b2)
<1> DEFINE K == Known(f)
           s0 == [Closed EXCEPT !.open = TRUE]
           e == Sent(s0, b2)
           fs == Replay(b.cursor, all)
<1>1. /\ b \in [cursor : 0..(MaxPushes + MaxMirrored), got : Seq(K), connects : 0..MaxConnects]
      /\ Chain(f, b.got)
      /\ b.got # <<>> /\ b.got[Len(b.got)] # Gap => b.cursor = b.got[Len(b.got)][2]
  BY DEF Told, Wired
<1>2. /\ b2 \in [cursor : 0..(MaxPushes + MaxMirrored), got : Seq(K), connects : 0..MaxConnects]
      /\ b2.got = b.got /\ b2.cursor = b.cursor
  <2>1. b.connects + 1 \in 0..MaxConnects
    BY <1>1, ChannelsAssumption DEF ChannelsAssumption
  <2> QED BY <1>1, <2>1
<1>3. /\ s0 \in [open : BOOLEAN, queue : {<<>>}, dropped : {0}, held : {NoFrame}]
      /\ s0.open = TRUE /\ s0.queue = <<>> /\ s0.dropped = 0 /\ s0.held = NoFrame
  BY DEF Closed
<1>4. s0 \in [open : BOOLEAN, queue : Seq(K), dropped : Nat, held : K \cup {NoFrame}]
  BY ClosedIs
<1>5. b.cursor \in Nat
  BY <1>1, ChannelsAssumption DEF ChannelsAssumption
<1>6. Replayed(f, fs, b.cursor)
  BY <1>5, ReplayIs
<1> HIDE DEF s0, fs, K
<1>7. e = (IF b.got # <<>> THEN b.got[Len(b.got)] ELSE Gap) /\ EndOf(e, <<>>) = e
  BY <1>2, <1>3 DEF Sent, EndOf
<1>8. \* the browser's id is that of the last frame, if that is one of the channel
      e[1] = "channel" => e = <<"channel", b.cursor>> /\ b.cursor > 0
  <2> SUFFICES ASSUME e[1] = "channel" PROVE e = <<"channel", b.cursor>> /\ b.cursor > 0
    OBVIOUS
  <2>1. b.got # <<>> /\ e = b.got[Len(b.got)] /\ e # Gap
    BY <1>7, GapKnown
  <2>2. e \in K
    BY <1>1, <2>1
  <2>3. e \in Frames /\ e[2] \in 1..(MaxPushes + MaxMirrored)
    BY <2>1, <2>2, KnownIs DEF K
  <2>4. e = <<e[1], e[2]>>
    BY <2>1, <2>3 DEF Frames
  <2>5. b.cursor = e[2]
    BY <1>1, <2>1
  <2>6. e = <<"channel", b.cursor>>
    BY <2>4, <2>5
  <2>7. b.cursor > 0
    <3> HIDE DEF e
    <3> QED BY <2>3, <2>5
  <2> QED BY <2>6, <2>7
<1>9. Wired(f, s0, b2)
  BY <1>1, <1>2, <1>3, <1>4 DEF Wired, K
<1>10. Line(f, e, s0.queue, s0.dropped)
  BY <1>3, EmptyLine
<1>11. CASE fs = <<>>
  <2>1. EnqueueAll(s0, fs) = s0
    BY <1>3, <1>11, EnqueuedNothing
  <2>2. Complete(f, EndOf(e, s0.queue))
    BY <1>3, <1>6, <1>7, <1>8, <1>11 DEF Replayed, Complete
  <2>3. Told(f, s0, b2)
    BY <1>1, <1>2, <1>9, <1>10, <2>2 DEF Told
  <2> QED BY <2>1, <2>3 DEF s0, fs
<1>12. CASE fs # <<>>
  <2>1. Linked(f, EndOf(e, s0.queue), fs[1])
    BY <1>3, <1>6, <1>7, <1>8, <1>12 DEF Replayed, Linked
  <2>2. fs \in Seq(Known(f)) /\ Chain(f, fs) /\ Complete(f, fs[Len(fs)]) /\ Chain(f, b2.got)
    BY <1>1, <1>2, <1>6, <1>12 DEF Replayed
  <2>3. Told(f, EnqueueAll(s0, fs), b2)
    BY <1>3, <1>9, <1>10, <1>12, <2>1, <2>2, EnqueuedTold
  <2> QED BY <2>3 DEF s0, fs
<1> QED BY <1>11, <1>12

-----------------------------------------------------------------------------
(* Channels: the invariant *)

ChanInv ==
    /\ Orderly(pushed, frames, buffers)
    /\ mirrored \in 0..MaxMirrored
    /\ Youngest(frames, history)
    /\ Told(frames, listener, browser)

\* Before the first event.
LEMMA ChanInitInv == ChanInit => ChanInv
<1> SUFFICES ASSUME ChanInit PROVE ChanInv
  OBVIOUS
<1> DEFINE none == <<>>
<1>1. none \in Seq(Types) /\ none \in Seq(Piece0) /\ Len(none) = 0 /\ DOMAIN none = {}
  <2>1. none \in Seq(Types) /\ none \in Seq(Piece0)
    OBVIOUS
  <2> QED BY <2>1
<1>2. pushed = none /\ buffers = none /\ frames = none /\ history = {} /\ mirrored = 0 /\ listener = Closed
      /\ browser = [cursor |-> 0, got |-> none, connects |-> 0]
  BY DEF ChanInit
<1>3. none \in Seq(Known(none))
  OBVIOUS
<1> HIDE DEF none
<1>4. MaxPushes \in Nat /\ MaxMirrored \in Nat /\ MaxConnects \in Nat /\ HistorySize \in Nat
  BY ChannelsAssumption DEF ChannelsAssumption
<1>5. Orderly(none, none, none)
  BY <1>1, <1>4 DEF Orderly
<1>6. Youngest(none, {})
  <2>1. Cold(none) = {}
    BY <1>1 DEF Cold
  <2>2. Cardinality({}) <= HistorySize
    BY <1>4, FS_EmptySet
  <2> QED BY <2>1, <2>2 DEF Youngest
<1>7. browser \in [cursor : 0..(MaxPushes + MaxMirrored), got : Seq(Known(none)), connects : 0..MaxConnects]
      /\ browser.got = none
  <2>1. 0 \in 0..(MaxPushes + MaxMirrored) /\ 0 \in 0..MaxConnects
    BY <1>4
  <2> QED BY <1>2, <1>3, <2>1
<1>8. Wired(none, Closed, browser)
  BY <1>7, ClosedIs DEF Wired, none
<1>9. Chain(none, none)
  <2>1. 1..(0 - 1) = {}
    OBVIOUS
  <2> QED BY <1>1, <2>1 DEF Chain
<1>10. Told(none, Closed, browser)
  BY <1>7, <1>8, <1>9, EmptyLine, ClosedIs DEF Told
<1>11. mirrored \in 0..MaxMirrored
  BY <1>2, <1>4
<1> QED BY <1>2, <1>5, <1>6, <1>10, <1>11 DEF ChanInv

\* Pieces are sent: what Emit makes of the ring and of the browser's connection.
LEMMA EmitInv ==
  ASSUME ChanInv, NEW ps \in Seq(Piece0), ps # <<>>, Len(frames) + Len(ps) <= MaxPushes, Emit(ps),
         browser' = browser
  PROVE  /\ frames' = frames \o ps
         /\ Youngest(frames', history')
         /\ Told(frames', listener', browser')
<1>1. frames \in Seq(Piece0) /\ Youngest(frames, history) /\ Told(frames, listener, browser)
  BY DEF ChanInv, Orderly
<1>2. frames' = frames \o ps
  BY DEF Emit
<1>3. history' = Retained(history \cup {Len(frames) + i : i \in {j \in DOMAIN ps : ps[j].type = "cold"}})
  BY DEF Emit
<1>4. Youngest(frames \o ps, history')
  BY <1>1, <1>3, YoungestNext
<1>5. CASE listener.open
  <2>1. listener' = EnqueueAll(listener, [i \in DOMAIN ps |-> <<"channel", Len(frames) + i>>])
    BY <1>5 DEF Emit
  <2>2. Told(frames \o ps, listener', browser)
    BY <1>1, <1>5, <2>1, ToldEmit
  <2> QED BY <1>2, <1>4, <2>2
<1>6. CASE ~listener.open
  <2>1. listener' = listener
    BY <1>6 DEF Emit
  <2>2. Told(frames \o ps, listener', browser)
    BY <1>1, <1>6, <2>1, ToldAway
  <2> QED BY <1>2, <1>4, <2>2
<1> QED BY <1>5, <1>6

\* What is sent is no more than has been pushed.
LEMMA OrderlyIs ==
  ASSUME NEW p, NEW f, NEW b, Orderly(p, f, b)
  PROVE  /\ p \in Seq(Types) /\ f \in Seq(Piece0) /\ b \in Seq(Piece0)
         /\ Len(f) \in Nat /\ Len(b) \in Nat /\ Len(p) \in Nat
         /\ Len(f) + Len(b) <= Len(p) /\ Len(p) <= MaxPushes /\ Len(f) <= MaxPushes
<1>1. p \in Seq(Types) /\ f \in Seq(Piece0) /\ b \in Seq(Piece0) /\ Len(f) + Len(b) <= Len(p) /\ Len(p) <= MaxPushes
  BY DEF Orderly
<1>2. Len(f) \in Nat /\ Len(b) \in Nat /\ Len(p) \in Nat
  BY <1>1
<1> QED BY <1>1, <1>2, ChannelsAssumption DEF ChannelsAssumption

\* An entry of buffers b is sent.
LEMMA SentInv ==
  ASSUME ChanInv, NEW p, NEW b, Orderly(p, frames, b), NEW i \in DOMAIN b,
         pushed' = p, buffers' = RemoveAt(b, i), Emit(<<b[i]>>), UNCHANGED <<mirrored, browser>>
  PROVE  ChanInv'
<1> DEFINE ps == <<b[i]>>
<1>1. b \in Seq(Piece0) /\ Len(frames) + Len(b) <= MaxPushes /\ Len(frames) \in Nat /\ Len(b) \in Nat
  BY OrderlyIs, ChannelsAssumption DEF ChannelsAssumption
<1>2. Len(frames) + 1 <= MaxPushes
  <2>1. i \in 1..Len(b)
    BY <1>1
  <2> QED BY <1>1, <2>1, ChannelsAssumption DEF ChannelsAssumption
<1>3. ps \in Seq(Piece0) /\ ps # <<>> /\ Len(ps) = 1
  <2>1. b[i] \in Piece0
    BY <1>1
  <2> QED BY <2>1
<1>4. Orderly(p, frames \o <<b[i]>>, RemoveAt(b, i))
  BY SentOrderly
<1> HIDE DEF ps
<1>5. /\ frames' = frames \o ps
      /\ Youngest(frames', history')
      /\ Told(frames', listener', browser')
  BY <1>2, <1>3, EmitInv DEF ps
<1>6. Orderly(pushed', frames', buffers')
  BY <1>4, <1>5 DEF ps
<1> QED BY <1>5, <1>6 DEF ChanInv

\* A delta that is buffered, or sent with its entry.
LEMMA DeltaInv ==
  ASSUME ChanInv, NEW t \in HotTypes, PushDelta(t)
  PROVE  ChanInv'
<1> DEFINE c == Buffered(t, Len(pushed) + 1)
           p == Append(pushed, t)
           i == CHOOSE j \in DOMAIN c : c[j].type = t
<1>1. /\ Orderly(pushed, frames, buffers) /\ Len(pushed) < MaxPushes /\ pushed' = p
      /\ UNCHANGED <<mirrored, browser>>
  BY DEF PushDelta, ChanInv
<1>2. Took(pushed, buffers, c, t)
  BY <1>1, BufferedTook
<1>3. Orderly(p, frames, c)
  BY <1>1, <1>2, TookOrderly
<1>4. i \in DOMAIN c
  <2>1. \E j \in DOMAIN c : c[j].type = t
    BY <1>2 DEF Took
  <2> HIDE DEF c
  <2> QED BY <2>1
<1>5. \/ buffers' = c /\ UNCHANGED <<frames, history, listener>>
      \/ buffers' = RemoveAt(c, i) /\ Emit(<<c[i]>>)
  BY DEF PushDelta
<1> HIDE DEF c, p, i
<1>6. CASE buffers' = c /\ UNCHANGED <<frames, history, listener>>
  BY <1>1, <1>3, <1>6 DEF ChanInv
<1>7. CASE buffers' = RemoveAt(c, i) /\ Emit(<<c[i]>>)
  BY <1>1, <1>3, <1>4, <1>7, SentInv
<1> QED BY <1>5, <1>6, <1>7

\* An event behind the deltas that were pending.
LEMMA ColdInv ==
  ASSUME ChanInv, NEW t \in {"cold", "status"}, BroadcastCold(t)
  PROVE  ChanInv'
<1> DEFINE x == [type |-> t, events |-> <<Len(pushed) + 1>>]
           ps == Append(buffers, x)
<1>1. /\ Orderly(pushed, frames, buffers) /\ Len(pushed) < MaxPushes /\ pushed' = Append(pushed, t)
      /\ UNCHANGED <<mirrored, browser>> /\ Emit(ps) /\ buffers' = <<>>
  BY DEF BroadcastCold, ChanInv, InTurn
<1>2. /\ pushed \in Seq(Types) /\ buffers \in Seq(Piece0)
      /\ Len(frames) \in Nat /\ Len(buffers) \in Nat /\ Len(pushed) \in Nat
      /\ Len(frames) + Len(buffers) <= Len(pushed)
  BY <1>1, OrderlyIs
<1>3. x \in Piece0
  <2>1. t \in Types
    BY DEF Types
  <2>2. Sound(Append(pushed, t), x)
    BY <1>1, <1>2, <2>1, FreshPiece
  <2> QED BY <2>2 DEF Sound
<1>4. Orderly(pushed', frames \o ps, <<>>)
  BY <1>1, FlushedOrderly
<1> HIDE DEF x
<1>5. ps \in Seq(Piece0) /\ Len(ps) = Len(buffers) + 1 /\ ps # <<>>
  BY <1>2, <1>3
<1>6. Len(frames) + Len(ps) <= MaxPushes
  BY <1>1, <1>2, <1>5, ChannelsAssumption DEF ChannelsAssumption
<1> HIDE DEF ps
<1>7. /\ frames' = frames \o ps
      /\ Youngest(frames', history')
      /\ Told(frames', listener', browser')
  BY <1>1, <1>5, <1>6, EmitInv
<1> QED BY <1>1, <1>4, <1>7 DEF ChanInv

\* Every step of the channel, of its listener and of the browser keeps the invariant.
LEMMA ChanNextInv == ChanInv /\ [ChanNext]_chanVars => ChanInv'
<1> SUFFICES ASSUME ChanInv, [ChanNext]_chanVars PROVE ChanInv'
  OBVIOUS
<1>0. /\ Orderly(pushed, frames, buffers) /\ mirrored \in 0..MaxMirrored
      /\ Youngest(frames, history) /\ Told(frames, listener, browser)
      /\ frames \in Seq(Piece0) /\ Len(frames) <= MaxPushes
  BY OrderlyIs DEF ChanInv
<1>1. ASSUME NEW t \in HotTypes, PushDelta(t) PROVE ChanInv'
  BY <1>1, DeltaInv
<1>2. ASSUME NEW t \in {"cold", "status"}, BroadcastCold(t) PROVE ChanInv'
  BY <1>2, ColdInv
<1>3. CASE TimerFires
  <2>1. PICK i \in DOMAIN buffers : buffers' = RemoveAt(buffers, i) /\ Emit(<<buffers[i]>>)
    BY <1>3 DEF TimerFires
  <2>2. pushed' = pushed /\ UNCHANGED <<mirrored, browser>>
    BY <1>3 DEF TimerFires
  <2> QED BY <1>0, <2>1, <2>2, SentInv
<1>4. CASE Mirror
  <2>1. mirrored + 1 \in 1..MaxMirrored /\ mirrored' = mirrored + 1 /\ mirrored' \in 0..MaxMirrored
    BY <1>0, <1>4, ChannelsAssumption DEF Mirror, ChannelsAssumption
  <2>2. UNCHANGED <<pushed, buffers, frames, history, browser>>
    BY <1>4 DEF Mirror
  <2>3. Told(frames, listener', browser)
    <3>1. CASE listener.open
      <4>1. listener' = EnqueueAll(listener, <<<<"agent", mirrored + 1>>>>)
        BY <1>4, <3>1 DEF Mirror
      <4> QED BY <1>0, <2>1, <3>1, <4>1, ToldMirror
    <3>2. CASE ~listener.open
      <4>1. listener' = listener
        BY <1>4, <3>2 DEF Mirror
      <4> QED BY <1>0, <4>1
    <3> QED BY <3>1, <3>2
  <2> QED BY <1>0, <2>1, <2>2, <2>3 DEF ChanInv
<1>5. ASSUME NEW all \in BOOLEAN, Connect(all) PROVE ChanInv'
  <2>1. /\ ~listener.open /\ browser.connects < MaxConnects
        /\ listener' = EnqueueAll([Closed EXCEPT !.open = TRUE], Replay(browser.cursor, all))
        /\ browser' = [browser EXCEPT !.connects = @ + 1]
        /\ UNCHANGED <<pushed, buffers, frames, history, mirrored>>
    BY <1>5 DEF Connect
  <2>2. Told(frames, listener', browser')
    BY <1>0, <2>1, ToldConnect
  <2> QED BY <1>0, <2>1, <2>2 DEF ChanInv
<1>6. CASE Take
  <2>1. /\ listener.open /\ listener.held = NoFrame /\ listener.queue # <<>>
        /\ UNCHANGED <<pushed, buffers, frames, history, mirrored>>
    BY <1>6 DEF Take
  <2>2. Told(frames, listener', browser')
    <3>1. CASE listener.dropped > 0
      <4>1. Receive(Gap) /\ listener' = [listener EXCEPT !.queue = Tail(@), !.dropped = 0, !.held = Head(listener.queue)]
        BY <1>6, <3>1 DEF Take
      <4> QED BY <1>0, <2>1, <4>1, ToldLoss DEF Receive
    <3>2. CASE ~(listener.dropped > 0)
      <4>1. Receive(Head(listener.queue)) /\ listener' = [listener EXCEPT !.queue = Tail(@)]
        BY <1>6, <3>2 DEF Take
      <4>2. listener.dropped = 0
        <5>1. listener.dropped \in Nat
          BY <1>0 DEF Told, Wired
        <5> QED BY <3>2, <5>1
      <4> QED BY <1>0, <2>1, <4>1, <4>2, ToldTake DEF Receive
    <3> QED BY <3>1, <3>2
  <2> QED BY <1>0, <2>1, <2>2 DEF ChanInv
<1>7. CASE SendHeld
  <2>1. /\ listener.held # NoFrame /\ Receive(listener.held)
        /\ listener' = [listener EXCEPT !.held = NoFrame]
        /\ UNCHANGED <<pushed, buffers, frames, history, mirrored>>
    BY <1>7 DEF SendHeld
  <2>2. Told(frames, listener', browser')
    BY <1>0, <2>1, ToldHeld DEF Receive
  <2> QED BY <1>0, <2>1, <2>2 DEF ChanInv
<1>8. CASE Leave
  <2>1. listener' = Closed /\ UNCHANGED <<pushed, buffers, frames, history, mirrored, browser>>
    BY <1>8 DEF Leave
  <2>2. Told(frames, listener', browser')
    BY <1>0, <2>1, ToldLeave
  <2> QED BY <1>0, <2>1, <2>2 DEF ChanInv
<1>9. CASE UNCHANGED chanVars
  BY <1>0, <1>9 DEF chanVars, ChanInv
<1> QED BY <1>1, <1>2, <1>3, <1>4, <1>5, <1>6, <1>7, <1>8, <1>9 DEF ChanNext

\* The invariant implies the types ...
LEMMA ChanInvTypes == ChanInv => ChanTypeOK
<1> SUFFICES ASSUME ChanInv PROVE ChanTypeOK
  OBVIOUS
<1>1. /\ Orderly(pushed, frames, buffers) /\ mirrored \in 0..MaxMirrored
      /\ Youngest(frames, history) /\ Told(frames, listener, browser)
  BY DEF ChanInv
<1>2. /\ pushed \in Seq(Types) /\ Len(pushed) <= MaxPushes
      /\ buffers \in Seq(Piece0) /\ frames \in Seq(Piece0)
      /\ \A i \in DOMAIN buffers : buffers[i].type \in HotTypes
  BY <1>1 DEF Orderly
<1>3. history \in SUBSET DOMAIN frames /\ Cardinality(history) <= HistorySize
  BY <1>1 DEF Youngest, Cold
<1>4. Wired(frames, listener, browser) /\ Len(listener.queue) <= SessionQueue
  BY <1>1 DEF Told, Line
<1>5. Known(frames) \subseteq Frames
  BY DEF Known
<1>6. Seq(Known(frames)) \subseteq Seq(Frames)
  BY <1>5
<1>7. browser \in [cursor : 0..(MaxPushes + MaxMirrored), got : Seq(Frames), connects : 0..MaxConnects]
  BY <1>4, <1>6 DEF Wired
<1>8. listener \in [open : BOOLEAN, queue : Seq(Frames), dropped : Nat, held : Frames \cup {NoFrame}]
  BY <1>4, <1>5, <1>6 DEF Wired
<1> QED BY <1>1, <1>2, <1>3, <1>4, <1>7, <1>8 DEF ChanTypeOK

\* ... and the order and completeness of what is received.
LEMMA ChanInvFaithful == ChanInv => ChannelFaithful
<1> SUFFICES ASSUME ChanInv PROVE ChannelFaithful
  OBVIOUS
<1>1. CausalOrder
  <2>1. Orderly(pushed, frames, buffers)
    BY DEF ChanInv
  <2> QED BY <2>1, OrderlyIsCausal DEF CausalOrder
<1>2. LossIsTold
  <2>1. Chain(frames, browser.got)
    BY DEF ChanInv, Told
  <2> QED BY <2>1 DEF LossIsTold, Chain, Linked
<1> QED BY <1>1, <1>2 DEF ChannelFaithful

\* The frames of a channel are in causal order and none is lost or repeated,
\* and a browser is told of every loss, for any sizes of the buffers, of the
\* ring and of the queue and any number of connections (Channel and Session of
\* sse_core.py).
THEOREM ChannelKept == ChanSpec => [](ChanTypeOK /\ ChannelFaithful)
<1>1. ChanSpec => []ChanInv
  BY ChanInitInv, ChanNextInv, PTL DEF ChanSpec
<1>2. ChanInv => ChanTypeOK /\ ChannelFaithful
  BY ChanInvTypes, ChanInvFaithful
<1> QED BY <1>1, <1>2, PTL
==============================================================================
