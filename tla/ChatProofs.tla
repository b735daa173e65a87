------------------------------- MODULE ChatProofs -------------------------------
(***************************************************************************)
(* The chat page, for any users, answers and requests in flight: the       *)
(* conversations it shows and stores (Chat), how it reads an answer        *)
(* (EventStream), what it does with the words, the images and the          *)
(* microphone of its box (Composer), and, last, what the events of an      *)
(* answer make of the messages (Transcript).                               *)
(***************************************************************************)
EXTENDS Chat, WellFoundedInduction, SequenceTheorems, TLAPS

-----------------------------------------------------------------------------
(* Sequences, and what the recursive functions over them compute: a set of *)
(* numbers, or of sequences, that has the first and with each the next has *)
(* them all.                                                               *)

LEMMA SmallestNumber ==
    ASSUME NEW S, S \subseteq Nat, S # {}
    PROVE  \E n \in S : \A m \in S : n <= m
<1> DEFINE R == OpToRel(<, Nat)
<1>1. IsWellFoundedOn(R, Nat)
  BY NatLessThanWellFounded, Zenon
<1>2. PICK n \in S : \A m \in S : ~(<<m, n>> \in R)
  <2> HIDE DEF R
  <2> QED BY <1>1, WFMin
<1>3. \A m \in S : ~(m < n)
  BY <1>2, Zenon DEF OpToRel
<1>4. QED
  BY <1>3

LEMMA Upwards ==
    ASSUME NEW N \in Nat, NEW S, 0 \in S, \A n \in 0..(N - 1) : n \in S => n + 1 \in S
    PROVE  \A n \in 0..N : n \in S
<1> DEFINE Bad == {n \in 0..N : n \notin S}
<1>1. SUFFICES ASSUME Bad # {} PROVE FALSE
  OBVIOUS
<1>2. PICK n \in Bad : \A m \in Bad : n <= m
  <2>1. Bad \subseteq Nat
    OBVIOUS
  <2> HIDE DEF Bad
  <2>2. QED
    BY <1>1, <2>1, SmallestNumber
<1>3. n # 0 /\ n - 1 \in 0..(N - 1) /\ (n - 1) + 1 = n
  OBVIOUS
<1>4. n - 1 \in S
  BY <1>2, <1>3
<1>5. QED
  BY <1>3, <1>4

LEMMA LastOff ==
    ASSUME NEW T, NEW s \in Seq(T), NEW n \in Nat, Len(s) = n + 1
    PROVE  \E r \in Seq(T), e \in T : s = Append(r, e) /\ Len(r) = n
<1>1. s # <<>>
  BY EmptySeq
<1>2. PICK r \in Seq(T), e \in T : s = Append(r, e)
  BY <1>1, SequenceEmptyOrAppend
<1>3. Len(r) \in Nat /\ Len(s) = Len(r) + 1
  BY <1>2, AppendProperties, LenProperties
<1>4. QED
  BY <1>2, <1>3

LEMMA EverySequence ==
    ASSUME NEW T, NEW S, <<>> \in S, \A s \in Seq(T), e \in T : s \in S => Append(s, e) \in S
    PROVE  \A s \in Seq(T) : s \in S
<1> DEFINE Good == {n \in Nat : \A s \in Seq(T) : Len(s) = n => s \in S}
<1>1. 0 \in Good
  <2>1. \A s \in Seq(T) : Len(s) = 0 => s = <<>>
    BY EmptySeq
  <2>2. QED
    BY <2>1
<1>2. ASSUME NEW n \in Nat, n \in Good PROVE n + 1 \in Good
  <2>1. SUFFICES ASSUME NEW s \in Seq(T), Len(s) = n + 1 PROVE s \in S
    OBVIOUS
  <2>2. PICK r \in Seq(T), e \in T : s = Append(r, e) /\ Len(r) = n
    BY <2>1, LastOff
  <2>3. QED
    BY <1>2, <2>2
<1>3. \A n \in Nat : n \in Good
  <2> HIDE DEF Good
  <2>1. SUFFICES ASSUME NEW n \in Nat PROVE n \in Good
    OBVIOUS
  <2>2. \A m \in 0..n : m \in Good
    BY <1>1, <1>2, Upwards
  <2>3. QED
    BY <2>2
<1>4. QED
  BY <1>3, LenProperties

(* FlattenSeq. *)
Flattens(f, ss) == f = [i \in 1..Len(ss) |-> IF i = 1 THEN ss[i] ELSE f[i - 1] \o ss[i]]

LEMMA FlatteningExtends ==
    ASSUME NEW T, NEW ss \in Seq(T), NEW s \in T, NEW f, Flattens(f, ss)
    PROVE  \E g : Flattens(g, Append(ss, s))
<1> DEFINE n == Len(ss)
           g == [i \in 1..(n + 1) |-> IF i <= n THEN f[i] ELSE IF i = 1 THEN s ELSE f[i - 1] \o s]
<1>1. n \in Nat /\ Len(Append(ss, s)) = n + 1 /\ \A i \in 1..n : Append(ss, s)[i] = ss[i]
  BY LenProperties, AppendProperties
<1>2. Append(ss, s)[n + 1] = s
  OBVIOUS
<1>3. \A i \in 1..n : f[i] = IF i = 1 THEN ss[i] ELSE f[i - 1] \o ss[i]
  BY DEF Flattens
<1> HIDE DEF n
<1>4. ASSUME NEW i \in 1..(n + 1)
      PROVE  g[i] = IF i = 1 THEN Append(ss, s)[i] ELSE g[i - 1] \o Append(ss, s)[i]
  <2>1. CASE i <= n
    <3>1. i \in 1..n /\ g[i] = f[i] /\ (i # 1 => i - 1 \in 1..(n + 1) /\ i - 1 <= n)
      BY <1>1, <2>1
    <3>2. i # 1 => g[i - 1] = f[i - 1]
      BY <3>1
    <3>3. QED
      BY <1>1, <1>3, <3>1, <3>2
  <2>2. CASE i = n + 1
    <3>1. g[i] = (IF i = 1 THEN s ELSE f[i - 1] \o s)
      BY <1>1, <2>2
    <3>2. i # 1 => g[i - 1] = f[i - 1]
      BY <1>1, <2>2
    <3>3. QED
      BY <1>2, <2>2, <3>1, <3>2
  <2>3. QED
    BY <1>1, <2>1, <2>2
<1>5. Flattens(g, Append(ss, s))
  <2>1. g = [i \in 1..(n + 1) |-> IF i = 1 THEN Append(ss, s)[i] ELSE g[i - 1] \o Append(ss, s)[i]]
    BY <1>4
  <2> HIDE DEF g
  <2>2. QED
    BY <1>1, <2>1 DEF Flattens
<1>6. QED
  BY <1>5

LEMMA FlatteningExists ==
    ASSUME NEW T, NEW ss \in Seq(T)
    PROVE  \E f : Flattens(f, ss)
<1> DEFINE S == {r \in Seq(T) : \E f : Flattens(f, r)}
<1>1. <<>> \in S
  <2>1. <<>> = [i \in 1..0 |-> 0]
    OBVIOUS
  <2> DEFINE f == [i \in 1..0 |-> 0]
  <2>2. f = [i \in 1..Len(<<>>) |-> IF i = 1 THEN <<>>[i] ELSE f[i - 1] \o <<>>[i]]
    OBVIOUS
  <2>3. Flattens(f, <<>>)
    BY <2>2 DEF Flattens
  <2>4. QED
    BY <2>3, EmptySeq
<1>2. \A r \in Seq(T), e \in T : r \in S => Append(r, e) \in S
  BY FlatteningExtends, AppendProperties
<1>3. \A r \in Seq(T) : r \in S
  <2> HIDE DEF S
  <2> QED BY <1>1, <1>2, EverySequence
<1>4. QED
  BY <1>3

LEMMA FlatteningUnique ==
    ASSUME NEW T, NEW ss \in Seq(T), NEW s \in T, NEW f, NEW g,
           Flattens(f, ss), Flattens(g, Append(ss, s))
    PROVE  \A i \in 1..Len(ss) : f[i] = g[i]
<1> DEFINE S == {i \in Nat : i \in 1..Len(ss) => f[i] = g[i]}
<1>1. Len(ss) \in Nat /\ Len(Append(ss, s)) = Len(ss) + 1 /\ \A i \in 1..Len(ss) : Append(ss, s)[i] = ss[i]
  BY LenProperties, AppendProperties
<1>2. \A i \in 1..Len(ss) : f[i] = IF i = 1 THEN ss[i] ELSE f[i - 1] \o ss[i]
  BY DEF Flattens
<1>3. \A i \in 1..(Len(ss) + 1) : g[i] = IF i = 1 THEN Append(ss, s)[i] ELSE g[i - 1] \o Append(ss, s)[i]
  BY <1>1 DEF Flattens
<1>4. 0 \in S
  OBVIOUS
<1>5. ASSUME NEW i \in 0..(Len(ss) - 1), i \in S PROVE i + 1 \in S
  <2>1. i + 1 \in 1..Len(ss) /\ i + 1 \in 1..(Len(ss) + 1) /\ (i + 1) - 1 = i /\ (i + 1 # 1 => i \in 1..Len(ss))
    BY <1>1
  <2>2. f[i + 1] = (IF i + 1 = 1 THEN ss[i + 1] ELSE f[i] \o ss[i + 1])
    BY <1>2, <2>1
  <2>3. g[i + 1] = (IF i + 1 = 1 THEN ss[i + 1] ELSE g[i] \o ss[i + 1])
    BY <1>1, <1>3, <2>1
  <2>4. f[i + 1] = g[i + 1]
    BY <1>5, <2>1, <2>2, <2>3
  <2>5. QED
    BY <2>1, <2>4
<1>6. \A i \in 0..Len(ss) : i \in S
  <2> HIDE DEF S
  <2> QED BY <1>1, <1>4, <1>5, Upwards
<1>7. QED
  BY <1>1, <1>6

LEMMA FlattenIs ==
    ASSUME NEW T, NEW ss \in Seq(T), ss # <<>>
    PROVE  \E f : Flattens(f, ss) /\ FlattenSeq(ss) = f[Len(ss)]
<1> DEFINE f == CHOOSE f : f = [i \in 1..Len(ss) |-> IF i = 1 THEN ss[i] ELSE f[i - 1] \o ss[i]]
<1>1. \E g : g = [i \in 1..Len(ss) |-> IF i = 1 THEN ss[i] ELSE g[i - 1] \o ss[i]]
  BY FlatteningExists DEF Flattens
<1>2. f = [i \in 1..Len(ss) |-> IF i = 1 THEN ss[i] ELSE f[i - 1] \o ss[i]]
  BY <1>1
<1>3. Len(ss) # 0
  BY EmptySeq
<1>4. FlattenSeq(ss) = f[Len(ss)]
  BY <1>3 DEF FlattenSeq
<1>5. Flattens(f, ss)
  <2> HIDE DEF f
  <2> QED BY <1>2 DEF Flattens
<1>6. QED
  BY <1>4, <1>5

LEMMA FlattenEmpty == FlattenSeq(<<>>) = <<>>
  BY DEF FlattenSeq

LEMMA FlattenAppend ==
    ASSUME NEW T, NEW ss \in Seq(Seq(T)), NEW s \in Seq(T)
    PROVE  FlattenSeq(Append(ss, s)) = FlattenSeq(ss) \o s
<1>1. Append(ss, s) \in Seq(Seq(T)) /\ Append(ss, s) # <<>> /\ Len(Append(ss, s)) = Len(ss) + 1 /\ Len(ss) \in Nat
  BY AppendProperties, LenProperties
<1>2. PICK g : Flattens(g, Append(ss, s)) /\ FlattenSeq(Append(ss, s)) = g[Len(ss) + 1]
  BY <1>1, FlattenIs
<1>3. g[Len(ss) + 1] = (IF Len(ss) + 1 = 1 THEN Append(ss, s)[Len(ss) + 1]
                        ELSE g[(Len(ss) + 1) - 1] \o Append(ss, s)[Len(ss) + 1])
  <2>1. Len(ss) + 1 \in 1..Len(Append(ss, s))
    BY <1>1
  <2>2. \A i \in 1..Len(Append(ss, s)) :
            g[i] = IF i = 1 THEN Append(ss, s)[i] ELSE g[i - 1] \o Append(ss, s)[i]
    BY <1>2 DEF Flattens
  <2>3. QED
    BY <2>1, <2>2
<1>4. Append(ss, s)[Len(ss) + 1] = s
  OBVIOUS
<1>5. CASE ss = <<>>
  <2>1. Len(ss) = 0
    BY <1>5
  <2>2. FlattenSeq(Append(ss, s)) = s
    BY <1>2, <1>3, <1>4, <2>1
  <2>3. <<>> \o s = s
    BY ConcatEmptySeq
  <2>4. QED
    BY <1>5, <2>2, <2>3, FlattenEmpty
<1>6. CASE ss # <<>>
  <2>1. Len(ss) \in 1..Len(ss) /\ Len(ss) + 1 # 1 /\ (Len(ss) + 1) - 1 = Len(ss)
    BY <1>1, <1>6, EmptySeq
  <2>2. PICK f : Flattens(f, ss) /\ FlattenSeq(ss) = f[Len(ss)]
    BY <1>6, FlattenIs
  <2>3. f[Len(ss)] = g[Len(ss)]
    BY <1>2, <2>1, <2>2, FlatteningUnique
  <2>4. QED
    BY <1>2, <1>3, <1>4, <2>1, <2>2, <2>3
<1>7. QED
  BY <1>5, <1>6

(* What is closed under concatenation has the whole if it has the parts.   *)
LEMMA FlattenIn ==
    ASSUME NEW T, NEW U, U \subseteq Seq(T), <<>> \in U, \A r, s \in U : r \o s \in U,
           NEW ss \in Seq(U)
    PROVE  FlattenSeq(ss) \in U
<1> DEFINE S == {r \in Seq(U) : FlattenSeq(r) \in U}
<1>1. <<>> \in S
  BY FlattenEmpty, EmptySeq
<1>2. ASSUME NEW r \in Seq(U), NEW s \in U, r \in S PROVE Append(r, s) \in S
  <2>1. r \in Seq(Seq(T)) /\ s \in Seq(T) /\ Append(r, s) \in Seq(U)
    BY SeqMonotonic, AppendProperties
  <2>2. FlattenSeq(Append(r, s)) = FlattenSeq(r) \o s
    BY <2>1, FlattenAppend
  <2>3. QED
    BY <1>2, <2>1, <2>2
<1>3. \A r \in Seq(U) : r \in S
  <2> HIDE DEF S
  <2> QED BY <1>1, <1>2, EverySequence
<1>4. QED
  BY <1>3

LEMMA FlattenType ==
    ASSUME NEW T, NEW ss \in Seq(Seq(T))
    PROVE  FlattenSeq(ss) \in Seq(T)
BY FlattenIn, ConcatProperties, EmptySeq

LEMMA EndOfAppend ==
    ASSUME NEW T, NEW s \in Seq(T), NEW e \in T
    PROVE  Front(Append(s, e)) = s /\ Last(Append(s, e)) = e
<1>1. Append(s, e) \in Seq(T) /\ Len(Append(s, e)) = Len(s) + 1 /\ Len(s) \in Nat
      /\ \A i \in 1..Len(s) : Append(s, e)[i] = s[i]
  BY AppendProperties, LenProperties
<1>2. Last(Append(s, e)) = e
  BY <1>1 DEF Last
<1>3. Front(Append(s, e)) = SubSeq(Append(s, e), 1, Len(s))
  BY <1>1 DEF Front
<1>4. SubSeq(Append(s, e), 1, Len(s)) = s
  OBVIOUS
<1>5. QED
  BY <1>2, <1>3, <1>4

LEMMA MaxIn ==
    ASSUME NEW N \in Nat, NEW S, S \subseteq 1..N, S # {}
    PROVE  Max(S) \in S /\ \A x \in S : x <= Max(S)
<1> DEFINE D == {N - x : x \in S}
<1>1. PICK d \in D : \A c \in D : d <= c
  <2>1. D \subseteq Nat
    OBVIOUS
  <2>3. D # {}
    <3>1. PICK x \in S : TRUE
      OBVIOUS
    <3>2. N - x \in D
      BY <3>1
    <3>3. QED
      BY <3>2
  <2> HIDE DEF D
  <2>2. QED
    BY <2>1, <2>3, SmallestNumber
<1>2. PICK x \in S : d = N - x
  OBVIOUS
<1>3. \A y \in S : x >= y
  <2>1. ASSUME NEW y \in S PROVE N - y \in D
    BY <2>1
  <2>2. \A y \in S : N - x <= N - y
    BY <1>1, <1>2, <2>1
  <2>3. QED
    BY <1>2, <2>2
<1>4. Max(S) \in S /\ \A y \in S : Max(S) >= y
  BY <1>2, <1>3 DEF Max
<1>5. QED
  BY <1>4

(* A function defined by recursion over the first numbers.                 *)
Follows(f, N, a, F) == \A i \in 0..N : f[i] = IF i = 0 THEN a ELSE F[<<f[i - 1], i>>]

LEMMA Recursion ==
    ASSUME NEW N \in Nat, NEW D, NEW a \in D, NEW F \in [D \X (1..N) -> D]
    PROVE  \E f \in [0..N -> D] : Follows(f, N, a, F)
<1> DEFINE Upto(n) == \E f \in [0..n -> D] : \A i \in 0..n : f[i] = IF i = 0 THEN a ELSE F[<<f[i - 1], i>>]
           S == {n \in 0..N : Upto(n)}
<1>1. 0 \in S
  <2>1. [i \in 0..0 |-> a] \in [0..0 -> D] /\ \A i \in 0..0 : i = 0 /\ [j \in 0..0 |-> a][i] = a
    OBVIOUS
  <2> DEFINE f == [i \in 0..0 |-> a]
  <2>2. \A i \in 0..0 : f[i] = IF i = 0 THEN a ELSE F[<<f[i - 1], i>>]
    BY <2>1
  <2>3. Upto(0)
    <3>1. f \in [0..0 -> D]
      BY <2>1
    <3> HIDE DEF f
    <3> QED BY <2>2, <3>1
  <2>4. QED
    BY <2>3
<1>2. ASSUME NEW n \in 0..(N - 1), n \in S PROVE n + 1 \in S
  <2>1. PICK f \in [0..n -> D] : \A i \in 0..n : f[i] = IF i = 0 THEN a ELSE F[<<f[i - 1], i>>]
    BY <1>2
  <2> DEFINE g == [i \in 0..(n + 1) |-> IF i = n + 1 THEN F[<<f[n], n + 1>>] ELSE f[i]]
  <2>2. n + 1 \in 1..N /\ n \in 0..n /\ f[n] \in D
    BY <2>1
  <2>3. g \in [0..(n + 1) -> D]
    <3>1. F[<<f[n], n + 1>>] \in D
      BY <2>2
    <3>2. \A i \in 0..(n + 1) : i # n + 1 => i \in 0..n
      OBVIOUS
    <3>3. \A i \in 0..(n + 1) : (IF i = n + 1 THEN F[<<f[n], n + 1>>] ELSE f[i]) \in D
      BY <3>1, <3>2
    <3>4. QED
      BY <3>3
  <2>4. ASSUME NEW i \in 0..(n + 1) PROVE g[i] = IF i = 0 THEN a ELSE F[<<g[i - 1], i>>]
    <3>1. CASE i = n + 1
      <4>1. i # 0 /\ i - 1 = n /\ g[n] = f[n]
        BY <3>1
      <4>2. QED
        BY <3>1, <4>1
    <3>2. CASE i # n + 1
      <4>1. i \in 0..n /\ g[i] = f[i] /\ (i # 0 => g[i - 1] = f[i - 1])
        BY <3>2
      <4>2. QED
        BY <2>1, <4>1
    <3>3. QED
      BY <3>1, <3>2
  <2>5. Upto(n + 1)
    <3> HIDE DEF g
    <3> QED BY <2>3, <2>4
  <2>6. QED
    BY <2>2, <2>5
<1>3. \A n \in 0..N : n \in S
  <2> HIDE DEF S
  <2> QED BY <1>1, <1>2, Upwards
<1>4. Upto(N)
  BY <1>3
<1>5. QED
  BY <1>4 DEF Follows

-----------------------------------------------------------------------------
(* The messages of a chat, and what an event makes of them: it neither     *)
(* adds, drops nor moves a question.                                       *)

Names == STRING \union {""}
CallIds == (Nat \X Nat \X Nat) \union {NoResult}
Pieces == {OpenTag, CloseTag} \union {ErrorPiece(n) : n \in Nat}
          \union ({"text", "thinking"} \X Nat \X (Nat \X Nat))
Bubbles == [role : {"assistant", "tool"}, content : Seq(Pieces), name : Names,
            call : CallIds, result : CallIds]
Questions == {UserMessage(n) : n \in Nat}
Messages == Questions \union Bubbles
Events == [type : {"status", "tool_start", "done", "stream_end"}]
          \union [type : {"text", "thinking"}, piece : Pieces]
          \union [type : {"tool_input"}, name : Names, call : CallIds]
          \union [type : {"tool_result"}, name : Names, result : CallIds]
          \union [type : {"error"}, ask : Nat]

LEMMA Question == ASSUME NEW n \in Nat PROVE /\ UserMessage(n) \in Messages
                                             /\ IsAsk(UserMessage(n)) /\ Ask(UserMessage(n)) = n
  BY DEF UserMessage, Messages, Questions, IsAsk, Ask

LEMMA AskOf == ASSUME NEW m \in Messages, IsAsk(m) PROVE m \in Questions /\ Ask(m) \in Nat
<1>1. m \notin Bubbles
  BY DEF IsAsk, Bubbles
<1>2. PICK n \in Nat : m = UserMessage(n)
  BY <1>1 DEF Messages, Questions
<1>3. QED
  BY <1>2, Question DEF Questions

LEMMA NoAsk == ASSUME NEW m \in Bubbles PROVE ~IsAsk(m)
  BY DEF IsAsk, Bubbles

LEMMA Answering == EmptyAnswer \in Bubbles
<1>1. <<>> \in Seq(Pieces) /\ <<>> \in CallIds
  BY EmptySeq DEF CallIds, NoResult
<1>2. EmptyAnswer = [role |-> "assistant", content |-> <<>>, name |-> "", call |-> <<>>, result |-> <<>>]
  BY DEF EmptyAnswer, NoResult
<1>3. "assistant" \in {"assistant", "tool"} /\ "" \in Names
  BY DEF Names
<1>4. QED
  BY <1>1, <1>2, <1>3 DEF Bubbles

AsksAt(ms) == [i \in DOMAIN ms |-> IF IsAsk(ms[i]) THEN <<Ask(ms[i])>> ELSE <<>>]

LEMMA AsksAtType == ASSUME NEW ms \in Seq(Messages) PROVE AsksAt(ms) \in Seq(Seq(Nat)) /\ Len(AsksAt(ms)) = Len(ms)
<1>1. Len(ms) \in Nat /\ DOMAIN ms = 1..Len(ms) /\ \A i \in 1..Len(ms) : ms[i] \in Messages
  BY LenProperties, ElementOfSeq
<1>2. \A i \in 1..Len(ms) : (IF IsAsk(ms[i]) THEN <<Ask(ms[i])>> ELSE <<>>) \in Seq(Nat)
  BY <1>1, AskOf, EmptySeq
<1>3. AsksAt(ms) \in [1..Len(ms) -> Seq(Nat)]
  BY <1>1, <1>2 DEF AsksAt
<1>4. QED
  BY <1>1, <1>3

LEMMA AsksType == ASSUME NEW ms \in Seq(Messages) PROVE Asks(ms) \in Seq(Nat)
  BY AsksAtType, FlattenType DEF Asks, AsksAt

LEMMA AsksEmpty == Asks(<<>>) = <<>>
<1>1. AsksAt(<<>>) = <<>>
  BY DEF AsksAt
<1>2. QED
  BY <1>1, FlattenEmpty DEF Asks, AsksAt

LEMMA AsksAppend ==
    ASSUME NEW ms \in Seq(Messages), NEW m \in Messages
    PROVE  /\ Append(ms, m) \in Seq(Messages)
           /\ Asks(Append(ms, m)) = IF IsAsk(m) THEN Append(Asks(ms), Ask(m)) ELSE Asks(ms)
<1> DEFINE one == IF IsAsk(m) THEN <<Ask(m)>> ELSE <<>>
<1>1. Append(ms, m) \in Seq(Messages) /\ Len(Append(ms, m)) = Len(ms) + 1 /\ Len(ms) \in Nat
      /\ (\A i \in 1..Len(ms) : Append(ms, m)[i] = ms[i]) /\ DOMAIN ms = 1..Len(ms)
  BY AppendProperties, LenProperties
<1>2. Append(ms, m)[Len(ms) + 1] = m /\ DOMAIN Append(ms, m) = 1..(Len(ms) + 1)
  BY <1>1, LenProperties
<1>3. one \in Seq(Nat)
  BY AskOf, EmptySeq
<1>4. AsksAt(ms) \in Seq(Seq(Nat)) /\ AsksAt(Append(ms, m)) \in Seq(Seq(Nat))
      /\ Append(AsksAt(ms), one) \in Seq(Seq(Nat)) /\ Len(AsksAt(ms)) = Len(ms)
      /\ Len(AsksAt(Append(ms, m))) = Len(ms) + 1
  BY <1>1, <1>3, AsksAtType, AppendProperties
<1>5. AsksAt(Append(ms, m)) = Append(AsksAt(ms), one)
  <2>1. Len(Append(AsksAt(ms), one)) = Len(ms) + 1 /\ \A i \in 1..Len(ms) : Append(AsksAt(ms), one)[i] = AsksAt(ms)[i]
    <3>1. PICK asks \in Seq(Seq(Nat)) : asks = AsksAt(ms)
      BY <1>4
    <3>2. PICK o \in Seq(Nat) : o = one
      BY <1>3
    <3>3. Len(Append(asks, o)) = Len(asks) + 1 /\ \A i \in 1..Len(asks) : Append(asks, o)[i] = asks[i]
      BY AppendProperties
    <3> HIDE DEF one
    <3>4. QED
      BY <1>4, <3>1, <3>2, <3>3
  <2>2. Append(AsksAt(ms), one)[Len(ms) + 1] = one
    BY <1>4
  <2>3. ASSUME NEW i \in 1..(Len(ms) + 1) PROVE AsksAt(Append(ms, m))[i] = Append(AsksAt(ms), one)[i]
    <3>1. CASE i = Len(ms) + 1
      BY <1>1, <1>2, <2>2, <3>1 DEF AsksAt
    <3>2. CASE i # Len(ms) + 1
      <4>1. i \in 1..Len(ms)
        BY <1>1, <3>2
      <4>2. QED
        BY <1>1, <1>2, <2>1, <4>1 DEF AsksAt
    <3>3. QED
      BY <3>1, <3>2
  <2> HIDE DEF one
  <2>4. QED
    BY <1>4, <2>1, <2>3, SeqEqual
<1>6. Asks(Append(ms, m)) = FlattenSeq(AsksAt(ms)) \o one
  <2> HIDE DEF one
  <2> QED BY <1>3, <1>4, <1>5, FlattenAppend DEF Asks, AsksAt
<1>7. FlattenSeq(AsksAt(ms)) = Asks(ms) /\ Asks(ms) \in Seq(Nat)
  BY AsksType DEF Asks, AsksAt
<1>8. CASE IsAsk(m)
  BY <1>1, <1>6, <1>7, <1>8, AskOf, AppendIsConcat
<1>9. CASE ~IsAsk(m)
  BY <1>1, <1>6, <1>7, <1>9, ConcatEmptySeq
<1>10. QED
  BY <1>8, <1>9

LEMMA AsksSame ==
    ASSUME NEW ms \in Seq(Messages), NEW j \in 1..Len(ms), NEW m \in Bubbles, ~IsAsk(ms[j])
    PROVE  [ms EXCEPT ![j] = m] \in Seq(Messages) /\ Asks([ms EXCEPT ![j] = m]) = Asks(ms)
<1> DEFINE mt == [ms EXCEPT ![j] = m]
<1>1. mt \in Seq(Messages) /\ Len(mt) = Len(ms) /\ \A i \in 1..Len(ms) : mt[i] = IF i = j THEN m ELSE ms[i]
  BY ExceptSeq DEF Messages
<1>2. DOMAIN mt = DOMAIN ms /\ DOMAIN ms = 1..Len(ms)
  BY LenProperties
<1>3. AsksAt(mt) = AsksAt(ms)
  <2> HIDE DEF mt
  <2> QED BY <1>1, <1>2, NoAsk DEF AsksAt
<1>4. QED
  BY <1>1, <1>3 DEF Asks, AsksAt

LEMMA NoQuestion == ASSUME NEW m \in Messages, m.role # "user" PROVE m \in Bubbles /\ ~IsAsk(m)
<1>1. m \notin Questions
  <2>1. \A n \in Nat : UserMessage(n).role = "user"
    BY DEF UserMessage
  <2>2. QED
    BY <2>1 DEF Questions
<1>2. QED
  BY <1>1 DEF Messages, IsAsk

LEMMA ExtendedKeeps ==
    ASSUME NEW ms \in Seq(Messages), EndsWithAnswer(ms), NEW pieces \in Seq(Pieces)
    PROVE  Extended(ms, pieces) \in Seq(Messages) /\ Asks(Extended(ms, pieces)) = Asks(ms)
<1> DEFINE m == [ms[Len(ms)] EXCEPT !.content = @ \o pieces]
<1>1. Len(ms) \in 1..Len(ms) /\ ms[Len(ms)].role = "assistant"
  BY EmptySeq, LenProperties DEF EndsWithAnswer, Last
<1>2. ms[Len(ms)] \in Messages
  BY <1>1, ElementOfSeq
<1>3. ms[Len(ms)] \in Bubbles /\ ~IsAsk(ms[Len(ms)])
  BY <1>1, <1>2, NoQuestion
<1>4. ms[Len(ms)].content \o pieces \in Seq(Pieces)
  BY <1>3, ConcatProperties DEF Bubbles
<1>5. m \in Bubbles
  BY <1>3, <1>4 DEF Bubbles
<1>6. Extended(ms, pieces) = [ms EXCEPT ![Len(ms)] = m]
  BY DEF Extended
<1> HIDE DEF m
<1>7. [ms EXCEPT ![Len(ms)] = m] \in Seq(Messages) /\ Asks([ms EXCEPT ![Len(ms)] = m]) = Asks(ms)
  BY <1>1, <1>3, <1>5, AsksSame
<1>8. QED
  BY <1>6, <1>7

LEMMA AnswerLast ==
    ASSUME NEW ms \in Seq(Messages), EndsWithAnswer(ms)
    PROVE  \E r \in Seq(Messages), m \in Bubbles : ms = Append(r, m) /\ Front(ms) = r /\ Last(ms) = m
<1>1. ms # <<>> /\ Last(ms).role = "assistant"
  BY DEF EndsWithAnswer
<1>2. PICK r \in Seq(Messages), m \in Messages : ms = Append(r, m)
  BY <1>1, SequenceEmptyOrAppend
<1>3. Front(ms) = r /\ Last(ms) = m
  BY <1>2, EndOfAppend
<1>4. m \in Bubbles
  BY <1>1, <1>3, NoQuestion
<1>5. QED
  BY <1>2, <1>3, <1>4

LEMMA EventKeeps ==
    ASSUME NEW ms \in Seq(Messages), NEW e \in Events
    PROVE  HandleEvent(ms, e) \in Seq(Messages) /\ Asks(HandleEvent(ms, e)) = Asks(ms)
<1>1. CASE e.type = "thinking"
  <2>1. e.piece \in Pieces
    BY <1>1 DEF Events
  <2>2. (IF Has(Last(ms), OpenTag) THEN <<>> ELSE <<OpenTag>>) \o <<e.piece>> \in Seq(Pieces)
    <3>1. OpenTag \in Pieces /\ <<OpenTag>> \in Seq(Pieces) /\ <<>> \in Seq(Pieces) /\ <<e.piece>> \in Seq(Pieces)
      BY <2>1 DEF Pieces
    <3>2. QED
      BY <3>1, ConcatProperties
  <2>3. HandleEvent(ms, e) = AddThinking(ms, e.piece)
    BY <1>1 DEF HandleEvent
  <2>4. QED
    BY <2>2, <2>3, ExtendedKeeps DEF AddThinking
<1>2. CASE e.type = "text"
  <2>1. e.piece \in Pieces
    BY <1>2 DEF Events
  <2>2. (IF Has(Last(ms), OpenTag) /\ ~Has(Last(ms), CloseTag) THEN <<CloseTag>> ELSE <<>>) \o <<e.piece>>
        \in Seq(Pieces)
    <3>1. CloseTag \in Pieces /\ <<CloseTag>> \in Seq(Pieces) /\ <<>> \in Seq(Pieces) /\ <<e.piece>> \in Seq(Pieces)
      BY <2>1 DEF Pieces
    <3>2. QED
      BY <3>1, ConcatProperties
  <2>3. HandleEvent(ms, e) = AddText(ms, e.piece)
    BY <1>2 DEF HandleEvent
  <2>4. QED
    BY <2>2, <2>3, ExtendedKeeps DEF AddText
<1>3. CASE e.type = "tool_input"
  <2>1. e.name \in Names /\ e.call \in CallIds
    BY <1>3 DEF Events
  <2>2. ToolMessage(e.name, e.call) \in Bubbles
    <3>1. <<>> \in Seq(Pieces) /\ NoResult \in CallIds
      BY EmptySeq DEF CallIds
    <3>2. QED
      BY <2>1, <3>1 DEF ToolMessage, Bubbles
  <2>3. HandleEvent(ms, e) = Append(ms, ToolMessage(e.name, e.call))
    BY <1>3 DEF HandleEvent
  <2>4. QED
    BY <2>2, <2>3, NoAsk, AsksAppend DEF Messages
<1>4. CASE e.type = "tool_result"
  <2>1. e.name \in Names /\ e.result \in CallIds
    BY <1>4 DEF Events
  <2>2. HandleEvent(ms, e) = AddResult(ms, e.name, e.result)
    BY <1>4 DEF HandleEvent
  <2>3. CASE Waiting(ms, e.name) = {}
    <3>1. HandleEvent(ms, e) = Append(ms, EmptyAnswer)
      BY <2>2, <2>3 DEF AddResult
    <3>2. QED
      BY <3>1, Answering, NoAsk, AsksAppend DEF Messages
  <2>4. CASE Waiting(ms, e.name) # {}
    <3> DEFINE j == Max(Waiting(ms, e.name))
               m == [ms[j] EXCEPT !.result = e.result]
    <3>1. Waiting(ms, e.name) \subseteq 1..Len(ms) /\ Len(ms) \in Nat
      BY LenProperties DEF Waiting
    <3>2. j \in Waiting(ms, e.name) /\ j \in 1..Len(ms)
      BY <2>4, <3>1, MaxIn
    <3>3. ms[j].role = "tool" /\ ms[j] \in Messages
      BY <3>2, ElementOfSeq DEF Waiting
    <3>4. ms[j] \in Bubbles /\ ~IsAsk(ms[j])
      BY <3>3, NoQuestion
    <3>5. m \in Bubbles
      <4> HIDE DEF j
      <4> QED BY <3>4, <2>1 DEF Bubbles
    <3>6. HandleEvent(ms, e) = Append([ms EXCEPT ![j] = m], EmptyAnswer)
      BY <2>2, <2>4 DEF AddResult
    <3> HIDE DEF j, m
    <3>7. [ms EXCEPT ![j] = m] \in Seq(Messages) /\ Asks([ms EXCEPT ![j] = m]) = Asks(ms)
      BY <3>2, <3>4, <3>5, AsksSame
    <3>8. QED
      BY <3>6, <3>7, Answering, NoAsk, AsksAppend DEF Messages
  <2>5. QED
    BY <2>3, <2>4
<1>5. CASE e.type \in {"done", "stream_end"}
  <2>1. HandleEvent(ms, e) = DropEmptyAnswer(ms)
    BY <1>5 DEF HandleEvent
  <2>2. CASE EndsWithAnswer(ms) /\ Last(ms).content = <<>>
    <3>1. PICK r \in Seq(Messages), m \in Bubbles : ms = Append(r, m) /\ Front(ms) = r
      BY <2>2, AnswerLast
    <3>2. Asks(ms) = Asks(r)
      BY <3>1, NoAsk, AsksAppend DEF Messages
    <3>3. HandleEvent(ms, e) = r
      BY <2>1, <2>2, <3>1 DEF DropEmptyAnswer
    <3>4. QED
      BY <3>2, <3>3
  <2>3. QED
    BY <2>1, <2>2 DEF DropEmptyAnswer
<1>6. CASE e.type = "error"
  <2>1. e.ask \in Nat
    BY <1>6 DEF Events
  <2>2. [EmptyAnswer EXCEPT !.content = <<ErrorPiece(e.ask)>>] \in Bubbles
    <3>1. <<ErrorPiece(e.ask)>> \in Seq(Pieces)
      BY <2>1 DEF Pieces
    <3>2. QED
      BY <3>1, Answering DEF Bubbles
  <2>3. HandleEvent(ms, e) = Append(ms, [EmptyAnswer EXCEPT !.content = <<ErrorPiece(e.ask)>>])
    BY <1>6 DEF HandleEvent, AddError
  <2>4. QED
    BY <2>2, <2>3, NoAsk, AsksAppend DEF Messages
<1>7. CASE e.type \notin {"thinking", "text", "tool_input", "tool_result", "done", "stream_end", "error"}
  BY <1>7 DEF HandleEvent
<1>8. QED
  BY <1>1, <1>2, <1>3, <1>4, <1>5, <1>6, <1>7

(* The events of a chunk, one after the other.                             *)
LEMMA HandledOneByOne ==
    ASSUME NEW ms \in Seq(Messages), NEW es \in Seq(Events)
    PROVE  \E f \in [0..Len(es) -> Seq(Messages)] :
               f[0] = ms /\ HandleEvents(ms, es) = f[Len(es)] /\ \A i \in 1..Len(es) : f[i] = HandleEvent(f[i - 1], es[i])
<1> DEFINE D == Seq(Messages)
           N == Len(es)
           F == [p \in D \X (1..N) |-> HandleEvent(p[1], es[p[2]])]
           after == CHOOSE after : after = [i \in 0..N |-> IF i = 0 THEN ms ELSE HandleEvent(after[i - 1], es[i])]
<1>1. N \in Nat /\ \A i \in 1..N : es[i] \in Events
  BY LenProperties, ElementOfSeq
<1>2. F \in [D \X (1..N) -> D]
  BY <1>1, EventKeeps
<1>3. PICK f \in [0..N -> D] : Follows(f, N, ms, F)
  <2> HIDE DEF D, N, F, after
  <2>1. ms \in D
    BY DEF D
  <2>2. N \in Nat
    BY <1>1
  <2>3. QED
    BY <1>2, <2>1, <2>2, Recursion
<1>4. f = [i \in 0..N |-> IF i = 0 THEN ms ELSE HandleEvent(f[i - 1], es[i])]
  <2>1. ASSUME NEW i \in 0..N PROVE f[i] = IF i = 0 THEN ms ELSE HandleEvent(f[i - 1], es[i])
    <3>1. CASE i = 0
      BY <1>3, <3>1 DEF Follows
    <3>2. CASE i # 0
      <4>1. i - 1 \in 0..N /\ i \in 1..N
        BY <1>1, <3>2
      <4>2. f[i - 1] \in D
        BY <4>1
      <4>3. F[<<f[i - 1], i>>] = HandleEvent(f[i - 1], es[i])
        BY <4>1, <4>2
      <4>4. QED
        BY <1>3, <3>2, <4>3 DEF Follows
    <3>3. QED
      BY <3>1, <3>2
  <2>2. QED
    BY <2>1
<1>5. after = [i \in 0..N |-> IF i = 0 THEN ms ELSE HandleEvent(after[i - 1], es[i])]
  <2> HIDE DEF N, D, F
  <2> QED BY <1>4
<1>6. HandleEvents(ms, es) = after[N]
  BY DEF HandleEvents
<1> HIDE DEF after, F
<1>7. \A i \in 0..N : after[i] \in D
  <2> DEFINE S == {i \in 0..N : after[i] \in D}
  <2> HIDE DEF N, D
  <2>1. ms \in D /\ \A d \in D, i \in 1..N : HandleEvent(d, es[i]) \in D
    <3>1. \A d \in D, i \in 1..N : HandleEvent(d, es[i]) \in D
      BY <1>1, EventKeeps DEF D
    <3>2. QED
      BY <3>1 DEF D
  <2>2. 0 \in S
    BY <1>1, <1>5, <2>1
  <2>3. ASSUME NEW i \in 0..(N - 1), i \in S PROVE i + 1 \in S
    <3>1. i + 1 \in 0..N /\ i + 1 \in 1..N /\ i + 1 # 0 /\ (i + 1) - 1 = i
      BY <1>1
    <3>2. after[i + 1] = HandleEvent(after[i], es[i + 1])
      BY <1>5, <3>1
    <3>3. QED
      BY <2>1, <2>3, <3>1, <3>2
  <2>4. \A i \in 0..N : i \in S
    <3> HIDE DEF S
    <3> QED BY <1>1, <2>2, <2>3, Upwards
  <2>5. QED
    BY <2>4
<1>8. after \in [0..N -> D] /\ after[0] = ms /\ \A i \in 1..N : after[i] = HandleEvent(after[i - 1], es[i])
  <2> HIDE DEF N, D
  <2>1. 0 \in 0..N /\ \A i \in 1..N : i \in 0..N /\ i # 0
    BY <1>1
  <2>2. QED
    BY <1>5, <1>7, <2>1
<1>9. QED
  BY <1>6, <1>8

LEMMA EventsKeep ==
    ASSUME NEW ms \in Seq(Messages), NEW es \in Seq(Events)
    PROVE  HandleEvents(ms, es) \in Seq(Messages) /\ Asks(HandleEvents(ms, es)) = Asks(ms)
<1>1. PICK N : N = Len(es)
  OBVIOUS
<1>2. N \in Nat /\ \A i \in 1..N : es[i] \in Events
  BY <1>1, LenProperties, ElementOfSeq
<1>3. PICK f \in [0..N -> Seq(Messages)] :
          f[0] = ms /\ HandleEvents(ms, es) = f[N] /\ \A i \in 1..N : f[i] = HandleEvent(f[i - 1], es[i])
  BY <1>1, HandledOneByOne
<1> DEFINE S == {i \in 0..N : Asks(f[i]) = Asks(ms)}
<1>4. 0 \in S
  BY <1>2, <1>3
<1>5. ASSUME NEW i \in 0..(N - 1), i \in S PROVE i + 1 \in S
  <2>1. i \in 0..N /\ i + 1 \in 0..N /\ i + 1 \in 1..N /\ (i + 1) - 1 = i
    BY <1>2
  <2>2. f[i + 1] = HandleEvent(f[i], es[i + 1])
    BY <1>3, <2>1
  <2>3. f[i] \in Seq(Messages) /\ Asks(f[i]) = Asks(ms) /\ es[i + 1] \in Events
    BY <1>2, <1>5, <2>1
  <2>4. QED
    BY <2>1, <2>2, <2>3, EventKeeps
<1>6. \A i \in 0..N : i \in S
  <2> HIDE DEF S
  <2> QED BY <1>2, <1>4, <1>5, Upwards
<1>7. N \in 0..N
  BY <1>2
<1>8. QED
  BY <1>3, <1>6, <1>7

Statuses == {"", "thinking", "executing", "server"}

LEMMA StatusKeeps == ASSUME NEW status0 \in Statuses, NEW e PROVE StatusAfter(status0, e) \in Statuses
  BY DEF StatusAfter, Statuses

LEMMA StatusesKeep ==
    ASSUME NEW s \in Statuses, NEW es \in Seq(Events)
    PROVE  StatusAfterAll(s, es) \in Statuses
<1> DEFINE D == Statuses
           N == Len(es)
           F == [p \in D \X (1..N) |-> StatusAfter(p[1], es[p[2]])]
           after == CHOOSE after : after = [i \in 0..N |-> IF i = 0 THEN s ELSE StatusAfter(after[i - 1], es[i])]
<1>1. N \in Nat
  BY LenProperties
<1>2. F \in [D \X (1..N) -> D]
  BY StatusKeeps
<1>3. PICK f \in [0..N -> D] : Follows(f, N, s, F)
  <2> HIDE DEF D, N, F, after
  <2>1. s \in D
    BY DEF D
  <2>2. N \in Nat
    BY <1>1
  <2>3. QED
    BY <1>2, <2>1, <2>2, Recursion
<1>4. f = [i \in 0..N |-> IF i = 0 THEN s ELSE StatusAfter(f[i - 1], es[i])]
  <2>1. ASSUME NEW i \in 0..N PROVE f[i] = IF i = 0 THEN s ELSE StatusAfter(f[i - 1], es[i])
    <3>1. CASE i = 0
      BY <1>3, <3>1 DEF Follows
    <3>2. CASE i # 0
      <4>1. i - 1 \in 0..N /\ i \in 1..N
        BY <1>1, <3>2
      <4>2. f[i - 1] \in D
        BY <4>1
      <4>3. F[<<f[i - 1], i>>] = StatusAfter(f[i - 1], es[i])
        BY <4>1, <4>2
      <4>4. QED
        BY <1>3, <3>2, <4>3 DEF Follows
    <3>3. QED
      BY <3>1, <3>2
  <2>2. QED
    BY <2>1
<1>5. after = [i \in 0..N |-> IF i = 0 THEN s ELSE StatusAfter(after[i - 1], es[i])]
  <2> HIDE DEF N, D, F
  <2> QED BY <1>4
<1>6. StatusAfterAll(s, es) = after[N]
  BY DEF StatusAfterAll
<1>7. after[N] = s \/ after[N] = StatusAfter(after[N - 1], es[N])
  <2> HIDE DEF after, N
  <2> QED BY <1>1, <1>5
<1> HIDE DEF after, N, D, F
<1> DEFINE S == {i \in 0..N : after[i] \in Statuses}
<1>8. 0 \in S
  BY <1>1, <1>5
<1>9. ASSUME NEW i \in 0..(N - 1), i \in S PROVE i + 1 \in S
  <2>1. i + 1 \in 0..N /\ i + 1 # 0 /\ (i + 1) - 1 = i
    BY <1>1
  <2>2. after[i + 1] = StatusAfter(after[i], es[i + 1])
    BY <1>5, <2>1
  <2>3. QED
    BY <1>9, <2>1, <2>2, StatusKeeps
<1>10. \A i \in 0..N : i \in S
  <2> HIDE DEF S
  <2> QED BY <1>1, <1>8, <1>9, Upwards
<1>11. QED
  BY <1>1, <1>6, <1>10

LEMMA BreakKeeps ==
    ASSUME NEW ms \in Seq(Messages), NEW n \in Nat
    PROVE  BreakOff(ms, n) \in Seq(Messages) /\ Asks(BreakOff(ms, n)) = Asks(ms)
<1>1. <<ErrorPiece(n)>> \in Seq(Pieces)
  BY DEF Pieces
<1>2. QED
  BY <1>1, ExtendedKeeps DEF BreakOff

-----------------------------------------------------------------------------
(* The events of an answer.                                                *)

LEMMA AtType == ASSUME NEW T, NEW s \in Seq(T), NEW places PROVE At(s, places) \in Seq(T)
<1>1. Len(s) \in Nat /\ DOMAIN s = 1..Len(s) /\ \A i \in 1..Len(s) : s[i] \in T
  BY LenProperties, ElementOfSeq
<1>2. \A i \in 1..Len(s) : (IF i \in places THEN <<s[i]>> ELSE <<>>) \in Seq(T)
  <2>1. ASSUME NEW i \in 1..Len(s) PROVE <<s[i]>> \in Seq(T)
    BY <1>1
  <2>2. QED
    BY <2>1, EmptySeq
<1>3. [i \in DOMAIN s |-> IF i \in places THEN <<s[i]>> ELSE <<>>] \in [1..Len(s) -> Seq(T)]
  BY <1>1, <1>2
<1>4. [i \in DOMAIN s |-> IF i \in places THEN <<s[i]>> ELSE <<>>] \in Seq(Seq(T))
  BY <1>1, <1>3
<1>5. QED
  BY <1>4, FlattenType DEF At

CallRecords == [name : STRING, call : CallIds, result : CallIds]

LEMMA CallEvents ==
    ASSUME NEW c \in CallRecords
    PROVE  InputEvent(c) \in Events /\ ResultEvent(c) \in Events
  BY DEF InputEvent, ResultEvent, CallRecords, Events, Names

LEMMA PlainEvents == ASSUME NEW t \in {"status", "tool_start", "done", "stream_end"} PROVE Event(t) \in Events
  BY DEF Event, Events

LEMMA PiecesOfEvents ==
    ASSUME NEW type \in {"text", "thinking"}, NEW n \in Nat, NEW t \in Nat, NEW i \in Nat
    PROVE  [type |-> type, piece |-> <<type, n, <<t, i>>>>] \in Events
<1>1. <<type, n, <<t, i>>>> \in Pieces
  BY DEF Pieces
<1>2. QED
  BY <1>1 DEF Events

LEMMA CalledType ==
    ASSUME NEW n \in Nat, NEW t \in Nat, NEW turn \in Turn
    PROVE  Called(n, t, turn) \in Seq(CallRecords)
<1>1. turn.tools \in Seq(Tool)
  BY DEF Turn
<1>2. Len(turn.tools) \in Nat /\ DOMAIN turn.tools = 1..Len(turn.tools) /\ \A i \in 1..Len(turn.tools) : turn.tools[i] \in Tool
  BY <1>1, LenProperties, ElementOfSeq
<1>3. ASSUME NEW i \in 1..Len(turn.tools)
      PROVE  [name |-> turn.tools[i].name, call |-> <<n, t, i>>,
              result |-> IF turn.tools[i].empty THEN NoResult ELSE <<n, t, i>>] \in CallRecords
  <2>1. turn.tools[i].name \in STRING
    BY <1>2 DEF Tool
  <2>2. <<n, t, i>> \in CallIds /\ NoResult \in CallIds
    BY <1>2 DEF CallIds
  <2>3. QED
    BY <2>1, <2>2 DEF CallRecords
<1>4. Called(n, t, turn) \in [1..Len(turn.tools) -> CallRecords]
  BY <1>2, <1>3 DEF Called
<1>5. QED
  BY <1>2, <1>4

LEMMA TurnType ==
    ASSUME NEW n \in Nat, NEW t \in Nat, NEW turn \in Turn
    PROVE  TurnEvents(n, t, turn) \in Seq(Events)
<1> DEFINE calls == Called(n, t, turn)
           safe == {i \in DOMAIN calls : turn.tools[i].safe}
           together == At(calls, safe)
           unsafe == At(calls, DOMAIN calls \ safe)
           parallel == IF Len(together) > 1 THEN together ELSE <<>>
           alone == IF Len(together) > 1 THEN unsafe ELSE together \o unsafe
           e1 == <<Event("status")>>
           e2 == [i \in DOMAIN turn.stream |-> [type |-> turn.stream[i], piece |-> <<turn.stream[i], n, <<t, i>>>>]]
           e3 == [i \in DOMAIN calls |-> Event("tool_start")]
           e4 == [i \in DOMAIN parallel |-> ResultEvent(parallel[i])]
           e5 == [i \in DOMAIN alone |-> <<InputEvent(alone[i]), ResultEvent(alone[i])>>]
<1>1. calls \in Seq(CallRecords)
  BY CalledType
<1>2. together \in Seq(CallRecords) /\ unsafe \in Seq(CallRecords)
  BY <1>1, AtType
<1>3. parallel \in Seq(CallRecords) /\ alone \in Seq(CallRecords)
  <2> HIDE DEF together, unsafe
  <2> QED BY <1>2, ConcatProperties, EmptySeq
<1>4. e1 \in Seq(Events)
  BY PlainEvents
<1>5. e2 \in Seq(Events)
  <2>1. turn.stream \in Seq({"thinking", "text"})
    BY DEF Turn
  <2>2. Len(turn.stream) \in Nat /\ DOMAIN turn.stream = 1..Len(turn.stream)
        /\ \A i \in 1..Len(turn.stream) : turn.stream[i] \in {"text", "thinking"}
    BY <2>1, LenProperties, ElementOfSeq
  <2>3. e2 \in [1..Len(turn.stream) -> Events]
    BY <2>2, PiecesOfEvents
  <2>4. QED
    BY <2>2, <2>3
<1>6. e3 \in Seq(Events)
  <2> HIDE DEF calls
  <2>1. Len(calls) \in Nat /\ DOMAIN calls = 1..Len(calls)
    BY <1>1, LenProperties
  <2>2. e3 \in [1..Len(calls) -> Events]
    BY <2>1, PlainEvents
  <2>3. QED
    BY <2>1, <2>2
<1>7. e4 \in Seq(Events)
  <2> HIDE DEF parallel
  <2>1. Len(parallel) \in Nat /\ DOMAIN parallel = 1..Len(parallel) /\ \A i \in 1..Len(parallel) : parallel[i] \in CallRecords
    BY <1>3, LenProperties, ElementOfSeq
  <2>2. e4 \in [1..Len(parallel) -> Events]
    BY <2>1, CallEvents
  <2>3. QED
    BY <2>1, <2>2
<1>8. FlattenSeq(e5) \in Seq(Events)
  <2> HIDE DEF alone
  <2>1. Len(alone) \in Nat /\ DOMAIN alone = 1..Len(alone) /\ \A i \in 1..Len(alone) : alone[i] \in CallRecords
    BY <1>3, LenProperties, ElementOfSeq
  <2>2. \A i \in 1..Len(alone) : <<InputEvent(alone[i]), ResultEvent(alone[i])>> \in Seq(Events)
    BY <2>1, CallEvents
  <2>3. e5 \in [1..Len(alone) -> Seq(Events)]
    BY <2>1, <2>2
  <2>4. e5 \in Seq(Seq(Events))
    BY <2>1, <2>3
  <2> HIDE DEF e5
  <2>5. QED
    BY <2>4, FlattenType
<1>9. TurnEvents(n, t, turn) = e1 \o e2 \o e3 \o e4 \o FlattenSeq(e5)
  BY DEF TurnEvents
<1>10. QED
  <2> HIDE DEF e1, e2, e3, e4, e5
  <2>1. e1 \o e2 \in Seq(Events)
    BY <1>4, <1>5, ConcatProperties
  <2>2. e1 \o e2 \o e3 \in Seq(Events)
    BY <2>1, <1>6, ConcatProperties
  <2>3. e1 \o e2 \o e3 \o e4 \in Seq(Events)
    BY <2>2, <1>7, ConcatProperties
  <2>4. QED
    BY <2>3, <1>8, <1>9, ConcatProperties

LEMMA AnswerType ==
    ASSUME NEW n \in Nat, NEW a \in Answer
    PROVE  AnswerEvents(n, a) \in Seq(Events) /\ Len(AnswerEvents(n, a)) \in Nat
<1> DEFINE e1 == [t \in DOMAIN a.turns |-> TurnEvents(n, t, a.turns[t])]
           e2 == <<IF a.end = "done" THEN Event("done") ELSE [type |-> "error", ask |-> n], Event("stream_end")>>
<1>1. a.turns \in Seq(Turn)
  BY DEF Answer
<1>2. Len(a.turns) \in Nat /\ DOMAIN a.turns = 1..Len(a.turns) /\ \A t \in 1..Len(a.turns) : a.turns[t] \in Turn
  BY <1>1, LenProperties, ElementOfSeq
<1>3. e1 \in [1..Len(a.turns) -> Seq(Events)]
  BY <1>2, TurnType
<1>4. e1 \in Seq(Seq(Events))
  BY <1>2, <1>3
<1>5. FlattenSeq(e1) \in Seq(Events)
  <2> HIDE DEF e1
  <2> QED BY <1>4, FlattenType
<1>6. e2 \in Seq(Events)
  <2>1. [type |-> "error", ask |-> n] \in Events
    BY DEF Events
  <2>2. Event("done") \in Events /\ Event("stream_end") \in Events
    BY PlainEvents
  <2>3. QED
    BY <2>1, <2>2
<1>7. AnswerEvents(n, a) = IF a.end = "refused" THEN <<>> ELSE FlattenSeq(e1) \o e2
  BY DEF AnswerEvents
<1>8. AnswerEvents(n, a) \in Seq(Events)
  <2> HIDE DEF e1, e2
  <2> QED BY <1>5, <1>6, <1>7, ConcatProperties, EmptySeq
<1>9. QED
  BY <1>8, LenProperties

-----------------------------------------------------------------------------
(* The box a question is written in.                                       *)

SentRecords == [words : Seq(Nat), mention : Nat]
Recognisers == [n : Nat, running : BOOLEAN, live : BOOLEAN]
Rising(s, most) == /\ s \in Seq(Nat)
                   /\ \A i, j \in DOMAIN s : i < j => s[i] < s[j]
                   /\ \A i \in DOMAIN s : s[i] <= most

(* An image is in one place: read by the browser, in the box, or gone.     *)
ImagesInv ==
    /\ images \in Nat /\ image \in Nat
    /\ sent \in Seq(SentRecords)
    /\ ImagesOnce
    /\ image \notin loading
    /\ 0 \notin loading \union discarded

WordsInv ==
    /\ words \in Nat /\ input \in Seq(Nat)
    /\ Rising(SentWords \o input, words)

MicsInv ==
    /\ pressed \in Nat /\ mics \subseteq Recognisers /\ listening \in BOOLEAN
    /\ ListensWhenShown

BoxInv == ImagesInv /\ WordsInv /\ MicsInv

LEMMA RisingAppend ==
    ASSUME NEW s, NEW w \in Nat, Rising(s, w)
    PROVE  Rising(Append(s, w + 1), w + 1)
<1>1. s \in Seq(Nat) /\ Len(s) \in Nat /\ DOMAIN s = 1..Len(s) /\ \A i \in 1..Len(s) : s[i] \in Nat
  BY LenProperties, ElementOfSeq DEF Rising
<1>2. Append(s, w + 1) \in Seq(Nat) /\ Len(Append(s, w + 1)) = Len(s) + 1
      /\ \A i \in 1..Len(s) : Append(s, w + 1)[i] = s[i]
  BY <1>1, AppendProperties
<1>3. Append(s, w + 1)[Len(s) + 1] = w + 1 /\ DOMAIN Append(s, w + 1) = 1..(Len(s) + 1)
  BY <1>1, <1>2, LenProperties
<1>4. \A i \in 1..(Len(s) + 1) : i \in 1..Len(s) \/ i = Len(s) + 1
  BY <1>1
<1>5. QED
  BY <1>1, <1>2, <1>3, <1>4 DEF Rising

LEMMA RisingPart ==
    ASSUME NEW s \in Seq(Nat), NEW t \in Seq(Nat), NEW w \in Nat, Rising(s \o t, w)
    PROVE  Rising(s, w)
<1>1. Len(s) \in Nat /\ Len(t) \in Nat /\ Len(s \o t) = Len(s) + Len(t)
      /\ DOMAIN s = 1..Len(s) /\ DOMAIN (s \o t) = 1..(Len(s) + Len(t))
      /\ \A i \in 1..Len(s) : (s \o t)[i] = s[i]
  BY ConcatProperties, LenProperties
<1>2. 1..Len(s) \subseteq 1..(Len(s) + Len(t))
  BY <1>1
<1>3. QED
  BY <1>1, <1>2 DEF Rising

SentAt(s) == [n \in DOMAIN s |-> s[n].words]

LEMMA SentAtType ==
    ASSUME NEW s \in Seq(SentRecords)
    PROVE  /\ SentAt(s) \in Seq(Seq(Nat)) /\ Len(SentAt(s)) = Len(s)
           /\ FlattenSeq(SentAt(s)) \in Seq(Nat)
<1>1. Len(s) \in Nat /\ DOMAIN s = 1..Len(s) /\ \A i \in 1..Len(s) : s[i] \in SentRecords
  BY LenProperties, ElementOfSeq
<1>2. \A i \in 1..Len(s) : s[i].words \in Seq(Nat)
  BY <1>1 DEF SentRecords
<1>3. SentAt(s) \in [1..Len(s) -> Seq(Nat)]
  BY <1>1, <1>2 DEF SentAt
<1>4. SentAt(s) \in Seq(Seq(Nat)) /\ Len(SentAt(s)) = Len(s)
  BY <1>1, <1>3
<1>5. QED
  BY <1>4, FlattenType

LEMMA SentAtAppend ==
    ASSUME NEW s \in Seq(SentRecords), NEW r \in SentRecords
    PROVE  FlattenSeq(SentAt(Append(s, r))) = FlattenSeq(SentAt(s)) \o r.words
<1>1. Append(s, r) \in Seq(SentRecords) /\ Len(Append(s, r)) = Len(s) + 1 /\ Len(s) \in Nat
      /\ (\A i \in 1..Len(s) : Append(s, r)[i] = s[i]) /\ DOMAIN s = 1..Len(s)
  BY AppendProperties, LenProperties
<1>2. Append(s, r)[Len(s) + 1] = r /\ DOMAIN Append(s, r) = 1..(Len(s) + 1)
  BY <1>1, LenProperties
<1>3. r.words \in Seq(Nat)
  BY DEF SentRecords
<1>4. SentAt(s) \in Seq(Seq(Nat)) /\ SentAt(Append(s, r)) \in Seq(Seq(Nat))
      /\ Append(SentAt(s), r.words) \in Seq(Seq(Nat)) /\ Len(SentAt(s)) = Len(s)
      /\ Len(SentAt(Append(s, r))) = Len(s) + 1
  BY <1>1, <1>3, SentAtType, AppendProperties
<1>5. SentAt(Append(s, r)) = Append(SentAt(s), r.words)
  <2>1. Len(Append(SentAt(s), r.words)) = Len(s) + 1
        /\ \A i \in 1..Len(s) : Append(SentAt(s), r.words)[i] = SentAt(s)[i]
    BY <1>3, <1>4, AppendProperties
  <2>2. Append(SentAt(s), r.words)[Len(s) + 1] = r.words
    BY <1>4
  <2>3. ASSUME NEW i \in 1..(Len(s) + 1) PROVE SentAt(Append(s, r))[i] = Append(SentAt(s), r.words)[i]
    <3>1. CASE i = Len(s) + 1
      BY <1>1, <1>2, <2>2, <3>1 DEF SentAt
    <3>2. CASE i # Len(s) + 1
      <4>1. i \in 1..Len(s)
        BY <1>1, <3>2
      <4>2. QED
        BY <1>1, <1>2, <2>1, <4>1 DEF SentAt
    <3>3. QED
      BY <3>1, <3>2
  <2>4. QED
    BY <1>4, <2>1, <2>3, SeqEqual, ZenonT(30)
<1>6. QED
  BY <1>3, <1>4, <1>5, FlattenAppend

LEMMA SentWordsIs == sent \in Seq(SentRecords) => SentWords = FlattenSeq(SentAt(sent)) /\ SentWords \in Seq(Nat)
  BY SentAtType DEF SentWords, SentAt

LEMMA BoxInvInit == ComposerInit => BoxInv
<1> SUFFICES ASSUME ComposerInit PROVE BoxInv
  OBVIOUS
<1> USE DEF ComposerInit
<1>1. SentWords = <<>>
  <2>1. [n \in DOMAIN sent |-> sent[n].words] = <<>>
    OBVIOUS
  <2>2. QED
    BY <2>1, FlattenEmpty DEF SentWords
<1>2. WordsInv
  BY <1>1, EmptySeq, ConcatEmptySeq DEF WordsInv, Rising
<1>3. Mentioned = {} /\ 1..images = {}
  BY DEF Mentioned
<1>4. ImagesInv
  BY <1>3, EmptySeq DEF ImagesInv, ImagesOnce
<1>5. QED
  BY <1>2, <1>4 DEF BoxInv, MicsInv, ListensWhenShown

LEMMA MentionedGrow ==
    ASSUME NEW s \in Seq(SentRecords), NEW r \in SentRecords
    PROVE  /\ {Append(s, r)[n].mention : n \in DOMAIN Append(s, r)} = {s[n].mention : n \in DOMAIN s} \union {r.mention}
           /\ (\A m, n \in DOMAIN s : m # n /\ s[m].mention = s[n].mention => s[m].mention = 0)
              /\ r.mention \notin {s[n].mention : n \in DOMAIN s} \ {0}
              => \A m, n \in DOMAIN Append(s, r) :
                     m # n /\ Append(s, r)[m].mention = Append(s, r)[n].mention => Append(s, r)[m].mention = 0
<1>1. Append(s, r) \in Seq(SentRecords) /\ Len(Append(s, r)) = Len(s) + 1 /\ Len(s) \in Nat
      /\ (\A i \in 1..Len(s) : Append(s, r)[i] = s[i]) /\ DOMAIN s = 1..Len(s)
  BY AppendProperties, LenProperties
<1>2. Append(s, r)[Len(s) + 1] = r /\ DOMAIN Append(s, r) = 1..(Len(s) + 1)
  BY <1>1, LenProperties
<1>3. \A i \in 1..(Len(s) + 1) : i \in 1..Len(s) \/ i = Len(s) + 1
  BY <1>1
<1>4. PICK t : t = Append(s, r)
  OBVIOUS
<1>5. DOMAIN t = 1..(Len(s) + 1) /\ t[Len(s) + 1] = r /\ \A i \in 1..Len(s) : t[i] = s[i]
  BY <1>1, <1>2, <1>4
<1>6. {t[n].mention : n \in DOMAIN t} = {s[n].mention : n \in DOMAIN s} \union {r.mention}
  BY <1>1, <1>3, <1>5
<1>7. ASSUME \A m, n \in DOMAIN s : m # n /\ s[m].mention = s[n].mention => s[m].mention = 0,
             r.mention \notin {s[n].mention : n \in DOMAIN s} \ {0},
             NEW m \in DOMAIN t, NEW n \in DOMAIN t, m # n, t[m].mention = t[n].mention
      PROVE  t[m].mention = 0
  <2>1. \A i \in 1..Len(s) : s[i].mention = r.mention => r.mention = 0
    BY <1>1, <1>7
  <2>2. QED
    BY <1>1, <1>3, <1>5, <1>7, <2>1
<1>8. QED
  BY <1>4, <1>6, <1>7

LEMMA SendBoxKeeps == ASSUME BoxInv, SendBox PROVE BoxInv'
<1> DEFINE r == [words |-> Append(input, words + 1), mention |-> image]
<1>1. words' = words + 1 /\ sent' = Append(sent, r) /\ input' = <<>> /\ image' = 0
      /\ discarded' = discarded \union ({image} \ {0})
      /\ UNCHANGED <<loading, mics, listening, images, pressed>>
  BY DEF SendBox
<1>2. words \in Nat /\ input \in Seq(Nat) /\ image \in Nat /\ sent \in Seq(SentRecords)
  BY DEF BoxInv, ImagesInv, WordsInv
<1>3. Append(input, words + 1) \in Seq(Nat)
  BY <1>2, AppendProperties
<1>4. r \in SentRecords /\ r.words = Append(input, words + 1) /\ r.mention = image
  BY <1>2, <1>3 DEF SentRecords
<1> HIDE DEF r
<1>5. sent' \in Seq(SentRecords)
  BY <1>1, <1>2, <1>4, AppendProperties
<1>6. WordsInv'
  <2>1. SentWords' = SentWords \o Append(input, words + 1)
    BY <1>1, <1>2, <1>4, <1>5, SentAtAppend, SentWordsIs DEF SentWords, SentAt
  <2>2. SentWords \in Seq(Nat) /\ SentWords \o input \in Seq(Nat)
    BY <1>2, SentWordsIs, ConcatProperties
  <2>3. SentWords \o Append(input, words + 1) = Append(SentWords \o input, words + 1)
    <3>1. words + 1 \in Nat /\ <<words + 1>> \in Seq(Nat)
      BY <1>2
    <3>2. Append(input, words + 1) = input \o <<words + 1>>
      BY <1>2, <3>1, AppendIsConcat
    <3>3. Append(SentWords \o input, words + 1) = (SentWords \o input) \o <<words + 1>>
      BY <2>2, <3>1, AppendIsConcat
    <3>4. QED
      BY <1>2, <2>2, <3>1, <3>2, <3>3, ConcatAssociative
  <2>4. Rising(Append(SentWords \o input, words + 1), words + 1)
    BY <1>2, RisingAppend DEF BoxInv, WordsInv
  <2>5. Append(SentWords \o input, words + 1) \o <<>> = Append(SentWords \o input, words + 1)
    BY <2>4, ConcatEmptySeq DEF Rising
  <2>6. (SentWords \o input)' = SentWords' \o input'
    OBVIOUS
  <2>7. Rising(SentWords' \o input', words')
    BY <1>1, <2>1, <2>3, <2>4, <2>5
  <2>8. QED
    BY <1>1, <1>2, <2>6, <2>7, EmptySeq DEF WordsInv, Rising
<1>7. ImagesInv'
  <2>1. Mentioned' = (Mentioned \union {image}) \ {0}
    <3>1. {Append(sent, r)[n].mention : n \in DOMAIN Append(sent, r)}
          = {sent[n].mention : n \in DOMAIN sent} \union {image}
      BY <1>2, <1>4, MentionedGrow
    <3>2. {sent'[n].mention : n \in DOMAIN sent'} = {sent[n].mention : n \in DOMAIN sent} \union {image}
      BY <1>1, <3>1
    <3>3. Mentioned' = {sent'[n].mention : n \in DOMAIN sent'} \ {0}
      BY DEF Mentioned
    <3>4. Mentioned = {sent[n].mention : n \in DOMAIN sent} \ {0}
      BY DEF Mentioned
    <3>5. QED
      BY <3>2, <3>3, <3>4
  <2>2. image \notin Mentioned
    <3>1. Mentioned \subseteq discarded /\ image \notin discarded
      BY DEF BoxInv, ImagesInv, ImagesOnce
    <3>2. QED
      BY <3>1
  <2>3. (\A m, n \in DOMAIN sent : m # n /\ sent[m].mention = sent[n].mention => sent[m].mention = 0)'
    <3>1. \A m, n \in DOMAIN sent : m # n /\ sent[m].mention = sent[n].mention => sent[m].mention = 0
      BY DEF BoxInv, ImagesInv, ImagesOnce
    <3>2. image \notin {sent[n].mention : n \in DOMAIN sent} \ {0}
      BY <2>2 DEF Mentioned
    <3>3. \A m, n \in DOMAIN Append(sent, r) :
              m # n /\ Append(sent, r)[m].mention = Append(sent, r)[n].mention => Append(sent, r)[m].mention = 0
      BY <1>2, <1>4, <3>1, <3>2, MentionedGrow
    <3>4. QED
      BY <1>1, <3>3
  <2>4. ImagesOnce'
    <3>1. /\ Mentioned \subseteq discarded /\ discarded \cap (loading \union {image}) = {}
          /\ 1..images = loading \union ({image} \ {0}) \union discarded
          /\ image \notin loading /\ 0 \notin loading \union discarded
      BY DEF BoxInv, ImagesInv, ImagesOnce
    <3>2. /\ Mentioned' \subseteq discarded' /\ discarded' \cap (loading' \union {image'}) = {}
          /\ 1..images' = loading' \union ({image'} \ {0}) \union discarded'
      BY <1>1, <2>1, <3>1
    <3>3. QED
      BY <2>3, <3>2 DEF ImagesOnce
  <2>5. QED
    BY <1>1, <1>5, <2>4 DEF BoxInv, ImagesInv
<1>8. QED
  BY <1>1, <1>6, <1>7 DEF BoxInv, MicsInv, ListensWhenShown

(* What leaves what was sent as it is. *)
LEMMA SameSent ==
    ASSUME UNCHANGED sent
    PROVE  Mentioned' = Mentioned /\ SentWords' = SentWords
  BY DEF Mentioned, SentWords

LEMMA ChooseExampleKeeps == ASSUME BoxInv, ChooseExample PROVE BoxInv'
<1>1. words' = words + 1 /\ input' = <<words + 1>>
      /\ UNCHANGED <<image, loading, mics, listening, images, pressed, sent, discarded>>
  BY DEF ChooseExample
<1>2. words \in Nat /\ input \in Seq(Nat) /\ sent \in Seq(SentRecords)
  BY DEF BoxInv, ImagesInv, WordsInv
<1>3. SentWords \in Seq(Nat) /\ SentWords' = SentWords /\ Mentioned' = Mentioned
  BY <1>1, <1>2, SentWordsIs, SameSent
<1>4. Rising(SentWords, words)
  BY <1>2, <1>3, RisingPart DEF BoxInv, WordsInv
<1>5. Append(SentWords, words + 1) = SentWords \o <<words + 1>>
  BY <1>2, <1>3, AppendIsConcat
<1>6. Rising(SentWords' \o input', words')
  BY <1>1, <1>2, <1>3, <1>4, <1>5, RisingAppend
<1>7. (SentWords \o input)' = SentWords' \o input'
  OBVIOUS
<1>8. WordsInv'
  BY <1>1, <1>2, <1>6, <1>7, SMTT(30) DEF WordsInv, Rising
<1>9. QED
  BY <1>1, <1>3, <1>8 DEF BoxInv, ImagesInv, ImagesOnce, MicsInv, ListensWhenShown

LEMMA WordsSame == ASSUME WordsInv, UNCHANGED <<words, input, sent>> PROVE WordsInv'
<1>1. SentWords' = SentWords
  BY SameSent
<1>2. (SentWords \o input)' = SentWords' \o input'
  OBVIOUS
<1>3. QED
  BY <1>1, <1>2 DEF WordsInv, Rising

LEMMA ImagesKeep ==
    ASSUME BoxInv, ChooseImage \/ RemoveImage \/ (\E i \in loading : ImageLoaded(i))
    PROVE  BoxInv'
<1>1. WordsInv' /\ MicsInv' /\ Mentioned' = Mentioned /\ UNCHANGED sent
  BY WordsSame, SameSent DEF BoxInv, ChooseImage, RemoveImage, ImageLoaded, MicsInv, ListensWhenShown
<1>2. /\ images \in Nat /\ image \in Nat /\ image \notin loading /\ 0 \notin loading \union discarded
      /\ Mentioned \subseteq discarded
      /\ 1..images = loading \union ({image} \ {0}) \union discarded
      /\ discarded \cap (loading \union {image}) = {}
  BY DEF BoxInv, ImagesInv, ImagesOnce
<1>3. /\ images' \in Nat /\ image' \in Nat /\ (image \notin loading)' /\ (0 \notin loading \union discarded)'
      /\ Mentioned \subseteq discarded'
      /\ 1..images' = loading' \union ({image'} \ {0}) \union discarded'
      /\ discarded' \cap (loading' \union {image'}) = {}
  <2>1. CASE ChooseImage
    <3>1. images' = images + 1 /\ loading' = loading \union {images + 1} /\ image' = image /\ discarded' = discarded
      BY <2>1 DEF ChooseImage
    <3>2. images + 1 \notin 1..images /\ 1..(images + 1) = 1..images \union {images + 1} /\ images + 1 # 0 /\ images + 1 \in Nat
      BY <1>2
    <3>3. image # images + 1 /\ images + 1 \notin discarded
      BY <1>2, <3>2
    <3>4. QED
      BY <1>2, <3>1, <3>2, <3>3
  <2>2. CASE RemoveImage
    BY <1>2, <2>2 DEF RemoveImage
  <2>3. CASE \E i \in loading : ImageLoaded(i)
    <3> PICK i \in loading : ImageLoaded(i)
      BY <2>3
    <3>1. loading' = loading \ {i} /\ image' = i /\ discarded' = discarded \union ({image} \ {0}) /\ images' = images
      BY DEF ImageLoaded
    <3>2. i \in 1..images /\ i \in Nat /\ i # 0
      BY <1>2
    <3>3. QED
      BY <1>2, <3>1, <3>2
  <2>4. QED
    BY <2>1, <2>2, <2>3
<1>4. ImagesInv'
  BY <1>1, <1>3 DEF BoxInv, ImagesInv, ImagesOnce
<1>5. QED
  BY <1>1, <1>4 DEF BoxInv

LEMMA MicsKeep ==
    ASSUME BoxInv, PressMic \/ (\E r \in mics : MicStarts(r) \/ MicEnds(r))
    PROVE  BoxInv'
<1>1. mics \subseteq Recognisers /\ pressed \in Nat /\ (listening => \E r \in mics : r.live /\ r.running)
  BY DEF BoxInv, MicsInv, ListensWhenShown
<1>2. ImagesInv'
  <2>1. UNCHANGED <<image, images, loading, discarded, sent>>
    BY DEF PressMic, MicStarts, MicEnds, madeVars
  <2>2. QED
    BY <2>1, SameSent DEF BoxInv, ImagesInv, ImagesOnce
<1>3. CASE PressMic
  <2>1. [n |-> pressed + 1, running |-> FALSE, live |-> TRUE] \in Recognisers
    BY <1>1 DEF Recognisers
  <2>2. MicsInv'
    <3>1. pressed' = pressed + 1 /\ listening' = listening
          /\ mics' = IF listening THEN mics ELSE mics \union {[n |-> pressed + 1, running |-> FALSE, live |-> TRUE]}
      BY <1>3 DEF PressMic
    <3>2. pressed' \in Nat /\ mics' \subseteq Recognisers /\ mics \subseteq mics'
      <4>1. pressed' \in Nat
        BY <1>1, <3>1
      <4>2. PICK r : r = [n |-> pressed + 1, running |-> FALSE, live |-> TRUE]
        OBVIOUS
      <4>3. mics' = mics \/ mics' = mics \union {r}
        BY <3>1, <4>2
      <4>4. r \in Recognisers
        BY <2>1, <4>2
      <4>5. QED
        BY <1>1, <4>1, <4>3, <4>4
    <3>3. ListensWhenShown'
      BY <1>1, <3>1, <3>2 DEF ListensWhenShown
    <3>4. listening' \in BOOLEAN
      BY <3>1 DEF BoxInv, MicsInv
    <3>5. QED
      BY <3>2, <3>3, <3>4 DEF MicsInv
  <2>3. WordsInv'
    BY <1>3, WordsSame DEF BoxInv, PressMic
  <2>4. QED
    BY <1>2, <2>2, <2>3 DEF BoxInv
<1>4. CASE \E r \in mics : MicStarts(r)
  <2> PICK r \in mics : MicStarts(r)
    BY <1>4
  <2>1. PICK q : q = [n |-> r.n, running |-> TRUE, live |-> r.live]
    OBVIOUS
  <2>2. MicsInv'
    <3>1. r \in Recognisers /\ listening \in BOOLEAN
      BY <1>1 DEF BoxInv, MicsInv
    <3>2. r.n \in Nat /\ r.live \in BOOLEAN
      BY <3>1 DEF Recognisers
    <3>3. q \in Recognisers /\ q.running /\ q.live = r.live
      BY <2>1, <3>2, Zenon DEF Recognisers
    <3>4. ~r.running /\ mics' = (mics \ {r}) \union {q} /\ listening' = (listening \/ r.live) /\ pressed' = pressed
      BY <2>1 DEF MicStarts, madeVars
    <3>5. listening' => \E o \in mics' : o.live /\ o.running
      BY <1>1, <3>3, <3>4
    <3>6. listening' \in BOOLEAN
      BY <3>1, <3>2, <3>4
    <3>7. QED
      BY <1>1, <3>3, <3>4, <3>5, <3>6 DEF MicsInv, ListensWhenShown
  <2>3. WordsInv'
    BY WordsSame DEF BoxInv, MicStarts, madeVars
  <2>4. QED
    BY <1>2, <2>2, <2>3 DEF BoxInv
<1>5. CASE \E r \in mics : MicEnds(r)
  <2> PICK r \in mics : MicEnds(r)
    BY <1>5
  <2>1. MicsInv'
    <3>1. listening \in BOOLEAN /\ r.live \in BOOLEAN
      BY <1>1 DEF BoxInv, MicsInv, Recognisers
    <3>2. r.running /\ mics' = mics \ {r} /\ listening' = (listening /\ ~r.live) /\ pressed' = pressed
      BY DEF MicEnds
    <3>3. listening' => \E o \in mics' : o.live /\ o.running
      BY <1>1, <3>2
    <3>4. listening' \in BOOLEAN
      BY <3>1, <3>2
    <3>5. QED
      BY <1>1, <3>2, <3>3, <3>4 DEF MicsInv, ListensWhenShown
  <2>2. WordsInv'
    <3>1. CASE UNCHANGED <<words, input>>
      BY <3>1, WordsSame DEF BoxInv, MicEnds
    <3>2. CASE words' = words + 1 /\ input' = Append(input, words')
      <4>1. words \in Nat /\ input \in Seq(Nat) /\ sent \in Seq(SentRecords) /\ UNCHANGED sent
        BY DEF BoxInv, ImagesInv, WordsInv, MicEnds
      <4>2. SentWords \in Seq(Nat) /\ SentWords' = SentWords /\ input' = Append(input, words + 1)
            /\ words + 1 \in Nat
        BY <3>2, <4>1, SentWordsIs, SameSent
      <4>3. Append(SentWords \o input, words + 1) = SentWords \o input'
        <5>1. <<words + 1>> \in Seq(Nat) /\ SentWords \o input \in Seq(Nat)
          BY <4>1, <4>2, ConcatProperties
        <5>2. Append(input, words + 1) = input \o <<words + 1>>
          BY <4>1, <4>2, AppendIsConcat
        <5>3. Append(SentWords \o input, words + 1) = (SentWords \o input) \o <<words + 1>>
          BY <4>2, <5>1, AppendIsConcat
        <5>4. QED
          BY <4>1, <4>2, <5>1, <5>2, <5>3, ConcatAssociative
      <4>4. Rising(Append(SentWords \o input, words + 1), words + 1)
        BY <4>1, RisingAppend DEF BoxInv, WordsInv
      <4>5. (SentWords \o input)' = SentWords' \o input'
        OBVIOUS
      <4>6. input' \in Seq(Nat)
        BY <4>1, <4>2, AppendProperties
      <4>7. Rising(SentWords' \o input', words')
        BY <3>2, <4>2, <4>3, <4>4
      <4>8. QED
        BY <3>2, <4>2, <4>5, <4>6, <4>7 DEF WordsInv, Rising
    <3>3. QED
      BY <3>1, <3>2 DEF MicEnds
  <2>3. QED
    BY <1>2, <2>1, <2>2 DEF BoxInv
<1>6. QED
  BY <1>3, <1>4, <1>5

LEMMA CloseBoxKeeps == ASSUME BoxInv, CloseBox PROVE BoxInv'
<1>1. input' = <<>> /\ image' = 0 /\ loading' = {} /\ listening' = FALSE
      /\ mics' = {[n |-> r.n, running |-> r.running, live |-> FALSE] : r \in mics}
      /\ discarded' = discarded \union loading \union ({image} \ {0})
      /\ UNCHANGED <<words, images, pressed, sent>>
  BY DEF CloseBox
<1>2. words \in Nat /\ input \in Seq(Nat) /\ sent \in Seq(SentRecords) /\ image \in Nat
  BY DEF BoxInv, ImagesInv, WordsInv
<1>3. SentWords \in Seq(Nat) /\ SentWords' = SentWords /\ Mentioned' = Mentioned
  BY <1>1, <1>2, SentWordsIs, SameSent
<1>4. Rising(SentWords, words)
  BY <1>2, <1>3, RisingPart DEF BoxInv, WordsInv
<1>5. SentWords \o <<>> = SentWords
  BY <1>3, ConcatEmptySeq
<1>6. (SentWords \o input)' = SentWords' \o input'
  OBVIOUS
<1>7. Rising(SentWords' \o input', words')
  BY <1>1, <1>3, <1>4, <1>5
<1>8. WordsInv'
  BY <1>1, <1>2, <1>6, <1>7, EmptySeq DEF WordsInv, Rising
<1>9. ImagesInv'
  BY <1>1, <1>2, <1>3 DEF BoxInv, ImagesInv, ImagesOnce
<1>10. mics' \subseteq Recognisers
  <2>1. ASSUME NEW r \in mics PROVE [n |-> r.n, running |-> r.running, live |-> FALSE] \in Recognisers
    <3>1. r.n \in Nat /\ r.running \in BOOLEAN
      BY DEF BoxInv, MicsInv, Recognisers
    <3>2. QED
      BY <3>1, Zenon DEF Recognisers
  <2>2. QED
    BY <1>1, <2>1, Zenon
<1>11. QED
  BY <1>1, <1>8, <1>9, <1>10 DEF BoxInv, MicsInv, ListensWhenShown

LEMMA BoxSame == ASSUME BoxInv, UNCHANGED composerVars PROVE BoxInv'
<1>1. UNCHANGED <<input, image, loading, mics, listening, words, images, pressed, discarded, sent>>
  BY DEF composerVars, boxVars, madeVars
<1>2. QED
  BY <1>1, WordsSame, SameSent DEF BoxInv, ImagesInv, ImagesOnce, MicsInv, ListensWhenShown

(* Every step of the chat page is one of these for its box. *)
LEMMA BoxInvNext == ASSUME BoxInv, [ChatNext]_chatVars PROVE BoxInv'
<1>1. CASE Send
  BY <1>1, SendBoxKeeps DEF Send
<1>2. CASE Leave
  BY <1>2, CloseBoxKeeps DEF Leave
<1>3. CASE Compose
  BY <1>3, ChooseExampleKeeps, ImagesKeep, MicsKeep DEF Compose
<1>4. CASE BrowserNext
  BY <1>4, ImagesKeep, MicsKeep DEF BrowserNext
<1>5. CASE UNCHANGED composerVars
  BY <1>5, BoxSame
<1>6. \/ Send \/ Leave \/ Compose \/ BrowserNext \/ UNCHANGED composerVars
  BY DEF ChatNext, ServerNext, AnswerNext, ReadNext, UserNext, FaultNext, ServeSave, ServeGet, ServeDelete, SaveAnswered,
         GetAnswered, Chunk, Finish, NewChat, Return, OpenSession, DeleteSession, Break, SaveFails, SaveAnswerLost, GetFails,
         Tick, EndSend, rest, chatVars
<1>7. QED
  BY <1>1, <1>2, <1>3, <1>4, <1>5, <1>6

-----------------------------------------------------------------------------
(* The sessions.  A question was asked of a conversation: what was before  *)
(* the user then, and the question.                                        *)

Talk(n) == Append(seen[n], n)
Root(n) == Talk(n)[1]
Clean(s) == ToSet(s) \cap muddled = {}
Page == Asks(messages)

(* The questions that will store a session, or whose answer is read there, *)
(* and with the one that stored it last: they are one conversation, longer *)
(* and longer.                                                             *)
Asking(id) == {n \in {asked} : Reads /\ reading.sid = id /\ n \notin muddled}
Saving(id) == {v.ask : v \in {w \in saves : ~w.served /\ w.sid = id /\ w.ask \notin muddled}}
Coming(id) == Asking(id) \union Saving(id)
Stored(id) == {n \in {Last(writers[id])} : id \in Ids}
Line(id) == Coming(id) \union Stored(id)
Unmuddled(id) == ToSet(writers[id]) \cap muddled = {}

SaveRecords == [ask : Nat, sid : Nat, msgs : Seq(Messages), id : Nat, served : BOOLEAN, live : BOOLEAN]
GetRecords == [id : Nat, served : BOOLEAN, found : BOOLEAN, msgs : Seq(Messages)]

TypesInv ==
    /\ user \in User
    /\ mounted \in BOOLEAN /\ streaming \in BOOLEAN /\ status \in Statuses
    /\ streaming <=> Reads
    /\ messages \in Seq(Messages) /\ events \in Seq(Events)
    /\ second \in Nat \ {0}
    /\ sessionId \in Named \union {NoId}
    /\ Ids \subseteq Named /\ Named \subseteq 1..second
    /\ \A id \in Ids : store[id] \in Seq(Messages)
    /\ saves \subseteq SaveRecords /\ gets \subseteq GetRecords
    /\ muddled \union kept \union dropped \subseteq 1..asked

(* What was seen before a question began as the conversation of it did.    *)
SeenInv ==
    /\ asked \in Nat /\ seen \in Seq(Seq(Nat)) /\ Len(seen) = asked
    /\ \A n \in 1..asked : \A q \in ToSet(seen[n]) : q \in 1..(n - 1) /\ Root(q) = Root(n)

IsHeld(s) == s = <<>> \/ \E n \in 1..asked : s = Talk(n)

HeldInv ==
    /\ IsHeld(Page)
    /\ \A id \in Ids : IsHeld(Asks(store[id]))
    /\ \A v \in saves : IsHeld(Asks(v.msgs))
    /\ \A g \in gets : IsHeld(Asks(g.msgs))

(* The answer that is read is to the last question, which nothing stores   *)
(* before.                                                                 *)
ReadInv ==
    Reads =>
        /\ reading.ask = asked /\ asked \in Nat \ {0} /\ reading.sid \in Named \union {NoId}
        /\ asked \notin muddled => /\ Page = Talk(asked)
                                   /\ reading.sid = NoId => seen[asked] = <<>>
        /\ \A v \in saves : v.ask # asked
        /\ \A id \in Named : asked \notin ToSet(writers[id])

SaveOK(v) ==
    /\ v.ask \in 1..asked /\ v.sid \in Named \union {NoId}
    /\ v.ask \notin muddled => /\ Asks(v.msgs) = Talk(v.ask)
                               /\ v.sid = NoId => seen[v.ask] = <<>>
    /\ ~v.served => \A id \in Named : v.ask \notin ToSet(writers[id])
    /\ v.served => /\ v.id \in Named /\ v.ask \in ToSet(writers[v.id])
                   /\ v.sid = NoId /\ v.ask \notin muddled => writers[v.id][1] = v.ask

SaveInv ==
    /\ \A v, w \in saves : v.ask = w.ask => v = w
    /\ \A v \in saves : SaveOK(v)

WritersInv ==
    /\ \A id \in Named : writers[id] \in Seq(1..asked) /\ writers[id] # <<>>
    /\ \A a, b \in Named : a # b => ToSet(writers[a]) \cap ToSet(writers[b]) = {}
    /\ \A id \in Ids : Last(writers[id]) \notin muddled => Asks(store[id]) = Talk(Last(writers[id]))

(* A session that was found is one that was stored; of another nothing     *)
(* is told.                                                                *)
GetsInv == \A g \in gets : IF g.found THEN g.id \in Named ELSE g.msgs = <<>>

(* A page without a session shows one question at most, the last.          *)
AloneInv == sessionId = NoId /\ Clean(Page) => Page = <<>> \/ Page = <<asked>>

(* All that has to do with a session began with the question that stored   *)
(* it first.                                                               *)
RootOK(id) ==
    /\ \A m \in ToSet(writers[id]) \union Coming(id) : Root(m) = writers[id][1]
    /\ sessionId = id /\ ~astray => Page # <<>> /\ Page[1] = writers[id][1]
    /\ \A g \in gets : g.found /\ g.id = id => Asks(g.msgs) # <<>> /\ Asks(g.msgs)[1] = writers[id][1]

RootInv == \A id \in Named : Unmuddled(id) => RootOK(id)

LineOK(id) ==
    /\ \A m, n \in Line(id) : m < n /\ Clean(Talk(n)) => IsPrefix(Talk(m), Talk(n))
    /\ sessionId = id /\ ~astray /\ Clean(Page) => \A m \in Line(id) : IsPrefix(Talk(m), Page)

LineInv == \A id \in Named : Unmuddled(id) => LineOK(id)

SessionInv == TypesInv /\ SeenInv /\ HeldInv /\ ReadInv /\ SaveInv /\ WritersInv /\ GetsInv /\ AloneInv /\ RootInv /\ LineInv

-----------------------------------------------------------------------------
LEMMA PrefixSelf == ASSUME NEW s \in Seq(Nat) PROVE IsPrefix(s, s)
  BY LenProperties DEF IsPrefix

LEMMA PrefixAppend ==
    ASSUME NEW r \in Seq(Nat), NEW s \in Seq(Nat), NEW e \in Nat, IsPrefix(r, s)
    PROVE  IsPrefix(r, Append(s, e))
<1>1. Len(r) \in Nat /\ Len(s) \in Nat /\ Len(r) <= Len(s) /\ Len(Append(s, e)) = Len(s) + 1
      /\ \A i \in 1..Len(s) : Append(s, e)[i] = s[i]
  BY LenProperties, AppendProperties DEF IsPrefix
<1>2. SubSeq(Append(s, e), 1, Len(r)) = SubSeq(s, 1, Len(r))
  <2>1. \A i \in 1..Len(r) : Append(s, e)[i] \in Nat /\ s[i] \in Nat /\ Append(s, e)[i] = s[i]
    BY <1>1, ElementOfSeq
  <2>2. SubSeq(Append(s, e), 1, Len(r)) \in Seq(Nat) /\ SubSeq(s, 1, Len(r)) \in Seq(Nat)
        /\ Len(SubSeq(Append(s, e), 1, Len(r))) = Len(SubSeq(s, 1, Len(r)))
        /\ Len(SubSeq(s, 1, Len(r))) = Len(r)
    BY <1>1, <2>1, SubSeqProperties
  <2>3. \A i \in 1..Len(r) : SubSeq(Append(s, e), 1, Len(r))[i] = SubSeq(s, 1, Len(r))[i]
    BY <1>1, <2>1
  <2>4. QED
    BY <2>2, <2>3, SeqEqual
<1>3. QED
  BY <1>1, <1>2 DEF IsPrefix

LEMMA PrefixFirst ==
    ASSUME NEW r \in Seq(Nat), NEW s \in Seq(Nat), r # <<>>, IsPrefix(r, s)
    PROVE  s # <<>> /\ r[1] = s[1]
<1>1. Len(r) \in Nat \ {0} /\ Len(s) \in Nat /\ Len(r) <= Len(s) /\ SubSeq(r, 1, Len(r)) = SubSeq(s, 1, Len(r))
  BY EmptySeq, LenProperties DEF IsPrefix
<1>2. 1 \in 1..Len(r) /\ Len(s) # 0
  BY <1>1
<1>3. SubSeq(r, 1, Len(r))[1] = r[1] /\ SubSeq(s, 1, Len(r))[1] = s[1]
  BY <1>1, <1>2
<1>4. QED
  BY <1>1, <1>2, <1>3

LEMMA AppendOf ==
    ASSUME NEW s \in Seq(Nat), NEW e \in Nat
    PROVE  /\ Append(s, e) \in Seq(Nat) /\ Append(s, e) # <<>> /\ Last(Append(s, e)) = e
           /\ ToSet(Append(s, e)) = ToSet(s) \union {e}
           /\ s # <<>> => Append(s, e)[1] = s[1]
           /\ s = <<>> => Append(s, e)[1] = e /\ Append(s, e) = <<e>>
           /\ ToSet(s) \subseteq Nat
           /\ s # <<>> => s[1] \in ToSet(s) /\ Last(s) \in ToSet(s)
<1>1. Append(s, e) \in Seq(Nat) /\ Len(Append(s, e)) = Len(s) + 1 /\ Len(s) \in Nat
      /\ (\A i \in 1..Len(s) : Append(s, e)[i] = s[i]) /\ DOMAIN s = 1..Len(s) /\ Append(s, e) # <<>>
  BY AppendProperties, LenProperties
<1>2. Append(s, e)[Len(s) + 1] = e /\ DOMAIN Append(s, e) = 1..(Len(s) + 1)
  BY <1>1, LenProperties
<1>3. Last(Append(s, e)) = e
  BY <1>1, <1>2 DEF Last
<1>4. ToSet(Append(s, e)) = ToSet(s) \union {e}
  <2>1. PICK t : t = Append(s, e)
    OBVIOUS
  <2>2. DOMAIN t = 1..(Len(s) + 1) /\ t[Len(s) + 1] = e /\ \A i \in 1..Len(s) : t[i] = s[i]
    BY <1>1, <1>2, <2>1
  <2>3. \A i \in 1..(Len(s) + 1) : i \in 1..Len(s) \/ i = Len(s) + 1
    BY <1>1
  <2>4. {t[i] : i \in DOMAIN t} = {s[i] : i \in DOMAIN s} \union {e}
    BY <1>1, <2>2, <2>3
  <2>5. QED
    BY <2>1, <2>4 DEF ToSet
<1>5. s # <<>> => 1 \in 1..Len(s) /\ Len(s) \in 1..Len(s)
  BY <1>1, EmptySeq
<1>6. \A i \in 1..Len(s) : s[i] \in Nat
  BY ElementOfSeq
<1>7. s # <<>> => Append(s, e)[1] = s[1] /\ s[1] \in ToSet(s) /\ Last(s) \in ToSet(s)
  BY <1>1, <1>5 DEF ToSet, Last
<1>8. ToSet(s) \subseteq Nat
  BY <1>1, <1>6 DEF ToSet
<1>9. s = <<>> => Append(s, e)[1] = e /\ Append(s, e) = <<e>>
  OBVIOUS
<1>10. QED
  BY <1>1, <1>3, <1>4, <1>7, <1>8, <1>9

LEMMA TalkIs ==
    ASSUME SeenInv, NEW n \in 1..asked
    PROVE  /\ seen[n] \in Seq(Nat) /\ Talk(n) \in Seq(Nat) /\ Talk(n) # <<>> /\ Last(Talk(n)) = n
           /\ ToSet(Talk(n)) = ToSet(seen[n]) \union {n} /\ ToSet(Talk(n)) \subseteq 1..n
           /\ \A q \in ToSet(Talk(n)) : Root(q) = Root(n)
           /\ Root(n) \in 1..n
           /\ seen[n] = <<>> => Talk(n) = <<n>>
<1>1. asked \in Nat /\ n \in Nat /\ n \in DOMAIN seen /\ seen[n] \in Seq(Nat)
      /\ \A q \in ToSet(seen[n]) : q \in 1..(n - 1) /\ Root(q) = Root(n)
  <2>1. n \in 1..Len(seen)
    BY DEF SeenInv
  <2>2. QED
    BY <2>1, ElementOfSeq, LenProperties DEF SeenInv
<1>2. Talk(n) \in Seq(Nat) /\ Talk(n) # <<>> /\ Last(Talk(n)) = n /\ ToSet(Talk(n)) = ToSet(seen[n]) \union {n}
      /\ (seen[n] # <<>> => Root(n) = seen[n][1] /\ seen[n][1] \in ToSet(seen[n]))
      /\ (seen[n] = <<>> => Root(n) = n /\ Talk(n) = <<n>>)
  BY <1>1, AppendOf DEF Talk, Root
<1>3. Root(n) \in 1..n
  BY <1>1, <1>2
<1>4. QED
  BY <1>1, <1>2, <1>3

LEMMA HeldIs ==
    ASSUME SeenInv, NEW s, IsHeld(s)
    PROVE  /\ s \in Seq(Nat) /\ ToSet(s) \subseteq 1..asked
           /\ \A q \in ToSet(s) : Root(q) = s[1]
           /\ s # <<>> => Last(s) \in 1..asked /\ s = Talk(Last(s))
<1>1. CASE s = <<>>
  <2>1. ToSet(s) = {}
    BY <1>1 DEF ToSet
  <2>2. QED
    BY <1>1, <2>1, EmptySeq
<1>2. CASE s # <<>>
  <2>1. PICK n \in 1..asked : s = Talk(n)
    BY <1>2 DEF IsHeld
  <2>2. asked \in Nat /\ n <= asked
    BY DEF SeenInv
  <2>3. QED
    BY <2>1, <2>2, TalkIs DEF Root
<1>3. QED
  BY <1>1, <1>2

LEMMA SameTalks == ASSUME UNCHANGED seen PROVE \A n : Talk(n)' = Talk(n) /\ Root(n)' = Root(n)
  BY DEF Talk, Root

LEMMA CleanBefore == ASSUME muddled \subseteq muddled', NEW s PROVE Clean(s)' => Clean(s)
<1>1. (ToSet(s) \cap muddled')  = {} => ToSet(s) \cap muddled = {}
  OBVIOUS
<1>2. QED
  BY <1>1 DEF Clean

(* A step that stores nothing, and gives the page nothing to name a        *)
(* session by, only takes away from what has to do with one.               *)
LEMMA SessionsKept ==
    ASSUME SessionInv, UNCHANGED <<asked, seen, writers>>, muddled \subseteq muddled',
           sessionId' # NoId => sessionId' = sessionId /\ Page' = Page /\ (~astray' => ~astray),
           \A id \in Named : Coming(id)' \subseteq Coming(id),
           Ids' \subseteq Ids,
           \A g \in gets' : g.found => g \in gets
    PROVE  RootInv' /\ LineInv'
<1>1. Named' = Named /\ \A n : Talk(n)' = Talk(n) /\ Root(n)' = Root(n)
  BY SameTalks DEF Named
<1>2. NoId \notin Named
  BY DEF SessionInv, TypesInv, NoId
<1>3. ASSUME NEW id \in Named, Unmuddled(id)'
      PROVE  RootOK(id)' /\ LineOK(id)'
  <2>1. RootOK(id) /\ LineOK(id)
    <3>1. Unmuddled(id)
      BY <1>3 DEF Unmuddled
    <3>2. QED
      BY <3>1 DEF SessionInv, RootInv, LineInv
  <2>2. Coming(id)' \subseteq Coming(id) /\ Stored(id)' \subseteq Stored(id)
    BY DEF Stored
  <2>3. Line(id)' \subseteq Line(id)
    BY <2>2 DEF Line
  <2>4. sessionId' = id => sessionId = id /\ Page' = Page /\ (~astray' => ~astray)
    BY <1>2
  <2>5. RootOK(id)'
    <3>1. (\A m \in ToSet(writers[id]) \union Coming(id) : Root(m) = writers[id][1])'
      BY <1>1, <2>1, <2>2 DEF RootOK
    <3>2. (sessionId = id /\ ~astray => Page # <<>> /\ Page[1] = writers[id][1])'
      BY <2>1, <2>4 DEF RootOK
    <3>3. (\A g \in gets : g.found /\ g.id = id => Asks(g.msgs) # <<>> /\ Asks(g.msgs)[1] = writers[id][1])'
      BY <2>1 DEF RootOK
    <3>4. QED
      BY <3>1, <3>2, <3>3 DEF RootOK
  <2>6. LineOK(id)'
    <3>1. ASSUME NEW m \in Line(id)', NEW n \in Line(id)', m < n, Clean(Talk(n))'
          PROVE  IsPrefix(Talk(m), Talk(n))'
      <4>1. Clean(Talk(n))
        BY <1>1, <3>1 DEF Clean
      <4>2. IsPrefix(Talk(m), Talk(n))
        BY <2>1, <2>3, <3>1, <4>1 DEF LineOK
      <4>3. QED
        BY <1>1, <4>2 DEF IsPrefix
    <3>2. ASSUME (sessionId = id /\ ~astray /\ Clean(Page))', NEW m \in Line(id)'
          PROVE  IsPrefix(Talk(m), Page)'
      <4>1. Page' = Page /\ sessionId = id /\ ~astray
        BY <2>4, <3>2
      <4>2. Clean(Page)
        BY <4>1, <3>2 DEF Clean
      <4>3. IsPrefix(Talk(m), Page)
        BY <2>1, <2>3, <3>2, <4>1, <4>2 DEF LineOK
      <4>4. QED
        BY <1>1, <4>1, <4>3 DEF IsPrefix
    <3>3. QED
      BY <3>1, <3>2 DEF LineOK
  <2>7. QED
    BY <2>5, <2>6
<1>4. QED
  BY <1>1, <1>3 DEF RootInv, LineInv

(* What was asked, seen and written stays; so does what it says.           *)
LEMMA SeenSame == ASSUME SeenInv, UNCHANGED <<asked, seen>> PROVE SeenInv'
  BY SameTalks DEF SeenInv

LEMMA HeldSame == ASSUME UNCHANGED <<asked, seen>> PROVE \A s : IsHeld(s)' <=> IsHeld(s)
  BY SameTalks DEF IsHeld

LEMMA ReadKept ==
    ASSUME ReadInv, UNCHANGED <<asked, seen, reading, writers>>, muddled \subseteq muddled',
           Page' = Page \/ (Reads => asked \in muddled'),
           \A v \in saves' : v.ask # asked \/ \E w \in saves : w.ask = v.ask
    PROVE  ReadInv'
<1>1. Reads' = Reads /\ Named' = Named /\ Talk(asked)' = Talk(asked)
  BY DEF Reads, Named, Talk
<1>2. SUFFICES ASSUME Reads PROVE ReadInv'
  BY <1>1 DEF ReadInv
<1>3. \A v \in saves' : v.ask # asked
  BY <1>2 DEF ReadInv
<1>4. asked \notin muddled' => asked \notin muddled /\ Page' = Page
  BY <1>2
<1>5. QED
  BY <1>1, <1>2, <1>3, <1>4 DEF ReadInv

LEMMA SaveOKKept ==
    ASSUME UNCHANGED <<asked, seen, writers>>, muddled \subseteq muddled', NEW v, SaveOK(v)
    PROVE  SaveOK(v)'
<1>1. \A n : Talk(n)' = Talk(n)
  BY SameTalks
<1>2. Named' = Named
  BY DEF Named
<1>3. QED
  BY <1>1, <1>2 DEF SaveOK

LEMMA SavesKept ==
    ASSUME SaveInv, UNCHANGED <<asked, seen, writers>>, muddled \subseteq muddled', saves' \subseteq saves
    PROVE  SaveInv'
<1>1. \A v \in saves' : SaveOK(v)'
  BY SaveOKKept DEF SaveInv
<1>2. QED
  BY <1>1 DEF SaveInv

LEMMA WritersKept ==
    ASSUME WritersInv, UNCHANGED <<asked, seen, writers>>, muddled \subseteq muddled',
           Ids' \subseteq Ids, \A id \in Ids' : store'[id] = store[id]
    PROVE  WritersInv'
<1>1. Named' = Named /\ \A n : Talk(n)' = Talk(n)
  BY SameTalks DEF Named
<1>2. (\A id \in Ids : Last(writers[id]) \notin muddled => Asks(store[id]) = Talk(Last(writers[id])))'
  <2>1. ASSUME NEW id \in Ids', Last(writers'[id]) \notin muddled'
        PROVE  Asks(store'[id]) = Talk(Last(writers[id]))
    BY <2>1 DEF WritersInv
  <2>2. QED
    BY <1>1, <2>1
<1>3. QED
  BY <1>1, <1>2 DEF WritersInv

LEMMA HeldKept ==
    ASSUME HeldInv, UNCHANGED <<asked, seen>>, IsHeld(Page'),
           \A id \in Ids' : id \in Ids /\ store'[id] = store[id],
           \A v \in saves' : IsHeld(Asks(v.msgs)),
           \A g \in gets' : IsHeld(Asks(g.msgs))
    PROVE  HeldInv'
<1>1. \A s : IsHeld(s)' <=> IsHeld(s)
  BY HeldSame
<1>2. (\A id \in Ids : IsHeld(Asks(store[id])))'
  BY <1>1 DEF HeldInv
<1>3. QED
  BY <1>1, <1>2 DEF HeldInv

LEMMA GetsKept == ASSUME GetsInv, UNCHANGED writers, gets' \subseteq gets PROVE GetsInv'
  BY DEF GetsInv, Named

(* The steps that change no session, question or page. *)
LEMMA QuietKeeps ==
    ASSUME SessionInv,
           UNCHANGED <<sessionId, streaming, reading, saves, store, writers, asked, seen, muddled, astray, kept, dropped>>,
           Page' = Page, messages' \in Seq(Messages), user' \in User, mounted' \in BOOLEAN, status' \in Statuses,
           events' = events, second' \in Nat /\ second <= second',
           gets' \subseteq GetRecords,
           \A g \in gets' : IsHeld(Asks(g.msgs)) /\ (g.found \/ g.msgs # <<>> => g \in gets)
    PROVE  SessionInv'
<1>1. Reads' = Reads /\ Named' = Named /\ Ids' = Ids
  BY DEF Reads, Named, Ids
<1>2. TypesInv'
  <2>1. Named \subseteq 1..second' /\ second' \in Nat \ {0}
    BY DEF SessionInv, TypesInv
  <2>2. QED
    BY <1>1, <2>1 DEF SessionInv, TypesInv
<1>3. SeenInv' /\ HeldInv' /\ ReadInv' /\ SaveInv' /\ WritersInv'
  <2>1. IsHeld(Page) /\ \A v \in saves : IsHeld(Asks(v.msgs))
    BY DEF SessionInv, HeldInv
  <2>2. QED
    BY <1>1, <2>1, SeenSame, HeldKept, ReadKept, SavesKept, WritersKept DEF SessionInv
<1>4. AloneInv' /\ GetsInv'
  BY <1>1 DEF SessionInv, AloneInv, GetsInv, Clean
<1>5. \A id \in Named : Coming(id)' \subseteq Coming(id)
  BY <1>1 DEF Coming, Asking, Saving
<1>6. RootInv' /\ LineInv'
  BY <1>1, <1>5, SessionsKept
<1>7. QED
  BY <1>2, <1>3, <1>4, <1>6 DEF SessionInv

LEMMA LessToDo == ASSUME user \in User, NEW k, Click(k) PROVE user' \in User
<1>1. user.clicks \in Nat /\ user.clicks > 0 /\ user' = [user EXCEPT !.clicks = @ - 1]
  BY DEF User, Click
<1>2. user.clicks - 1 \in Nat
  BY <1>1
<1>3. QED
  BY <1>1, <1>2 DEF User

LEMMA LessFaults == ASSUME user \in User, user.faults > 0, user' = [user EXCEPT !.faults = @ - 1] PROVE user' \in User
<1>1. user.faults \in Nat /\ user.faults - 1 \in Nat
  BY DEF User
<1>2. QED
  BY <1>1 DEF User

LEMMA ChunkKeeps == ASSUME SessionInv, Chunk PROVE SessionInv'
<1>1. PICK k \in 1..3 : /\ messages' = HandleEvents(messages, EventsOf(CompleteLines(k)))
                        /\ status' = StatusAfterAll(status, EventsOf(CompleteLines(k)))
  BY DEF Chunk
<1>2. messages \in Seq(Messages) /\ events \in Seq(Events) /\ status \in Statuses /\ second \in Nat
      /\ user \in User /\ mounted \in BOOLEAN /\ gets \subseteq GetRecords
  BY DEF SessionInv, TypesInv
<1>3. EventsOf(CompleteLines(k)) \in Seq(Events)
  BY <1>2, AtType DEF EventsOf
<1>4. messages' \in Seq(Messages) /\ Page' = Page /\ status' \in Statuses
  BY <1>1, <1>2, <1>3, EventsKeep, StatusesKeep DEF Page
<1>5. UNCHANGED <<user, mounted, sessionId, streaming, reading, events, saves, gets, store, second,
                  asked, seen, muddled, astray, kept, dropped, writers>>
  BY DEF Chunk, callVars, serverVars, ghostVars
<1>6. \A g \in gets : IsHeld(Asks(g.msgs))
  BY DEF SessionInv, HeldInv
<1>7. second <= second
  BY <1>2
<1>8. QED
  BY <1>2, <1>4, <1>5, <1>6, <1>7, QuietKeeps

LEMMA SmallStepsKeep ==
    ASSUME SessionInv, Return \/ Compose \/ BrowserNext \/ Tick \/ (\E id \in Ids : DeleteSession(id))
    PROVE  SessionInv'
<1>1. second \in Nat /\ user \in User /\ mounted \in BOOLEAN /\ gets \subseteq GetRecords /\ messages \in Seq(Messages)
      /\ status \in Statuses
  BY DEF SessionInv, TypesInv
<1>2. \A g \in gets : IsHeld(Asks(g.msgs))
  BY DEF SessionInv, HeldInv
<1>3. UNCHANGED <<messages, sessionId, streaming, status, reading, events, saves, gets, store,
                  asked, seen, muddled, astray, kept, dropped, writers>>
  BY DEF Return, Compose, BrowserNext, Tick, DeleteSession, pageVars, callVars, serverVars, ghostVars
<1>4. second' \in Nat /\ second <= second' /\ mounted' \in BOOLEAN
  <2>1. (second' = second \/ second' = second + 1) /\ (mounted' = mounted \/ mounted' = TRUE)
    BY DEF Return, Compose, BrowserNext, Tick, DeleteSession, pageVars, serverVars
  <2>2. second + 1 \in Nat /\ second <= second /\ second <= second + 1
    BY <1>1
  <2>3. QED
    BY <1>1, <2>1, <2>2
<1>5. user' \in User
  BY <1>1, LessToDo DEF Return, Compose, BrowserNext, Tick, DeleteSession
<1>6. Page' = Page
  BY <1>3 DEF Page
<1>7. messages' \in Seq(Messages) /\ status' \in Statuses /\ gets' \subseteq GetRecords
  BY <1>1, <1>3
<1>8. QED
  BY <1>2, <1>3, <1>4, <1>5, <1>6, <1>7, QuietKeeps

LEMMA GetsKeep ==
    ASSUME SessionInv, (\E id \in Ids : OpenSession(id)) \/ (\E g \in gets : GetFails(g))
    PROVE  SessionInv'
<1>1. second \in Nat /\ user \in User /\ mounted \in BOOLEAN /\ gets \subseteq GetRecords /\ messages \in Seq(Messages)
      /\ status \in Statuses /\ Ids \subseteq Nat
  BY DEF SessionInv, TypesInv
<1>2. UNCHANGED <<mounted, messages, sessionId, streaming, status, reading, events, saves, store, second,
                  asked, seen, muddled, astray, kept, dropped, writers>>
  BY DEF OpenSession, GetFails, pageVars, serverVars, ghostVars
<1>3. user' \in User
  BY <1>1, LessToDo, LessFaults DEF OpenSession, GetFails
<1>4. Page' = Page
  BY <1>2 DEF Page
<1>5. \A g \in gets : IsHeld(Asks(g.msgs))
  BY DEF SessionInv, HeldInv
<1>6. gets' \subseteq GetRecords /\ \A g \in gets' : IsHeld(Asks(g.msgs)) /\ (g.found \/ g.msgs # <<>> => g \in gets)
  <2>1. CASE \E g \in gets : GetFails(g)
    BY <1>1, <1>5, <2>1 DEF GetFails
  <2>2. CASE \E id \in Ids : OpenSession(id)
    <3>1. PICK id \in Ids : gets' = gets \union {[id |-> id, served |-> FALSE, found |-> FALSE, msgs |-> <<>>]}
      BY <2>2 DEF OpenSession
    <3>2. PICK g : g = [id |-> id, served |-> FALSE, found |-> FALSE, msgs |-> <<>>]
      OBVIOUS
    <3>3. g \in GetRecords /\ ~g.found /\ g.msgs = <<>>
      BY <1>1, <3>2, EmptySeq DEF GetRecords
    <3>4. IsHeld(Asks(g.msgs))
      BY <3>3, AsksEmpty DEF IsHeld
    <3>5. QED
      BY <1>1, <1>5, <3>1, <3>2, <3>3, <3>4
  <2>3. QED
    BY <2>1, <2>2
<1>7. messages' \in Seq(Messages) /\ status' \in Statuses /\ mounted' \in BOOLEAN
      /\ second' \in Nat /\ second <= second'
  BY <1>1, <1>2
<1>8. QED
  BY <1>2, <1>3, <1>4, <1>6, <1>7, QuietKeeps

LEMMA ServeDeleteKeeps == ASSUME SessionInv, NEW d \in deletes, ServeDelete(d) PROVE SessionInv'
<1>1. UNCHANGED <<user, mounted, messages, sessionId, streaming, status, reading, events, saves, gets, second,
                  asked, seen, muddled, astray, kept, dropped, writers>>
      /\ store' = [i \in Ids \ {d} |-> store[i]]
  BY DEF ServeDelete, pageVars, ghostVars
<1>2. Ids' = Ids \ {d} /\ (\A id \in Ids' : store'[id] = store[id]) /\ Named' = Named /\ Reads' = Reads /\ Page' = Page
  BY <1>1 DEF Ids, Named, Reads, Page
<1>3. TypesInv'
  BY <1>1, <1>2 DEF SessionInv, TypesInv
<1>4. SeenInv' /\ HeldInv' /\ ReadInv' /\ SaveInv' /\ WritersInv' /\ GetsInv'
  <2>1. IsHeld(Page) /\ (\A v \in saves : IsHeld(Asks(v.msgs))) /\ (\A g \in gets : IsHeld(Asks(g.msgs)))
    BY DEF SessionInv, HeldInv
  <2>2. Ids' \subseteq Ids
    BY <1>2
  <2>3. QED
    BY <1>1, <1>2, <2>1, <2>2, SeenSame, HeldKept, ReadKept, SavesKept, WritersKept, GetsKept DEF SessionInv
<1>5. AloneInv'
  BY <1>1, <1>2 DEF SessionInv, AloneInv, Clean
<1>6. \A id \in Named : Coming(id)' \subseteq Coming(id)
  BY <1>1, <1>2 DEF Coming, Asking, Saving
<1>7. RootInv' /\ LineInv'
  BY <1>1, <1>2, <1>6, SessionsKept
<1>8. QED
  BY <1>3, <1>4, <1>5, <1>7 DEF SessionInv

(* A save that is done with, or failed, is nowhere any more. *)
LEMMA FewerSavesKeep ==
    ASSUME SessionInv,
           UNCHANGED <<mounted, messages, sessionId, streaming, status, reading, events, gets, store, second,
                       asked, seen, muddled, astray, kept, writers>>,
           user' \in User, saves' \subseteq saves, dropped' \subseteq 1..asked
    PROVE  SessionInv'
<1>1. Ids' = Ids /\ Named' = Named /\ Reads' = Reads /\ Page' = Page
  BY DEF Ids, Named, Reads, Page
<1>2. TypesInv'
  BY <1>1 DEF SessionInv, TypesInv
<1>3. SeenInv' /\ HeldInv' /\ ReadInv' /\ SaveInv' /\ WritersInv' /\ GetsInv'
  <2>1. IsHeld(Page) /\ (\A v \in saves : IsHeld(Asks(v.msgs))) /\ (\A g \in gets : IsHeld(Asks(g.msgs)))
    BY DEF SessionInv, HeldInv
  <2>2. QED
    BY <1>1, <2>1, SeenSame, HeldKept, ReadKept, SavesKept, WritersKept, GetsKept DEF SessionInv
<1>4. AloneInv'
  BY <1>1 DEF SessionInv, AloneInv, Clean
<1>5. \A id \in Named : Coming(id)' \subseteq Coming(id)
  BY <1>1 DEF Coming, Asking, Saving
<1>6. RootInv' /\ LineInv'
  BY <1>1, <1>5, SessionsKept
<1>7. QED
  BY <1>2, <1>3, <1>4, <1>6 DEF SessionInv

LEMMA SaveFailsKeeps == ASSUME SessionInv, NEW v \in saves, SaveFails(v) PROVE SessionInv'
<1>1. user' \in User
  BY LessFaults DEF SaveFails, SessionInv, TypesInv
<1>2. ToSet(Asks(v.msgs)) \subseteq 1..asked
  BY HeldIs DEF SessionInv, HeldInv
<1>3. dropped' \subseteq 1..asked
  BY <1>2 DEF SaveFails, SessionInv, TypesInv
<1>4. UNCHANGED <<mounted, messages, sessionId, streaming, status, reading, events, gets, store, second,
                  asked, seen, muddled, astray, kept, writers>> /\ saves' \subseteq saves
  BY DEF SaveFails, pageVars, serverVars
<1>5. QED
  BY <1>1, <1>3, <1>4, FewerSavesKeep

LEMMA SaveAnswerLostKeeps == ASSUME SessionInv, NEW v \in saves, SaveAnswerLost(v) PROVE SessionInv'
<1>1. user' \in User
  BY LessFaults DEF SaveAnswerLost, SessionInv, TypesInv
<1>2. UNCHANGED <<mounted, messages, sessionId, streaming, status, reading, events, gets, store, second,
                  asked, seen, muddled, astray, kept, writers>> /\ saves' \subseteq saves
      /\ dropped' \subseteq 1..asked
  BY DEF SaveAnswerLost, pageVars, serverVars, ghostVars, SessionInv, TypesInv
<1>3. QED
  BY <1>1, <1>2, FewerSavesKeep

(* The page is emptied, or what it shows replaced: an answer that is read  *)
(* is muddled.                                                             *)
LEMMA NewChatKeeps == ASSUME SessionInv, NewChat PROVE SessionInv'
<1>1. UNCHANGED <<mounted, streaming, status, reading, events, saves, gets, store, second,
                  asked, seen, kept, dropped, writers>>
      /\ messages' = <<>> /\ sessionId' = NoId /\ muddled' = Replaced
  BY DEF NewChat, callVars, serverVars
<1>2. Ids' = Ids /\ Named' = Named /\ Reads' = Reads /\ Page' = <<>>
  BY <1>1, AsksEmpty DEF Ids, Named, Reads, Page
<1>3. muddled \subseteq muddled' /\ muddled' \subseteq 1..asked /\ (Reads => asked \in muddled')
  BY <1>1 DEF Replaced, SessionInv, ReadInv, TypesInv
<1>4. TypesInv'
  <2>1. user' \in User
    BY LessToDo DEF NewChat, SessionInv, TypesInv
  <2>2. QED
    BY <1>1, <1>2, <1>3, <2>1, EmptySeq DEF SessionInv, TypesInv
<1>5. SeenInv' /\ HeldInv' /\ ReadInv' /\ SaveInv' /\ WritersInv' /\ GetsInv'
  <2>1. IsHeld(<<>>) /\ (\A v \in saves : IsHeld(Asks(v.msgs))) /\ (\A g \in gets : IsHeld(Asks(g.msgs)))
    BY DEF SessionInv, HeldInv, IsHeld
  <2>2. QED
    BY <1>1, <1>2, <1>3, <2>1, SeenSame, HeldKept, ReadKept, SavesKept, WritersKept, GetsKept DEF SessionInv
<1>6. AloneInv'
  BY <1>2 DEF AloneInv
<1>7. \A id \in Named : Coming(id)' \subseteq Coming(id)
  BY <1>1, <1>2, <1>3 DEF Coming, Asking, Saving
<1>8. RootInv' /\ LineInv'
  BY <1>1, <1>2, <1>3, <1>7, SessionsKept
<1>9. QED
  BY <1>4, <1>5, <1>6, <1>8 DEF SessionInv

LEMMA LeaveKeeps == ASSUME SessionInv, Leave PROVE SessionInv'
<1>1. UNCHANGED <<store, second, asked, seen, muddled, kept, writers>>
      /\ mounted' = FALSE /\ streaming' = FALSE /\ status' = ""
      /\ messages' = <<>> /\ sessionId' = NoId /\ reading' = NoReading /\ events' = <<>> /\ gets' = {}
      /\ saves' = {[v EXCEPT !.live = FALSE] : v \in saves}
      /\ dropped' = IF Reads THEN dropped \union {reading.ask} ELSE dropped
  BY DEF Leave, serverVars
<1>2. Ids' = Ids /\ Named' = Named /\ Reads' = FALSE /\ Page' = <<>>
  BY <1>1, AsksEmpty DEF Ids, Named, Reads, Page
<1>3. PICK F : F = [v \in saves |-> [v EXCEPT !.live = FALSE]]
  OBVIOUS
<1>4. /\ saves' = {F[v] : v \in saves}
      /\ \A v \in saves : /\ F[v] \in SaveRecords /\ F[v].ask = v.ask /\ F[v].sid = v.sid
                           /\ F[v].msgs = v.msgs /\ F[v].served = v.served /\ F[v].id = v.id
  <2>1. saves' = {F[v] : v \in saves}
    BY <1>1, <1>3
  <2>2. ASSUME NEW v \in saves
        PROVE  /\ F[v] \in SaveRecords /\ F[v].ask = v.ask /\ F[v].sid = v.sid
               /\ F[v].msgs = v.msgs /\ F[v].served = v.served /\ F[v].id = v.id
    <3>1. v \in SaveRecords /\ F[v] = [v EXCEPT !.live = FALSE]
      BY <1>3 DEF SessionInv, TypesInv
    <3>2. QED
      BY <3>1 DEF SaveRecords
  <2>3. QED
    BY <2>1, <2>2
<1>5. TypesInv'
  <2>1. user' \in User
    BY LessToDo DEF Leave, SessionInv, TypesInv
  <2>2. dropped' \subseteq 1..asked
    <3>1. Reads => reading.ask \in 1..asked
      BY DEF SessionInv, ReadInv
    <3>2. dropped \subseteq 1..asked
      BY DEF SessionInv, TypesInv
    <3>3. QED
      BY <1>1, <3>1, <3>2
  <2>3. saves' \subseteq SaveRecords
    BY <1>4
  <2>4. QED
    BY <1>1, <1>2, <2>1, <2>2, <2>3, EmptySeq DEF SessionInv, TypesInv, Statuses
<1>6. SeenInv' /\ HeldInv' /\ ReadInv' /\ WritersInv' /\ GetsInv'
  <2>1. IsHeld(<<>>) /\ (\A v \in saves' : IsHeld(Asks(v.msgs))) /\ (\A g \in gets' : IsHeld(Asks(g.msgs)))
    <3>1. \A v \in saves' : IsHeld(Asks(v.msgs))
      BY <1>4 DEF SessionInv, HeldInv
    <3>2. IsHeld(<<>>)
      BY DEF IsHeld
    <3>3. QED
      BY <1>1, <3>1, <3>2
  <2>2. ReadInv'
    BY <1>2 DEF ReadInv
  <2>3. QED
    BY <1>1, <1>2, <2>1, <2>2, SeenSame, HeldKept, WritersKept, GetsKept DEF SessionInv
<1>7. SaveInv'
  <2>1. ASSUME NEW v \in saves, NEW w, w.ask = v.ask, w.sid = v.sid, w.msgs = v.msgs, w.served = v.served, w.id = v.id
        PROVE  SaveOK(w)
    BY <2>1 DEF SessionInv, SaveInv, SaveOK
  <2>2. \A w \in saves' : SaveOK(w)'
    <3>1. ASSUME NEW v \in saves PROVE SaveOK(F[v])
      BY <1>4, <2>1
    <3>2. QED
      BY <1>1, <1>4, <3>1, SaveOKKept
  <2>3. (\A v, w \in saves : v.ask = w.ask => v = w)'
    BY <1>4 DEF SessionInv, SaveInv
  <2>4. QED
    BY <2>2, <2>3 DEF SaveInv
<1>8. AloneInv'
  BY <1>2 DEF AloneInv
<1>9. \A id \in Named : Coming(id)' \subseteq Coming(id)
  <2>1. ASSUME NEW id \in Named, NEW w \in saves', ~w.served, w.sid = id, w.ask \notin muddled
        PROVE  w.ask \in Saving(id)
    BY <1>4, <2>1 DEF Saving
  <2>2. \A id \in Named : Asking(id)' = {}
    BY <1>2 DEF Asking
  <2>3. \A id \in Named : Saving(id)' \subseteq Saving(id)
    BY <1>1, <2>1, ZenonT(30) DEF Saving
  <2>4. QED
    BY <2>2, <2>3 DEF Coming
<1>10. RootInv' /\ LineInv'
  BY <1>1, <1>2, <1>9, SessionsKept
<1>11. QED
  BY <1>5, <1>6, <1>7, <1>8, <1>10 DEF SessionInv

LEMMA NamedAre == ASSUME SessionInv PROVE Named \subseteq Nat /\ NoId \notin Named /\ second \in Nat \ {0} /\ NoId = 0
  BY DEF SessionInv, TypesInv, NoId

LEMMA WriterIs ==
    ASSUME SessionInv, NEW id \in Named
    PROVE  /\ Last(writers[id]) \in ToSet(writers[id]) /\ writers[id][1] \in ToSet(writers[id])
           /\ ToSet(writers[id]) \subseteq 1..asked /\ writers[id] \in Seq(Nat)
<1>1. writers[id] \in Seq(1..asked) /\ writers[id] # <<>>
  BY DEF SessionInv, WritersInv
<1>2. writers[id] \in Seq(Nat)
  <2>1. 1..asked \subseteq Nat
    BY DEF SessionInv, SeenInv
  <2>2. QED
    BY <1>1, <2>1, SeqMonotonic
<1>3. PICK S, s : S = 1..asked /\ s = writers[id]
  OBVIOUS
<1>4. s \in Seq(S) /\ s # <<>>
  BY <1>1, <1>3
<1>5. Len(s) \in 1..Len(s) /\ 1 \in 1..Len(s) /\ DOMAIN s = 1..Len(s)
  BY <1>4, EmptySeq, LenProperties
<1>6. \A i \in 1..Len(s) : s[i] \in S
  BY <1>4, ElementOfSeq
<1>7. Last(s) \in ToSet(s) /\ s[1] \in ToSet(s) /\ ToSet(s) \subseteq S
  BY <1>5, <1>6 DEF Last, ToSet
<1>8. QED
  BY <1>2, <1>3, <1>7

(* The answer ends: what was read becomes a save. *)
LEMMA EndSendKeeps ==
    ASSUME SessionInv, Reads, NEW msgs \in Seq(Messages), Asks(msgs) = Page, EndSend(msgs), user' \in User,
           UNCHANGED <<mounted, sessionId, events, gets, store, second, asked, seen, muddled, astray, kept, dropped, writers>>
    PROVE  SessionInv'
<1>1. messages' = msgs /\ streaming' = FALSE /\ status' = "" /\ reading' = NoReading
  BY DEF EndSend
<1>2. PICK u : u = [ask |-> reading.ask, sid |-> reading.sid, msgs |-> msgs,
                    id |-> NoId, served |-> FALSE, live |-> TRUE]
  OBVIOUS
<1>3. saves' = saves \/ saves' = saves \union {u}
  BY <1>2 DEF EndSend, AutoSave
<1>4. Ids' = Ids /\ Named' = Named /\ Reads' = FALSE /\ Page' = Page
  BY <1>1 DEF Ids, Named, Reads, Page
<1>5. /\ reading.ask = asked /\ asked \in Nat \ {0} /\ reading.sid \in Named \union {NoId} /\ reading.sid \in Nat
      /\ asked \notin muddled => Page = Talk(asked) /\ (reading.sid = NoId => seen[asked] = <<>>)
      /\ \A v \in saves : v.ask # asked
      /\ \A id \in Named : asked \notin ToSet(writers[id])
  <2>1. reading.sid \in Named \union {NoId} => reading.sid \in Nat
    BY NamedAre
  <2>2. QED
    BY <2>1 DEF SessionInv, ReadInv
<1>6. u \in SaveRecords /\ u.ask = asked /\ u.sid = reading.sid /\ u.msgs = msgs /\ ~u.served
  BY <1>2, <1>5 DEF SaveRecords, NoId
<1>7. TypesInv'
  <2>1. saves' \subseteq SaveRecords
    BY <1>3, <1>6 DEF SessionInv, TypesInv
  <2>2. QED
    BY <1>1, <1>4, <2>1 DEF SessionInv, TypesInv, Statuses
<1>8. SeenInv' /\ HeldInv' /\ ReadInv' /\ WritersInv' /\ GetsInv'
  <2>1. IsHeld(Page) /\ (\A v \in saves' : IsHeld(Asks(v.msgs))) /\ (\A g \in gets : IsHeld(Asks(g.msgs)))
    BY <1>3, <1>6 DEF SessionInv, HeldInv
  <2>2. ReadInv'
    BY <1>4 DEF ReadInv
  <2>3. QED
    BY <1>4, <2>1, <2>2, SeenSame, HeldKept, WritersKept, GetsKept DEF SessionInv
<1>9. SaveInv'
  <2>1. SaveOK(u)
    BY <1>5, <1>6 DEF SaveOK
  <2>2. \A v \in saves' : SaveOK(v)
    BY <1>3, <2>1 DEF SessionInv, SaveInv
  <2>3. \A v \in saves' : SaveOK(v)'
    BY <2>2, SaveOKKept
  <2>4. \A v, w \in saves' : v.ask = w.ask => v = w
    BY <1>3, <1>5, <1>6 DEF SessionInv, SaveInv
  <2>5. QED
    BY <2>3, <2>4 DEF SaveInv
<1>10. AloneInv'
  BY <1>4 DEF SessionInv, AloneInv, Clean
<1>11. \A id \in Named : Coming(id)' \subseteq Coming(id)
  <2>1. ASSUME NEW id \in Named, NEW w \in saves', ~w.served, w.sid = id, w.ask \notin muddled
        PROVE  w.ask \in Coming(id)
    <3>1. CASE w \in saves
      BY <2>1, <3>1 DEF Coming, Saving
    <3>2. CASE w = u
      BY <1>5, <1>6, <2>1, <3>2 DEF Coming, Asking
    <3>3. QED
      BY <1>3, <3>1, <3>2
  <2>2. \A id \in Named : Asking(id)' = {}
    BY <1>4 DEF Asking
  <2>3. \A id \in Named : Saving(id)' \subseteq Coming(id)
    BY <2>1 DEF Saving
  <2>4. QED
    BY <2>2, <2>3 DEF Coming
<1>12. RootInv' /\ LineInv'
  BY <1>4, <1>11, SessionsKept
<1>13. QED
  BY <1>7, <1>8, <1>9, <1>10, <1>12 DEF SessionInv

LEMMA FinishKeeps == ASSUME SessionInv, Finish \/ Break PROVE SessionInv'
<1>1. Reads /\ messages \in Seq(Messages) /\ user \in User
      /\ UNCHANGED <<mounted, sessionId, events, gets, store, second, asked, seen, muddled, astray, kept, dropped, writers>>
  BY DEF SessionInv, TypesInv, Finish, Break, serverVars, ghostVars
<1>2. reading.ask \in Nat
  BY <1>1 DEF SessionInv, ReadInv
<1>3. CASE Finish
  BY <1>1, <1>3, EndSendKeeps DEF Finish, Page
<1>4. CASE Break
  <2>1. user' \in User
    BY <1>1, <1>4, LessFaults DEF Break
  <2>2. BreakOff(messages, reading.ask) \in Seq(Messages) /\ Asks(BreakOff(messages, reading.ask)) = Page
    BY <1>1, <1>2, BreakKeeps DEF Page
  <2>3. EndSend(BreakOff(messages, reading.ask))
    BY <1>4 DEF Break
  <2>4. QED
    BY <1>1, <2>1, <2>2, <2>3, EndSendKeeps
<1>5. QED
  BY <1>3, <1>4

LEMMA ServeGetKeeps == ASSUME SessionInv, NEW g \in gets, ServeGet(g) PROVE SessionInv'
<1>1. PICK h : h = [g EXCEPT !.served = TRUE, !.found = g.id \in Ids,
                             !.msgs = IF g.id \in Ids THEN store[g.id] ELSE <<>>]
  OBVIOUS
<1>2. gets' = (gets \ {g}) \union {h}
      /\ UNCHANGED <<user, mounted, messages, sessionId, streaming, status, reading, events, saves, store, second,
                     asked, seen, muddled, astray, kept, dropped, writers>>
  BY <1>1 DEF ServeGet, pageVars, serverVars, ghostVars
<1>3. g \in GetRecords
  BY DEF SessionInv, TypesInv
<1>4. h \in GetRecords /\ h.id = g.id /\ h.found = (g.id \in Ids) /\ h.msgs = (IF g.id \in Ids THEN store[g.id] ELSE <<>>)
  <2>1. (IF g.id \in Ids THEN store[g.id] ELSE <<>>) \in Seq(Messages)
    BY EmptySeq DEF SessionInv, TypesInv
  <2>2. (g.id \in Ids) \in BOOLEAN
    OBVIOUS
  <2>3. PICK b, ms : b = (g.id \in Ids) /\ ms = (IF g.id \in Ids THEN store[g.id] ELSE <<>>)
    OBVIOUS
  <2>4. h = [g EXCEPT !.served = TRUE, !.found = b, !.msgs = ms] /\ b \in BOOLEAN /\ ms \in Seq(Messages)
    BY <1>1, <2>1, <2>2, <2>3
  <2>5. h \in GetRecords /\ h.id = g.id /\ h.found = b /\ h.msgs = ms
    BY <1>3, <2>4 DEF GetRecords
  <2>6. QED
    BY <2>3, <2>5
<1>5. Ids' = Ids /\ Named' = Named /\ Reads' = Reads /\ Page' = Page
  BY <1>2 DEF Ids, Named, Reads, Page
<1>6. TypesInv'
  <2>1. gets' \subseteq GetRecords
    BY <1>2, <1>4 DEF SessionInv, TypesInv
  <2>2. QED
    BY <1>2, <1>5, <2>1 DEF SessionInv, TypesInv
<1>7. SeenInv' /\ HeldInv' /\ ReadInv' /\ SaveInv' /\ WritersInv'
  <2>1. IsHeld(Asks(h.msgs))
    BY <1>4, AsksEmpty DEF SessionInv, HeldInv, IsHeld
  <2>2. IsHeld(Page) /\ (\A v \in saves : IsHeld(Asks(v.msgs))) /\ (\A f \in gets' : IsHeld(Asks(f.msgs)))
    BY <1>2, <2>1 DEF SessionInv, HeldInv
  <2>3. QED
    BY <1>2, <1>5, <2>2, SeenSame, HeldKept, ReadKept, SavesKept, WritersKept DEF SessionInv
<1>8. AloneInv' /\ GetsInv'
  <2>1. IF h.found THEN h.id \in Named ELSE h.msgs = <<>>
    BY <1>4 DEF SessionInv, TypesInv
  <2>2. QED
    BY <1>2, <1>5, <2>1 DEF SessionInv, AloneInv, GetsInv, Clean
<1>9. \A n : Talk(n)' = Talk(n) /\ Root(n)' = Root(n)
  BY <1>2, SameTalks
<1>10. ASSUME NEW id \in Named, Unmuddled(id)
       PROVE  RootOK(id)' /\ LineOK(id)'
  <2>1. RootOK(id) /\ LineOK(id)
    BY <1>10 DEF SessionInv, RootInv, LineInv
  <2>2. Coming(id)' = Coming(id) /\ Line(id)' = Line(id)
    BY <1>2, <1>5 DEF Coming, Asking, Saving, Line, Stored
  <2>3. h.found /\ h.id = id => Asks(h.msgs) # <<>> /\ Asks(h.msgs)[1] = writers[id][1]
    <3>1. SUFFICES ASSUME h.found, h.id = id PROVE Asks(store[id]) # <<>> /\ Asks(store[id])[1] = writers[id][1]
      BY <1>4
    <3>2. id \in Ids /\ writers[id] \in Seq(1..asked) /\ writers[id] # <<>>
      BY <1>4, <3>1 DEF SessionInv, WritersInv
    <3>3. Last(writers[id]) \in ToSet(writers[id]) /\ Last(writers[id]) \in 1..asked
      BY WriterIs
    <3>4. Last(writers[id]) \notin muddled
      BY <1>10, <3>3 DEF Unmuddled
    <3>5. Asks(store[id]) = Talk(Last(writers[id])) /\ Root(Last(writers[id])) = writers[id][1]
      BY <2>1, <3>2, <3>3, <3>4 DEF SessionInv, WritersInv, RootOK
    <3>6. QED
      BY <3>3, <3>5, TalkIs DEF SessionInv, Root
  <2>4. (\A m \in ToSet(writers[id]) \union Coming(id) : Root(m) = writers[id][1])'
    BY <1>2, <1>9, <2>1, <2>2 DEF RootOK
  <2>5. (sessionId = id /\ ~astray => Page # <<>> /\ Page[1] = writers[id][1])'
    BY <1>2, <1>5, <2>1 DEF RootOK
  <2>6. (\A f \in gets : f.found /\ f.id = id => Asks(f.msgs) # <<>> /\ Asks(f.msgs)[1] = writers[id][1])'
    BY <1>2, <2>1, <2>3 DEF RootOK
  <2>7. LineOK(id)'
    BY <1>2, <1>5, <1>9, <2>1, <2>2 DEF LineOK, Clean, IsPrefix
  <2>8. QED
    BY <2>4, <2>5, <2>6, <2>7 DEF RootOK
<1>11. RootInv' /\ LineInv'
  BY <1>2, <1>5, <1>10 DEF RootInv, LineInv, Unmuddled
<1>12. QED
  BY <1>6, <1>7, <1>8, <1>11 DEF SessionInv

(* A page is given the name of what it stored first. *)
LEMMA SaveAnsweredKeeps == ASSUME SessionInv, NEW v \in saves, SaveAnswered(v) PROVE SessionInv'
<1>1. v.served /\ saves' = saves \ {v}
      /\ UNCHANGED <<user, mounted, messages, streaming, status, reading, events, gets, store, second,
                     asked, seen, muddled, kept, dropped, writers>>
  BY DEF SaveAnswered, serverVars
<1>2. CASE UNCHANGED <<sessionId, astray>>
  <2>1. user' \in User /\ dropped' \subseteq 1..asked /\ saves' \subseteq saves
    BY <1>1 DEF SessionInv, TypesInv
  <2>2. QED
    BY <1>1, <1>2, <2>1, FewerSavesKeep
<1>3. CASE v.live /\ v.sid = NoId /\ ~UNCHANGED <<sessionId, astray>>
  <2>1. sessionId' = v.id /\ astray' = (astray \/ Misnames(v))
    BY <1>3 DEF SaveAnswered
  <2>2. Ids' = Ids /\ Named' = Named /\ Reads' = Reads /\ Page' = Page /\ \A n : Talk(n)' = Talk(n) /\ Root(n)' = Root(n)
    BY <1>1, SameTalks DEF Ids, Named, Reads, Page
  <2>3. /\ v.id \in Named /\ v.ask \in ToSet(writers[v.id]) /\ v.ask \in 1..asked
        /\ v.ask \notin muddled => Asks(v.msgs) = Talk(v.ask) /\ seen[v.ask] = <<>> /\ writers[v.id][1] = v.ask
    BY <1>1, <1>3 DEF SessionInv, SaveInv, SaveOK
  <2>4. v.id # NoId
    BY <2>3, NamedAre
  <2>5. TypesInv'
    BY <1>1, <2>1, <2>2, <2>3 DEF SessionInv, TypesInv
  <2>6. SeenInv' /\ HeldInv' /\ ReadInv' /\ SaveInv' /\ WritersInv' /\ GetsInv'
    <3>1. IsHeld(Page) /\ (\A w \in saves' : IsHeld(Asks(w.msgs))) /\ (\A g \in gets : IsHeld(Asks(g.msgs)))
      BY <1>1 DEF SessionInv, HeldInv
    <3>2. saves' \subseteq saves
      BY <1>1
    <3>3. QED
      BY <1>1, <2>2, <3>1, <3>2, SeenSame, HeldKept, ReadKept, SavesKept, WritersKept, GetsKept DEF SessionInv
  <2>7. AloneInv'
    BY <2>1, <2>4 DEF AloneInv
  <2>8. \A id \in Named : Coming(id)' \subseteq Coming(id) /\ Line(id)' \subseteq Line(id)
    BY <1>1, <2>2 DEF Coming, Asking, Saving, Line, Stored
  <2>9. ASSUME NEW id \in Named, Unmuddled(id)
        PROVE  RootOK(id)' /\ LineOK(id)'
    <3>1. RootOK(id) /\ LineOK(id)
      BY <2>9 DEF SessionInv, RootInv, LineInv
    <3>2. (\A m \in ToSet(writers[id]) \union Coming(id) : Root(m) = writers[id][1])'
      BY <1>1, <2>2, <2>8, <3>1 DEF RootOK
    <3>3. (\A g \in gets : g.found /\ g.id = id => Asks(g.msgs) # <<>> /\ Asks(g.msgs)[1] = writers[id][1])'
      BY <1>1, <3>1 DEF RootOK
    <3>4. (\A m, n \in Line(id) : m < n /\ Clean(Talk(n)) => IsPrefix(Talk(m), Talk(n)))'
      BY <1>1, <2>2, <2>8, <3>1 DEF LineOK, Clean, IsPrefix
    <3>5. ASSUME sessionId' = id, ~astray'
          PROVE  /\ Page # <<>> /\ Page[1] = writers[id][1]
                 /\ Clean(Page) => \A m \in Line(id) : IsPrefix(Talk(m), Page)
      <4>1. ~astray /\ id = v.id /\ sessionId \in {NoId, id} /\ IsPrefix(Asks(v.msgs), Page)
        BY <2>1, <3>5 DEF Misnames, Page
      <4>2. CASE sessionId = id
        BY <3>1, <4>1, <4>2 DEF RootOK, LineOK
      <4>3. CASE sessionId = NoId
        <5>1. v.ask \notin muddled
          BY <2>3, <2>9, <4>1 DEF Unmuddled
        <5>2. Asks(v.msgs) = Talk(v.ask) /\ Talk(v.ask) = <<v.ask>> /\ writers[id][1] = v.ask
          BY <2>3, <4>1, <5>1, TalkIs DEF SessionInv
        <5>3. Page \in Seq(Nat) /\ <<v.ask>> \in Seq(Nat) /\ <<v.ask>> # <<>> /\ <<v.ask>>[1] = v.ask
          BY <2>3, HeldIs DEF SessionInv, HeldInv
        <5>4. Page # <<>> /\ Page[1] = v.ask
          <6>1. PICK r : r = <<v.ask>>
            OBVIOUS
          <6>2. r \in Seq(Nat) /\ r # <<>> /\ r[1] = v.ask /\ IsPrefix(r, Page)
            BY <4>1, <5>2, <5>3, <6>1
          <6>3. QED
            BY <5>3, <6>2, PrefixFirst
        <5>5. ASSUME Clean(Page), NEW m \in Line(id) PROVE IsPrefix(Talk(m), Page)
          <6>1. Page = <<asked>> /\ v.ask = asked
            BY <4>3, <5>4, <5>5 DEF SessionInv, AloneInv
          <6>2. m \in 1..asked /\ Root(m) = v.ask
            <7>1. Last(writers[id]) \in ToSet(writers[id]) /\ ToSet(writers[id]) \subseteq 1..asked
              BY WriterIs
            <7>2. Coming(id) \subseteq 1..asked
              BY DEF SessionInv, ReadInv, SaveInv, SaveOK, Coming, Asking, Saving
            <7>3. m \in Coming(id) \union ToSet(writers[id])
              BY <5>5, <7>1 DEF Line, Stored
            <7>4. QED
              BY <3>1, <5>2, <7>1, <7>2, <7>3 DEF RootOK
          <6>3. m = v.ask
            <7>1. Root(m) \in 1..m /\ m <= asked /\ m \in Nat /\ asked \in Nat
              <8>1. SeenInv /\ asked \in Nat
                BY DEF SessionInv, SeenInv
              <8>2. Root(m) \in 1..m
                BY <6>2, <8>1, TalkIs
              <8>3. QED
                BY <6>2, <8>1, <8>2
            <7>2. QED
              BY <6>1, <6>2, <7>1
          <6>4. QED
            BY <4>1, <5>2, <6>3
        <5>6. QED
          BY <5>2, <5>4, <5>5
      <4>4. QED
        BY <4>1, <4>2, <4>3
    <3>6. (sessionId = id /\ ~astray => Page # <<>> /\ Page[1] = writers[id][1])'
      BY <1>1, <2>2, <3>5
    <3>7. (sessionId = id /\ ~astray /\ Clean(Page) => \A m \in Line(id) : IsPrefix(Talk(m), Page))'
      BY <1>1, <2>2, <2>8, <3>5 DEF Clean, IsPrefix
    <3>8. QED
      BY <3>2, <3>3, <3>4, <3>6, <3>7 DEF RootOK, LineOK
  <2>10. RootInv' /\ LineInv'
    BY <1>1, <2>2, <2>9 DEF RootInv, LineInv, Unmuddled
  <2>11. QED
    BY <2>5, <2>6, <2>7, <2>10 DEF SessionInv
<1>4. QED
  BY <1>2, <1>3 DEF SaveAnswered

(* What a session held is shown. *)
LEMMA GetAnsweredKeeps == ASSUME SessionInv, NEW g \in gets, GetAnswered(g) PROVE SessionInv'
<1>1. /\ gets' = gets \ {g} /\ messages' = g.msgs /\ muddled' = Replaced
      /\ sessionId' = IF g.found THEN g.id ELSE NoId
      /\ ~astray' => \/ ~g.found
                     \/ /\ g.id \in Ids => Asks(store[g.id]) = Asks(g.msgs)
                        /\ \A v \in saves : ~v.served => v.sid # g.id
      /\ UNCHANGED <<user, mounted, streaming, status, reading, events, saves, store, second,
                     asked, seen, kept, dropped, writers>>
  BY DEF GetAnswered, serverVars
<1>2. Ids' = Ids /\ Named' = Named /\ Reads' = Reads /\ Page' = Asks(g.msgs) /\ \A n : Talk(n)' = Talk(n) /\ Root(n)' = Root(n)
  BY <1>1, SameTalks DEF Ids, Named, Reads, Page
<1>3. muddled \subseteq muddled' /\ muddled' \subseteq 1..asked /\ (Reads => asked \in muddled')
  BY <1>1 DEF Replaced, SessionInv, ReadInv, TypesInv
<1>4. g.msgs \in Seq(Messages) /\ (g.found => g.id \in Named) /\ (~g.found => g.msgs = <<>>) /\ NoId \notin Named
  <2>1. g \in GetRecords
    BY DEF SessionInv, TypesInv
  <2>2. g.msgs \in Seq(Messages)
    BY <2>1 DEF GetRecords
  <2>3. QED
    BY <2>2, NamedAre DEF SessionInv, GetsInv
<1>5. TypesInv'
  <2>1. sessionId' \in Named \union {NoId}
    BY <1>1, <1>4
  <2>2. gets' \subseteq GetRecords
    BY <1>1 DEF SessionInv, TypesInv
  <2>3. QED
    BY <1>1, <1>2, <1>3, <1>4, <2>1, <2>2 DEF SessionInv, TypesInv
<1>6. SeenInv' /\ HeldInv' /\ ReadInv' /\ SaveInv' /\ WritersInv' /\ GetsInv'
  <2>1. IsHeld(Page') /\ (\A v \in saves : IsHeld(Asks(v.msgs))) /\ (\A f \in gets' : IsHeld(Asks(f.msgs))) /\ gets' \subseteq gets
    BY <1>1, <1>2 DEF SessionInv, HeldInv
  <2>2. QED
    BY <1>1, <1>2, <1>3, <2>1, SeenSame, HeldKept, ReadKept, SavesKept, WritersKept, GetsKept DEF SessionInv
<1>7. AloneInv'
  BY <1>1, <1>2, <1>4, AsksEmpty DEF AloneInv
<1>8. ASSUME NEW id \in Named, Unmuddled(id)'
      PROVE  RootOK(id)' /\ LineOK(id)'
  <2>1. Unmuddled(id)
    BY <1>1, <1>3, <1>8 DEF Unmuddled
  <2>2. RootOK(id) /\ LineOK(id)
    BY <2>1 DEF SessionInv, RootInv, LineInv
  <2>3. Coming(id)' \subseteq Coming(id) /\ Line(id)' \subseteq Line(id) /\ Asking(id)' = {} /\ Stored(id)' = Stored(id)
    BY <1>1, <1>2, <1>3 DEF Coming, Asking, Saving, Line, Stored
  <2>4. (\A m \in ToSet(writers[id]) \union Coming(id) : Root(m) = writers[id][1])'
    BY <1>1, <1>2, <2>2, <2>3 DEF RootOK
  <2>5. (\A f \in gets : f.found /\ f.id = id => Asks(f.msgs) # <<>> /\ Asks(f.msgs)[1] = writers[id][1])'
    BY <1>1, <2>2 DEF RootOK
  <2>6. (\A m, n \in Line(id) : m < n /\ Clean(Talk(n)) => IsPrefix(Talk(m), Talk(n)))'
    <3>1. \A n : Clean(Talk(n))' => Clean(Talk(n))
      BY <1>2, <1>3 DEF Clean
    <3>2. QED
      BY <1>2, <2>2, <2>3, <3>1 DEF LineOK, IsPrefix
  <2>7. ASSUME sessionId' = id, ~astray'
        PROVE  /\ Asks(g.msgs) # <<>> /\ Asks(g.msgs)[1] = writers[id][1]
               /\ \A m \in Line(id)' : IsPrefix(Talk(m), Asks(g.msgs))
    <3>1. g.found /\ g.id = id /\ (id \in Ids => Asks(store[id]) = Asks(g.msgs)) /\ \A v \in saves : ~v.served => v.sid # id
      BY <1>1, <1>4, <2>7
    <3>2. Saving(id)' = {}
      BY <1>1, <3>1 DEF Saving
    <3>3. ASSUME NEW m \in Line(id)' PROVE IsPrefix(Talk(m), Asks(g.msgs))
      <4>1. m = Last(writers[id]) /\ id \in Ids
        BY <2>3, <3>2, <3>3 DEF Line, Coming, Stored
      <4>2. m \in 1..asked /\ m \notin muddled
        BY <2>1, <4>1, WriterIs DEF Unmuddled
      <4>3. Asks(g.msgs) = Talk(m)
        BY <3>1, <4>1, <4>2 DEF SessionInv, WritersInv
      <4>4. Talk(m) \in Seq(Nat)
        BY <4>2, TalkIs DEF SessionInv
      <4>5. QED
        BY <4>3, <4>4, PrefixSelf
    <3>4. QED
      BY <2>2, <3>1, <3>3 DEF RootOK
  <2>8. (sessionId = id /\ ~astray => Page # <<>> /\ Page[1] = writers[id][1])'
    BY <1>1, <1>2, <2>7
  <2>9. (sessionId = id /\ ~astray /\ Clean(Page) => \A m \in Line(id) : IsPrefix(Talk(m), Page))'
    BY <1>2, <2>7 DEF IsPrefix
  <2>10. QED
    BY <2>4, <2>5, <2>6, <2>8, <2>9 DEF RootOK, LineOK
<1>9. RootInv' /\ LineInv'
  BY <1>2, <1>8 DEF RootInv, LineInv
<1>10. QED
  BY <1>5, <1>6, <1>7, <1>9 DEF SessionInv

(* What is asked of a session is one more of what is said there. *)
LEMMA ComingAre ==
    ASSUME SessionInv, NEW id \in Named
    PROVE  Coming(id) \subseteq 1..asked /\ Line(id) \subseteq 1..asked
                /\ Line(id) \subseteq Coming(id) \union ToSet(writers[id])
<1>1. Last(writers[id]) \in ToSet(writers[id]) /\ ToSet(writers[id]) \subseteq 1..asked
  BY WriterIs
<1>2. Coming(id) \subseteq 1..asked
  BY DEF SessionInv, ReadInv, SaveInv, SaveOK, Coming, Asking, Saving
<1>3. QED
  BY <1>1, <1>2 DEF Line, Stored

LEMMA AskingOf ==
    ASSUME NEW ms \in Seq(Messages), NEW n \in Nat
    PROVE  /\ ms \o <<UserMessage(n), EmptyAnswer>> \in Seq(Messages)
           /\ Asks(ms \o <<UserMessage(n), EmptyAnswer>>) = Append(Asks(ms), n)
<1>1. PICK u, e : u = UserMessage(n) /\ e = EmptyAnswer
  OBVIOUS
<1>2. u \in Messages /\ IsAsk(u) /\ Ask(u) = n /\ e \in Messages /\ ~IsAsk(e)
  BY <1>1, Question, Answering, NoAsk DEF Messages
<1>3. ms \o <<u, e>> = Append(Append(ms, u), e)
  BY <1>2
<1>4. Append(ms, u) \in Seq(Messages) /\ Asks(Append(ms, u)) = Append(Asks(ms), n)
  BY <1>2, AsksAppend
<1>5. Append(Append(ms, u), e) \in Seq(Messages) /\ Asks(Append(Append(ms, u), e)) = Append(Asks(ms), n)
  BY <1>2, <1>4, AsksAppend
<1>6. QED
  BY <1>1, <1>3, <1>5

LEMMA SendKeeps == ASSUME SessionInv, Send PROVE SessionInv'
<1>1. PICK n : n = asked + 1
  OBVIOUS
<1>2. PICK p : p = Page
  OBVIOUS
<1>3. asked \in Nat /\ n \in Nat \ {0} /\ n \in 1..n /\ (\A m : m \in 1..asked <=> m \in 1..(n - 1))
      /\ (\A m \in 1..n : m \in 1..asked \/ m = n) /\ 1..asked \subseteq 1..n /\ n \notin 1..asked
  BY <1>1 DEF SessionInv, SeenInv
<1>4. /\ asked' = n /\ seen' = Append(seen, p)
      /\ messages' = messages \o <<UserMessage(n), EmptyAnswer>>
      /\ streaming' = TRUE /\ status' = "thinking"
      /\ reading' = [ask |-> n, sid |-> sessionId]
      /\ \E a \in user.answers : events' = AnswerEvents(n, a)
      /\ UNCHANGED <<mounted, sessionId, saves, gets, store, second, astray, kept, dropped, writers>>
  BY <1>1, <1>2 DEF Send, Page, callVars, serverVars
<1>5. \/ muddled' = muddled \union {n}
      \/ muddled' = muddled /\ ~astray /\ (messages = <<>> \/ sessionId # NoId)
  BY <1>1 DEF Send
<1>6. muddled \subseteq 1..asked /\ muddled \subseteq muddled' /\ (\A m \in 1..asked : m \in muddled' <=> m \in muddled)
      /\ (n \notin muddled' => ~astray /\ (messages = <<>> \/ sessionId # NoId)) /\ muddled' \subseteq 1..n
  <2>1. muddled \subseteq 1..asked
    BY DEF SessionInv, TypesInv
  <2>2. QED
    BY <1>3, <1>5, <2>1
<1>7. Reads' /\ Ids' = Ids /\ Named' = Named
  <2>1. reading'.ask = n /\ NoReading.ask = 0
    BY <1>4 DEF NoReading
  <2>2. QED
    BY <1>3, <1>4, <2>1 DEF Reads, Ids, Named
<1>8. IsHeld(p) /\ p \in Seq(Nat) /\ ToSet(p) \subseteq 1..asked /\ (\A q \in ToSet(p) : Root(q) = p[1])
  BY <1>2, HeldIs DEF SessionInv, HeldInv
<1>9. /\ seen' \in Seq(Seq(Nat)) /\ Len(seen') = n /\ seen'[n] = p /\ \A m \in 1..asked : seen'[m] = seen[m]
  <2>1. seen \in Seq(Seq(Nat)) /\ Len(seen) = asked
    BY DEF SessionInv, SeenInv
  <2>2. QED
    BY <1>1, <1>3, <1>4, <1>8, <2>1, AppendProperties
<1>10. /\ Talk(n)' = Append(p, n) /\ \A m \in 1..asked : Talk(m)' = Talk(m) /\ Root(m)' = Root(m)
  BY <1>9 DEF Talk, Root
<1>11. /\ Append(p, n) \in Seq(Nat) /\ Append(p, n) # <<>> /\ (p # <<>> => Append(p, n)[1] = p[1])
       /\ (p = <<>> => Append(p, n) = <<n>>) /\ Root(n)' = Append(p, n)[1]
       /\ ToSet(Append(p, n)) = ToSet(p) \union {n} /\ (p # <<>> => p[1] \in ToSet(p))
  BY <1>3, <1>8, <1>10, AppendOf DEF Root
<1>12. messages' \in Seq(Messages) /\ Page' = Append(p, n)
  <2>1. messages \in Seq(Messages)
    BY DEF SessionInv, TypesInv
  <2>2. QED
    BY <1>2, <1>3, <1>4, <2>1, AskingOf DEF Page
<1>13. messages = <<>> => p = <<>>
  BY <1>2, AsksEmpty DEF Page
<1>14. TypesInv'
  <2>1. PICK a \in user.answers : events' = AnswerEvents(n, a)
    BY <1>4
  <2>2. user \in User
    BY DEF SessionInv, TypesInv
  <2>3. a \in Answer
    BY <2>2 DEF User
  <2>4. events' \in Seq(Events)
    BY <1>3, <2>1, <2>3, AnswerType
  <2>5. user' \in User
    <3>1. user.asks \in Nat /\ user.asks > 0 /\ user' = [user EXCEPT !.asks = @ - 1]
      BY <2>2 DEF User, Send
    <3>2. user.asks - 1 \in Nat
      BY <3>1
    <3>3. QED
      BY <2>2, <3>1, <3>2 DEF User
  <2>6. muddled' \union kept \union dropped \subseteq 1..n
    BY <1>3, <1>6 DEF SessionInv, TypesInv
  <2>7. QED
    BY <1>4, <1>7, <1>12, <2>4, <2>5, <2>6 DEF SessionInv, TypesInv, Statuses
<1>15. SeenInv'
  <2>1. ASSUME NEW m \in 1..n, NEW q \in ToSet(seen'[m])
        PROVE  q \in 1..(m - 1) /\ Root(q)' = Root(m)'
    <3>1. CASE m \in 1..asked
      <4>1. q \in 1..(m - 1) /\ Root(q) = Root(m)
        BY <1>9, <2>1, <3>1 DEF SessionInv, SeenInv
      <4>2. q \in 1..asked
        BY <1>3, <3>1, <4>1
      <4>3. QED
        BY <1>10, <3>1, <4>1, <4>2
    <3>2. CASE m = n
      <4>1. q \in ToSet(p) /\ q \in 1..asked
        BY <1>8, <1>9, <2>1, <3>2
      <4>2. p # <<>>
        BY <4>1 DEF ToSet
      <4>3. Root(q)' = p[1] /\ Root(n)' = p[1]
        BY <1>8, <1>10, <1>11, <4>1, <4>2
      <4>4. QED
        BY <1>3, <3>2, <4>1, <4>3
    <3>3. QED
      BY <1>3, <3>1, <3>2
  <2>2. QED
    BY <1>3, <1>4, <1>9, <2>1 DEF SeenInv
<1>16. HeldInv'
  <2>1. ASSUME NEW s, IsHeld(s) PROVE IsHeld(s)'
    BY <1>3, <1>4, <1>10, <2>1 DEF IsHeld
  <2>2. IsHeld(Page)'
    BY <1>3, <1>4, <1>10, <1>12 DEF IsHeld
  <2>3. (\A id \in Ids : IsHeld(Asks(store[id])))'
    BY <1>4, <1>7, <2>1 DEF SessionInv, HeldInv
  <2>4. (\A v \in saves : IsHeld(Asks(v.msgs)))' /\ (\A g \in gets : IsHeld(Asks(g.msgs)))'
    BY <1>4, <2>1 DEF SessionInv, HeldInv
  <2>5. QED
    BY <2>2, <2>3, <2>4 DEF HeldInv
<1>17. ReadInv'
  <2>1. reading'.ask = n /\ reading'.sid = sessionId /\ sessionId \in Named \union {NoId}
    BY <1>4 DEF SessionInv, TypesInv
  <2>2. n \notin muddled' => Page' = Talk(n)' /\ (sessionId = NoId => seen'[n] = <<>>)
    BY <1>6, <1>9, <1>10, <1>12, <1>13
  <2>3. \A v \in saves : v.ask # n
    BY <1>3 DEF SessionInv, SaveInv, SaveOK
  <2>4. \A id \in Named : n \notin ToSet(writers[id])
    BY <1>3, WriterIs
  <2>5. QED
    BY <1>3, <1>4, <1>7, <2>1, <2>2, <2>3, <2>4 DEF ReadInv
<1>18. SaveInv'
  <2>1. ASSUME NEW v \in saves PROVE SaveOK(v)'
    <3>1. SaveOK(v)
      BY DEF SessionInv, SaveInv
    <3>2. v.ask \in 1..asked
      BY <3>1 DEF SaveOK
    <3>3. v.ask \in 1..n /\ (v.ask \in muddled' <=> v.ask \in muddled) /\ Talk(v.ask)' = Talk(v.ask) /\ seen'[v.ask] = seen[v.ask]
      BY <1>3, <1>6, <1>9, <1>10, <3>2
    <3>4. QED
      BY <1>4, <1>7, <3>1, <3>3 DEF SaveOK
  <2>2. QED
    BY <1>4, <2>1 DEF SessionInv, SaveInv
<1>19. WritersInv' /\ GetsInv'
  <2>1. ASSUME NEW id \in Named PROVE writers[id] \in Seq(1..n) /\ writers[id] # <<>>
    BY <1>3, SeqMonotonic DEF SessionInv, WritersInv
  <2>2. ASSUME NEW id \in Ids, Last(writers[id]) \notin muddled'
        PROVE  Asks(store[id]) = Talk(Last(writers[id]))'
    <3>1. id \in Named
      BY DEF SessionInv, TypesInv
    <3>2. Last(writers[id]) \in 1..asked
      BY <3>1, WriterIs
    <3>3. Asks(store[id]) = Talk(Last(writers[id]))
      BY <1>6, <2>2, <3>2 DEF SessionInv, WritersInv
    <3>4. QED
      BY <1>4, <1>10, <3>2, <3>3
  <2>3. (\A id \in Ids : Last(writers[id]) \notin muddled => Asks(store[id]) = Talk(Last(writers[id])))'
    BY <1>4, <1>7, <2>2
  <2>4. WritersInv'
    BY <1>4, <1>7, <2>1, <2>3 DEF SessionInv, WritersInv
  <2>5. QED
    BY <1>4, <1>7, <2>4 DEF SessionInv, GetsInv
<1>20. AloneInv'
  <2>1. ASSUME sessionId' = NoId, Clean(Page)' PROVE Page' = <<n>>
    <3>1. n \notin muddled'
      BY <1>11, <1>12, <2>1 DEF Clean
    <3>2. QED
      BY <1>4, <1>6, <1>11, <1>12, <1>13, <2>1, <3>1
  <2>2. QED
    BY <1>4, <2>1 DEF AloneInv
<1>21. ASSUME NEW id \in Named, Unmuddled(id)'
       PROVE  RootOK(id)' /\ LineOK(id)'
  <2>1. Unmuddled(id)
    BY <1>4, <1>6, <1>21 DEF Unmuddled
  <2>2. RootOK(id) /\ LineOK(id)
    BY <2>1 DEF SessionInv, RootInv, LineInv
  <2>3. ToSet(writers[id]) \subseteq 1..asked /\ Coming(id) \subseteq 1..asked /\ Line(id) \subseteq 1..asked
    BY WriterIs, ComingAre
  <2>4. Asking(id)' \subseteq {n} /\ (n \in Asking(id)' => sessionId = id /\ n \notin muddled') /\ Saving(id)' \subseteq Saving(id)
    BY <1>4, <1>6 DEF Asking, Saving
  <2>5. sessionId = id => sessionId # NoId
    BY NamedAre
  <2>6. ASSUME NEW m \in Coming(id)' \union Line(id)', m \notin Coming(id) \union Line(id)
        PROVE  m = n /\ sessionId = id /\ ~astray
    <3>1. Stored(id)' = Stored(id)
      BY <1>4, <1>7 DEF Stored
    <3>2. m \in Asking(id)'
      BY <2>4, <2>6, <3>1 DEF Coming, Line
    <3>3. QED
      BY <1>6, <2>4, <3>2
  <2>7. \A m \in Line(id)' : m \notin Line(id) => m = n /\ sessionId = id /\ ~astray
    <3>1. ASSUME NEW m \in Line(id)', m \notin Line(id), m \in Coming(id) PROVE FALSE
      BY <3>1 DEF Line
    <3>2. QED
      BY <2>6, <3>1
  <2>8. sessionId = id /\ ~astray => p # <<>> /\ p[1] = writers[id][1] /\ Append(p, n)[1] = writers[id][1]
    BY <1>2, <1>11, <2>2 DEF RootOK
  <2>9. sessionId = id /\ ~astray /\ Clean(Append(p, n))' => \A m \in Line(id) : IsPrefix(Talk(m), p) /\ IsPrefix(Talk(m), Append(p, n))
    <3>1. SUFFICES ASSUME sessionId = id, ~astray, Clean(Append(p, n))', NEW m \in Line(id)
                   PROVE  IsPrefix(Talk(m), p) /\ IsPrefix(Talk(m), Append(p, n))
      OBVIOUS
    <3>2. Clean(p)
      BY <1>6, <1>11, <3>1 DEF Clean
    <3>3. IsPrefix(Talk(m), p) /\ Talk(m) \in Seq(Nat)
      BY <1>2, <2>2, <2>3, <3>1, <3>2, TalkIs DEF LineOK, SessionInv
    <3>4. QED
      BY <1>3, <1>8, <3>3, PrefixAppend
  <2>10. ASSUME NEW m \in ToSet(writers[id]) \union Coming(id)' PROVE Root(m)' = writers[id][1]
    <3>1. CASE m \in ToSet(writers[id]) \union Coming(id)
      BY <1>10, <2>2, <2>3, <3>1 DEF RootOK
    <3>2. CASE m \notin ToSet(writers[id]) \union Coming(id)
      <4>1. m \notin Line(id)
        BY <3>2, ComingAre
      <4>2. m = n /\ sessionId = id /\ ~astray
        BY <2>6, <2>10, <3>2, <4>1
      <4>3. QED
        BY <1>11, <2>8, <4>2
    <3>3. QED
      BY <3>1, <3>2
  <2>11. RootOK(id)'
    <3>1. (\A m \in ToSet(writers[id]) \union Coming(id) : Root(m) = writers[id][1])'
      BY <1>4, <2>10
    <3>2. (sessionId = id /\ ~astray => Page # <<>> /\ Page[1] = writers[id][1])'
      BY <1>4, <1>11, <1>12, <2>8
    <3>3. (\A g \in gets : g.found /\ g.id = id => Asks(g.msgs) # <<>> /\ Asks(g.msgs)[1] = writers[id][1])'
      BY <1>4, <2>2 DEF RootOK
    <3>4. QED
      BY <3>1, <3>2, <3>3 DEF RootOK
  <2>12. ASSUME NEW m \in Line(id)', NEW k \in Line(id)', m < k, Clean(Talk(k))'
         PROVE  IsPrefix(Talk(m)', Talk(k)')
    <3>1. CASE k \in Line(id)
      <4>1. m \in Line(id)
        BY <1>3, <2>3, <2>7, <2>12, <3>1
      <4>2. Talk(m)' = Talk(m) /\ Talk(k)' = Talk(k)
        BY <1>10, <2>3, <3>1, <4>1
      <4>3. Clean(Talk(k))
        BY <1>6, <2>12, <4>2 DEF Clean
      <4>4. QED
        BY <2>2, <2>12, <3>1, <4>1, <4>2, <4>3 DEF LineOK
    <3>2. CASE k \notin Line(id)
      <4>1. k = n /\ sessionId = id /\ ~astray
        BY <2>7, <3>2
      <4>2. m \in Line(id)
        BY <1>3, <2>7, <2>12, <4>1
      <4>3. Clean(Append(p, n))'
        BY <1>10, <2>12, <4>1 DEF Clean
      <4>4. IsPrefix(Talk(m), Append(p, n)) /\ Talk(m)' = Talk(m)
        BY <1>10, <2>3, <2>9, <4>1, <4>2, <4>3
      <4>5. QED
        BY <1>10, <4>1, <4>4
    <3>3. QED
      BY <3>1, <3>2
  <2>13. ASSUME sessionId' = id, ~astray', Clean(Page)', NEW m \in Line(id)'
         PROVE  IsPrefix(Talk(m)', Append(p, n))
    <3>1. Clean(Append(p, n))' /\ sessionId = id /\ ~astray
      BY <1>4, <1>12, <2>13 DEF Clean
    <3>2. CASE m \in Line(id)
      BY <1>10, <2>3, <2>9, <3>1, <3>2
    <3>3. CASE m \notin Line(id)
      BY <1>10, <1>11, <2>7, <3>3, PrefixSelf
    <3>4. QED
      BY <3>2, <3>3
  <2>14. LineOK(id)'
    <3>1. (\A m, k \in Line(id) : m < k /\ Clean(Talk(k)) => IsPrefix(Talk(m), Talk(k)))'
      BY <2>12 DEF IsPrefix
    <3>2. (sessionId = id /\ ~astray /\ Clean(Page) => \A m \in Line(id) : IsPrefix(Talk(m), Page))'
      BY <1>12, <2>13 DEF IsPrefix
    <3>3. QED
      BY <3>1, <3>2 DEF LineOK
  <2>15. QED
    BY <2>11, <2>14
<1>22. RootInv' /\ LineInv'
  BY <1>7, <1>21 DEF RootInv, LineInv
<1>23. QED
  BY <1>14, <1>15, <1>16, <1>17, <1>18, <1>19, <1>20, <1>22 DEF SessionInv

LEMMA ServeSaveKeeps == ASSUME SessionInv, NEW v \in saves, ServeSave(v) PROVE SessionInv'
<1>1. PICK i, u : i = IdOf(v) /\ u = [v EXCEPT !.id = IdOf(v), !.served = TRUE]
  OBVIOUS
<1>2. PICK ws : ws = Writers(i)
  OBVIOUS
<1>3. /\ ~v.served /\ saves' = (saves \ {v}) \union {u}
      /\ store' = Put(store, i, v.msgs) /\ writers' = Put(writers, i, Append(ws, v.ask))
      /\ muddled' = IF v.sid = NoId /\ second \in Named THEN muddled \union {v.ask} ELSE muddled
      /\ kept' = kept \union ToSet(Asks(v.msgs))
      /\ UNCHANGED <<user, mounted, messages, sessionId, streaming, status, reading, events, gets, second,
                     asked, seen, astray, dropped>>
  BY <1>1, <1>2 DEF ServeSave, pageVars
<1>4. v \in SaveRecords /\ SaveOK(v)
  BY DEF SessionInv, TypesInv, SaveInv
<1>5. v.ask \in 1..asked /\ v.ask \in Nat /\ v.msgs \in Seq(Messages) /\ v.sid \in Named \union {NoId}
      /\ (\A id \in Named : v.ask \notin ToSet(writers[id]))
      /\ (v.ask \notin muddled => Asks(v.msgs) = Talk(v.ask) /\ (v.sid = NoId => seen[v.ask] = <<>>))
  BY <1>3, <1>4 DEF SaveOK, SaveRecords
<1>6. Named \subseteq 1..second /\ second \in Nat \ {0} /\ NoId \notin Named /\ NoId # second
      /\ i \in Nat /\ i \in 1..second /\ i # NoId
      /\ (i = second \/ i \in Named) /\ (v.sid = NoId <=> i # v.sid) /\ (v.sid = NoId => i = second)
  <2>1. Named \subseteq 1..second /\ second \in Nat \ {0}
    BY DEF SessionInv, TypesInv
  <2>2. (i = second /\ v.sid = NoId) \/ (i = v.sid /\ v.sid # NoId)
    BY <1>1 DEF IdOf
  <2>3. NoId \notin Named /\ NoId # second /\ NoId = 0
    BY <2>1 DEF NoId
  <2>4. (v.sid = NoId <=> i # v.sid) /\ (v.sid = NoId => i = second) /\ (i = second \/ i \in Named)
    BY <1>5, <2>2, <2>3
  <2>5. i \in 1..second
    <3>1. second \in 1..second
      BY <2>1
    <3>2. QED
      BY <2>1, <2>4, <3>1, Zenon
  <2>6. QED
    BY <2>1, <2>3, <2>4, <2>5
<1>7. u \in SaveRecords /\ u.ask = v.ask /\ u.sid = v.sid /\ u.msgs = v.msgs /\ u.id = i /\ u.served
  <2>1. u = [v EXCEPT !.id = i, !.served = TRUE]
    BY <1>1
  <2>2. QED
    BY <1>4, <1>6, <2>1 DEF SaveRecords
<1>8. i \in Named => v.sid # NoId \/ v.ask \in muddled'
  BY <1>3, <1>6
<1>9. i \notin Named => v.sid = NoId /\ muddled' = muddled
  BY <1>3, <1>5, <1>6
<1>10. muddled \subseteq muddled' /\ muddled' \subseteq 1..asked
  BY <1>3, <1>5 DEF SessionInv, TypesInv
<1>11. ws \in Seq(Nat) /\ ToSet(ws) \subseteq 1..asked /\ (i \in Named => ws = writers[i] /\ ws # <<>>) /\ (i \notin Named => ws = <<>>)
       /\ ws \in Seq(1..asked)
  <2>1. CASE i \in Named
    BY <1>2, <2>1, WriterIs DEF Writers, SessionInv, WritersInv
  <2>2. CASE i \notin Named
    <3>1. ws = <<>>
      BY <1>2, <2>2 DEF Writers
    <3>2. QED
      BY <2>2, <3>1, EmptySeq DEF ToSet
  <2>3. QED
    BY <2>1, <2>2
<1>12. PICK nw : nw = Append(ws, v.ask)
  OBVIOUS
<1>13. /\ nw \in Seq(1..asked) /\ nw # <<>> /\ Last(nw) = v.ask /\ ToSet(nw) = ToSet(ws) \union {v.ask}
       /\ i \in Named => nw[1] = writers[i][1]
       /\ i \notin Named => nw[1] = v.ask
  <2>1. PICK S : S = 1..asked
    OBVIOUS
  <2>2. nw \in Seq(S)
    BY <1>5, <1>11, <1>12, <2>1, AppendProperties
  <2>3. QED
    BY <1>5, <1>11, <1>12, <2>1, <2>2, AppendOf
<1>14. /\ Ids' = Ids \union {i} /\ store'[i] = v.msgs /\ \A id \in Ids : id # i => store'[id] = store[id]
       /\ Named' = Named \union {i} /\ writers'[i] = nw /\ \A id \in Named : id # i => writers'[id] = writers[id]
  <2>1. store' = Put(store, i, v.msgs) /\ writers' = Put(writers, i, nw)
    BY <1>3, <1>12
  <2>2. Ids' = Ids \union {i} /\ store'[i] = v.msgs /\ \A id \in Ids : id # i => store'[id] = store[id]
    BY <2>1 DEF Ids, Put
  <2>3. Named' = Named \union {i} /\ writers'[i] = nw /\ \A id \in Named : id # i => writers'[id] = writers[id]
    BY <2>1 DEF Named, Put
  <2>4. QED
    BY <2>2, <2>3
<1>15. Reads' = Reads /\ Page' = Page /\ \A n : Talk(n)' = Talk(n) /\ Root(n)' = Root(n)
  BY <1>3, SameTalks DEF Reads, Page
<1>16. TypesInv'
  <2>1. saves' \subseteq SaveRecords
    BY <1>3, <1>7 DEF SessionInv, TypesInv
  <2>2. kept' \subseteq 1..asked
    BY <1>3, HeldIs DEF SessionInv, HeldInv, TypesInv
  <2>3. Ids' \subseteq Named' /\ Named' \subseteq 1..second /\ sessionId \in Named' \union {NoId}
    BY <1>6, <1>14 DEF SessionInv, TypesInv
  <2>4. \A id \in Ids' : store'[id] \in Seq(Messages)
    BY <1>5, <1>14 DEF SessionInv, TypesInv
  <2>5. muddled' \union kept' \union dropped' \subseteq 1..asked
    BY <1>3, <1>10, <2>2 DEF SessionInv, TypesInv
  <2>6. QED
    BY <1>3, <1>15, <2>1, <2>3, <2>4, <2>5 DEF SessionInv, TypesInv
<1>17. SeenInv'
  BY <1>3, SeenSame DEF SessionInv
<1>18. HeldInv'
  <2>1. \A s : IsHeld(s)' <=> IsHeld(s)
    BY <1>3, HeldSame
  <2>2. \A id \in Ids' : IsHeld(Asks(store'[id]))
    BY <1>14 DEF SessionInv, HeldInv
  <2>3. \A w \in saves' : IsHeld(Asks(w.msgs))
    BY <1>3, <1>7 DEF SessionInv, HeldInv
  <2>4. (\A id \in Ids : IsHeld(Asks(store[id])))'
    BY <2>1, <2>2
  <2>5. QED
    BY <1>3, <1>15, <2>1, <2>3, <2>4 DEF SessionInv, HeldInv
<1>19. \A id \in Named' : ToSet(writers'[id]) = (IF id \in Named THEN ToSet(writers[id]) ELSE {}) \union (IF id = i THEN {v.ask} ELSE {})
  <2>1. i \notin Named => ToSet(ws) = {}
    BY <1>11 DEF ToSet
  <2>2. QED
    BY <1>11, <1>13, <1>14, <2>1
<1>20. ReadInv'
  <2>1. SUFFICES ASSUME Reads PROVE ReadInv'
    BY <1>15 DEF ReadInv
  <2>2. v.ask # asked /\ \A w \in saves' : w.ask # asked
    BY <1>3, <1>7, <2>1 DEF SessionInv, ReadInv
  <2>3. \A id \in Named' : asked \notin ToSet(writers'[id])
    BY <1>19, <2>1, <2>2 DEF SessionInv, ReadInv
  <2>4. reading.sid \in Named' \union {NoId}
    BY <1>14, <2>1 DEF SessionInv, ReadInv
  <2>5. asked \notin muddled' => Page' = Talk(asked)' /\ (reading.sid = NoId => seen[asked] = <<>>)
    <3>1. Talk(asked)' = Talk(asked)
      BY <1>3 DEF Talk
    <3>2. asked \notin muddled => Page = Talk(asked) /\ (reading.sid = NoId => seen[asked] = <<>>)
      BY <2>1 DEF SessionInv, ReadInv
    <3>3. QED
      BY <1>10, <1>15, <3>1, <3>2
  <2>6. reading.ask = asked /\ asked \in Nat \ {0}
    BY <2>1 DEF SessionInv, ReadInv
  <2>7. QED
    BY <1>3, <2>2, <2>3, <2>4, <2>5, <2>6 DEF ReadInv
<1>21. SaveInv'
  <2>1. SaveOK(u)'
    <3>1. u.id \in Named' /\ u.ask \in ToSet(writers'[u.id])
      BY <1>7, <1>14, <1>19
    <3>2. u.sid = NoId /\ u.ask \notin muddled' => writers'[u.id][1] = u.ask
      BY <1>7, <1>8, <1>13, <1>14
    <3>3. u.ask \notin muddled' => Asks(u.msgs) = Talk(u.ask)' /\ (u.sid = NoId => seen'[u.ask] = <<>>)
      BY <1>3, <1>5, <1>7, <1>10, <1>15
    <3>4. u.ask \in 1..asked' /\ u.sid \in Named' \union {NoId}
      BY <1>3, <1>5, <1>7, <1>14
    <3>5. QED
      BY <1>7, <3>1, <3>2, <3>3, <3>4 DEF SaveOK
  <2>2. ASSUME NEW w \in saves, w # v PROVE SaveOK(w)' /\ w.ask # v.ask
    <3>1. SaveOK(w) /\ w.ask # v.ask
      BY <2>2 DEF SessionInv, SaveInv
    <3>2. ~w.served => \A id \in Named' : w.ask \notin ToSet(writers'[id])
      BY <1>19, <3>1 DEF SaveOK
    <3>3. w.served => /\ w.id \in Named' /\ w.ask \in ToSet(writers'[w.id])
                      /\ w.sid = NoId /\ w.ask \notin muddled' => writers'[w.id][1] = w.ask
      <4>1. SUFFICES ASSUME w.served
                     PROVE  /\ w.id \in Named' /\ w.ask \in ToSet(writers'[w.id])
                            /\ w.sid = NoId /\ w.ask \notin muddled' => writers'[w.id][1] = w.ask
        OBVIOUS
      <4>2. w.id \in Named /\ w.ask \in ToSet(writers[w.id]) /\ (w.sid = NoId /\ w.ask \notin muddled => writers[w.id][1] = w.ask)
        BY <3>1, <4>1 DEF SaveOK
      <4>3. w.id \in Named' /\ w.ask \in ToSet(writers'[w.id]) /\ writers'[w.id][1] = writers[w.id][1]
        BY <1>13, <1>14, <1>19, <4>2
      <4>4. QED
        BY <1>10, <4>2, <4>3
    <3>4. w.ask \in 1..asked' /\ w.sid \in Named' \union {NoId}
          /\ (w.ask \notin muddled' => Asks(w.msgs) = Talk(w.ask)' /\ (w.sid = NoId => seen'[w.ask] = <<>>))
      BY <1>3, <1>10, <1>14, <1>15, <3>1 DEF SaveOK
    <3>5. QED
      BY <3>1, <3>2, <3>3, <3>4 DEF SaveOK
  <2>3. \A w, x \in saves' : w.ask = x.ask => w = x
    BY <1>3, <1>7, <2>2 DEF SessionInv, SaveInv
  <2>4. \A w \in saves' : SaveOK(w)'
    BY <1>3, <2>1, <2>2
  <2>5. QED
    BY <2>3, <2>4 DEF SaveInv
<1>22. WritersInv' /\ GetsInv' /\ AloneInv'
  <2>1. \A id \in Named' : writers'[id] \in Seq(1..asked) /\ writers'[id] # <<>>
    BY <1>13, <1>14 DEF SessionInv, WritersInv
  <2>2. \A a, b \in Named' : a # b => ToSet(writers'[a]) \cap ToSet(writers'[b]) = {}
    <3>1. ASSUME NEW a \in Named', NEW b \in Named', NEW x \in ToSet(writers'[a]), x \in ToSet(writers'[b]) PROVE a = b
      <4>1. (a \in Named /\ x \in ToSet(writers[a])) \/ (a = i /\ x = v.ask)
        BY <1>19, <3>1
      <4>2. (b \in Named /\ x \in ToSet(writers[b])) \/ (b = i /\ x = v.ask)
        BY <1>19, <3>1
      <4>3. QED
        BY <1>5, <4>1, <4>2 DEF SessionInv, WritersInv
    <3>2. QED
      BY <3>1
  <2>3. ASSUME NEW id \in Ids', Last(writers'[id]) \notin muddled' PROVE Asks(store'[id]) = Talk(Last(writers'[id]))
    <3>1. CASE id = i
      BY <1>5, <1>10, <1>13, <1>14, <2>3, <3>1
    <3>2. CASE id # i
      <4>1. id \in Ids /\ id \in Named /\ store'[id] = store[id] /\ writers'[id] = writers[id]
        BY <1>14, <3>2 DEF SessionInv, TypesInv
      <4>2. QED
        BY <1>10, <2>3, <4>1 DEF SessionInv, WritersInv
    <3>3. QED
      BY <3>1, <3>2
  <2>4. (\A id \in Ids : Last(writers[id]) \notin muddled => Asks(store[id]) = Talk(Last(writers[id])))'
    BY <1>15, <2>3
  <2>5. WritersInv'
    BY <1>3, <2>1, <2>2, <2>4 DEF WritersInv
  <2>6. GetsInv'
    BY <1>3, <1>14 DEF SessionInv, GetsInv
  <2>7. AloneInv'
    BY <1>3, <1>10, <1>15 DEF SessionInv, AloneInv, Clean
  <2>8. QED
    BY <2>5, <2>6, <2>7
<1>23. \A id : Asking(id)' \subseteq Asking(id)
  BY <1>3, <1>10, <1>15 DEF Asking
<1>24. \A id : Saving(id)' \subseteq Saving(id)
  <2>1. ASSUME NEW id, NEW w \in saves', ~w.served, w.sid = id, w.ask \notin muddled' PROVE w.ask \in Saving(id)
    <3>1. w \in saves /\ w.ask \notin muddled
      BY <1>3, <1>7, <1>10, <2>1
    <3>2. QED
      BY <2>1, <3>1 DEF Saving
  <2>2. QED
    BY <2>1 DEF Saving
<1>25. \A id : Coming(id)' \subseteq Coming(id)
  BY <1>23, <1>24 DEF Coming
<1>26. ASSUME NEW id \in Named, Unmuddled(id)'
       PROVE  RootOK(id)' /\ LineOK(id)'
  <2>1. ToSet(writers[id]) \subseteq ToSet(writers'[id]) /\ writers'[id][1] = writers[id][1]
    BY <1>13, <1>14, <1>19
  <2>2. RootOK(id) /\ LineOK(id)
    <3>1. Unmuddled(id)
      BY <1>10, <1>26, <2>1 DEF Unmuddled
    <3>2. QED
      BY <3>1 DEF SessionInv, RootInv, LineInv
  <2>3. id = i => v.ask \in Coming(id)
    <3>1. SUFFICES ASSUME id = i PROVE v.ask \in Saving(id)
      BY DEF Coming
    <3>2. v.ask \in ToSet(writers'[id])
      BY <1>14, <1>19, <3>1
    <3>3. v.ask \notin muddled' /\ v.ask \notin muddled
      BY <1>10, <1>26, <3>2 DEF Unmuddled
    <3>4. v.sid = id
      BY <1>6, <1>8, <3>1, <3>3
    <3>5. QED
      BY <1>3, <3>3, <3>4 DEF Saving
  <2>4. ToSet(writers'[id]) \subseteq ToSet(writers[id]) \union Coming(id)
    BY <1>14, <1>19, <2>3
  <2>5. Line(id)' \subseteq Line(id)
    <3>1. CASE id = i
      <4>1. Stored(id)' \subseteq {v.ask}
        BY <1>13, <1>14, <3>1 DEF Stored
      <4>2. QED
        BY <1>25, <2>3, <3>1, <4>1 DEF Line
    <3>2. CASE id # i
      <4>1. Stored(id)' \subseteq Stored(id)
        BY <1>14, <3>2 DEF Stored
      <4>2. QED
        BY <1>25, <4>1 DEF Line
    <3>3. QED
      BY <3>1, <3>2
  <2>6. RootOK(id)'
    <3>1. (\A m \in ToSet(writers[id]) \union Coming(id) : Root(m) = writers[id][1])'
      BY <1>15, <1>25, <2>1, <2>2, <2>4 DEF RootOK
    <3>2. (sessionId = id /\ ~astray => Page # <<>> /\ Page[1] = writers[id][1])'
      BY <1>3, <1>15, <2>1, <2>2 DEF RootOK
    <3>3. (\A g \in gets : g.found /\ g.id = id => Asks(g.msgs) # <<>> /\ Asks(g.msgs)[1] = writers[id][1])'
      BY <1>3, <2>1, <2>2 DEF RootOK
    <3>4. QED
      BY <3>1, <3>2, <3>3 DEF RootOK
  <2>7. LineOK(id)'
    <3>1. \A s : Clean(s)' => Clean(s)
      BY <1>10 DEF Clean
    <3>2. (\A m, n \in Line(id) : m < n /\ Clean(Talk(n)) => IsPrefix(Talk(m), Talk(n)))'
      <4>1. ASSUME NEW m \in Line(id)', NEW n \in Line(id)', m < n, Clean(Talk(n))' PROVE IsPrefix(Talk(m)', Talk(n)')
        <5>1. Clean(Talk(n))
          BY <1>10, <1>15, <4>1 DEF Clean
        <5>2. QED
          BY <1>15, <2>2, <2>5, <4>1, <5>1 DEF LineOK
      <4>2. QED
        BY <4>1 DEF IsPrefix
    <3>3. (sessionId = id /\ ~astray /\ Clean(Page) => \A m \in Line(id) : IsPrefix(Talk(m), Page))'
      <4>1. ASSUME sessionId' = id, ~astray', Clean(Page)', NEW m \in Line(id)' PROVE IsPrefix(Talk(m)', Page')
        <5>1. Clean(Page)
          BY <1>10, <1>15, <4>1 DEF Clean
        <5>2. QED
          BY <1>3, <1>15, <2>2, <2>5, <4>1, <5>1 DEF LineOK
      <4>2. QED
        BY <4>1 DEF IsPrefix
    <3>4. QED
      BY <3>2, <3>3 DEF LineOK
  <2>8. QED
    BY <2>6, <2>7
<1>27. ASSUME i \notin Named, Unmuddled(i)'
       PROVE  RootOK(i)' /\ LineOK(i)'
  <2>1. ToSet(writers'[i]) = {v.ask} /\ v.ask \notin muddled /\ writers'[i][1] = v.ask /\ v.sid = NoId
    <3>1. ToSet(writers'[i]) = {v.ask}
      BY <1>14, <1>19, <1>27
    <3>2. v.ask \notin muddled'
      BY <1>27, <3>1 DEF Unmuddled
    <3>3. QED
      BY <1>9, <1>13, <1>14, <1>27, <3>1, <3>2
  <2>2. Coming(i)' = {}
    <3>1. reading.sid # i \/ ~Reads
      BY <1>6, <1>27 DEF SessionInv, ReadInv
    <3>2. \A w \in saves : w.sid # i
      BY <1>6, <1>27 DEF SessionInv, SaveInv, SaveOK
    <3>3. Asking(i) = {} /\ Saving(i) = {}
      BY <3>1, <3>2 DEF Asking, Saving
    <3>4. QED
      BY <1>25, <3>3 DEF Coming
  <2>3. Root(v.ask) = v.ask
    <3>1. Talk(v.ask) = <<v.ask>>
      BY <1>5, <2>1, TalkIs DEF SessionInv
    <3>2. QED
      BY <1>5, <3>1 DEF Root
  <2>4. sessionId # i /\ \A g \in gets : g.found => g.id # i
    BY <1>6, <1>27 DEF SessionInv, TypesInv, GetsInv
  <2>5. Line(i)' \subseteq {v.ask}
    BY <1>13, <1>14, <2>2 DEF Line, Stored
  <2>6. RootOK(i)'
    <3>1. (\A m \in ToSet(writers[i]) \union Coming(i) : Root(m) = writers[i][1])'
      BY <1>15, <2>1, <2>2, <2>3
    <3>2. QED
      BY <1>3, <2>4, <3>1 DEF RootOK
  <2>7. LineOK(i)'
    <3>1. \A m, n \in Line(i)' : ~(m < n)
      BY <1>5, <2>5
    <3>2. QED
      BY <1>3, <2>4, <3>1 DEF LineOK
  <2>8. QED
    BY <2>6, <2>7
<1>28. RootInv' /\ LineInv'
  BY <1>14, <1>26, <1>27 DEF RootInv, LineInv
<1>29. QED
  BY <1>16, <1>17, <1>18, <1>20, <1>21, <1>22, <1>28 DEF SessionInv

-----------------------------------------------------------------------------
(* However the network cuts an answer, the page handles each of its lines  *)
(* once, when it is whole, and in order: for answers of any length and     *)
(* chunks of any size.                                                     *)

(* What has arrived is handled, and what was handled is no more than that. *)
StreamInv ==
    /\ size \in Nat
    /\ got \in 0..(2 * size)
    /\ ArrivedHandled

(* The pieces at hand after a chunk are the open head and all of the       *)
(* chunk; the lines complete in them are those that end in it.             *)
LEMMA LinesOfChunk ==
    ASSUME StreamInv, NEW k \in 1..(2 * size - got)
    PROVE  CompleteLines(k) = ((got \div 2) + 1)..((got + k) \div 2)
<1>1. size \in Nat /\ got \in Nat /\ k \in Nat /\ k > 0 /\ got + k <= 2 * size
  BY DEF StreamInv
<1>2. ASSUME NEW l \in 1..size
      PROVE  l \in CompleteLines(k) <=> l \in ((got \div 2) + 1)..((got + k) \div 2)
  <2>1. Joined(k) = {p \in {got} : p % 2 # 0} \union (got + 1)..(got + k)
    BY DEF Joined, StreamInv, ArrivedHandled, IsTail
  <2>2. l \in CompleteLines(k) <=> 2 * l - 1 \in Joined(k) /\ 2 * l \in Joined(k)
    BY DEF CompleteLines, HeadOf, TailOf
  <2>3. 2 * l \in Joined(k) <=> got < 2 * l /\ 2 * l <= got + k
    BY <1>1, <2>1
  <2>4. (got < 2 * l /\ 2 * l <= got + k) => 2 * l - 1 \in Joined(k)
    BY <1>1, <2>1
  <2>5. (got < 2 * l /\ 2 * l <= got + k) <=> (got \div 2) + 1 <= l /\ l <= (got + k) \div 2
    BY <1>1
  <2>6. QED
    BY <1>1, <2>2, <2>3, <2>4, <2>5
<1>3. ((got \div 2) + 1)..((got + k) \div 2) \subseteq 1..size
  BY <1>1
<1>4. CompleteLines(k) \subseteq 1..size
  BY DEF CompleteLines
<1>5. QED
  BY <1>2, <1>3, <1>4

(* What stays in the buffer is the last piece, if it is a head.            *)
LEMMA RestOfChunk ==
    ASSUME StreamInv, NEW k \in 1..(2 * size - got)
    PROVE  Incomplete(k) = {p \in {got + k} : ~IsTail(p)}
<1>1. size \in Nat /\ got \in Nat /\ k \in Nat /\ k > 0 /\ got + k <= 2 * size
  BY DEF StreamInv
<1>2. Joined(k) = {p \in {got} : p % 2 # 0} \union (got + 1)..(got + k)
  BY DEF Joined, StreamInv, ArrivedHandled, IsTail
<1>3. got + k \in Joined(k) /\ \A p \in Joined(k) : p \in Nat /\ p <= got + k
  BY <1>1, <1>2
<1>4. ASSUME NEW p \in Joined(k), p # got + k
      PROVE  \E q \in Joined(k) : q >= p /\ IsTail(q)
  <2>1. CASE p % 2 = 0
    BY <2>1, <1>3 DEF IsTail
  <2>2. CASE p % 2 # 0
    <3>1. p + 1 \in Joined(k)
      BY <1>1, <1>2, <1>3, <1>4
    <3>2. (p + 1) % 2 = 0
      BY <2>2, <1>3
    <3>3. QED
      BY <3>1, <3>2, <1>3 DEF IsTail
  <2>3. QED
    BY <2>1, <2>2
<1>5. (\E q \in Joined(k) : q >= got + k /\ IsTail(q)) <=> IsTail(got + k)
  BY <1>1, <1>3
<1>6. QED
  BY <1>3, <1>4, <1>5 DEF Incomplete

LEMMA StreamInvInit == StreamInit => StreamInv
<1>1. ASSUME StreamInit PROVE StreamInv
  <2>1. got = 0 /\ buffer = {} /\ handled = {} /\ size \in Nat
    BY <1>1 DEF StreamInit
  <2>2. 1..(got \div 2) = {}
    BY <2>1
  <2>3. {p \in {got} : ~IsTail(p)} = {}
    BY <2>1 DEF IsTail
  <2>4. QED
    BY <2>1, <2>2, <2>3 DEF StreamInv, ArrivedHandled
<1>2. QED
  BY <1>1

LEMMA ReadKeeps == ASSUME StreamInv, NEW k \in Nat, Read(k) PROVE StreamInv'
<1>1. k \in 1..(2 * size - got) /\ size' = size /\ got' = got + k
  BY DEF Read
<1>2. got' \in 0..(2 * size)
  BY <1>1 DEF StreamInv
<1>3. handled' = 1..(got \div 2) \union ((got \div 2) + 1)..((got + k) \div 2)
  BY <1>1, LinesOfChunk DEF Read, StreamInv, ArrivedHandled
<1>4. handled' = 1..(got' \div 2)
  <2>1. got \in Nat /\ k \in Nat
    BY DEF StreamInv
  <2>2. got \div 2 \in Nat /\ (got + k) \div 2 \in Nat /\ got \div 2 <= (got + k) \div 2
    BY <2>1
  <2>3. QED
    BY <1>1, <1>3, <2>2
<1>5. buffer' = {p \in {got'} : ~IsTail(p)}
  BY <1>1, RestOfChunk DEF Read
<1>6. QED
  BY <1>1, <1>2, <1>4, <1>5 DEF StreamInv, ArrivedHandled

LEMMA OpenKeeps == ASSUME NEW n \in Nat, Open(n) PROVE StreamInv'
<1>1. size' = n /\ got' = 0 /\ buffer' = {} /\ handled' = {}
  BY DEF Open
<1>2. 1..(got' \div 2) = {}
  BY <1>1
<1>3. {p \in {got'} : ~IsTail(p)} = {}
  BY <1>1 DEF IsTail
<1>4. QED
  BY <1>1, <1>2, <1>3 DEF StreamInv, ArrivedHandled

LEMMA StreamSame == ASSUME StreamInv, UNCHANGED streamVars PROVE StreamInv'
  BY DEF streamVars, StreamInv, ArrivedHandled

LEMMA StreamInvNext == StreamInv /\ [StreamNext]_streamVars => StreamInv'
  BY ReadKeeps, OpenKeeps, StreamSame DEF StreamNext

(* Every line that has arrived whole was given to the handler, no other    *)
(* was, and none stays to be given again: the loop of `send'               *)
(* (Chat.tsx:134-149) loses and repeats nothing at the cuts.               *)
THEOREM StreamHandlesArrived == StreamSpec => []ArrivedHandled
<1>1. StreamInv => ArrivedHandled
  BY DEF StreamInv
<1>2. QED
  BY StreamInvInit, StreamInvNext, <1>1, PTL DEF StreamSpec

(* A chunk's lines come after all that were handled before it              *)
(* (Chat.tsx:142, the loop over `lines').                                  *)
THEOREM StreamHandlesInOrder == StreamSpec => HandledInOrder
<1> DEFINE InOrder == \A l \in handled' \ handled : \A e \in handled : e < l
<1>1. StreamInv /\ [StreamNext]_streamVars => [InOrder]_streamVars
  <2>1. ASSUME StreamInv, NEW k \in Nat, Read(k)
        PROVE  InOrder
    <3>1. k \in 1..(2 * size - got)
      BY <2>1 DEF Read
    <3>2. handled' \ handled \subseteq ((got \div 2) + 1)..((got + k) \div 2)
      BY <2>1, <3>1, LinesOfChunk DEF Read
    <3>3. handled = 1..(got \div 2) /\ got \in Nat /\ k \in Nat
      BY <2>1 DEF StreamInv, ArrivedHandled
    <3>4. got \div 2 \in Nat /\ (got + k) \div 2 \in Nat
      BY <3>3
    <3>5. QED
      BY <3>2, <3>3, <3>4
  <2>2. ASSUME NEW n \in Nat, Open(n)
        PROVE  InOrder
    BY <2>2 DEF Open
  <2>3. QED
    BY <2>1, <2>2 DEF StreamNext
<1>2. QED
  BY StreamInvInit, StreamInvNext, <1>1, PTL DEF StreamSpec, HandledInOrder

-----------------------------------------------------------------------------
(* All of them together. *)

LEMMA SessionInvInit == ASSUME ChatInit PROVE SessionInv
<1>1. /\ user \in User /\ mounted = TRUE /\ messages = <<>> /\ sessionId = NoId /\ streaming = FALSE /\ status = ""
      /\ reading = NoReading /\ events = <<>> /\ saves = {} /\ gets = {} /\ store = <<>> /\ second = 1
      /\ asked = 0 /\ seen = <<>> /\ muddled = {} /\ kept = {} /\ dropped = {} /\ writers = <<>>
  BY ChatAssumption DEF ChatInit, PageInit
<1>2. Ids = {} /\ Named = {} /\ Reads = FALSE /\ Page = <<>>
  <2>1. PICK e : e = <<>>
    OBVIOUS
  <2>2. e \in Seq(Nat) /\ Len(e) = 0
    BY <2>1, EmptySeq
  <2>3. DOMAIN e = {}
    BY <2>2, LenProperties
  <2>4. Ids = {} /\ Named = {}
    BY <1>1, <2>1, <2>3 DEF Ids, Named
  <2>5. QED
    BY <1>1, <2>4, AsksEmpty DEF Reads, Page
<1>3. TypesInv
  <2>1. messages \in Seq(Messages) /\ events \in Seq(Events)
    BY <1>1, EmptySeq
  <2>2. muddled \union kept \union dropped = {}
    BY <1>1
  <2>3. second \in Nat \ {0}
    <3>1. second = 1
      BY <1>1
    <3>2. QED
      BY <3>1
  <2>4. QED
    BY <1>1, <1>2, <2>1, <2>2, <2>3 DEF TypesInv, Statuses
<1>4. SeenInv
  <2>1. seen \in Seq(Seq(Nat)) /\ Len(seen) = 0 /\ asked = 0
    BY <1>1, EmptySeq
  <2>2. 1..asked = {}
    BY <2>1
  <2>3. QED
    BY <2>1, <2>2 DEF SeenInv
<1>5. HeldInv /\ ReadInv /\ SaveInv /\ WritersInv /\ GetsInv /\ AloneInv /\ RootInv /\ LineInv
  BY <1>1, <1>2 DEF HeldInv, IsHeld, ReadInv, SaveInv, WritersInv, GetsInv, AloneInv, RootInv, LineInv
<1>6. QED
  BY <1>3, <1>4, <1>5 DEF SessionInv

LEMMA SessionSame == ASSUME SessionInv, UNCHANGED chatVars PROVE SessionInv'
<1>1. UNCHANGED <<user, mounted, messages, sessionId, streaming, status, reading, events, saves, gets, store, second,
                  asked, seen, muddled, astray, kept, dropped, writers>>
  BY DEF chatVars, pageVars, callVars, serverVars, ghostVars
<1>2. Page' = Page /\ second <= second
  BY <1>1 DEF Page, SessionInv, TypesInv
<1>3. user \in User /\ mounted \in BOOLEAN /\ status \in Statuses /\ messages \in Seq(Messages) /\ second \in Nat
      /\ gets \subseteq GetRecords /\ \A g \in gets : IsHeld(Asks(g.msgs))
  BY DEF SessionInv, TypesInv, HeldInv
<1>4. QED
  BY <1>1, <1>2, <1>3, QuietKeeps

LEMMA SessionInvNext == ASSUME SessionInv, [ChatNext]_chatVars PROVE SessionInv'
<1>1. CASE ServerNext
  BY <1>1, ServeSaveKeeps, ServeGetKeeps, ServeDeleteKeeps DEF ServerNext
<1>2. CASE AnswerNext
  BY <1>2, SaveAnsweredKeeps, GetAnsweredKeeps DEF AnswerNext
<1>3. CASE ReadNext
  BY <1>3, ChunkKeeps, FinishKeeps DEF ReadNext
<1>4. CASE BrowserNext \/ Tick
  BY <1>4, SmallStepsKeep
<1>5. CASE UserNext
  BY <1>5, SendKeeps, NewChatKeeps, LeaveKeeps, SmallStepsKeep, GetsKeep DEF UserNext
<1>6. CASE FaultNext
  BY <1>6, FinishKeeps, SaveFailsKeeps, SaveAnswerLostKeeps, GetsKeep DEF FaultNext
<1>7. CASE UNCHANGED chatVars
  BY <1>7, SessionSame
<1>8. QED
  BY <1>1, <1>2, <1>3, <1>4, <1>5, <1>6, <1>7 DEF ChatNext

LEMMA ChatStreamInit == ASSUME ChatInit PROVE StreamInv
<1>1. StreamInit
  BY DEF ChatInit, StreamInit
<1>2. QED
  BY <1>1, StreamInvInit

LEMMA ChatStreamNext == ASSUME StreamInv, SessionInv, [ChatNext]_chatVars PROVE StreamInv'
<1>1. CASE Send
  <2>1. PICK a \in user.answers : events' = AnswerEvents(asked', a) /\ Open(Len(events')) /\ asked' = asked + 1
    BY <1>1 DEF Send
  <2>2. a \in Answer /\ asked' \in Nat
    <3>1. user \in User /\ asked \in Nat
      BY DEF SessionInv, TypesInv, SeenInv
    <3>2. QED
      BY <2>1, <3>1 DEF User
  <2>3. Len(events') \in Nat
    BY <2>1, <2>2, AnswerType
  <2>4. QED
    BY <2>1, <2>3, OpenKeeps
<1>2. CASE Leave
  BY <1>2, OpenKeeps DEF Leave
<1>3. CASE Chunk
  BY <1>3, ReadKeeps DEF Chunk
<1>4. CASE UNCHANGED streamVars
  BY <1>4, StreamSame
<1>5. \/ Send \/ Leave \/ Chunk \/ UNCHANGED streamVars
  BY DEF ChatNext, ServerNext, AnswerNext, ReadNext, UserNext, FaultNext, ServeSave, ServeGet, ServeDelete, SaveAnswered,
         GetAnswered, Finish, NewChat, Return, Compose, BrowserNext, OpenSession, DeleteSession, Break, SaveFails, SaveAnswerLost, GetFails,
         Tick, EndSend, rest, chatVars
<1>6. QED
  BY <1>1, <1>2, <1>3, <1>4, <1>5

ChatInv == SessionInv /\ StreamInv /\ BoxInv

LEMMA ChatInvInit == ChatInit => ChatInv
  BY SessionInvInit, ChatStreamInit, BoxInvInit DEF ChatInit, ChatInv

LEMMA ChatInvNext == ChatInv /\ [ChatNext]_chatVars => ChatInv'
  BY SessionInvNext, ChatStreamNext, BoxInvNext DEF ChatInv

(* What a session holds was said with the question that stored it last. *)
LEMMA StoredIs ==
    ASSUME SessionInv, NEW id \in Ids, Last(writers[id]) \notin muddled
    PROVE  /\ id \in Named /\ Last(writers[id]) \in 1..asked /\ Last(writers[id]) \in ToSet(writers[id])
           /\ Asks(store[id]) = Talk(Last(writers[id])) /\ Talk(Last(writers[id])) \in Seq(Nat)
<1>1. id \in Named
  BY DEF SessionInv, TypesInv
<1>2. Last(writers[id]) \in 1..asked /\ Last(writers[id]) \in ToSet(writers[id])
  BY <1>1, WriterIs
<1>3. QED
  BY <1>1, <1>2, TalkIs DEF SessionInv, WritersInv

LEMMA PageIsUpToDate == ASSUME SessionInv PROVE PageUpToDate
<1>1. SUFFICES ASSUME sessionId \in Ids, ~astray, (In(sessionId) \union ToSet(Asks(messages))) \cap muddled = {}
               PROVE  IsPrefix(Asks(store[sessionId]), Asks(messages))
  BY DEF PageUpToDate
<1>2. PICK id : id = sessionId
  OBVIOUS
<1>3. id \in Named
  BY <1>1, <1>2 DEF SessionInv, TypesInv
<1>4. Unmuddled(id) /\ Clean(Page)
  BY <1>1, <1>2 DEF In, Unmuddled, Clean, Page
<1>5. Last(writers[id]) \notin muddled
  BY <1>3, <1>4, WriterIs DEF Unmuddled
<1>6. Asks(store[id]) = Talk(Last(writers[id]))
  BY <1>1, <1>2, <1>5, StoredIs
<1>7. Last(writers[id]) \in Line(id)
  BY <1>1, <1>2 DEF Line, Stored
<1>8. IsPrefix(Talk(Last(writers[id])), Page)
  BY <1>1, <1>2, <1>3, <1>4, <1>7 DEF SessionInv, LineInv, LineOK
<1>9. QED
  BY <1>2, <1>6, <1>8 DEF Page

(* All that is in a session began with the question that stored it first.  *)
LEMMA OneRoot ==
    ASSUME SessionInv, NEW id \in Ids, In(id) \cap muddled = {}
    PROVE  id \in Named /\ \A q \in In(id) : Root(q) = writers[id][1]
<1>1. id \in Named
  BY DEF SessionInv, TypesInv
<1>2. Unmuddled(id)
  BY DEF In, Unmuddled
<1>3. \A m \in ToSet(writers[id]) : Root(m) = writers[id][1]
  BY <1>1, <1>2 DEF SessionInv, RootInv, RootOK
<1>4. Last(writers[id]) \notin muddled
  BY <1>1, <1>2, WriterIs DEF Unmuddled
<1>5. Asks(store[id]) = Talk(Last(writers[id])) /\ Last(writers[id]) \in ToSet(writers[id])
  BY <1>4, StoredIs
<1>6. \A q \in ToSet(Asks(store[id])) : Root(q) = Asks(store[id])[1]
  BY HeldIs DEF SessionInv, HeldInv
<1>7. Root(Last(writers[id])) = Asks(store[id])[1]
  BY <1>5 DEF Root
<1>8. QED
  BY <1>1, <1>3, <1>5, <1>6, <1>7 DEF In

LEMMA HomesAreOne == ASSUME SessionInv PROVE OneHome
<1>1. SUFFICES ASSUME NEW a \in Ids, NEW b \in Ids, a # b, NEW q \in In(a), q \in In(b),
                      (In(a) \union In(b)) \cap muddled = {}
               PROVE  FALSE
  BY DEF OneHome
<1>2. a \in Named /\ b \in Named /\ writers[a][1] = writers[b][1]
  BY <1>1, OneRoot
<1>3. writers[a][1] \in ToSet(writers[a]) /\ writers[b][1] \in ToSet(writers[b])
  BY <1>2, WriterIs
<1>4. QED
  BY <1>1, <1>2, <1>3 DEF SessionInv, WritersInv

LEMMA AllHeld == ASSUME SessionInv PROVE \A ms \in Conversations : Held(ms)
<1>1. ASSUME NEW ms \in Conversations PROVE Held(ms)
  <2>1. IsHeld(Asks(ms))
    BY <1>1 DEF SessionInv, HeldInv, Conversations, Page
  <2>2. Asks(ms) # <<>> => Asks(ms) = Append(seen[Last(Asks(ms))], Last(Asks(ms)))
    BY <2>1, HeldIs DEF SessionInv, Talk
  <2>3. QED
    BY <2>2 DEF Held
<1>2. QED
  BY <1>1

(* Whatever the user clicks, and however the requests of the page are      *)
(* delayed, reordered or lost: each line of an answer that has arrived is  *)
(* handled, and what is shown and stored is a conversation that was held.  *)
(* The page shows all of the session it names and each question is in one  *)
(* session, but where a click met an unanswered request: a question of     *)
(* theirs is muddled then, or the page astray.  Words are sent in their    *)
(* order and no image is mentioned twice (Chat.tsx send, autoSave, App.tsx *)
(* openSession, sessions.go).                                              *)
THEOREM ChatAlwaysSafe == ChatSpec => []ChatSafe
<1>1. ChatInv => ChatSafe
  <2>1. SUFFICES ASSUME ChatInv PROVE ChatSafe
    OBVIOUS
  <2>2. ChatTypeOK
    BY <2>1 DEF ChatInv, SessionInv, TypesInv, SeenInv, ChatTypeOK, Statuses
  <2>3. PageUpToDate /\ OneHome /\ \A ms \in Conversations : Held(ms)
    BY <2>1, PageIsUpToDate, HomesAreOne, AllHeld DEF ChatInv
  <2>4. ArrivedHandled
    BY <2>1 DEF ChatInv, StreamInv
  <2>5. ImagesOnce /\ ListensWhenShown
    BY <2>1 DEF ChatInv, BoxInv, ImagesInv, MicsInv
  <2>6. WordsInOrder
    BY <2>1 DEF ChatInv, BoxInv, WordsInv, Rising, WordsInOrder
  <2>7. QED
    BY <2>2, <2>3, <2>4, <2>5, <2>6 DEF ChatSafe
<1>2. QED
  BY ChatInvInit, ChatInvNext, <1>1, PTL DEF ChatSpec

(* A save that is not late, of a session nothing of which is muddled, adds *)
(* to it: both questions are in the session's line.                        *)
LEMMA SaveAdds ==
    ASSUME SessionInv, NEW v \in saves, ServeSave(v), SessionInv', NEW id \in Ids, id \in Ids',
           In(id)' \cap muddled' = {}, ~(Last(writers'[id]) < Last(writers[id]))
    PROVE  IsPrefix(Asks(store[id]), Asks(store'[id]))
<1>1. PICK i, ws : i = IdOf(v) /\ ws = Writers(i)
  OBVIOUS
<1>2. /\ ~v.served /\ store' = Put(store, i, v.msgs) /\ writers' = Put(writers, i, Append(ws, v.ask))
      /\ muddled' = (IF v.sid = NoId /\ second \in Named THEN muddled \union {v.ask} ELSE muddled)
  BY <1>1 DEF ServeSave
<1>3. id \in Named /\ writers[id] \in Seq(Nat) /\ Last(writers[id]) \in ToSet(writers[id]) /\ ToSet(writers[id]) \subseteq 1..asked
  BY WriterIs DEF SessionInv, TypesInv
<1>4. v.ask \in 1..asked /\ (\A n \in Named : v.ask \notin ToSet(writers[n])) /\ (v.ask \notin muddled => Asks(v.msgs) = Talk(v.ask))
  BY <1>2 DEF SessionInv, SaveInv, SaveOK
<1>5. Asks(store[id]) \in Seq(Nat)
  BY HeldIs DEF SessionInv, HeldInv
<1>6. CASE id # i
  BY <1>2, <1>5, <1>6, PrefixSelf DEF Put, Ids
<1>7. CASE id = i
  <2>1. store'[id] = v.msgs /\ writers'[id] = Append(ws, v.ask) /\ ws = writers[id]
    BY <1>1, <1>2, <1>3, <1>7 DEF Put, Ids, Named, Writers
  <2>2. asked \in Nat /\ v.ask \in Nat
    BY <1>4 DEF SessionInv, SeenInv
  <2>3. Last(writers'[id]) = v.ask /\ ToSet(writers'[id]) = ToSet(writers[id]) \union {v.ask}
    BY <1>3, <2>1, <2>2, AppendOf
  <2>4. \A q \in ToSet(writers'[id]) \union ToSet(Asks(store'[id])) : q \notin muddled'
    BY DEF In
  <2>5. v.ask \notin muddled' /\ muddled' = muddled /\ Unmuddled(id) /\ v.sid # NoId
    <3>1. v.ask \notin muddled' /\ muddled \subseteq muddled'
      BY <1>2, <2>3, <2>4
    <3>2. v.sid = NoId => second = i /\ i \in Named
      BY <1>1, <1>3, <1>7 DEF IdOf
    <3>3. QED
      BY <1>2, <2>3, <2>4, <3>1, <3>2 DEF Unmuddled
  <2>6. v.ask \in Line(id) /\ Last(writers[id]) \in Line(id)
    <3>1. v.sid = id
      BY <1>1, <1>7, <2>5 DEF IdOf
    <3>2. v.ask \in Saving(id)
      BY <1>2, <2>5, <3>1 DEF Saving
    <3>3. QED
      BY <3>2 DEF Line, Coming, Stored
  <2>7. Asks(store[id]) = Talk(Last(writers[id])) /\ Asks(store'[id]) = Talk(v.ask)
    BY <1>3, <1>4, <2>1, <2>5, StoredIs DEF Unmuddled
  <2>8. Last(writers[id]) < v.ask
    <3>1. Last(writers[id]) # v.ask /\ Last(writers[id]) \in 1..asked
      BY <1>3, <1>4
    <3>2. QED
      BY <1>4, <2>2, <2>3, <3>1
  <2>9. Clean(Talk(v.ask))
    BY <2>4, <2>5, <2>7 DEF Clean
  <2>10. LineOK(id)
    BY <1>3, <2>5 DEF SessionInv, LineInv
  <2>11. QED
    BY <2>6, <2>7, <2>8, <2>9, <2>10 DEF LineOK
<1>8. QED
  BY <1>6, <1>7

(* No save takes a question out of a session: only a deletion does, or the *)
(* one muddled, or a save that comes late (SessionStore.Save, which        *)
(* replaces the file).                                                     *)
THEOREM ChatNothingLost == ChatSpec => NothingLost
<1> DEFINE Kept == \A id \in Ids \cap DOMAIN store' :
                       \/ In(id)' \cap muddled' # {}
                       \/ Last(writers'[id]) < Last(writers[id])
                       \/ IsPrefix(Asks(store[id]), Asks(store'[id]))
<1>1. ChatInv /\ [ChatNext]_chatVars => [Kept]_chatVars
  <2>1. SUFFICES ASSUME ChatInv, ChatNext PROVE Kept
    OBVIOUS
  <2>2. SessionInv /\ SessionInv'
    BY <2>1, ChatInvNext DEF ChatInv
  <2>3. CASE \E v \in saves : ServeSave(v)
    BY <2>2, <2>3, SaveAdds DEF Ids
  <2>4. CASE \A id \in Ids \cap DOMAIN store' : store'[id] = store[id]
    <3>1. \A id \in Ids : Asks(store[id]) \in Seq(Nat)
      BY <2>2, HeldIs DEF SessionInv, HeldInv
    <3>2. QED
      BY <2>4, <3>1, PrefixSelf
  <2>5. (\E v \in saves : ServeSave(v)) \/ (\E id \in deletes : ServeDelete(id)) \/ UNCHANGED store
    BY <2>1 DEF ChatNext, ServerNext, AnswerNext, ReadNext, UserNext, FaultNext, ServeGet, SaveAnswered, Send, Leave, Chunk,
         GetAnswered, Finish, NewChat, Return, Compose, BrowserNext, OpenSession, DeleteSession, Break, SaveFails, SaveAnswerLost, GetFails,
         Tick, serverVars
  <2>6. CASE \E id \in deletes : ServeDelete(id)
    BY <2>4, <2>6 DEF ServeDelete
  <2>7. QED
    BY <2>3, <2>4, <2>5, <2>6
<1>2. QED
  BY ChatInvInit, ChatInvNext, <1>1, PTL DEF ChatSpec, NothingLost

-----------------------------------------------------------------------------
(* Places of a sequence, taken one after the other. *)

PlacesOf(s, P) == [i \in DOMAIN s |-> IF i \in P THEN <<s[i]>> ELSE <<>>]

LEMMA PlacesType ==
    ASSUME NEW T, NEW s \in Seq(T), NEW P
    PROVE  PlacesOf(s, P) \in Seq(Seq(T)) /\ Len(PlacesOf(s, P)) = Len(s)
<1>1. Len(s) \in Nat /\ DOMAIN s = 1..Len(s) /\ \A i \in 1..Len(s) : s[i] \in T
  BY LenProperties, ElementOfSeq
<1>2. \A i \in 1..Len(s) : (IF i \in P THEN <<s[i]>> ELSE <<>>) \in Seq(T)
  <2>1. ASSUME NEW i \in 1..Len(s) PROVE <<s[i]>> \in Seq(T)
    BY <1>1
  <2>2. QED
    BY <2>1, EmptySeq
<1>3. PlacesOf(s, P) \in [1..Len(s) -> Seq(T)]
  BY <1>1, <1>2 DEF PlacesOf
<1>4. QED
  BY <1>1, <1>3

LEMMA AtAppend ==
    ASSUME NEW T, NEW s \in Seq(T), NEW e \in T, NEW P
    PROVE  At(Append(s, e), P) = IF Len(s) + 1 \in P THEN Append(At(s, P), e) ELSE At(s, P)
<1> DEFINE one == IF Len(s) + 1 \in P THEN <<e>> ELSE <<>>
<1>1. Append(s, e) \in Seq(T) /\ Len(Append(s, e)) = Len(s) + 1 /\ Len(s) \in Nat
      /\ (\A i \in 1..Len(s) : Append(s, e)[i] = s[i]) /\ DOMAIN s = 1..Len(s)
  BY AppendProperties, LenProperties
<1>2. Append(s, e)[Len(s) + 1] = e /\ DOMAIN Append(s, e) = 1..(Len(s) + 1)
  BY <1>1, LenProperties
<1>3. one \in Seq(T)
  <2>1. <<e>> \in Seq(T)
    OBVIOUS
  <2>2. QED
    BY <2>1, EmptySeq
<1>4. PlacesOf(s, P) \in Seq(Seq(T)) /\ PlacesOf(Append(s, e), P) \in Seq(Seq(T))
      /\ Append(PlacesOf(s, P), one) \in Seq(Seq(T)) /\ Len(PlacesOf(s, P)) = Len(s)
      /\ Len(PlacesOf(Append(s, e), P)) = Len(s) + 1
  BY <1>1, <1>3, PlacesType, AppendProperties
<1>5. PlacesOf(Append(s, e), P) = Append(PlacesOf(s, P), one)
  <2>1. Len(Append(PlacesOf(s, P), one)) = Len(s) + 1
    BY <1>3, <1>4, AppendProperties
  <2>2. \A i \in 1..Len(s) : Append(PlacesOf(s, P), one)[i] = PlacesOf(s, P)[i]
    BY <1>3, <1>4, AppendProperties
  <2>3. Append(PlacesOf(s, P), one)[Len(s) + 1] = one
    BY <1>4
  <2>4. ASSUME NEW i \in 1..(Len(s) + 1) PROVE PlacesOf(Append(s, e), P)[i] = Append(PlacesOf(s, P), one)[i]
    <3>1. CASE i = Len(s) + 1
      BY <1>1, <1>2, <2>3, <3>1 DEF PlacesOf
    <3>2. CASE i # Len(s) + 1
      <4>1. i \in 1..Len(s)
        BY <1>1, <3>2
      <4>2. QED
        BY <1>1, <1>2, <2>2, <4>1 DEF PlacesOf
    <3>3. QED
      BY <3>1, <3>2
  <2> HIDE DEF one
  <2>5. QED
    BY <1>4, <2>1, <2>4, SeqEqual
<1>6. At(Append(s, e), P) = FlattenSeq(PlacesOf(s, P)) \o one
  <2> HIDE DEF one
  <2> QED BY <1>3, <1>4, <1>5, FlattenAppend DEF At, PlacesOf
<1>7. FlattenSeq(PlacesOf(s, P)) = At(s, P) /\ At(s, P) \in Seq(T)
  BY AtType DEF At, PlacesOf
<1>8. QED
  BY <1>1, <1>6, <1>7, AppendIsConcat, ConcatEmptySeq

LEMMA AtSame ==
    ASSUME NEW T, NEW s \in Seq(T), NEW P, NEW Q, \A i \in 1..Len(s) : i \in P <=> i \in Q
    PROVE  At(s, P) = At(s, Q)
<1>1. DOMAIN s = 1..Len(s)
  BY LenProperties
<1>2. [i \in DOMAIN s |-> IF i \in P THEN <<s[i]>> ELSE <<>>] = [i \in DOMAIN s |-> IF i \in Q THEN <<s[i]>> ELSE <<>>]
  BY <1>1
<1>3. QED
  BY <1>2 DEF At

LEMMA AtNothing == At(<<>>, {}) = <<>>
<1>1. [i \in DOMAIN <<>> |-> IF i \in {} THEN <<<<>>[i]>> ELSE <<>>] = <<>>
  OBVIOUS
<1>2. QED
  BY <1>1, FlattenEmpty DEF At

LEMMA AtNone == ASSUME NEW T, NEW s \in Seq(T) PROVE At(s, {}) = <<>>
<1> DEFINE S == {r \in Seq(T) : At(r, {}) = <<>>}
<1>1. <<>> \in S
  BY AtNothing, EmptySeq
<1>2. ASSUME NEW r \in Seq(T), NEW e \in T, r \in S PROVE Append(r, e) \in S
  <2>1. At(Append(r, e), {}) = At(r, {}) /\ Append(r, e) \in Seq(T)
    BY AtAppend, AppendProperties
  <2>2. QED
    BY <1>2, <2>1
<1>3. \A r \in Seq(T) : r \in S
  <2> HIDE DEF S
  <2> QED BY <1>1, <1>2, EverySequence
<1>4. QED
  BY <1>3

LEMMA AtNext ==
    ASSUME NEW T, NEW s \in Seq(T), NEW l \in 1..Len(s), NEW P, P \subseteq 1..(l - 1)
    PROVE  At(s, P \union {l}) = Append(At(s, P), s[l])
<1> DEFINE S == {r \in Seq(T) : \A n \in 1..Len(r) : \A Q \in SUBSET (1..(n - 1)) : At(r, Q \union {n}) = Append(At(r, Q), r[n])}
<1>1. <<>> \in S
  <2>1. Len(<<>>) = 0 /\ <<>> \in Seq(T)
    BY EmptySeq
  <2>2. 1..0 = {}
    OBVIOUS
  <2>3. QED
    BY <2>1, <2>2
<1>2. ASSUME NEW r \in Seq(T), NEW e \in T, r \in S PROVE Append(r, e) \in S
  <2>1. Append(r, e) \in Seq(T) /\ Len(Append(r, e)) = Len(r) + 1 /\ Len(r) \in Nat
        /\ (\A i \in 1..Len(r) : Append(r, e)[i] = r[i]) /\ Append(r, e)[Len(r) + 1] = e
    BY AppendProperties, LenProperties
  <2>2. ASSUME NEW n \in 1..(Len(r) + 1), NEW Q \in SUBSET (1..(n - 1))
        PROVE  At(Append(r, e), Q \union {n}) = Append(At(Append(r, e), Q), Append(r, e)[n])
    <3>1. Len(r) + 1 \notin Q
      BY <2>1
    <3>2. At(Append(r, e), Q) = At(r, Q)
      BY <3>1, AtAppend
    <3>3. CASE n = Len(r) + 1
      <4>1. \A i \in 1..Len(r) : i \in Q \union {n} <=> i \in Q
        BY <2>1, <3>3
      <4>2. At(r, Q \union {n}) = At(r, Q)
        BY <4>1, AtSame
      <4>3. Len(r) + 1 \in Q \union {n}
        BY <3>3
      <4>4. At(Append(r, e), Q \union {n}) = Append(At(r, Q \union {n}), e)
        BY <4>3, AtAppend
      <4>5. QED
        BY <2>1, <3>2, <3>3, <4>2, <4>4
    <3>4. CASE n # Len(r) + 1
      <4>1. n \in 1..Len(r) /\ Len(r) + 1 \notin Q \union {n}
        BY <2>1, <3>1, <3>4
      <4>2. At(Append(r, e), Q \union {n}) = At(r, Q \union {n})
        BY <4>1, AtAppend
      <4>3. At(r, Q \union {n}) = Append(At(r, Q), r[n])
        BY <1>2, <4>1
      <4>4. QED
        BY <2>1, <3>2, <4>1, <4>2, <4>3
    <3>5. QED
      BY <3>3, <3>4
  <2>3. QED
    BY <2>1, <2>2
<1>3. \A r \in Seq(T) : r \in S
  <2> HIDE DEF S
  <2> QED BY <1>1, <1>2, EverySequence
<1>4. QED
  BY <1>3

(* A stretch of a sequence. *)
LEMMA AtStretch ==
    ASSUME NEW T, NEW s \in Seq(T), NEW a \in Nat, NEW b \in Nat, a <= b, b <= Len(s)
    PROVE  /\ At(s, (a + 1)..b) \in Seq(T) /\ Len(At(s, (a + 1)..b)) = b - a
           /\ \A i \in 1..(b - a) : At(s, (a + 1)..b)[i] = s[a + i]
<1> DEFINE Is(n) == /\ Len(At(s, (a + 1)..(a + n))) = n
                    /\ \A i \in 1..n : At(s, (a + 1)..(a + n))[i] = s[a + i]
           S == {n \in 0..(b - a) : Is(n)}
<1>1. Len(s) \in Nat /\ b - a \in Nat /\ a + (b - a) = b
  BY LenProperties
<1>2. 0 \in S
  <2>1. (a + 1)..(a + 0) = {}
    OBVIOUS
  <2>2. At(s, (a + 1)..(a + 0)) = <<>>
    BY <2>1, AtNone
  <2>3. Len(<<>>) = 0
    OBVIOUS
  <2>4. Is(0)
    BY <2>2, <2>3
  <2>5. QED
    BY <1>1, <2>4
<1>3. ASSUME NEW n \in 0..((b - a) - 1), n \in S PROVE n + 1 \in S
  <2>1. n \in Nat /\ a + (n + 1) \in 1..Len(s) /\ (a + 1)..(a + n) \subseteq 1..((a + (n + 1)) - 1)
        /\ (a + 1)..(a + (n + 1)) = (a + 1)..(a + n) \union {a + (n + 1)} /\ n + 1 \in 0..(b - a)
    BY <1>1
  <2>2. At(s, (a + 1)..(a + (n + 1))) = Append(At(s, (a + 1)..(a + n)), s[a + (n + 1)])
    BY <2>1, AtNext
  <2>3. PICK t : t = At(s, (a + 1)..(a + n))
    OBVIOUS
  <2>4. t \in Seq(T) /\ s[a + (n + 1)] \in T /\ Len(t) = n /\ \A i \in 1..n : t[i] = s[a + i]
    BY <1>3, <2>1, <2>3, AtType, ElementOfSeq
  <2>5. Len(Append(t, s[a + (n + 1)])) = n + 1 /\ (\A i \in 1..n : Append(t, s[a + (n + 1)])[i] = s[a + i])
        /\ Append(t, s[a + (n + 1)])[n + 1] = s[a + (n + 1)]
    BY <2>4, AppendProperties
  <2>6. \A i \in 1..(n + 1) : i \in 1..n \/ i = n + 1
    BY <2>1
  <2>7. Is(n + 1)
    BY <2>2, <2>3, <2>5, <2>6
  <2>8. QED
    BY <2>1, <2>7
<1>4. \A n \in 0..(b - a) : n \in S
  <2> HIDE DEF S
  <2> QED BY <1>1, <1>2, <1>3, Upwards
<1>5. b - a \in S
  <2> HIDE DEF S
  <2> QED BY <1>1, <1>4
<1>6. Is(b - a)
  <2> HIDE DEF Is
  <2> QED BY <1>5
<1>7. QED
  BY <1>1, <1>6, AtType
-----------------------------------------------------------------------------
(* The pieces of an answer among the contents of messages. *)

AnyPieces == Pieces \union {<<"typed", n>> : n \in Nat}
Mine(c, n) == {j \in DOMAIN c : Len(c[j]) = 3 /\ c[j][2] = n}
Own(p, n) == Len(p) = 3 /\ p[2] = n
PiecesIn(c, n) == At(c, Mine(c, n))
PiecesAt(ms, n) == [i \in DOMAIN ms |-> PiecesIn(ms[i].content, n)]

LEMMA ContentType == ASSUME NEW m \in Messages PROVE m.content \in Seq(AnyPieces)
<1>1. CASE m \in Bubbles
  <2>1. m.content \in Seq(Pieces) /\ Pieces \subseteq AnyPieces
    BY <1>1 DEF Bubbles, AnyPieces
  <2>2. QED
    BY <2>1, SeqMonotonic
<1>2. CASE m \in Questions
  <2>1. PICK n \in Nat : m = UserMessage(n)
    BY <1>2 DEF Questions
  <2>2. m.content = <<<<"typed", n>>>> /\ <<"typed", n>> \in AnyPieces
    BY <2>1 DEF UserMessage, AnyPieces
  <2>3. QED
    BY <2>2
<1>3. QED
  BY <1>1, <1>2 DEF Messages

LEMMA PiecesInType == ASSUME NEW c \in Seq(AnyPieces), NEW n PROVE PiecesIn(c, n) \in Seq(AnyPieces)
  BY AtType DEF PiecesIn

LEMMA PiecesInAppend ==
    ASSUME NEW c \in Seq(AnyPieces), NEW p \in AnyPieces, NEW n
    PROVE  PiecesIn(Append(c, p), n) = IF Own(p, n) THEN Append(PiecesIn(c, n), p) ELSE PiecesIn(c, n)
<1>1. Append(c, p) \in Seq(AnyPieces) /\ Len(Append(c, p)) = Len(c) + 1 /\ Len(c) \in Nat
      /\ (\A i \in 1..Len(c) : Append(c, p)[i] = c[i]) /\ DOMAIN c = 1..Len(c)
  BY AppendProperties, LenProperties
<1>2. Append(c, p)[Len(c) + 1] = p /\ DOMAIN Append(c, p) = 1..(Len(c) + 1)
  BY <1>1, LenProperties
<1>3. \A i \in 1..Len(c) : i \in Mine(Append(c, p), n) <=> i \in Mine(c, n)
  BY <1>1, <1>2 DEF Mine
<1>4. At(c, Mine(Append(c, p), n)) = At(c, Mine(c, n))
  BY <1>3, AtSame
<1>5. Len(c) + 1 \in Mine(Append(c, p), n) <=> Own(p, n)
  BY <1>1, <1>2 DEF Mine, Own
<1>6. PiecesIn(Append(c, p), n) =
          IF Len(c) + 1 \in Mine(Append(c, p), n) THEN Append(At(c, Mine(Append(c, p), n)), p)
          ELSE At(c, Mine(Append(c, p), n))
  BY AtAppend DEF PiecesIn
<1>7. QED
  BY <1>4, <1>5, <1>6 DEF PiecesIn

LEMMA PiecesInNothing == ASSUME NEW n PROVE PiecesIn(<<>>, n) = <<>>
<1>1. Mine(<<>>, n) = {}
  BY DEF Mine
<1>2. QED
  BY <1>1, AtNothing DEF PiecesIn

LEMMA PiecesAtType ==
    ASSUME NEW ms \in Seq(Messages), NEW n
    PROVE  PiecesAt(ms, n) \in Seq(Seq(AnyPieces)) /\ Len(PiecesAt(ms, n)) = Len(ms)
<1>1. Len(ms) \in Nat /\ DOMAIN ms = 1..Len(ms) /\ \A i \in 1..Len(ms) : ms[i] \in Messages
  BY LenProperties, ElementOfSeq
<1>2. \A i \in 1..Len(ms) : PiecesIn(ms[i].content, n) \in Seq(AnyPieces)
  BY <1>1, ContentType, PiecesInType
<1>3. PiecesAt(ms, n) \in [1..Len(ms) -> Seq(AnyPieces)]
  BY <1>1, <1>2 DEF PiecesAt
<1>4. QED
  BY <1>1, <1>3

LEMMA PiecesOfIs == \A ms, n : PiecesOf(ms, n) = FlattenSeq(PiecesAt(ms, n))
  BY DEF PiecesOf, PiecesAt, PiecesIn, Mine

LEMMA PiecesOfAppend ==
    ASSUME NEW ms \in Seq(Messages), NEW m \in Messages, NEW n
    PROVE  /\ PiecesOf(ms, n) \in Seq(AnyPieces)
           /\ PiecesOf(Append(ms, m), n) = PiecesOf(ms, n) \o PiecesIn(m.content, n)
<1>1. Append(ms, m) \in Seq(Messages) /\ Len(Append(ms, m)) = Len(ms) + 1 /\ Len(ms) \in Nat
      /\ (\A i \in 1..Len(ms) : Append(ms, m)[i] = ms[i]) /\ DOMAIN ms = 1..Len(ms)
  BY AppendProperties, LenProperties
<1>2. Append(ms, m)[Len(ms) + 1] = m /\ DOMAIN Append(ms, m) = 1..(Len(ms) + 1)
  BY <1>1, LenProperties
<1>3. PICK one : one = PiecesIn(m.content, n)
  OBVIOUS
<1>4. one \in Seq(AnyPieces)
  BY <1>3, ContentType, PiecesInType
<1>5. PiecesAt(ms, n) \in Seq(Seq(AnyPieces)) /\ PiecesAt(Append(ms, m), n) \in Seq(Seq(AnyPieces))
      /\ Append(PiecesAt(ms, n), one) \in Seq(Seq(AnyPieces)) /\ Len(PiecesAt(ms, n)) = Len(ms)
      /\ Len(PiecesAt(Append(ms, m), n)) = Len(ms) + 1
  BY <1>1, <1>4, PiecesAtType, AppendProperties
<1>6. PiecesAt(Append(ms, m), n) = Append(PiecesAt(ms, n), one)
  <2>1. Len(Append(PiecesAt(ms, n), one)) = Len(ms) + 1
    BY <1>4, <1>5, AppendProperties
  <2>2. \A i \in 1..Len(ms) : Append(PiecesAt(ms, n), one)[i] = PiecesAt(ms, n)[i]
    BY <1>4, <1>5, AppendProperties
  <2>3. Append(PiecesAt(ms, n), one)[Len(ms) + 1] = one
    BY <1>5
  <2>4. ASSUME NEW i \in 1..(Len(ms) + 1) PROVE PiecesAt(Append(ms, m), n)[i] = Append(PiecesAt(ms, n), one)[i]
    <3>1. CASE i = Len(ms) + 1
      BY <1>1, <1>2, <1>3, <2>3, <3>1 DEF PiecesAt
    <3>2. CASE i # Len(ms) + 1
      <4>1. i \in 1..Len(ms)
        BY <1>1, <3>2
      <4>2. QED
        BY <1>1, <1>2, <2>2, <4>1 DEF PiecesAt
    <3>3. QED
      BY <3>1, <3>2
  <2>5. QED
    BY <1>5, <2>1, <2>4, SeqEqual
<1>7. FlattenSeq(PiecesAt(ms, n)) \in Seq(AnyPieces)
      /\ FlattenSeq(Append(PiecesAt(ms, n), one)) = FlattenSeq(PiecesAt(ms, n)) \o one
  BY <1>4, <1>5, FlattenAppend, FlattenType
<1>8. QED
  BY <1>3, <1>6, <1>7, PiecesOfIs

LEMMA PiecesOfNothing == ASSUME NEW n PROVE PiecesOf(<<>>, n) = <<>>
<1>1. PiecesAt(<<>>, n) = <<>>
  BY DEF PiecesAt
<1>2. QED
  BY <1>1, PiecesOfIs, FlattenEmpty

(* What changes no content changes no pieces. *)
LEMMA PiecesOfSame ==
    ASSUME NEW ms \in Seq(Messages), NEW mt \in Seq(Messages), Len(mt) = Len(ms),
           \A i \in 1..Len(ms) : mt[i].content = ms[i].content, NEW n
    PROVE  PiecesOf(mt, n) = PiecesOf(ms, n)
<1>1. DOMAIN ms = 1..Len(ms) /\ DOMAIN mt = 1..Len(ms)
  BY LenProperties
<1>2. PiecesAt(mt, n) = PiecesAt(ms, n)
  BY <1>1 DEF PiecesAt
<1>3. QED
  BY <1>2, PiecesOfIs

(* A piece put at the end of the last message is the last of its answer.   *)
LEMMA PiecesOfLonger ==
    ASSUME NEW ms \in Seq(Messages), NEW m \in Messages, NEW mt \in Messages, NEW p \in AnyPieces, NEW n,
           mt.content = Append(m.content, p)
    PROVE  PiecesOf(Append(ms, mt), n) = IF Own(p, n) THEN Append(PiecesOf(Append(ms, m), n), p)
                                         ELSE PiecesOf(Append(ms, m), n)
<1>1. PICK a, b : a = PiecesOf(ms, n) /\ b = PiecesIn(m.content, n)
  OBVIOUS
<1>2. a \in Seq(AnyPieces) /\ b \in Seq(AnyPieces) /\ m.content \in Seq(AnyPieces)
  BY <1>1, PiecesOfAppend, ContentType, PiecesInType
<1>3. PiecesOf(Append(ms, m), n) = a \o b
  BY <1>1, PiecesOfAppend
<1>4. PiecesOf(Append(ms, mt), n) = a \o (IF Own(p, n) THEN Append(b, p) ELSE b)
  <2>1. PiecesOf(Append(ms, mt), n) = a \o PiecesIn(mt.content, n)
    BY <1>1, PiecesOfAppend
  <2>2. PiecesIn(mt.content, n) = IF Own(p, n) THEN Append(b, p) ELSE b
    <3>1. PICK c : c = m.content
      OBVIOUS
    <3>2. PiecesIn(Append(c, p), n) = IF Own(p, n) THEN Append(PiecesIn(c, n), p) ELSE PiecesIn(c, n)
      BY <1>2, <3>1, PiecesInAppend
    <3>3. QED
      BY <1>1, <3>1, <3>2
  <2>3. QED
    BY <2>1, <2>2
<1>5. a \o Append(b, p) = Append(a \o b, p)
  BY <1>2
<1>6. QED
  BY <1>3, <1>4, <1>5

LEMMA NoPieces ==
    ASSUME NEW n, NEW c \in Seq(AnyPieces), \A j \in 1..Len(c) : ~Own(c[j], n)
    PROVE  PiecesIn(c, n) = <<>>
<1>1. DOMAIN c = 1..Len(c)
  BY LenProperties
<1>2. Mine(c, n) = {}
  BY <1>1 DEF Mine, Own
<1>3. QED
  BY <1>2, AtNone DEF PiecesIn

LEMMA NoPiecesOf ==
    ASSUME NEW ms \in Seq(Messages), NEW n, \A i \in 1..Len(ms) : PiecesIn(ms[i].content, n) = <<>>
    PROVE  PiecesOf(ms, n) = <<>>
<1> DEFINE None(r) == \A i \in 1..Len(r) : PiecesIn(r[i].content, n) = <<>>
           S == {r \in Seq(Messages) : None(r) => PiecesOf(r, n) = <<>>}
<1>1. <<>> \in S
  BY PiecesOfNothing, EmptySeq
<1>2. ASSUME NEW r \in Seq(Messages), NEW m \in Messages, r \in S PROVE Append(r, m) \in S
  <2>1. Append(r, m) \in Seq(Messages) /\ Len(Append(r, m)) = Len(r) + 1 /\ Len(r) \in Nat
        /\ (\A i \in 1..Len(r) : Append(r, m)[i] = r[i]) /\ Append(r, m)[Len(r) + 1] = m
    BY AppendProperties, LenProperties
  <2>2. ASSUME None(Append(r, m)) PROVE None(r) /\ PiecesIn(m.content, n) = <<>>
    <3>1. \A i \in 1..Len(r) : i \in 1..(Len(r) + 1)
      BY <2>1
    <3>2. Len(r) + 1 \in 1..(Len(r) + 1)
      BY <2>1
    <3>3. QED
      BY <2>1, <2>2, <3>1, <3>2
  <2>3. PiecesOf(Append(r, m), n) = PiecesOf(r, n) \o PiecesIn(m.content, n) /\ PiecesOf(r, n) \in Seq(AnyPieces)
    BY PiecesOfAppend
  <2> HIDE DEF None
  <2>4. ASSUME None(Append(r, m)) PROVE PiecesOf(Append(r, m), n) = <<>>
    <3>1. PiecesOf(r, n) = <<>>
      BY <1>2, <2>2, <2>4
    <3>2. <<>> \o <<>> = <<>>
      OBVIOUS
    <3>3. QED
      BY <2>2, <2>3, <2>4, <3>1, <3>2
  <2>5. QED
    BY <2>1, <2>4
<1>3. \A r \in Seq(Messages) : r \in S
  <2> HIDE DEF S
  <2> QED BY <1>1, <1>2, EverySequence
<1>4. None(ms) => PiecesOf(ms, n) = <<>>
  <2> HIDE DEF None
  <2> QED BY <1>3
<1>5. QED
  BY <1>4
-----------------------------------------------------------------------------
(* The question a message stands under. *)

LEMMA UnderIs ==
    ASSUME NEW ms, NEW i \in Nat
    PROVE  \/ Under(ms, i) = 0 /\ \A j \in 1..i : ~IsAsk(ms[j])
           \/ \E j \in 1..i : IsAsk(ms[j]) /\ Under(ms, i) = Ask(ms[j]) /\ \A k \in 1..i : IsAsk(ms[k]) => k <= j
<1> DEFINE before == {j \in 1..i : IsAsk(ms[j])}
<1>1. CASE before = {}
  BY <1>1 DEF Under
<1>2. CASE before # {}
  <2>1. before \subseteq 1..i
    OBVIOUS
  <2>2. PICK j : j = Max(before)
    OBVIOUS
  <2>3. j \in before /\ \A k \in before : k <= j
    <3> HIDE DEF before
    <3> QED BY <1>2, <2>1, <2>2, MaxIn
  <2>4. Under(ms, i) = Ask(ms[j])
    BY <1>2, <2>2 DEF Under
  <2>5. QED
    BY <2>3, <2>4
<1>3. QED
  BY <1>1, <1>2

LEMMA UnderSame ==
    ASSUME NEW ms, NEW mt, NEW i \in Nat,
           \A j \in 1..i : (IsAsk(mt[j]) <=> IsAsk(ms[j])) /\ (IsAsk(ms[j]) => Ask(mt[j]) = Ask(ms[j]))
    PROVE  Under(mt, i) = Under(ms, i)
<1>1. CASE Under(ms, i) = 0 /\ \A j \in 1..i : ~IsAsk(ms[j])
  <2>1. \A j \in 1..i : ~IsAsk(mt[j])
    BY <1>1
  <2>2. QED
    BY <1>1, <2>1, UnderIs
<1>2. CASE \E j \in 1..i : IsAsk(ms[j]) /\ Under(ms, i) = Ask(ms[j]) /\ \A k \in 1..i : IsAsk(ms[k]) => k <= j
  <2>1. PICK j \in 1..i : IsAsk(ms[j]) /\ Under(ms, i) = Ask(ms[j]) /\ \A k \in 1..i : IsAsk(ms[k]) => k <= j
    BY <1>2
  <2>2. PICK l \in 1..i : IsAsk(mt[l]) /\ Under(mt, i) = Ask(mt[l]) /\ \A k \in 1..i : IsAsk(mt[k]) => k <= l
    <3>1. IsAsk(mt[j])
      BY <2>1
    <3>2. QED
      BY <3>1, UnderIs
  <2>3. l <= j /\ j <= l
    BY <2>1, <2>2
  <2>4. l = j
    BY <2>3
  <2>5. QED
    BY <2>1, <2>2, <2>4
<1>3. QED
  BY <1>1, <1>2, UnderIs

LEMMA UnderAppend ==
    ASSUME NEW ms \in Seq(Messages), NEW m \in Messages
    PROVE  /\ \A i \in 0..Len(ms) : Under(Append(ms, m), i) = Under(ms, i)
           /\ Under(Append(ms, m), Len(ms) + 1) = IF IsAsk(m) THEN Ask(m) ELSE Under(ms, Len(ms))
<1> DEFINE mt == Append(ms, m)
<1>1. Len(ms) \in Nat /\ (\A i \in 1..Len(ms) : mt[i] = ms[i]) /\ mt[Len(ms) + 1] = m
  BY AppendProperties, LenProperties
<1> HIDE DEF mt
<1>2. ASSUME NEW i \in 0..Len(ms) PROVE Under(mt, i) = Under(ms, i)
  <2>1. i \in Nat /\ \A j \in 1..i : mt[j] = ms[j]
    BY <1>1
  <2>2. QED
    BY <2>1, UnderSame
<1>3. CASE IsAsk(m)
  <2>1. Len(ms) + 1 \in 1..(Len(ms) + 1) /\ Len(ms) + 1 \in Nat /\ IsAsk(mt[Len(ms) + 1])
    BY <1>1, <1>3
  <2>2. PICK j \in 1..(Len(ms) + 1) : Under(mt, Len(ms) + 1) = Ask(mt[j]) /\ \A k \in 1..(Len(ms) + 1) : IsAsk(mt[k]) => k <= j
    BY <2>1, UnderIs
  <2>3. j = Len(ms) + 1
    BY <1>1, <2>1, <2>2
  <2>4. QED
    BY <1>1, <1>2, <1>3, <2>2, <2>3 DEF mt
<1>4. CASE ~IsAsk(m)
  <2>1. Len(ms) + 1 \in Nat
    BY <1>1
  <2>2. Under(mt, Len(ms) + 1) = Under(mt, Len(ms))
    <3>1. CASE \A j \in 1..(Len(ms) + 1) : ~IsAsk(mt[j])
      <4>1. Under(mt, Len(ms) + 1) = 0
        BY <2>1, <3>1, UnderIs
      <4>2. \A j \in 1..Len(ms) : ~IsAsk(mt[j])
        BY <1>1, <3>1
      <4>3. Under(mt, Len(ms)) = 0
        BY <1>1, <4>2, UnderIs
      <4>4. QED
        BY <4>1, <4>3
    <3>2. CASE ~\A j \in 1..(Len(ms) + 1) : ~IsAsk(mt[j])
      <4>1. PICK j \in 1..(Len(ms) + 1) : /\ IsAsk(mt[j]) /\ Under(mt, Len(ms) + 1) = Ask(mt[j])
                                          /\ \A k \in 1..(Len(ms) + 1) : IsAsk(mt[k]) => k <= j
        BY <2>1, <3>2, UnderIs
      <4>2. j \in 1..Len(ms)
        BY <1>1, <1>4, <4>1
      <4>3. PICK l \in 1..Len(ms) : /\ IsAsk(mt[l]) /\ Under(mt, Len(ms)) = Ask(mt[l])
                                    /\ \A k \in 1..Len(ms) : IsAsk(mt[k]) => k <= l
        BY <1>1, <4>1, <4>2, UnderIs
      <4>4. l = j
        BY <1>1, <4>1, <4>2, <4>3
      <4>5. QED
        BY <4>1, <4>3, <4>4
    <3>3. QED
      BY <3>1, <3>2
  <2>3. Under(mt, Len(ms)) = Under(ms, Len(ms))
    BY <1>1, <1>2
  <2>4. QED
    BY <1>2, <1>4, <2>2, <2>3 DEF mt
<1>5. QED
  BY <1>3, <1>4

LEMMA UnderLast ==
    ASSUME NEW ms \in Seq(Messages)
    PROVE  Asks(ms) # <<>> => Under(ms, Len(ms)) = Last(Asks(ms))
<1> DEFINE S == {r \in Seq(Messages) : Asks(r) # <<>> => Under(r, Len(r)) = Last(Asks(r))}
<1>1. <<>> \in S
  BY AsksEmpty, EmptySeq
<1>2. ASSUME NEW r \in Seq(Messages), NEW m \in Messages, r \in S PROVE Append(r, m) \in S
  <2>1. Append(r, m) \in Seq(Messages) /\ Len(Append(r, m)) = Len(r) + 1
    BY AppendProperties
  <2>2. Asks(r) \in Seq(Nat)
    BY AsksType
  <2>3. CASE IsAsk(m)
    <3>1. Asks(Append(r, m)) = Append(Asks(r), Ask(m)) /\ Ask(m) \in Nat
      BY <2>3, AsksAppend, AskOf
    <3>2. Last(Append(Asks(r), Ask(m))) = Ask(m)
      BY <2>2, <3>1, EndOfAppend
    <3>3. Under(Append(r, m), Len(r) + 1) = Ask(m)
      BY <2>3, UnderAppend
    <3>4. QED
      BY <2>1, <3>1, <3>2, <3>3
  <2>4. CASE ~IsAsk(m)
    <3>1. Asks(Append(r, m)) = Asks(r)
      BY <2>4, AsksAppend
    <3>2. Under(Append(r, m), Len(r) + 1) = Under(r, Len(r))
      BY <2>4, UnderAppend
    <3>3. QED
      BY <1>2, <2>1, <3>1, <3>2
  <2>5. QED
    BY <2>3, <2>4
<1>3. \A r \in Seq(Messages) : r \in S
  <2> HIDE DEF S
  <2> QED BY <1>1, <1>2, EverySequence
<1>4. QED
  BY <1>3
-----------------------------------------------------------------------------
(* The tags around thinking: each stands before a piece of its kind, there *)
(* is one at most that opens, and none closes before.                      *)
Tagged(c) ==
    /\ \A j \in DOMAIN c : c[j] = OpenTag => j + 1 \in DOMAIN c /\ c[j + 1][1] = "thinking"
    /\ \A k \in DOMAIN c : c[k] = CloseTag => /\ k + 1 \in DOMAIN c /\ c[k + 1][1] = "text"
                                              /\ \E j \in 1..(k - 1) : c[j] = OpenTag
    /\ \A j, k \in DOMAIN c : c[j] = OpenTag /\ c[k] = OpenTag => j = k

TellsAt(c, i) ==
    /\ c[i][1] = "text" => ~Folded(c, i)
    /\ c[i][1] = "thinking" =>
           \/ Folded(c, i)
           \/ \E j, k \in 1..(i - 1) : j < k /\ c[j][1] = "thinking" /\ c[k][1] = "text"

Tells(c) == \A i \in DOMAIN c : TellsAt(c, i)
Clear(c) == Tagged(c) /\ Tells(c)

LEMMA ToldIs == \A m : Told(m) <=> Tells(m.content)
  BY DEF Told, Tells, TellsAt

(* What comes after a piece does not change how it is shown. *)
LEMMA TellsBefore ==
    ASSUME NEW n \in Nat, NEW c, NEW d, \A j \in 1..n : d[j] = c[j], NEW i \in 1..n
    PROVE  TellsAt(d, i) <=> TellsAt(c, i)
<1>1. \A j \in 1..(i - 1) : j \in 1..n /\ j..i \subseteq 1..n
  OBVIOUS
<1>2. Folded(d, i) <=> Folded(c, i)
  BY <1>1 DEF Folded
<1>3. QED
  BY <1>1, <1>2 DEF TellsAt

LEMMA ClearOne ==
    ASSUME NEW T, NEW c \in Seq(T), NEW p \in T, Clear(c), p # OpenTag, p # CloseTag,
           TellsAt(Append(c, p), Len(c) + 1)
    PROVE  Clear(Append(c, p))
<1> DEFINE d == Append(c, p)
           n == Len(c)
<1>1. n \in Nat /\ DOMAIN c = 1..n /\ (\A j \in 1..n : d[j] = c[j]) /\ d[n + 1] = p /\ DOMAIN d = 1..(n + 1)
  <2>1. Len(c) \in Nat /\ d \in Seq(T) /\ Len(d) = Len(c) + 1 /\ (\A j \in 1..Len(c) : d[j] = c[j])
    BY AppendProperties, LenProperties
  <2>2. d[Len(c) + 1] = p
    BY <2>1
  <2>3. QED
    BY <2>1, <2>2, LenProperties
<1> HIDE DEF d, n
<1>2. Tells(d)
  <2>1. ASSUME NEW i \in 1..n PROVE TellsAt(d, i)
    BY <1>1, TellsBefore DEF Clear, Tells
  <2>2. TellsAt(d, n + 1)
    BY DEF d, n
  <2>3. QED
    BY <1>1, <2>1, <2>2 DEF Tells
<1>3. \A j \in 1..(n + 1) : (d[j] = OpenTag \/ d[j] = CloseTag) => j \in 1..n
  BY <1>1
<1>4. ASSUME NEW j \in 1..(n + 1), d[j] = OpenTag PROVE j \in 1..n /\ c[j] = OpenTag /\ j + 1 \in 1..(n + 1) /\ d[j + 1][1] = "thinking"
  <2>1. j \in 1..n /\ c[j] = OpenTag
    BY <1>1, <1>3, <1>4
  <2>2. j + 1 \in 1..n /\ c[j + 1][1] = "thinking"
    BY <1>1, <2>1 DEF Clear, Tagged
  <2>3. QED
    BY <1>1, <2>1, <2>2
<1>5. ASSUME NEW k \in 1..(n + 1), d[k] = CloseTag
      PROVE  k + 1 \in 1..(n + 1) /\ d[k + 1][1] = "text" /\ \E j \in 1..(k - 1) : d[j] = OpenTag
  <2>1. k \in 1..n /\ c[k] = CloseTag
    BY <1>1, <1>3, <1>5
  <2>2. k + 1 \in 1..n /\ c[k + 1][1] = "text" /\ \E j \in 1..(k - 1) : c[j] = OpenTag
    BY <1>1, <2>1 DEF Clear, Tagged
  <2>3. PICK j \in 1..(k - 1) : c[j] = OpenTag
    BY <2>2
  <2>4. j \in 1..n
    BY <1>1, <2>1, <2>3
  <2>5. QED
    BY <1>1, <2>2, <2>3, <2>4
<1>6. \A j, k \in 1..(n + 1) : d[j] = OpenTag /\ d[k] = OpenTag => j = k
  BY <1>1, <1>4 DEF Clear, Tagged
<1>7. Tagged(d)
  BY <1>1, <1>4, <1>5, <1>6 DEF Tagged
<1>8. QED
  BY <1>2, <1>7 DEF Clear, d

(* The first thinking of a message opens its block. *)
LEMMA ClearOpen ==
    ASSUME NEW T, NEW c \in Seq(T), OpenTag \in T, NEW p \in T, Clear(c),
           \A j \in 1..Len(c) : c[j] # OpenTag, p[1] = "thinking"
    PROVE  Clear(Append(Append(c, OpenTag), p))
<1> DEFINE d == Append(Append(c, OpenTag), p)
           n == Len(c)
<1>1. /\ n \in Nat /\ DOMAIN c = 1..n /\ (\A j \in 1..n : d[j] = c[j])
      /\ d[n + 1] = OpenTag /\ d[n + 2] = p /\ DOMAIN d = 1..(n + 2)
  <2>1. Len(c) \in Nat /\ Append(c, OpenTag) \in Seq(T) /\ Len(Append(c, OpenTag)) = Len(c) + 1
        /\ (\A j \in 1..Len(c) : Append(c, OpenTag)[j] = c[j]) /\ Append(c, OpenTag)[Len(c) + 1] = OpenTag
    BY AppendProperties, LenProperties
  <2>2. PICK b : b = Append(c, OpenTag)
    OBVIOUS
  <2>3. d \in Seq(T) /\ Len(d) = Len(c) + 2 /\ (\A j \in 1..(Len(c) + 1) : d[j] = b[j]) /\ d[Len(c) + 2] = p
    <3>1. Append(b, p) \in Seq(T) /\ Len(Append(b, p)) = Len(b) + 1 /\ (\A j \in 1..Len(b) : Append(b, p)[j] = b[j])
          /\ Append(b, p)[Len(b) + 1] = p
      BY <2>1, <2>2, AppendProperties
    <3>2. (Len(c) + 1) + 1 = Len(c) + 2
      BY <2>1
    <3>3. QED
      BY <2>1, <2>2, <3>1, <3>2
  <2>4. (\A j \in 1..Len(c) : j \in 1..(Len(c) + 1)) /\ Len(c) + 1 \in 1..(Len(c) + 1)
    BY <2>1
  <2>5. QED
    BY <2>1, <2>2, <2>3, <2>4, LenProperties
<1>2. OpenTag[1] = "<think>" /\ OpenTag # CloseTag
  BY DEF OpenTag, CloseTag
<1>3. p # OpenTag /\ p # CloseTag
  BY DEF OpenTag, CloseTag
<1> HIDE DEF d, n
<1>4. Tells(d)
  <2>1. ASSUME NEW i \in 1..n PROVE TellsAt(d, i)
    BY <1>1, TellsBefore DEF Clear, Tells
  <2>2. TellsAt(d, n + 1)
    BY <1>1, <1>2 DEF TellsAt
  <2>3. TellsAt(d, n + 2)
    <3>1. n + 1 \in 1..((n + 2) - 1) /\ \A k \in (n + 1)..(n + 2) : k = n + 1 \/ k = n + 2
      BY <1>1
    <3>2. Folded(d, n + 2)
      BY <1>1, <1>2, <1>3, <3>1 DEF Folded
    <3>3. QED
      BY <1>1, <3>2 DEF TellsAt
  <2>4. \A i \in 1..(n + 2) : i \in 1..n \/ i = n + 1 \/ i = n + 2
    BY <1>1
  <2>5. QED
    BY <1>1, <2>1, <2>2, <2>3, <2>4 DEF Tells
<1>5. ASSUME NEW j \in 1..(n + 2), d[j] = OpenTag PROVE j = n + 1
  <2>1. j \notin 1..n
    BY <1>1, <1>5 DEF n
  <2>2. QED
    BY <1>1, <1>3, <1>5, <2>1
<1>6. \A k \in 1..(n + 2) : d[k] # CloseTag
  <2>1. ASSUME NEW k \in 1..(n + 2), d[k] = CloseTag PROVE FALSE
    <3>1. k \in 1..n
      BY <1>1, <1>2, <1>3, <2>1
    <3>2. c[k] = CloseTag
      BY <1>1, <2>1, <3>1
    <3>3. PICK j \in 1..(k - 1) : c[j] = OpenTag
      BY <1>1, <3>1, <3>2 DEF Clear, Tagged
    <3>4. j \in 1..n
      BY <1>1, <3>1, <3>3
    <3>5. QED
      BY <3>3, <3>4 DEF n
  <2>2. QED
    BY <2>1
<1>7. Tagged(d)
  <2>1. (n + 1) + 1 \in 1..(n + 2) /\ d[(n + 1) + 1][1] = "thinking"
    BY <1>1
  <2>2. QED
    BY <1>1, <1>5, <1>6, <2>1 DEF Tagged
<1>8. QED
  BY <1>4, <1>7 DEF Clear, d

(* The first text after it closes it. *)
LEMMA ClearClose ==
    ASSUME NEW T, NEW c \in Seq(T), CloseTag \in T, NEW p \in T, Clear(c),
           NEW o \in 1..Len(c), c[o] = OpenTag, \A j \in 1..Len(c) : c[j] # CloseTag, p[1] = "text"
    PROVE  Clear(Append(Append(c, CloseTag), p))
<1> DEFINE d == Append(Append(c, CloseTag), p)
           n == Len(c)
<1>1. /\ n \in Nat /\ DOMAIN c = 1..n /\ (\A j \in 1..n : d[j] = c[j])
      /\ d[n + 1] = CloseTag /\ d[n + 2] = p /\ DOMAIN d = 1..(n + 2)
  <2>1. Len(c) \in Nat /\ Append(c, CloseTag) \in Seq(T) /\ Len(Append(c, CloseTag)) = Len(c) + 1
        /\ (\A j \in 1..Len(c) : Append(c, CloseTag)[j] = c[j]) /\ Append(c, CloseTag)[Len(c) + 1] = CloseTag
    BY AppendProperties, LenProperties
  <2>2. PICK b : b = Append(c, CloseTag)
    OBVIOUS
  <2>3. d \in Seq(T) /\ Len(d) = Len(c) + 2 /\ (\A j \in 1..(Len(c) + 1) : d[j] = b[j]) /\ d[Len(c) + 2] = p
    <3>1. Append(b, p) \in Seq(T) /\ Len(Append(b, p)) = Len(b) + 1 /\ (\A j \in 1..Len(b) : Append(b, p)[j] = b[j])
          /\ Append(b, p)[Len(b) + 1] = p
      BY <2>1, <2>2, AppendProperties
    <3>2. (Len(c) + 1) + 1 = Len(c) + 2
      BY <2>1
    <3>3. QED
      BY <2>1, <2>2, <3>1, <3>2
  <2>4. (\A j \in 1..Len(c) : j \in 1..(Len(c) + 1)) /\ Len(c) + 1 \in 1..(Len(c) + 1)
    BY <2>1
  <2>5. QED
    BY <2>1, <2>2, <2>3, <2>4, LenProperties
<1>2. CloseTag[1] = "</think>" /\ OpenTag # CloseTag /\ p # OpenTag /\ p # CloseTag
  BY DEF OpenTag, CloseTag
<1> HIDE DEF d, n
<1>3. Tells(d)
  <2>1. ASSUME NEW i \in 1..n PROVE TellsAt(d, i)
    BY <1>1, TellsBefore DEF Clear, Tells
  <2>2. TellsAt(d, n + 1)
    BY <1>1, <1>2 DEF TellsAt
  <2>3. TellsAt(d, n + 2)
    <3>1. ~Folded(d, n + 2)
      <4>1. ASSUME NEW j \in 1..((n + 2) - 1), d[j] = OpenTag, \A k \in j..(n + 2) : d[k] # CloseTag PROVE FALSE
        <5>1. n + 1 \in j..(n + 2)
          BY <1>1, <4>1
        <5>2. QED
          BY <1>1, <4>1, <5>1
      <4>2. QED
        BY <4>1 DEF Folded
    <3>2. QED
      BY <1>1, <3>1 DEF TellsAt
  <2>4. \A i \in 1..(n + 2) : i \in 1..n \/ i = n + 1 \/ i = n + 2
    BY <1>1
  <2>5. QED
    BY <1>1, <2>1, <2>2, <2>3, <2>4 DEF Tells
<1>4. ASSUME NEW j \in 1..(n + 2), d[j] = OpenTag PROVE j \in 1..n /\ c[j] = OpenTag
  <2>1. j # n + 1 /\ j # n + 2
    BY <1>1, <1>2, <1>4
  <2>2. j \in 1..n
    BY <1>1, <2>1
  <2>3. QED
    BY <1>1, <1>4, <2>2
<1>5. ASSUME NEW j \in 1..(n + 2), d[j] = OpenTag PROVE j + 1 \in 1..(n + 2) /\ d[j + 1][1] = "thinking"
  <2>1. j + 1 \in 1..n /\ c[j + 1][1] = "thinking"
    BY <1>1, <1>4, <1>5 DEF Clear, Tagged
  <2>2. QED
    BY <1>1, <2>1
<1>6. ASSUME NEW k \in 1..(n + 2), d[k] = CloseTag
      PROVE  k + 1 \in 1..(n + 2) /\ d[k + 1][1] = "text" /\ \E j \in 1..(k - 1) : d[j] = OpenTag
  <2>1. k = n + 1
    <3>1. k \notin 1..n
      BY <1>1, <1>6 DEF n
    <3>2. QED
      BY <1>1, <1>2, <1>6, <3>1
  <2>2. o \in 1..n /\ o \in 1..(k - 1) /\ d[o] = OpenTag
    BY <1>1, <2>1 DEF n
  <2>3. QED
    BY <1>1, <2>1, <2>2
<1>7. \A j, k \in 1..(n + 2) : d[j] = OpenTag /\ d[k] = OpenTag => j = k
  BY <1>1, <1>4 DEF Clear, Tagged
<1>8. Tagged(d)
  BY <1>1, <1>5, <1>6, <1>7 DEF Tagged
<1>9. QED
  BY <1>3, <1>8 DEF Clear, d

(* Thinking after the block was closed follows thinking and text. *)
LEMMA ClearThinking ==
    ASSUME NEW T, NEW c \in Seq(T), NEW p \in T, Clear(c), NEW o \in 1..Len(c), c[o] = OpenTag, p[1] = "thinking"
    PROVE  Clear(Append(c, p))
<1> DEFINE d == Append(c, p)
           n == Len(c)
<1>1. n \in Nat /\ DOMAIN c = 1..n /\ (\A j \in 1..n : d[j] = c[j]) /\ d[n + 1] = p
  BY AppendProperties, LenProperties
<1>2. p # OpenTag /\ p # CloseTag
  BY DEF OpenTag, CloseTag
<1> HIDE DEF d, n
<1>3. o \in 1..n /\ d[o] = OpenTag
  BY <1>1 DEF n
<1>4. CASE \A k \in o..(n + 1) : d[k] # CloseTag
  <2>1. o \in 1..((n + 1) - 1)
    BY <1>1, <1>3
  <2>2. Folded(d, n + 1)
    BY <1>3, <1>4, <2>1 DEF Folded
  <2>3. TellsAt(d, n + 1)
    BY <1>1, <2>2 DEF TellsAt
  <2>4. QED
    BY <1>2, <2>3, ClearOne DEF d, n
<1>5. CASE ~\A k \in o..(n + 1) : d[k] # CloseTag
  <2>1. PICK k \in o..(n + 1) : d[k] = CloseTag
    BY <1>5
  <2>2. k # n + 1 /\ k # o
    BY <1>1, <1>2, <1>3, <2>1 DEF OpenTag, CloseTag
  <2>3. k \in 1..n /\ c[k] = CloseTag /\ o < k
    BY <1>1, <1>3, <2>1, <2>2
  <2>4. k + 1 \in 1..n /\ c[k + 1][1] = "text" /\ o + 1 \in 1..n /\ c[o + 1][1] = "thinking"
    BY <1>1, <1>3, <2>3 DEF Clear, Tagged, n
  <2>5. o + 1 \in 1..((n + 1) - 1) /\ k + 1 \in 1..((n + 1) - 1) /\ o + 1 < k + 1
        /\ d[o + 1][1] = "thinking" /\ d[k + 1][1] = "text"
    BY <1>1, <1>3, <2>3, <2>4
  <2>6. TellsAt(d, n + 1)
    BY <1>1, <2>5 DEF TellsAt
  <2>7. QED
    BY <1>2, <2>6, ClearOne DEF d, n
<1>6. QED
  BY <1>4, <1>5

(* Text is in sight when what was opened before it was closed. *)
LEMMA ClearText ==
    ASSUME NEW T, NEW c \in Seq(T), NEW p \in T, Clear(c), p[1] = "text",
           (\A j \in 1..Len(c) : c[j] # OpenTag) \/ \E k \in 1..Len(c) : c[k] = CloseTag
    PROVE  Clear(Append(c, p))
<1> DEFINE d == Append(c, p)
           n == Len(c)
<1>1. n \in Nat /\ DOMAIN c = 1..n /\ (\A j \in 1..n : d[j] = c[j]) /\ d[n + 1] = p
  BY AppendProperties, LenProperties
<1>2. p # OpenTag /\ p # CloseTag
  BY DEF OpenTag, CloseTag
<1> HIDE DEF d, n
<1>3. ~Folded(d, n + 1)
  <2>1. SUFFICES ASSUME NEW j \in 1..((n + 1) - 1), d[j] = OpenTag, \A k \in j..(n + 1) : d[k] # CloseTag PROVE FALSE
    BY DEF Folded
  <2>2. j \in 1..n /\ c[j] = OpenTag
    BY <1>1, <2>1
  <2>3. PICK k \in 1..n : c[k] = CloseTag
    BY <2>2 DEF n
  <2>4. PICK i \in 1..(k - 1) : c[i] = OpenTag
    BY <1>1, <2>3 DEF Clear, Tagged
  <2>5. i \in 1..n
    BY <1>1, <2>3, <2>4
  <2>6. i = j
    BY <1>1, <2>2, <2>4, <2>5 DEF Clear, Tagged
  <2>7. k \in j..(n + 1) /\ d[k] = CloseTag
    BY <1>1, <2>2, <2>3, <2>4, <2>6
  <2>8. QED
    BY <2>1, <2>7
<1>4. TellsAt(d, n + 1)
  BY <1>1, <1>3 DEF TellsAt
<1>5. QED
  BY <1>2, <1>4, ClearOne DEF d, n

LEMMA ClearOther ==
    ASSUME NEW T, NEW c \in Seq(T), NEW p \in T, Clear(c), p # OpenTag, p # CloseTag, p[1] # "text", p[1] # "thinking"
    PROVE  Clear(Append(c, p))
<1>1. Append(c, p)[Len(c) + 1] = p
  BY AppendProperties, LenProperties
<1>2. TellsAt(Append(c, p), Len(c) + 1)
  BY <1>1 DEF TellsAt
<1>3. QED
  BY <1>2, ClearOne

LEMMA ClearNothing == Clear(<<>>)
<1>1. DOMAIN <<>> = {}
  OBVIOUS
<1>2. QED
  BY <1>1 DEF Clear, Tagged, Tells
-----------------------------------------------------------------------------
(* The order of the events of an answer: the input of a call is followed   *)
(* by the result of its tool, no other result comes after an input of its  *)
(* call, and after the end comes nothing but the end of the stream.        *)
OfAnswer(e, n) ==
    /\ Streams(e) => Len(e.piece) = 3 /\ e.piece[1] = e.type /\ e.piece[2] = n
    /\ e.type = "tool_input" => e.call # NoResult /\ e.call[1] = n
    /\ e.type = "tool_result" => e.result = NoResult \/ e.result[1] = n
    /\ e.type = "error" => e.ask = n

Followed(es) ==
    \A l \in DOMAIN es : es[l].type = "tool_input" =>
        l + 1 \in DOMAIN es /\ es[l + 1].type = "tool_result" /\ es[l + 1].name = es[l].name

Paired(es) ==
    \A k, l \in DOMAIN es :
        k < l /\ es[k].type = "tool_input" /\ es[l].type = "tool_result" /\ es[l].result = es[k].call => k + 1 = l

Ends(e) == e.type \in {"done", "stream_end"}
Ended(es) == \A l, m \in DOMAIN es : l < m /\ Ends(es[l]) => es[m].type = "stream_end"

AllOf(es, n) == \A l \in DOMAIN es : OfAnswer(es[l], n)

(* Events of an answer that are not its end, and tell of no other calls.   *)
Concerns(e, calls) ==
    /\ e.type \notin {"done", "stream_end", "error"}
    /\ e.type = "tool_input" => e.call \in calls
    /\ e.type = "tool_result" => e.result \in calls \union {NoResult}
Part(es, n, calls) ==
    /\ es \in Seq(Events) /\ AllOf(es, n) /\ Followed(es) /\ Paired(es)
    /\ \A l \in DOMAIN es : Concerns(es[l], calls)

LEMMA ConcatIs ==
    ASSUME NEW T, NEW a \in Seq(T), NEW b \in Seq(T)
    PROVE  /\ a \o b \in Seq(T) /\ Len(a) \in Nat /\ Len(b) \in Nat /\ Len(a \o b) = Len(a) + Len(b)
           /\ DOMAIN a = 1..Len(a) /\ DOMAIN b = 1..Len(b) /\ DOMAIN (a \o b) = 1..(Len(a) + Len(b))
           /\ \A i \in 1..Len(a) : (a \o b)[i] = a[i]
           /\ \A i \in 1..Len(b) : (a \o b)[Len(a) + i] = b[i]
           /\ \A i \in 1..(Len(a) + Len(b)) : i \in 1..Len(a) \/ (i > Len(a) /\ i - Len(a) \in 1..Len(b) /\ (a \o b)[i] = b[i - Len(a)])
<1>1. Len(a) \in Nat /\ Len(b) \in Nat /\ DOMAIN a = 1..Len(a) /\ DOMAIN b = 1..Len(b)
  BY LenProperties
<1>2. a \o b \in Seq(T) /\ Len(a \o b) = Len(a) + Len(b)
      /\ \A i \in 1..(Len(a) + Len(b)) : (a \o b)[i] = IF i <= Len(a) THEN a[i] ELSE b[i - Len(a)]
  BY ConcatProperties
<1>3. DOMAIN (a \o b) = 1..(Len(a) + Len(b))
  BY <1>2, LenProperties
<1>4. \A i \in 1..Len(b) : Len(a) + i \in 1..(Len(a) + Len(b)) /\ ~(Len(a) + i <= Len(a)) /\ (Len(a) + i) - Len(a) = i
  BY <1>1
<1>5. \A i \in 1..Len(b) : (a \o b)[Len(a) + i] = b[i]
  BY <1>2, <1>4
<1>6. \A i \in 1..(Len(a) + Len(b)) : i \in 1..Len(a) \/ (i > Len(a) /\ ~(i <= Len(a)) /\ i - Len(a) \in 1..Len(b))
  BY <1>1
<1>7. \A i \in 1..Len(a) : i \in 1..(Len(a) + Len(b)) /\ i <= Len(a)
  BY <1>1
<1>8. QED
  BY <1>1, <1>2, <1>3, <1>5, <1>6, <1>7

LEMMA PartsJoin ==
    ASSUME NEW n, NEW a, NEW b, NEW C, NEW D, Part(a, n, C), Part(b, n, D), C \cap D = {}
    PROVE  Part(a \o b, n, C \union D)
<1> DEFINE s == a \o b
           p == Len(a)
           q == Len(b)
<1>1. a \in Seq(Events) /\ b \in Seq(Events)
  BY DEF Part
<1>2. /\ s \in Seq(Events) /\ p \in Nat /\ q \in Nat
      /\ DOMAIN a = 1..p /\ DOMAIN b = 1..q /\ DOMAIN s = 1..(p + q)
      /\ \A i \in 1..p : s[i] = a[i]
      /\ \A i \in 1..q : s[p + i] = b[i]
      /\ \A i \in 1..(p + q) : i \in 1..p \/ (i > p /\ i - p \in 1..q /\ s[i] = b[i - p])
  BY <1>1, ConcatIs
<1> HIDE DEF s, p, q
<1>3. AllOf(s, n) /\ \A l \in DOMAIN s : Concerns(s[l], C \union D)
  <2>1. ASSUME NEW l \in 1..(p + q) PROVE OfAnswer(s[l], n) /\ Concerns(s[l], C \union D)
    <3>1. CASE l \in 1..p
      <4>1. OfAnswer(a[l], n) /\ Concerns(a[l], C)
        BY <1>2, <3>1 DEF Part, AllOf
      <4>2. QED
        BY <1>2, <3>1, <4>1 DEF Concerns
    <3>2. CASE l - p \in 1..q /\ s[l] = b[l - p]
      <4>1. OfAnswer(b[l - p], n) /\ Concerns(b[l - p], D)
        BY <1>2, <3>2 DEF Part, AllOf
      <4>2. QED
        BY <3>2, <4>1 DEF Concerns
    <3>3. QED
      BY <1>2, <3>1, <3>2
  <2>2. QED
    BY <1>2, <2>1 DEF AllOf
<1>4. Followed(s)
  <2>1. ASSUME NEW l \in 1..(p + q), s[l].type = "tool_input"
        PROVE  l + 1 \in 1..(p + q) /\ s[l + 1].type = "tool_result" /\ s[l + 1].name = s[l].name
    <3>1. CASE l \in 1..p
      <4>1. l + 1 \in 1..p /\ a[l + 1].type = "tool_result" /\ a[l + 1].name = a[l].name
        BY <1>2, <2>1, <3>1 DEF Part, Followed
      <4>2. QED
        BY <1>2, <3>1, <4>1
    <3>2. CASE l - p \in 1..q /\ s[l] = b[l - p]
      <4>1. (l - p) + 1 \in 1..q /\ b[(l - p) + 1].type = "tool_result" /\ b[(l - p) + 1].name = b[l - p].name
        BY <1>2, <2>1, <3>2 DEF Part, Followed
      <4>2. l + 1 = p + ((l - p) + 1) /\ l + 1 \in 1..(p + q)
        BY <1>2, <2>1, <4>1
      <4>3. s[l + 1] = b[(l - p) + 1]
        BY <1>2, <4>1, <4>2
      <4>4. QED
        BY <3>2, <4>1, <4>2, <4>3
    <3>3. QED
      BY <1>2, <3>1, <3>2
  <2>2. QED
    BY <1>2, <2>1 DEF Followed
<1>5. Paired(s)
  <2>1. ASSUME NEW k \in 1..(p + q), NEW l \in 1..(p + q), k < l, s[k].type = "tool_input", s[l].type = "tool_result",
               s[l].result = s[k].call
        PROVE  k + 1 = l
    <3>1. CASE k \in 1..p /\ l \in 1..p
      BY <1>2, <2>1, <3>1 DEF Part, Paired
    <3>2. CASE k \in 1..p /\ l - p \in 1..q /\ s[l] = b[l - p]
      <4>1. s[k].call \in C /\ s[k].call # NoResult
        <5>1. s[k] = a[k] /\ a[k].type = "tool_input"
          BY <1>2, <2>1, <3>2
        <5>2. OfAnswer(a[k], n) /\ Concerns(a[k], C)
          BY <1>2, <3>2 DEF Part, AllOf
        <5>3. QED
          BY <5>1, <5>2 DEF Concerns, OfAnswer
      <4>2. s[l].result \in D \union {NoResult}
        BY <1>2, <2>1, <3>2 DEF Part, Concerns
      <4>3. QED
        BY <2>1, <4>1, <4>2
    <3>3. CASE k > p /\ k - p \in 1..q /\ s[k] = b[k - p]
      <4>1. l - p \in 1..q /\ s[l] = b[l - p] /\ k - p < l - p
        BY <1>2, <2>1, <3>3
      <4>2. (k - p) + 1 = l - p
        <5>1. \A i, j \in 1..q : i < j /\ b[i].type = "tool_input" /\ b[j].type = "tool_result"
                                   /\ b[j].result = b[i].call => i + 1 = j
          BY <1>2 DEF Part, Paired
        <5>2. b[k - p].type = "tool_input" /\ b[l - p].type = "tool_result" /\ b[l - p].result = b[k - p].call
          BY <2>1, <3>3, <4>1
        <5>3. QED
          BY <3>3, <4>1, <5>1, <5>2
      <4>3. QED
        BY <1>2, <4>2
    <3>4. QED
      BY <1>2, <3>1, <3>2, <3>3
  <2>2. QED
    BY <1>2, <2>1 DEF Paired
<1>6. QED
  BY <1>2, <1>3, <1>4, <1>5 DEF Part, s

LEMMA PartMore == ASSUME NEW n, NEW es, NEW C, NEW D, Part(es, n, C), C \subseteq D PROVE Part(es, n, D)
  BY DEF Part, Concerns

LEMMA PartNothing == ASSUME NEW n, NEW C PROVE Part(<<>>, n, C)
<1>1. <<>> \in Seq(Events) /\ DOMAIN <<>> = {}
  BY EmptySeq
<1>2. QED
  BY <1>1 DEF Part, AllOf, Followed, Paired

(* Events that are no inputs are in any order. *)
LEMMA PartPlain ==
    ASSUME NEW n, NEW C, NEW es \in Seq(Events), AllOf(es, n),
           \A l \in 1..Len(es) : Concerns(es[l], C) /\ es[l].type # "tool_input"
    PROVE  Part(es, n, C)
<1>1. DOMAIN es = 1..Len(es)
  BY LenProperties
<1>2. QED
  BY <1>1 DEF Part, Followed, Paired

(* Of parts that tell of different calls. *)
LEMMA PartsFlatten ==
    ASSUME NEW n, NEW C \in [Nat -> SUBSET CallIds], \A i, j \in Nat : i # j => C[i] \cap C[j] = {},
           NEW ss \in Seq(Seq(Events)), \A i \in 1..Len(ss) : Part(ss[i], n, C[i])
    PROVE  Part(FlattenSeq(ss), n, UNION {C[i] : i \in 1..Len(ss)})
<1> DEFINE Upto(k) == UNION {C[i] : i \in 1..k}
           Good(r) == (\A i \in 1..Len(r) : Part(r[i], n, C[i])) => Part(FlattenSeq(r), n, Upto(Len(r)))
           S == {r \in Seq(Seq(Events)) : Good(r)}
<1>1. <<>> \in S
  <2>1. Part(FlattenSeq(<<>>), n, Upto(Len(<<>>)))
    <3> HIDE DEF Upto
    <3> QED BY FlattenEmpty, PartNothing
  <2>2. QED
    BY <2>1, EmptySeq
<1>2. ASSUME NEW r \in Seq(Seq(Events)), NEW e \in Seq(Events), r \in S PROVE Append(r, e) \in S
  <2>1. Append(r, e) \in Seq(Seq(Events)) /\ Len(Append(r, e)) = Len(r) + 1 /\ Len(r) \in Nat
        /\ (\A i \in 1..Len(r) : Append(r, e)[i] = r[i]) /\ Append(r, e)[Len(r) + 1] = e
    BY AppendProperties, LenProperties
  <2>2. SUFFICES ASSUME \A i \in 1..(Len(r) + 1) : Part(Append(r, e)[i], n, C[i])
                 PROVE  Part(FlattenSeq(Append(r, e)), n, Upto(Len(r) + 1))
    <3> HIDE DEF Upto
    <3> QED BY <2>1
  <2>3. \A i \in 1..Len(r) : i \in 1..(Len(r) + 1)
    BY <2>1
  <2>4. Part(FlattenSeq(r), n, Upto(Len(r)))
    <3>1. \A i \in 1..Len(r) : Part(r[i], n, C[i])
      BY <2>1, <2>2, <2>3
    <3>2. Good(r)
      BY <1>2
    <3> HIDE DEF Upto
    <3>3. QED
      BY <3>1, <3>2
  <2>5. Part(e, n, C[Len(r) + 1])
    <3>1. Len(r) + 1 \in 1..(Len(r) + 1)
      BY <2>1
    <3>2. QED
      BY <2>1, <2>2, <3>1
  <2>6. Upto(Len(r)) \cap C[Len(r) + 1] = {}
    <3>1. \A i \in 1..Len(r) : i \in Nat /\ i # Len(r) + 1 /\ Len(r) + 1 \in Nat
      BY <2>1
    <3>2. \A i \in 1..Len(r) : C[i] \cap C[Len(r) + 1] = {}
      BY <3>1
    <3>3. QED
      BY <3>2
  <2>7. Upto(Len(r) + 1) = Upto(Len(r)) \union C[Len(r) + 1]
    <3>1. 1..(Len(r) + 1) = 1..Len(r) \union {Len(r) + 1}
      BY <2>1
    <3>2. QED
      BY <3>1
  <2>8. FlattenSeq(Append(r, e)) = FlattenSeq(r) \o e
    BY FlattenAppend
  <2> HIDE DEF Upto
  <2>9. Part(FlattenSeq(r) \o e, n, Upto(Len(r)) \union C[Len(r) + 1])
    BY <2>4, <2>5, <2>6, PartsJoin
  <2>10. QED
    BY <2>7, <2>8, <2>9
<1>3. \A r \in Seq(Seq(Events)) : r \in S
  <2> HIDE DEF S
  <2> QED BY <1>1, <1>2, EverySequence
<1>4. Good(ss)
  <2> HIDE DEF Good
  <2> QED BY <1>3
<1>5. QED
  <2> HIDE DEF Upto
  <2>1. Part(FlattenSeq(ss), n, Upto(Len(ss)))
    BY <1>4
  <2>2. QED
    BY <2>1 DEF Upto
(* The calls of a turn. *)
TurnCalls(n, t) == {<<n, t, i>> : i \in Nat}
CallsOf(n, t) == {c \in CallRecords : c.call \in TurnCalls(n, t) /\ c.result \in {c.call, NoResult}}
Distinct(s) == \A i, j \in DOMAIN s : s[i].call = s[j].call => i = j
Keys(s) == {s[i].call : i \in DOMAIN s}

LEMMA CallsApart ==
    ASSUME NEW n \in Nat, NEW t \in Nat, NEW turn \in Turn
    PROVE  Called(n, t, turn) \in Seq(CallsOf(n, t)) /\ Distinct(Called(n, t, turn))
<1> DEFINE calls == Called(n, t, turn)
<1>1. turn.tools \in Seq(Tool)
  BY DEF Turn
<1>2. Len(turn.tools) \in Nat /\ DOMAIN turn.tools = 1..Len(turn.tools)
  BY <1>1, LenProperties
<1>3. calls \in Seq(CallRecords)
  BY CalledType
<1>4. DOMAIN calls = 1..Len(turn.tools) /\ \A i \in 1..Len(turn.tools) :
          calls[i].call = <<n, t, i>> /\ calls[i].result \in {<<n, t, i>>, NoResult}
  BY <1>2 DEF Called
<1> HIDE DEF calls
<1>5. Len(calls) = Len(turn.tools) /\ \A i \in 1..Len(calls) : calls[i] \in CallRecords
  BY <1>2, <1>3, <1>4, LenProperties, ElementOfSeq
<1>6. \A i \in 1..Len(calls) : calls[i] \in CallsOf(n, t)
  <2>1. ASSUME NEW i \in 1..Len(calls) PROVE calls[i] \in CallsOf(n, t)
    <3>1. i \in Nat /\ calls[i].call = <<n, t, i>> /\ calls[i].result \in {calls[i].call, NoResult}
      BY <1>4, <1>5
    <3>2. QED
      BY <1>5, <3>1 DEF CallsOf, TurnCalls
  <2>2. QED
    BY <2>1
<1>7. calls \in Seq(CallsOf(n, t))
  <2>1. calls = [i \in 1..Len(calls) |-> calls[i]]
    BY <1>2, <1>3, <1>4, <1>5
  <2>2. calls \in [1..Len(calls) -> CallsOf(n, t)]
    BY <1>6, <2>1
  <2>3. QED
    BY <1>2, <1>5, <2>2
<1>8. Distinct(calls)
  <2>1. ASSUME NEW i \in 1..Len(turn.tools), NEW j \in 1..Len(turn.tools), calls[i].call = calls[j].call PROVE i = j
    <3>1. <<n, t, i>> = <<n, t, j>>
      BY <1>4, <2>1
    <3>2. QED
      BY <3>1
  <2>2. QED
    BY <1>4, <2>1 DEF Distinct
<1>9. QED
  BY <1>7, <1>8 DEF calls

(* A choice of them: each is one of those chosen, none is there twice.     *)
LEMMA AtDistinct ==
    ASSUME NEW T, NEW s \in Seq(T), NEW P, Distinct(s)
    PROVE  /\ Distinct(At(s, P))
           /\ \A i \in DOMAIN At(s, P) : \E k \in DOMAIN s : k \in P /\ At(s, P)[i] = s[k]
<1> DEFINE From(r) == \A i \in DOMAIN At(r, P) : \E k \in DOMAIN r : k \in P /\ At(r, P)[i] = r[k]
           Good(r) == Distinct(r) => Distinct(At(r, P)) /\ From(r)
           S == {r \in Seq(T) : Good(r)}
<1>1. <<>> \in S
  <2>1. <<>> \in Seq(T) /\ DOMAIN <<>> = {}
    BY EmptySeq
  <2>2. At(<<>>, P) = <<>>
    <3>1. \A i \in 1..Len(<<>>) : i \in P <=> i \in {}
      OBVIOUS
    <3>2. QED
      BY <2>1, <3>1, AtSame, AtNothing
  <2>3. QED
    BY <2>1, <2>2 DEF Distinct
<1>2. ASSUME NEW r \in Seq(T), NEW e \in T, r \in S PROVE Append(r, e) \in S
  <2>1. Append(r, e) \in Seq(T) /\ Len(r) \in Nat /\ DOMAIN r = 1..Len(r) /\ DOMAIN Append(r, e) = 1..(Len(r) + 1)
        /\ (\A i \in 1..Len(r) : Append(r, e)[i] = r[i]) /\ Append(r, e)[Len(r) + 1] = e
    <3>1. Append(r, e) \in Seq(T) /\ Len(Append(r, e)) = Len(r) + 1 /\ \A i \in 1..Len(r) : Append(r, e)[i] = r[i]
      BY AppendProperties
    <3>2. Append(r, e)[Len(r) + 1] = e
      BY AppendProperties
    <3>3. QED
      BY <3>1, <3>2, LenProperties
  <2>2. SUFFICES ASSUME Distinct(Append(r, e)) PROVE Distinct(At(Append(r, e), P)) /\ From(Append(r, e))
    BY <2>1
  <2>3. Distinct(r) /\ \A k \in 1..Len(r) : r[k].call # e.call
    <3>1. ASSUME NEW i \in 1..Len(r), NEW j \in 1..Len(r), r[i].call = r[j].call PROVE i = j
      <4>1. i \in 1..(Len(r) + 1) /\ j \in 1..(Len(r) + 1)
        BY <2>1
      <4>2. QED
        BY <2>1, <2>2, <3>1, <4>1 DEF Distinct
    <3>2. ASSUME NEW k \in 1..Len(r), r[k].call = e.call PROVE FALSE
      <4>1. k \in 1..(Len(r) + 1) /\ Len(r) + 1 \in 1..(Len(r) + 1) /\ k # Len(r) + 1
        BY <2>1
      <4>2. QED
        BY <2>1, <2>2, <3>2, <4>1 DEF Distinct
    <3>3. QED
      BY <2>1, <3>1, <3>2 DEF Distinct
  <2>4. Distinct(At(r, P)) /\ From(r)
    BY <1>2, <2>3
  <2>5. PICK q : q = At(r, P)
    OBVIOUS
  <2>6. q \in Seq(T) /\ Len(q) \in Nat /\ DOMAIN q = 1..Len(q)
    BY <2>5, AtType, LenProperties
  <2>7. \A k \in DOMAIN r : k \in DOMAIN Append(r, e) /\ Append(r, e)[k] = r[k]
    BY <2>1
  <2>8. CASE Len(r) + 1 \notin P
    <3>1. At(Append(r, e), P) = At(r, P)
      BY <2>8, AtAppend
    <3>2. From(Append(r, e))
      BY <2>4, <2>7, <3>1
    <3>3. QED
      BY <2>4, <3>1, <3>2
  <2>9. CASE Len(r) + 1 \in P
    <3>1. PICK d : d = Append(q, e)
      OBVIOUS
    <3>2. At(Append(r, e), P) = d
      BY <2>5, <2>9, <3>1, AtAppend
    <3>3. DOMAIN d = 1..(Len(q) + 1) /\ (\A i \in 1..Len(q) : d[i] = q[i]) /\ d[Len(q) + 1] = e
      <4>1. d \in Seq(T) /\ Len(d) = Len(q) + 1 /\ \A i \in 1..Len(q) : d[i] = q[i]
        BY <2>6, <3>1, AppendProperties
      <4>2. d[Len(q) + 1] = e
        BY <2>6, <3>1, AppendProperties
      <4>3. QED
        BY <4>1, <4>2, LenProperties
    <3>4. \A i \in 1..(Len(q) + 1) : i \in 1..Len(q) \/ i = Len(q) + 1
      BY <2>6
    <3>5. \A i \in 1..Len(q) : \E k \in DOMAIN r : k \in P /\ q[i] = r[k]
      BY <2>4, <2>5, <2>6
    <3>6. From(Append(r, e))
      <4>1. ASSUME NEW i \in 1..(Len(q) + 1) PROVE \E k \in DOMAIN Append(r, e) : k \in P /\ d[i] = Append(r, e)[k]
        <5>1. CASE i \in 1..Len(q)
          BY <2>7, <3>3, <3>5, <5>1
        <5>2. CASE i = Len(q) + 1
          <6>1. Len(r) + 1 \in DOMAIN Append(r, e)
            BY <2>1
          <6>2. QED
            BY <2>1, <2>9, <3>3, <5>2, <6>1
        <5>3. QED
          BY <3>4, <5>1, <5>2
      <4>2. QED
        BY <3>2, <3>3, <4>1
    <3>7. Distinct(d)
      <4>1. \A i \in 1..Len(q) : q[i].call # e.call
        BY <2>1, <2>3, <3>5
      <4>2. \A i, j \in 1..Len(q) : q[i].call = q[j].call => i = j
        BY <2>4, <2>5, <2>6 DEF Distinct
      <4>3. ASSUME NEW i \in 1..(Len(q) + 1), NEW j \in 1..(Len(q) + 1), d[i].call = d[j].call PROVE i = j
        <5>1. CASE i \in 1..Len(q) /\ j \in 1..Len(q)
          BY <3>3, <4>2, <4>3, <5>1
        <5>2. CASE i \in 1..Len(q) /\ j = Len(q) + 1
          BY <3>3, <4>1, <4>3, <5>2
        <5>3. CASE i = Len(q) + 1 /\ j \in 1..Len(q)
          BY <3>3, <4>1, <4>3, <5>3
        <5>4. QED
          BY <3>4, <5>1, <5>2, <5>3
      <4>4. QED
        BY <3>3, <4>3 DEF Distinct
    <3>8. QED
      BY <3>2, <3>6, <3>7
  <2>10. QED
    BY <2>8, <2>9
<1>3. \A r \in Seq(T) : r \in S
  <2> HIDE DEF S
  <2> QED BY <1>1, <1>2, EverySequence
<1>4. Good(s)
  <2> HIDE DEF Good
  <2> QED BY <1>3
<1>5. QED
  BY <1>4

LEMMA DistinctJoin ==
    ASSUME NEW T, NEW a \in Seq(T), NEW b \in Seq(T), Distinct(a), Distinct(b), Keys(a) \cap Keys(b) = {}
    PROVE  Distinct(a \o b)
<1> DEFINE s == a \o b
           p == Len(a)
           q == Len(b)
<1>1. /\ p \in Nat /\ q \in Nat
      /\ DOMAIN a = 1..p /\ DOMAIN b = 1..q /\ DOMAIN s = 1..(p + q)
      /\ \A i \in 1..p : s[i] = a[i]
      /\ \A i \in 1..(p + q) : i \in 1..p \/ (i > p /\ i - p \in 1..q /\ s[i] = b[i - p])
  BY ConcatIs
<1> HIDE DEF s, p, q
<1>2. \A i \in 1..p, j \in 1..q : a[i].call # b[j].call
  BY <1>1 DEF Keys
<1>3. ASSUME NEW i \in 1..(p + q), NEW j \in 1..(p + q), s[i].call = s[j].call PROVE i = j
  <2>1. CASE i \in 1..p /\ j \in 1..p
    BY <1>1, <1>3, <2>1 DEF Distinct
  <2>2. CASE i \in 1..p /\ j - p \in 1..q /\ s[j] = b[j - p]
    BY <1>1, <1>2, <1>3, <2>2
  <2>3. CASE i - p \in 1..q /\ s[i] = b[i - p] /\ j \in 1..p
    BY <1>1, <1>2, <1>3, <2>3
  <2>4. CASE i - p \in 1..q /\ s[i] = b[i - p] /\ j - p \in 1..q /\ s[j] = b[j - p]
    <3>1. i - p = j - p
      BY <1>1, <1>3, <2>4 DEF Distinct
    <3>2. QED
      BY <1>1, <3>1
  <2>5. QED
    BY <1>1, <2>1, <2>2, <2>3, <2>4
<1>4. QED
  BY <1>1, <1>3 DEF Distinct, s

LEMMA OneCall ==
    ASSUME NEW n \in Nat, NEW t \in Nat, NEW c \in CallsOf(n, t)
    PROVE  Part(<<InputEvent(c), ResultEvent(c)>>, n, {c.call})
<1> DEFINE es == <<InputEvent(c), ResultEvent(c)>>
<1>1. c \in CallRecords /\ c.call # NoResult /\ c.call[1] = n /\ c.result \in {c.call, NoResult}
  <2>1. PICK i \in Nat : c.call = <<n, t, i>>
    BY DEF CallsOf, TurnCalls
  <2>2. c.call # NoResult /\ c.call[1] = n
    BY <2>1 DEF NoResult
  <2>3. c \in CallRecords /\ c.result \in {c.call, NoResult}
    BY DEF CallsOf
  <2>4. QED
    BY <2>2, <2>3
<1>2. es \in Seq(Events)
  BY <1>1, CallEvents
<1>3. DOMAIN es = {1, 2} /\ es[1] = InputEvent(c) /\ es[2] = ResultEvent(c)
  OBVIOUS
<1>4. /\ es[1].type = "tool_input" /\ es[1].name = c.name /\ es[1].call = c.call
      /\ es[2].type = "tool_result" /\ es[2].name = c.name /\ es[2].result = c.result
  BY <1>3 DEF InputEvent, ResultEvent
<1> HIDE DEF es
<1>5. AllOf(es, n) /\ \A l \in DOMAIN es : Concerns(es[l], {c.call})
  BY <1>1, <1>3, <1>4 DEF AllOf, OfAnswer, Streams, Concerns
<1>6. Followed(es)
  BY <1>3, <1>4 DEF Followed
<1>7. Paired(es)
  BY <1>3, <1>4 DEF Paired
<1>8. QED
  BY <1>2, <1>5, <1>6, <1>7 DEF Part, es

LEMMA AlonePart ==
    ASSUME NEW n \in Nat, NEW t \in Nat, NEW alone \in Seq(CallsOf(n, t)), Distinct(alone)
    PROVE  Part(FlattenSeq([i \in DOMAIN alone |-> <<InputEvent(alone[i]), ResultEvent(alone[i])>>]), n, Keys(alone))
<1> DEFINE ss == [i \in DOMAIN alone |-> <<InputEvent(alone[i]), ResultEvent(alone[i])>>]
           C == [i \in Nat |-> IF i \in DOMAIN alone THEN {alone[i].call} ELSE {}]
<1>1. Len(alone) \in Nat /\ DOMAIN alone = 1..Len(alone) /\ \A i \in 1..Len(alone) : alone[i] \in CallsOf(n, t)
  BY LenProperties, ElementOfSeq
<1>2. \A i \in 1..Len(alone) : alone[i].call \in CallIds /\ alone[i] \in CallRecords
  BY <1>1 DEF CallsOf, CallRecords
<1>3. C \in [Nat -> SUBSET CallIds]
  BY <1>1, <1>2
<1>4. \A i, j \in Nat : i # j => C[i] \cap C[j] = {}
  BY DEF Distinct
<1>5. ss \in Seq(Seq(Events)) /\ Len(ss) = Len(alone)
  <2>1. \A i \in 1..Len(alone) : <<InputEvent(alone[i]), ResultEvent(alone[i])>> \in Seq(Events)
    BY <1>2, CallEvents
  <2>2. ss \in [1..Len(alone) -> Seq(Events)]
    BY <1>1, <2>1
  <2>3. QED
    BY <1>1, <2>2
<1>6. ASSUME NEW i \in 1..Len(alone) PROVE Part(ss[i], n, C[i])
  <2>1. ss[i] = <<InputEvent(alone[i]), ResultEvent(alone[i])>> /\ C[i] = {alone[i].call}
    BY <1>1
  <2>2. QED
    BY <1>1, <2>1, OneCall
<1>7. UNION {C[i] : i \in 1..Len(alone)} = Keys(alone)
  <2>1. \A i \in 1..Len(alone) : C[i] = {alone[i].call}
    BY <1>1
  <2>2. Keys(alone) = {alone[i].call : i \in 1..Len(alone)}
    BY <1>1 DEF Keys
  <2> HIDE DEF C
  <2>3. QED
    BY <2>1, <2>2
<1> HIDE DEF ss, C
<1>8. Part(FlattenSeq(ss), n, UNION {C[i] : i \in 1..Len(ss)})
  BY <1>3, <1>4, <1>5, <1>6, PartsFlatten
<1>9. QED
  BY <1>5, <1>7, <1>8 DEF ss

LEMMA ResultsPart ==
    ASSUME NEW n \in Nat, NEW t \in Nat, NEW s \in Seq(CallsOf(n, t))
    PROVE  Part([i \in DOMAIN s |-> ResultEvent(s[i])], n, Keys(s))
<1> DEFINE es == [i \in DOMAIN s |-> ResultEvent(s[i])]
<1>1. Len(s) \in Nat /\ DOMAIN s = 1..Len(s) /\ \A i \in 1..Len(s) : s[i] \in CallsOf(n, t)
  BY LenProperties, ElementOfSeq
<1>2. \A i \in 1..Len(s) : /\ s[i] \in CallRecords /\ s[i].result \in {s[i].call, NoResult}
                           /\ s[i].call # NoResult /\ s[i].call[1] = n
  <2>1. ASSUME NEW i \in 1..Len(s) PROVE s[i].call # NoResult /\ s[i].call[1] = n
    <3>1. PICK k \in Nat : s[i].call = <<n, t, k>>
      BY <1>1 DEF CallsOf, TurnCalls
    <3>2. QED
      BY <3>1 DEF NoResult
  <2>2. QED
    BY <1>1, <2>1 DEF CallsOf
<1>3. es \in Seq(Events) /\ Len(es) = Len(s)
  <2>1. es \in [1..Len(s) -> Events]
    BY <1>1, <1>2, CallEvents
  <2>2. QED
    BY <1>1, <2>1
<1>4. \A i \in 1..Len(s) : es[i].type = "tool_result" /\ es[i].result = s[i].result
  BY <1>1 DEF ResultEvent
<1>5. DOMAIN es = 1..Len(s)
  BY <1>1
<1> HIDE DEF es
<1>6. AllOf(es, n)
  BY <1>2, <1>4, <1>5 DEF AllOf, OfAnswer, Streams
<1>7. \A i \in 1..Len(s) : Concerns(es[i], Keys(s)) /\ es[i].type # "tool_input"
  <2>1. \A i \in 1..Len(s) : s[i].call \in Keys(s)
    BY <1>1 DEF Keys
  <2>2. QED
    BY <1>2, <1>4, <2>1 DEF Concerns
<1>8. QED
  BY <1>3, <1>6, <1>7, PartPlain DEF es

LEMMA PlainPart ==
    ASSUME NEW n, NEW t \in {"status", "tool_start"}, NEW N \in Nat
    PROVE  Part([i \in 1..N |-> Event(t)], n, {})
<1> DEFINE es == [i \in 1..N |-> Event(t)]
<1>1. es \in Seq(Events) /\ Len(es) = N
  <2>1. es \in [1..N -> Events]
    BY PlainEvents
  <2>2. QED
    BY <2>1
<1>2. \A i \in 1..N : es[i].type = t
  BY DEF Event
<1>3. DOMAIN es = 1..N
  OBVIOUS
<1> HIDE DEF es
<1>4. AllOf(es, n)
  BY <1>2, <1>3 DEF AllOf, OfAnswer, Streams
<1>5. \A i \in 1..N : Concerns(es[i], {}) /\ es[i].type # "tool_input"
  BY <1>2 DEF Concerns
<1>6. QED
  BY <1>1, <1>4, <1>5, PartPlain DEF es

LEMMA StreamPart ==
    ASSUME NEW n \in Nat, NEW t \in Nat, NEW stream \in Seq({"thinking", "text"})
    PROVE  Part([i \in DOMAIN stream |-> [type |-> stream[i], piece |-> <<stream[i], n, <<t, i>>>>]], n, {})
<1> DEFINE es == [i \in DOMAIN stream |-> [type |-> stream[i], piece |-> <<stream[i], n, <<t, i>>>>]]
<1>1. Len(stream) \in Nat /\ DOMAIN stream = 1..Len(stream) /\ \A i \in 1..Len(stream) : stream[i] \in {"text", "thinking"}
  BY LenProperties, ElementOfSeq
<1>2. es \in Seq(Events) /\ Len(es) = Len(stream)
  <2>1. es \in [1..Len(stream) -> Events]
    BY <1>1, PiecesOfEvents
  <2>2. QED
    BY <1>1, <2>1
<1>3. \A i \in 1..Len(stream) : es[i].type = stream[i] /\ es[i].piece = <<stream[i], n, <<t, i>>>>
  BY <1>1
<1>4. DOMAIN es = 1..Len(stream)
  BY <1>1
<1> HIDE DEF es
<1>5. ASSUME NEW i \in 1..Len(stream) PROVE Len(es[i].piece) = 3 /\ es[i].piece[1] = es[i].type /\ es[i].piece[2] = n
  <2>1. PICK x : x = <<t, i>>
    OBVIOUS
  <2>2. es[i].piece = <<stream[i], n, x>> /\ es[i].type = stream[i]
    BY <1>3, <2>1
  <2>3. QED
    BY <2>2
<1>6. AllOf(es, n)
  BY <1>1, <1>3, <1>4, <1>5 DEF AllOf, OfAnswer, Streams
<1>7. \A i \in 1..Len(stream) : Concerns(es[i], {}) /\ es[i].type # "tool_input"
  BY <1>1, <1>3 DEF Concerns
<1>8. QED
  BY <1>2, <1>6, <1>7, PartPlain DEF es

LEMMA TurnPart ==
    ASSUME NEW n \in Nat, NEW t \in Nat, NEW turn \in Turn
    PROVE  Part(TurnEvents(n, t, turn), n, TurnCalls(n, t))
<1> DEFINE calls == Called(n, t, turn)
           safe == {i \in DOMAIN calls : turn.tools[i].safe}
           together == At(calls, safe)
           unsafe == At(calls, DOMAIN calls \ safe)
           parallel == IF Len(together) > 1 THEN together ELSE <<>>
           alone == IF Len(together) > 1 THEN unsafe ELSE together \o unsafe
           e1 == <<Event("status")>>
           e2 == [i \in DOMAIN turn.stream |-> [type |-> turn.stream[i], piece |-> <<turn.stream[i], n, <<t, i>>>>]]
           e3 == [i \in DOMAIN calls |-> Event("tool_start")]
           e4 == [i \in DOMAIN parallel |-> ResultEvent(parallel[i])]
           e5 == FlattenSeq([i \in DOMAIN alone |-> <<InputEvent(alone[i]), ResultEvent(alone[i])>>])
<1>1. TurnEvents(n, t, turn) = e1 \o e2 \o e3 \o e4 \o e5
  BY DEF TurnEvents
<1>2. calls \in Seq(CallsOf(n, t)) /\ Distinct(calls)
  BY CallsApart
<1>3. Len(calls) \in Nat /\ DOMAIN calls = 1..Len(calls)
  BY <1>2, LenProperties
<1> HIDE DEF calls
<1>4. together \in Seq(CallsOf(n, t)) /\ unsafe \in Seq(CallsOf(n, t)) /\ Distinct(together) /\ Distinct(unsafe)
  BY <1>2, AtType, AtDistinct
<1>5. Keys(together) \cap Keys(unsafe) = {}
  <2>1. ASSUME NEW i \in DOMAIN together, NEW j \in DOMAIN unsafe, together[i].call = unsafe[j].call PROVE FALSE
    <3>1. PICK k \in DOMAIN calls : k \in safe /\ together[i] = calls[k]
      <4> HIDE DEF safe
      <4> QED BY <1>2, AtDistinct
    <3>2. PICK l \in DOMAIN calls : l \in DOMAIN calls \ safe /\ unsafe[j] = calls[l]
      <4> HIDE DEF safe
      <4> QED BY <1>2, AtDistinct
    <3> HIDE DEF safe, together, unsafe
    <3>3. calls[k].call = calls[l].call
      BY <2>1, <3>1, <3>2
    <3>4. k = l
      BY <1>2, <3>3 DEF Distinct
    <3>5. QED
      BY <3>1, <3>2, <3>4
  <2> HIDE DEF together, unsafe
  <2>2. QED
    BY <2>1 DEF Keys
<1> HIDE DEF safe, together, unsafe
<1>6. /\ parallel \in Seq(CallsOf(n, t)) /\ alone \in Seq(CallsOf(n, t)) /\ Distinct(alone)
      /\ Keys(parallel) \cap Keys(alone) = {}
  <2>1. CASE Len(together) > 1
    BY <1>4, <1>5, <2>1
  <2>2. CASE ~(Len(together) > 1)
    <3>1. parallel = <<>> /\ alone = together \o unsafe
      BY <2>2
    <3>2. Keys(<<>>) = {} /\ <<>> \in Seq(CallsOf(n, t))
      BY EmptySeq DEF Keys
    <3>3. Distinct(together \o unsafe) /\ together \o unsafe \in Seq(CallsOf(n, t))
      BY <1>4, <1>5, DistinctJoin, ConcatProperties
    <3>4. QED
      BY <3>1, <3>2, <3>3
  <2>3. QED
    BY <2>1, <2>2
<1> HIDE DEF parallel, alone
<1>7. Part(e1, n, {}) /\ Part(e3, n, {})
  <2>1. e1 = [i \in 1..1 |-> Event("status")]
    OBVIOUS
  <2>2. e3 = [i \in 1..Len(calls) |-> Event("tool_start")]
    BY <1>3
  <2> HIDE DEF e1, e3
  <2>3. QED
    BY <1>3, <2>1, <2>2, PlainPart
<1>8. Part(e2, n, {})
  <2>1. turn.stream \in Seq({"thinking", "text"})
    BY DEF Turn
  <2>2. QED
    BY <2>1, StreamPart
<1>9. Part(e4, n, Keys(parallel)) /\ Part(e5, n, Keys(alone))
  BY <1>6, ResultsPart, AlonePart
<1> HIDE DEF e1, e2, e3, e4, e5
<1>10. Part(e1 \o e2, n, {} \union {})
  BY <1>7, <1>8, PartsJoin
<1>11. Part(e1 \o e2 \o e3, n, ({} \union {}) \union {})
  BY <1>7, <1>10, PartsJoin
<1>12. Part(e1 \o e2 \o e3 \o e4, n, (({} \union {}) \union {}) \union Keys(parallel))
  BY <1>9, <1>11, PartsJoin
<1>13. Part(e1 \o e2 \o e3 \o e4, n, Keys(parallel))
  BY <1>12, PartMore
<1>14. Part(e1 \o e2 \o e3 \o e4 \o e5, n, Keys(parallel) \union Keys(alone))
  BY <1>6, <1>9, <1>13, PartsJoin
<1>15. Keys(parallel) \union Keys(alone) \subseteq TurnCalls(n, t)
  <2>1. ASSUME NEW s \in Seq(CallsOf(n, t)) PROVE Keys(s) \subseteq TurnCalls(n, t)
    <3>1. DOMAIN s = 1..Len(s) /\ \A i \in 1..Len(s) : s[i] \in CallsOf(n, t)
      BY LenProperties, ElementOfSeq
    <3>2. QED
      BY <3>1 DEF Keys, CallsOf
  <2>2. QED
    BY <1>6, <2>1
<1>16. QED
  BY <1>1, <1>14, <1>15, PartMore

LEMMA AnswerPart ==
    ASSUME NEW n \in Nat, NEW a \in Answer
    PROVE  \E C : Part(FlattenSeq([t \in DOMAIN a.turns |-> TurnEvents(n, t, a.turns[t])]), n, C)
<1> DEFINE ss == [t \in DOMAIN a.turns |-> TurnEvents(n, t, a.turns[t])]
           C == [t \in Nat |-> TurnCalls(n, t)]
<1>1. a.turns \in Seq(Turn)
  BY DEF Answer
<1>2. Len(a.turns) \in Nat /\ DOMAIN a.turns = 1..Len(a.turns) /\ \A t \in 1..Len(a.turns) : a.turns[t] \in Turn
  BY <1>1, LenProperties, ElementOfSeq
<1>3. \A t \in Nat : TurnCalls(n, t) \in SUBSET CallIds
  BY DEF TurnCalls, CallIds
<1>4. C \in [Nat -> SUBSET CallIds]
  BY <1>3
<1>5. \A i, j \in Nat : i # j => C[i] \cap C[j] = {}
  <2>1. ASSUME NEW i \in Nat, NEW j \in Nat, i # j, NEW c, c \in TurnCalls(n, i), c \in TurnCalls(n, j) PROVE FALSE
    <3>1. PICK x \in Nat : c = <<n, i, x>>
      BY <2>1 DEF TurnCalls
    <3>2. PICK y \in Nat : c = <<n, j, y>>
      BY <2>1 DEF TurnCalls
    <3>3. QED
      BY <2>1, <3>1, <3>2
  <2>2. QED
    BY <2>1
<1>6. \A t \in 1..Len(a.turns) : ss[t] = TurnEvents(n, t, a.turns[t]) /\ C[t] = TurnCalls(n, t)
  BY <1>2
<1>7. ss \in Seq(Seq(Events)) /\ Len(ss) = Len(a.turns)
  <2>1. ss \in [1..Len(a.turns) -> Seq(Events)]
    BY <1>2, TurnType
  <2>2. QED
    BY <1>2, <2>1
<1>8. \A t \in 1..Len(ss) : Part(ss[t], n, C[t])
  BY <1>2, <1>6, <1>7, TurnPart
<1> HIDE DEF ss, C
<1>9. Part(FlattenSeq(ss), n, UNION {C[t] : t \in 1..Len(ss)})
  BY <1>4, <1>5, <1>7, <1>8, PartsFlatten
<1>10. QED
  BY <1>9 DEF ss

Orderly(es) == Followed(es) /\ Paired(es) /\ Ended(es)

LEMMA AnswerOrderly ==
    ASSUME NEW n \in Nat, NEW a \in Answer
    PROVE  Orderly(AnswerEvents(n, a)) /\ AllOf(AnswerEvents(n, a), n)
<1> DEFINE x == FlattenSeq([t \in DOMAIN a.turns |-> TurnEvents(n, t, a.turns[t])])
           last == IF a.end = "done" THEN Event("done") ELSE [type |-> "error", ask |-> n]
           y == <<last, Event("stream_end")>>
           s == x \o y
<1>1. AnswerEvents(n, a) = IF a.end = "refused" THEN <<>> ELSE s
  BY DEF AnswerEvents
<1>2. CASE a.end = "refused"
  <2>1. DOMAIN <<>> = {}
    OBVIOUS
  <2>2. QED
    BY <1>1, <1>2, <2>1 DEF Orderly, Followed, Paired, Ended, AllOf
<1>3. CASE a.end # "refused"
  <2>1. PICK C : Part(x, n, C)
    BY AnswerPart
  <2>2. y \in Seq(Events) /\ Len(y) = 2 /\ y[1] = last /\ y[2] = Event("stream_end")
    <3>1. [type |-> "error", ask |-> n] \in Events /\ Event("done") \in Events /\ Event("stream_end") \in Events
      BY PlainEvents DEF Events
    <3>2. QED
      BY <3>1
  <2>3. /\ last.type \in {"done", "error"} /\ (last.type = "error" => last.ask = n)
        /\ Event("stream_end").type = "stream_end"
    BY DEF Event
  <2> HIDE DEF x, y, last
  <2>4. /\ x \in Seq(Events) /\ Len(x) \in Nat /\ DOMAIN x = 1..Len(x) /\ DOMAIN s = 1..(Len(x) + 2)
        /\ \A i \in 1..Len(x) : s[i] = x[i]
        /\ s[Len(x) + 1] = last /\ s[Len(x) + 2] = Event("stream_end")
    <3>1. x \in Seq(Events)
      BY <2>1 DEF Part
    <3>2. 1 \in 1..Len(y) /\ 2 \in 1..Len(y)
      BY <2>2
    <3>3. /\ Len(x) \in Nat /\ DOMAIN x = 1..Len(x) /\ DOMAIN s = 1..(Len(x) + Len(y))
          /\ \A i \in 1..Len(x) : s[i] = x[i]
          /\ \A i \in 1..Len(y) : s[Len(x) + i] = y[i]
      BY <2>2, <3>1, ConcatIs, SMTT(30)
    <3> HIDE DEF s
    <3>4. QED
      BY <2>2, <3>1, <3>2, <3>3
  <2>5. PICK p : p = Len(x)
    OBVIOUS
  <2> HIDE DEF s
  <2>6. \A i \in 1..(p + 2) : i \in 1..p \/ i = p + 1 \/ i = p + 2
    BY <2>4, <2>5
  <2>7. AllOf(s, n)
    <3>1. \A i \in 1..p : OfAnswer(s[i], n)
      BY <2>1, <2>4, <2>5 DEF Part, AllOf
    <3>2. OfAnswer(s[p + 1], n) /\ OfAnswer(s[p + 2], n)
      BY <2>3, <2>4, <2>5 DEF OfAnswer, Streams
    <3>3. QED
      BY <2>4, <2>5, <2>6, <3>1, <3>2 DEF AllOf
  <2>8. \A i \in 1..(p + 2) : s[i].type \in {"tool_input", "tool_result"} => i \in 1..p
    BY <2>3, <2>4, <2>5, <2>6
  <2>9. Followed(s)
    <3>1. ASSUME NEW l \in 1..(p + 2), s[l].type = "tool_input"
          PROVE  l + 1 \in 1..(p + 2) /\ s[l + 1].type = "tool_result" /\ s[l + 1].name = s[l].name
      <4>1. l \in 1..p
        BY <2>8, <3>1
      <4>2. l + 1 \in 1..p /\ x[l + 1].type = "tool_result" /\ x[l + 1].name = x[l].name
        BY <2>1, <2>4, <2>5, <3>1, <4>1 DEF Part, Followed
      <4>3. QED
        BY <2>4, <2>5, <4>1, <4>2
    <3>2. QED
      BY <2>4, <2>5, <3>1 DEF Followed
  <2>10. Paired(s)
    <3>1. ASSUME NEW k \in 1..(p + 2), NEW l \in 1..(p + 2), k < l, s[k].type = "tool_input", s[l].type = "tool_result",
                 s[l].result = s[k].call
          PROVE  k + 1 = l
      <4>1. k \in 1..p /\ l \in 1..p
        BY <2>8, <3>1
      <4>2. QED
        BY <2>1, <2>4, <2>5, <3>1, <4>1 DEF Part, Paired
    <3>2. QED
      BY <2>4, <2>5, <3>1 DEF Paired
  <2>11. Ended(s)
    <3>1. ASSUME NEW l \in 1..(p + 2), NEW m \in 1..(p + 2), l < m, Ends(s[l]) PROVE s[m].type = "stream_end"
      <4>1. l \notin 1..p
        <5>1. \A i \in 1..p : x[i].type \notin {"done", "stream_end"}
          BY <2>1, <2>4, <2>5 DEF Part, Concerns
        <5>2. QED
          BY <2>4, <2>5, <3>1, <5>1 DEF Ends
      <4>2. m = p + 2
        BY <2>4, <2>5, <3>1, <4>1
      <4>3. QED
        BY <2>3, <2>4, <2>5, <4>2
    <3>2. QED
      BY <2>4, <2>5, <3>1 DEF Ended
  <2>12. QED
    BY <1>1, <1>3, <2>7, <2>9, <2>10, <2>11 DEF Orderly
<1>4. QED
  BY <1>2, <1>3
-----------------------------------------------------------------------------
(* A message tells of one question, the one it stands under, but for what  *)
(* was muddled; its result is of that question or a later one.             *)
Placed(m, u) ==
    /\ PartsOf(m) \ muddled \subseteq {u}
    /\ m.result # NoResult => m.result[1] \in muddled \/ u <= m.result[1]

MessageOK(m, n) ==
    /\ Clear(m.content)
    /\ m.role = "tool" => m.call # NoResult
    /\ PartsOf(m) \subseteq 0..n

Whole(ms, n) == \A i \in DOMAIN ms : Placed(ms[i], Under(ms, i)) /\ MessageOK(ms[i], n)

LEMMA WholeIs == ASSUME NEW ms, NEW n, Whole(ms, n) PROVE InPlace(ms) /\ \A i \in DOMAIN ms : Told(ms[i])
  BY ToldIs DEF Whole, Placed, MessageOK, Clear, InPlace

LEMMA WholeLater ==
    ASSUME NEW ms, NEW n \in Nat, NEW k \in Nat, n <= k, Whole(ms, n), muddled \subseteq muddled'
    PROVE  Whole(ms, k)' /\ Whole(ms, k)
<1>1. \A i : 0..n \subseteq 0..k
  OBVIOUS
<1>2. ASSUME NEW i \in DOMAIN ms PROVE Placed(ms[i], Under(ms, i))' /\ MessageOK(ms[i], k)
  <2>1. Placed(ms[i], Under(ms, i)) /\ MessageOK(ms[i], n)
    BY DEF Whole
  <2>2. Placed(ms[i], Under(ms, i))'
    BY <2>1 DEF Placed
  <2>3. MessageOK(ms[i], k)
    BY <1>1, <2>1 DEF MessageOK
  <2>4. QED
    BY <2>2, <2>3
<1>3. QED
  BY <1>2 DEF Whole

LEMMA ToSetAppend ==
    ASSUME NEW T, NEW s \in Seq(T), NEW e \in T
    PROVE  ToSet(Append(s, e)) = ToSet(s) \union {e}
<1>1. PICK t : t = Append(s, e)
  OBVIOUS
<1>2. Len(s) \in Nat /\ DOMAIN s = 1..Len(s) /\ DOMAIN t = 1..(Len(s) + 1) /\ (\A i \in 1..Len(s) : t[i] = s[i]) /\ t[Len(s) + 1] = e
  <2>1. t \in Seq(T) /\ Len(t) = Len(s) + 1 /\ \A i \in 1..Len(s) : t[i] = s[i]
    BY <1>1, AppendProperties
  <2>2. t[Len(s) + 1] = e
    BY <1>1, AppendProperties
  <2>3. QED
    BY <2>1, <2>2, LenProperties
<1>3. \A i \in 1..(Len(s) + 1) : i \in 1..Len(s) \/ i = Len(s) + 1
  BY <1>2
<1>4. {t[i] : i \in DOMAIN t} = {s[i] : i \in DOMAIN s} \union {e}
  BY <1>2, <1>3
<1>5. QED
  BY <1>1, <1>4 DEF ToSet

NumberOf(p) == IF Len(p) > 1 THEN {p[2]} ELSE {}
NumbersOf(c) == {p[2] : p \in {q \in ToSet(c) : Len(q) > 1}}

LEMMA PartsOfIs == \A m : PartsOf(m) = NumbersOf(m.content) \union {c[1] : c \in {m.call} \ {<<>>}}
  BY DEF PartsOf, NumbersOf

LEMMA NumbersAppend ==
    ASSUME NEW T, NEW c \in Seq(T), NEW p \in T
    PROVE  NumbersOf(Append(c, p)) = NumbersOf(c) \union NumberOf(p)
<1>1. ToSet(Append(c, p)) = ToSet(c) \union {p}
  BY ToSetAppend
<1>2. QED
  BY <1>1 DEF NumbersOf, NumberOf

LEMMA NumbersLonger ==
    ASSUME NEW c \in Seq(Pieces), NEW p \in Pieces
    PROVE  NumbersOf(Append(c, p)) = NumbersOf(c) \union NumberOf(p)
  BY NumbersAppend

LEMMA NumbersNone == NumbersOf(<<>>) = {}
<1>1. ToSet(<<>>) = {}
  BY DEF ToSet
<1>2. QED
  BY <1>1 DEF NumbersOf

LEMMA TagNumbers == NumberOf(OpenTag) = {} /\ NumberOf(CloseTag) = {}
  BY DEF NumberOf, OpenTag, CloseTag

LEMMA WholeAppend ==
    ASSUME NEW ms \in Seq(Messages), NEW n, Whole(ms, n), NEW m \in Messages,
           Placed(m, IF IsAsk(m) THEN Ask(m) ELSE Under(ms, Len(ms))), MessageOK(m, n)
    PROVE  Whole(Append(ms, m), n)
<1> DEFINE mt == Append(ms, m)
<1>1. Len(ms) \in Nat /\ DOMAIN ms = 1..Len(ms) /\ DOMAIN mt = 1..(Len(ms) + 1)
      /\ (\A i \in 1..Len(ms) : mt[i] = ms[i]) /\ mt[Len(ms) + 1] = m
  <2>1. mt \in Seq(Messages) /\ Len(mt) = Len(ms) + 1 /\ \A i \in 1..Len(ms) : mt[i] = ms[i]
    BY AppendProperties
  <2>2. mt[Len(ms) + 1] = m
    BY AppendProperties
  <2>3. QED
    BY <2>1, <2>2, LenProperties
<1>2. \A i \in 1..Len(ms) : i \in 0..Len(ms)
  OBVIOUS
<1>3. (\A i \in 1..Len(ms) : Under(mt, i) = Under(ms, i))
      /\ Under(mt, Len(ms) + 1) = IF IsAsk(m) THEN Ask(m) ELSE Under(ms, Len(ms))
  BY <1>2, UnderAppend
<1> HIDE DEF mt
<1>4. ASSUME NEW i \in 1..(Len(ms) + 1) PROVE Placed(mt[i], Under(mt, i)) /\ MessageOK(mt[i], n)
  <2>1. CASE i \in 1..Len(ms)
    BY <1>1, <1>3, <2>1 DEF Whole
  <2>2. CASE i = Len(ms) + 1
    BY <1>1, <1>3, <2>2
  <2>3. QED
    BY <1>1, <2>1, <2>2
<1>5. QED
  BY <1>1, <1>4 DEF Whole, mt

LEMMA WholeFront ==
    ASSUME NEW ms \in Seq(Messages), NEW n, NEW m \in Messages, Whole(Append(ms, m), n)
    PROVE  /\ Whole(ms, n) /\ MessageOK(m, n)
           /\ ~IsAsk(m) => Placed(m, Under(ms, Len(ms)))
<1> DEFINE mt == Append(ms, m)
<1>1. Len(ms) \in Nat /\ DOMAIN ms = 1..Len(ms) /\ DOMAIN mt = 1..(Len(ms) + 1)
      /\ (\A i \in 1..Len(ms) : mt[i] = ms[i]) /\ mt[Len(ms) + 1] = m
  <2>1. mt \in Seq(Messages) /\ Len(mt) = Len(ms) + 1 /\ \A i \in 1..Len(ms) : mt[i] = ms[i]
    BY AppendProperties
  <2>2. mt[Len(ms) + 1] = m
    BY AppendProperties
  <2>3. QED
    BY <2>1, <2>2, LenProperties
<1>2. \A i \in 1..Len(ms) : i \in 0..Len(ms)
  OBVIOUS
<1>3. (\A i \in 1..Len(ms) : Under(mt, i) = Under(ms, i))
      /\ Under(mt, Len(ms) + 1) = IF IsAsk(m) THEN Ask(m) ELSE Under(ms, Len(ms))
  BY <1>2, UnderAppend
<1>4. \A i \in 1..(Len(ms) + 1) : Placed(mt[i], Under(mt, i)) /\ MessageOK(mt[i], n)
  BY <1>1 DEF Whole
<1>5. (\A i \in 1..Len(ms) : i \in 1..(Len(ms) + 1)) /\ Len(ms) + 1 \in 1..(Len(ms) + 1)
  BY <1>1
<1> HIDE DEF mt
<1>6. QED
  BY <1>1, <1>3, <1>4, <1>5 DEF Whole

LEMMA WholeChange ==
    ASSUME NEW ms \in Seq(Messages), NEW n, Whole(ms, n), NEW j \in 1..Len(ms), ~IsAsk(ms[j]), NEW m \in Bubbles,
           Placed(m, Under(ms, j)), MessageOK(m, n)
    PROVE  Whole([ms EXCEPT ![j] = m], n)
<1> DEFINE mt == [ms EXCEPT ![j] = m]
<1>1. mt \in Seq(Messages) /\ Len(mt) = Len(ms) /\ \A i \in 1..Len(ms) : mt[i] = IF i = j THEN m ELSE ms[i]
  BY ExceptSeq DEF Messages
<1>2. DOMAIN mt = 1..Len(ms) /\ DOMAIN ms = 1..Len(ms) /\ Len(ms) \in Nat
  BY <1>1, LenProperties
<1> HIDE DEF mt
<1>3. ASSUME NEW i \in 1..Len(ms) PROVE Under(mt, i) = Under(ms, i)
  <2>1. i \in Nat /\ \A k \in 1..i : k \in 1..Len(ms)
    BY <1>2
  <2>2. \A k \in 1..i : (IsAsk(mt[k]) <=> IsAsk(ms[k])) /\ (IsAsk(ms[k]) => Ask(mt[k]) = Ask(ms[k]))
    BY <1>1, <2>1, NoAsk
  <2>3. QED
    BY <2>1, <2>2, UnderSame
<1>4. ASSUME NEW i \in 1..Len(ms) PROVE Placed(mt[i], Under(mt, i)) /\ MessageOK(mt[i], n)
  <2>1. CASE i = j
    BY <1>1, <1>3, <2>1
  <2>2. CASE i # j
    BY <1>1, <1>2, <1>3, <2>2 DEF Whole
  <2>3. QED
    BY <2>1, <2>2
<1>5. QED
  BY <1>2, <1>4 DEF Whole, mt

LEMMA WholeNothing == ASSUME NEW n PROVE Whole(<<>>, n)
<1>1. DOMAIN <<>> = {}
  OBVIOUS
<1>2. QED
  BY <1>1 DEF Whole

(* The messages that are added. *)
LEMMA AnswerGood == ASSUME NEW u, NEW n PROVE Placed(EmptyAnswer, u) /\ MessageOK(EmptyAnswer, n)
<1>1. EmptyAnswer.content = <<>> /\ EmptyAnswer.call = <<>> /\ EmptyAnswer.result = NoResult /\ EmptyAnswer.role = "assistant"
  BY DEF EmptyAnswer
<1>2. PartsOf(EmptyAnswer) = {}
  BY <1>1, PartsOfIs, NumbersNone
<1>3. QED
  BY <1>1, <1>2, ClearNothing DEF Placed, MessageOK

LEMMA ToolGood ==
    ASSUME NEW name, NEW call, call # NoResult, NEW u, NEW n, call[1] \in muddled \/ call[1] = u, call[1] \in 0..n
    PROVE  Placed(ToolMessage(name, call), u) /\ MessageOK(ToolMessage(name, call), n)
<1> DEFINE m == ToolMessage(name, call)
<1>1. m.content = <<>> /\ m.call = call /\ m.result = NoResult
  BY DEF ToolMessage
<1> HIDE DEF m
<1>2. PartsOf(m) = {call[1]}
  BY <1>1, PartsOfIs, NumbersNone DEF NoResult
<1>3. QED
  BY <1>1, <1>2, ClearNothing DEF Placed, MessageOK, m

LEMMA QuestionGood ==
    ASSUME NEW a \in Nat, NEW n \in Nat, a <= n
    PROVE  Placed(UserMessage(a), a) /\ MessageOK(UserMessage(a), n)
<1> DEFINE m == UserMessage(a)
           p == <<"typed", a>>
<1>1. m.content = Append(<<>>, p) /\ m.call = <<>> /\ m.result = NoResult /\ m.role = "user"
  BY DEF UserMessage
<1>2. Len(p) = 2 /\ p[1] = "typed" /\ p[2] = a /\ p # OpenTag /\ p # CloseTag
  BY DEF OpenTag, CloseTag
<1> HIDE DEF m, p
<1>3. <<>> \in Seq({p})
  BY EmptySeq
<1>4. NumbersOf(m.content) = {} \union {a}
  <2>1. NumberOf(p) = {a}
    BY <1>2 DEF NumberOf
  <2>2. NumbersOf(Append(<<>>, p)) = NumbersOf(<<>>) \union NumberOf(p)
    BY <1>3, NumbersAppend
  <2>3. QED
    BY <1>1, <2>1, <2>2, NumbersNone
<1>5. PartsOf(m) = {a}
  BY <1>1, <1>4, PartsOfIs
<1>6. Clear(m.content)
  BY <1>1, <1>2, <1>3, ClearNothing, ClearOther
<1>7. QED
  BY <1>1, <1>5, <1>6 DEF Placed, MessageOK, m

(* A result is put into a bubble. *)
LEMMA ResultGood ==
    ASSUME NEW m \in Bubbles, NEW u, NEW n, Placed(m, u), MessageOK(m, n), NEW r \in CallIds,
           r # NoResult => r[1] \in muddled \/ u <= r[1]
    PROVE  /\ [m EXCEPT !.result = r] \in Bubbles
           /\ Placed([m EXCEPT !.result = r], u) /\ MessageOK([m EXCEPT !.result = r], n)
<1> DEFINE mt == [m EXCEPT !.result = r]
<1>1. mt \in Bubbles /\ mt.content = m.content /\ mt.call = m.call /\ mt.role = m.role /\ mt.result = r
  BY DEF Bubbles
<1> HIDE DEF mt
<1>2. PartsOf(mt) = PartsOf(m)
  BY <1>1 DEF PartsOf
<1>3. QED
  BY <1>1, <1>2 DEF Placed, MessageOK, mt

(* A content grows by what is of the question it stands under. *)
LEMMA LongerGood ==
    ASSUME NEW m \in Bubbles, NEW u, NEW n, Placed(m, u), MessageOK(m, n), NEW c \in Seq(Pieces), Clear(c),
           NEW a, NumbersOf(c) \subseteq NumbersOf(m.content) \union {a}, a \in muddled \/ a = u, a \in 0..n
    PROVE  /\ [m EXCEPT !.content = c] \in Bubbles
           /\ Placed([m EXCEPT !.content = c], u) /\ MessageOK([m EXCEPT !.content = c], n)
<1> DEFINE mt == [m EXCEPT !.content = c]
<1>1. mt \in Bubbles /\ mt.content = c /\ mt.call = m.call /\ mt.role = m.role /\ mt.result = m.result
  BY DEF Bubbles
<1> HIDE DEF mt
<1>2. PartsOf(mt) \subseteq PartsOf(m) \union {a}
  BY <1>1, PartsOfIs
<1>3. QED
  BY <1>1, <1>2 DEF Placed, MessageOK, mt
-----------------------------------------------------------------------------
(* What an event makes of the last message. *)

LEMMA ExtendedIs ==
    ASSUME NEW r \in Seq(Messages), NEW m \in Bubbles, NEW pieces \in Seq(Pieces)
    PROVE  Extended(Append(r, m), pieces) = Append(r, [m EXCEPT !.content = @ \o pieces])
<1> DEFINE mt == [m EXCEPT !.content = @ \o pieces]
<1>1. PICK ms : ms = Append(r, m)
  OBVIOUS
<1>2. ms \in Seq(Messages) /\ Len(ms) = Len(r) + 1 /\ Len(r) \in Nat /\ (\A i \in 1..Len(r) : ms[i] = r[i]) /\ ms[Len(r) + 1] = m
  <2>1. ms \in Seq(Messages) /\ Len(ms) = Len(r) + 1 /\ Len(r) \in Nat /\ \A i \in 1..Len(r) : ms[i] = r[i]
    BY <1>1, AppendProperties, LenProperties DEF Messages
  <2>2. ms[Len(r) + 1] = m
    BY <1>1, AppendProperties DEF Messages
  <2>3. QED
    BY <2>1, <2>2
<1>3. mt \in Bubbles
  <2>1. m.content \o pieces \in Seq(Pieces)
    BY ConcatProperties DEF Bubbles
  <2>2. QED
    BY <2>1 DEF Bubbles
<1>4. Extended(ms, pieces) = [ms EXCEPT ![Len(ms)] = mt]
  BY <1>2 DEF Extended
<1> HIDE DEF mt
<1>5. Len(ms) \in 1..Len(ms)
  BY <1>2
<1>6. PICK d : d = [ms EXCEPT ![Len(ms)] = mt]
  OBVIOUS
<1>7. d \in Seq(Messages) /\ Len(d) = Len(ms) /\ \A i \in 1..Len(ms) : d[i] = IF i = Len(ms) THEN mt ELSE ms[i]
  BY <1>2, <1>3, <1>5, <1>6, ExceptSeq DEF Messages
<1>8. PICK b : b = Append(r, mt)
  OBVIOUS
<1>9. b \in Seq(Messages) /\ Len(b) = Len(ms) /\ \A i \in 1..Len(ms) : b[i] = IF i = Len(ms) THEN mt ELSE ms[i]
  <2>1. b \in Seq(Messages) /\ Len(b) = Len(r) + 1 /\ \A i \in 1..Len(r) : b[i] = r[i]
    BY <1>3, <1>8, AppendProperties DEF Messages
  <2>2. b[Len(r) + 1] = mt
    BY <1>3, <1>8, AppendProperties DEF Messages
  <2>3. \A i \in 1..(Len(r) + 1) : i \in 1..Len(r) \/ i = Len(r) + 1
    BY <1>2
  <2>4. QED
    BY <1>2, <2>1, <2>2, <2>3
<1>10. d = b
  BY <1>7, <1>9, SeqEqual
<1>11. QED
  BY <1>1, <1>4, <1>6, <1>8, <1>10 DEF mt

LEMMA HasIs == ASSUME NEW m, NEW tag PROVE Has(m, tag) <=> \E j \in 1..Len(m.content) : m.content[j] = tag
  BY DEF Has, Contains

(* A content of the form that thinking and text leave. *)
Grown(c, old, p) ==
    /\ c \in Seq(Pieces) /\ Clear(c)
    /\ NumbersOf(c) = NumbersOf(old) \union {p[2]}
    /\ \A n : PiecesIn(c, n) = IF Own(p, n) THEN Append(PiecesIn(old, n), p) ELSE PiecesIn(old, n)

LEMMA GrowsByOne ==
    ASSUME NEW c \in Seq(Pieces), NEW p \in Pieces, Len(p) > 1, Clear(Append(c, p))
    PROVE  Grown(Append(c, p), c, p)
<1>1. c \in Seq(AnyPieces) /\ p \in AnyPieces /\ Append(c, p) \in Seq(Pieces)
  <2>1. Pieces \subseteq AnyPieces
    BY DEF AnyPieces
  <2>2. QED
    BY <2>1, SeqMonotonic, AppendProperties
<1>2. NumbersOf(Append(c, p)) = NumbersOf(c) \union {p[2]}
  BY NumbersLonger DEF NumberOf
<1>3. QED
  BY <1>1, <1>2, PiecesInAppend DEF Grown

LEMMA GrowsByTwo ==
    ASSUME NEW c \in Seq(Pieces), NEW p \in Pieces, Len(p) > 1, NEW tag \in {OpenTag, CloseTag}, Clear(Append(Append(c, tag), p))
    PROVE  Grown(Append(Append(c, tag), p), c, p)
<1>1. tag \in Pieces /\ Len(tag) = 1
  BY DEF Pieces, OpenTag, CloseTag
<1>2. c \in Seq(AnyPieces) /\ p \in AnyPieces /\ tag \in AnyPieces /\ Append(c, tag) \in Seq(Pieces)
      /\ Append(c, tag) \in Seq(AnyPieces) /\ Append(Append(c, tag), p) \in Seq(Pieces)
  <2>1. Pieces \subseteq AnyPieces
    BY DEF AnyPieces
  <2>2. QED
    BY <1>1, <2>1, SeqMonotonic, AppendProperties
<1>3. NumbersOf(Append(c, tag)) = NumbersOf(c)
  <2>1. NumberOf(tag) = {}
    BY TagNumbers
  <2>2. QED
    BY <1>1, <2>1, NumbersLonger
<1>4. NumbersOf(Append(Append(c, tag), p)) = NumbersOf(c) \union {p[2]}
  <2>1. NumberOf(p) = {p[2]}
    BY DEF NumberOf
  <2>2. NumbersOf(Append(Append(c, tag), p)) = NumbersOf(Append(c, tag)) \union NumberOf(p)
    BY <1>2, NumbersLonger
  <2>3. QED
    BY <1>3, <2>1, <2>2
<1>5. ASSUME NEW n
      PROVE  PiecesIn(Append(Append(c, tag), p), n) = IF Own(p, n) THEN Append(PiecesIn(c, n), p) ELSE PiecesIn(c, n)
  <2>1. ~Own(tag, n)
    BY <1>1 DEF Own
  <2>2. PiecesIn(Append(c, tag), n) = PiecesIn(c, n)
    BY <1>2, <2>1, PiecesInAppend
  <2>3. QED
    BY <1>2, <2>2, PiecesInAppend
<1>6. QED
  BY <1>2, <1>4, <1>5 DEF Grown

(* What text, thinking or a lost connection put at the end.                *)
LEMMA PieceExtends ==
    ASSUME NEW r \in Seq(Messages), NEW m \in Bubbles, m.role = "assistant", Clear(m.content), NEW p \in Pieces, Len(p) > 1
    PROVE  /\ p[1] = "thinking" => \E c : Grown(c, m.content, p) /\ AddThinking(Append(r, m), p) = Append(r, [m EXCEPT !.content = c])
           /\ p[1] = "text" => \E c : Grown(c, m.content, p) /\ AddText(Append(r, m), p) = Append(r, [m EXCEPT !.content = c])
           /\ p[1] = "error" => \E c : Grown(c, m.content, p) /\ Extended(Append(r, m), <<p>>) = Append(r, [m EXCEPT !.content = c])
<1>1. PICK o : o = m.content
  OBVIOUS
<1>2. o \in Seq(Pieces) /\ Len(o) \in Nat /\ <<p>> \in Seq(Pieces) /\ OpenTag \in Pieces /\ CloseTag \in Pieces
  BY <1>1, LenProperties DEF Bubbles, Pieces
<1>3. Last(Append(r, m)) = m /\ EndsWithAnswer(Append(r, m))
  <2>1. Last(Append(r, m)) = m /\ Append(r, m) # <<>>
    BY EndOfAppend, AppendProperties DEF Messages
  <2>2. QED
    BY <2>1 DEF EndsWithAnswer
<1>4. o \o <<p>> = Append(o, p)
  BY <1>2, AppendIsConcat
<1>5. ASSUME NEW tag \in {OpenTag, CloseTag} PROVE <<tag>> \o <<p>> \in Seq(Pieces) /\ o \o (<<tag>> \o <<p>>) = Append(Append(o, tag), p)
  <2>1. tag \in Pieces /\ <<tag>> \in Seq(Pieces)
    BY <1>2
  <2>2. QED
    BY <1>2, <2>1
<1>6. <<>> \o <<p>> = <<p>>
  OBVIOUS
<1>7. ASSUME NEW ps \in Seq(Pieces) PROVE Extended(Append(r, m), ps) = Append(r, [m EXCEPT !.content = o \o ps])
  BY <1>1, ExtendedIs
<1>8. ASSUME Clear(Append(o, p))
      PROVE  \E c : Grown(c, m.content, p) /\ Extended(Append(r, m), <<p>>) = Append(r, [m EXCEPT !.content = c])
  <2>1. Grown(Append(o, p), o, p)
    BY <1>2, <1>8, GrowsByOne
  <2>2. Extended(Append(r, m), <<p>>) = Append(r, [m EXCEPT !.content = Append(o, p)])
    BY <1>2, <1>4, <1>7
  <2>3. QED
    BY <1>1, <2>1, <2>2
<1>9. ASSUME NEW tag \in {OpenTag, CloseTag}, Clear(Append(Append(o, tag), p))
      PROVE  \E c : Grown(c, m.content, p) /\ Extended(Append(r, m), <<tag>> \o <<p>>) = Append(r, [m EXCEPT !.content = c])
  <2>1. Grown(Append(Append(o, tag), p), o, p)
    BY <1>2, <1>9, GrowsByTwo
  <2>2. Extended(Append(r, m), <<tag>> \o <<p>>) = Append(r, [m EXCEPT !.content = Append(Append(o, tag), p)])
    BY <1>5, <1>7
  <2>3. QED
    BY <1>1, <2>1, <2>2
<1>10. ASSUME p[1] = "thinking"
       PROVE  \E c : Grown(c, m.content, p) /\ AddThinking(Append(r, m), p) = Append(r, [m EXCEPT !.content = c])
  <2>1. CASE Has(m, OpenTag)
    <3>1. PICK j \in 1..Len(o) : o[j] = OpenTag
      BY <1>1, <2>1, HasIs
    <3>2. Clear(Append(o, p))
      BY <1>1, <1>2, <1>10, <3>1, ClearThinking
    <3>3. AddThinking(Append(r, m), p) = Extended(Append(r, m), <<p>>)
      BY <1>3, <1>6, <2>1 DEF AddThinking
    <3>4. QED
      BY <1>8, <3>2, <3>3
  <2>2. CASE ~Has(m, OpenTag)
    <3>1. \A j \in 1..Len(o) : o[j] # OpenTag
      BY <1>1, <2>2, HasIs
    <3>2. Clear(Append(Append(o, OpenTag), p))
      BY <1>1, <1>2, <1>10, <3>1, ClearOpen
    <3>3. AddThinking(Append(r, m), p) = Extended(Append(r, m), <<OpenTag>> \o <<p>>)
      BY <1>3, <2>2 DEF AddThinking
    <3>4. QED
      BY <1>9, <3>2, <3>3
  <2>3. QED
    BY <2>1, <2>2
<1>11. ASSUME p[1] = "text"
       PROVE  \E c : Grown(c, m.content, p) /\ AddText(Append(r, m), p) = Append(r, [m EXCEPT !.content = c])
  <2>1. CASE Has(m, OpenTag) /\ ~Has(m, CloseTag)
    <3>1. PICK j \in 1..Len(o) : o[j] = OpenTag
      BY <1>1, <2>1, HasIs
    <3>2. \A i \in 1..Len(o) : o[i] # CloseTag
      BY <1>1, <2>1, HasIs
    <3>3. Clear(Append(Append(o, CloseTag), p))
      BY <1>1, <1>2, <1>11, <3>1, <3>2, ClearClose
    <3>4. AddText(Append(r, m), p) = Extended(Append(r, m), <<CloseTag>> \o <<p>>)
      BY <1>3, <2>1 DEF AddText
    <3>5. QED
      BY <1>9, <3>3, <3>4
  <2>2. CASE ~(Has(m, OpenTag) /\ ~Has(m, CloseTag))
    <3>1. (\A j \in 1..Len(o) : o[j] # OpenTag) \/ \E k \in 1..Len(o) : o[k] = CloseTag
      BY <1>1, <2>2, HasIs
    <3>2. Clear(Append(o, p))
      BY <1>1, <1>2, <1>11, <3>1, ClearText
    <3>3. AddText(Append(r, m), p) = Extended(Append(r, m), <<p>>)
      BY <1>3, <1>6, <2>2 DEF AddText
    <3>4. QED
      BY <1>8, <3>2, <3>3
  <2>3. QED
    BY <2>1, <2>2
<1>12. ASSUME p[1] = "error" PROVE Clear(Append(o, p))
  <2>1. p # OpenTag /\ p # CloseTag
    BY <1>12 DEF OpenTag, CloseTag
  <2>2. QED
    BY <1>1, <1>2, <1>12, <2>1, ClearOther
<1>13. QED
  BY <1>8, <1>10, <1>11, <1>12
LEMMA UnderLow ==
    ASSUME NEW n \in Nat, NEW ms \in Seq(Messages), Whole(ms, n), NEW i \in 0..Len(ms)
    PROVE  Under(ms, i) \in 0..n
<1>1. i \in Nat /\ Len(ms) \in Nat /\ DOMAIN ms = 1..Len(ms)
  BY LenProperties
<1>2. ASSUME NEW j \in 1..i, IsAsk(ms[j]) PROVE Ask(ms[j]) \in 0..n
  <2>1. j \in 1..Len(ms) /\ ms[j] \in Messages
    BY <1>1, ElementOfSeq
  <2>2. PICK m : m = ms[j]
    OBVIOUS
  <2>3. m \in Questions
    BY <1>2, <2>1, <2>2, AskOf
  <2>4. PICK a \in Nat : m = UserMessage(a)
    BY <2>3 DEF Questions
  <2>5. Ask(m) = a /\ m.content = <<<<"typed", a>>>>
    BY <2>4, Question DEF UserMessage
  <2>6. a \in NumbersOf(m.content)
    <3>1. PICK p : p = <<"typed", a>>
      OBVIOUS
    <3>2. Len(p) > 1 /\ p[2] = a
      BY <3>1
    <3>3. m.content[1] = p /\ 1 \in DOMAIN m.content
      BY <2>5, <3>1
    <3>4. p \in ToSet(m.content)
      BY <3>3 DEF ToSet
    <3>5. QED
      BY <3>2, <3>4 DEF NumbersOf
  <2>7. PartsOf(m) \subseteq 0..n
    BY <1>1, <2>1, <2>2 DEF Whole, MessageOK
  <2>8. QED
    BY <2>2, <2>5, <2>6, <2>7, PartsOfIs
<1>3. CASE Under(ms, i) = 0
  BY <1>3
<1>4. CASE \E j \in 1..i : IsAsk(ms[j]) /\ Under(ms, i) = Ask(ms[j])
  BY <1>2, <1>4
<1>5. QED
  BY <1>1, <1>3, <1>4, UnderIs

LEMMA LastBubble ==
    ASSUME NEW n, NEW ms \in Seq(Messages), EndsWithAnswer(ms), Whole(ms, n)
    PROVE  \E r \in Seq(Messages), m \in Bubbles :
               /\ ms = Append(r, m) /\ Front(ms) = r /\ Last(ms) = m /\ m.role = "assistant"
               /\ Whole(r, n) /\ MessageOK(m, n) /\ Placed(m, Under(ms, Len(ms))) /\ Under(ms, Len(ms)) = Under(r, Len(r))
               /\ Len(ms) = Len(r) + 1
<1>1. PICK r \in Seq(Messages), m \in Bubbles : ms = Append(r, m) /\ Front(ms) = r /\ Last(ms) = m
  BY AnswerLast
<1>2. m.role = "assistant"
  BY <1>1 DEF EndsWithAnswer
<1>3. m \in Messages /\ ~IsAsk(m) /\ Len(ms) = Len(r) + 1
  BY <1>1, NoAsk, AppendProperties DEF Messages
<1>4. Whole(r, n) /\ MessageOK(m, n) /\ Placed(m, Under(r, Len(r)))
  BY <1>1, <1>3, WholeFront
<1>5. Under(ms, Len(ms)) = Under(r, Len(r))
  BY <1>1, <1>3, UnderAppend
<1>6. QED
  BY <1>1, <1>2, <1>3, <1>4, <1>5

LEMMA PieceWhole ==
    ASSUME NEW n \in Nat, NEW r \in Seq(Messages), NEW m \in Bubbles, Whole(r, n), MessageOK(m, n), NEW u, u = Under(r, Len(r)), Placed(m, u),
           NEW c, NEW p, Grown(c, m.content, p), p[2] \in muddled \/ p[2] = u, p[2] \in 0..n
    PROVE  [m EXCEPT !.content = c] \in Bubbles /\ Whole(Append(r, [m EXCEPT !.content = c]), n)
<1>1. c \in Seq(Pieces) /\ Clear(c) /\ NumbersOf(c) = NumbersOf(m.content) \union {p[2]}
  BY DEF Grown
<1> DEFINE mt == [m EXCEPT !.content = c]
<1>2. mt \in Bubbles /\ Placed(mt, u) /\ MessageOK(mt, n)
  BY <1>1, LongerGood
<1> HIDE DEF mt
<1>3. Whole(Append(r, mt), n)
  BY <1>2, NoAsk, WholeAppend DEF Messages
<1>4. QED
  BY <1>2, <1>3 DEF mt

LEMMA EventPiece ==
    ASSUME NEW e \in Events, NEW n, OfAnswer(e, n), Streams(e)
    PROVE  e.piece \in Pieces /\ Len(e.piece) = 3 /\ e.piece[1] = e.type /\ e.piece[2] = n
  BY DEF Events, Streams, OfAnswer

(* An event of the answer to the last question leaves all in its place.    *)
LEMMA EventWhole ==
    ASSUME NEW n \in Nat, NEW ms \in Seq(Messages), NEW e \in Events, OfAnswer(e, n), Whole(ms, n),
           n \in muddled \/ Under(ms, Len(ms)) = n
    PROVE  Whole(HandleEvent(ms, e), n)
<1>1. CASE e.type \in {"thinking", "text"}
  <2>1. e.piece \in Pieces /\ Len(e.piece) = 3 /\ e.piece[1] = e.type /\ e.piece[2] = n
    BY <1>1, EventPiece DEF Streams
  <2>2. HandleEvent(ms, e) = IF e.type = "thinking" THEN AddThinking(ms, e.piece) ELSE AddText(ms, e.piece)
    BY <1>1 DEF HandleEvent
  <2>3. CASE ~EndsWithAnswer(ms)
    BY <2>2, <2>3 DEF AddThinking, AddText
  <2>4. CASE EndsWithAnswer(ms)
    <3>1. PICK r \in Seq(Messages), m \in Bubbles :
               /\ ms = Append(r, m) /\ m.role = "assistant"
               /\ Whole(r, n) /\ MessageOK(m, n) /\ Placed(m, Under(ms, Len(ms))) /\ Under(ms, Len(ms)) = Under(r, Len(r))
      BY <2>4, LastBubble
    <3>2. Clear(m.content)
      BY <3>1 DEF MessageOK
    <3>3. \E c : Grown(c, m.content, e.piece) /\ HandleEvent(ms, e) = Append(r, [m EXCEPT !.content = c])
      <4>1. PICK p : p = e.piece
        OBVIOUS
      <4>2. p \in Pieces /\ Len(p) > 1 /\ p[1] = e.type
        BY <2>1, <4>1
      <4>3. CASE e.type = "thinking"
        <5>1. HandleEvent(ms, e) = AddThinking(Append(r, m), p) /\ p[1] = "thinking"
          BY <2>2, <3>1, <4>1, <4>2, <4>3
        <5>2. \E c : Grown(c, m.content, p) /\ AddThinking(Append(r, m), p) = Append(r, [m EXCEPT !.content = c])
          BY <3>1, <3>2, <4>2, <5>1, PieceExtends
        <5>3. QED
          BY <4>1, <5>1, <5>2
      <4>4. CASE e.type = "text"
        <5>1. HandleEvent(ms, e) = AddText(Append(r, m), p) /\ p[1] = "text"
          BY <2>2, <3>1, <4>1, <4>2, <4>4
        <5>2. \E c : Grown(c, m.content, p) /\ AddText(Append(r, m), p) = Append(r, [m EXCEPT !.content = c])
          BY <3>1, <3>2, <4>2, <5>1, PieceExtends
        <5>3. QED
          BY <4>1, <5>1, <5>2
      <4>5. QED
        BY <1>1, <4>3, <4>4
    <3>4. PICK c : Grown(c, m.content, e.piece) /\ HandleEvent(ms, e) = Append(r, [m EXCEPT !.content = c])
      BY <3>3
    <3>5. PICK u : u = Under(r, Len(r))
      OBVIOUS
    <3>6. Placed(m, u) /\ (e.piece[2] \in muddled \/ e.piece[2] = u) /\ e.piece[2] \in 0..n
      BY <2>1, <3>1, <3>5
    <3>7. Whole(Append(r, [m EXCEPT !.content = c]), n)
      BY <3>1, <3>4, <3>5, <3>6, PieceWhole
    <3>8. QED
      BY <3>4, <3>7
  <2>5. QED
    BY <2>3, <2>4
<1>2. CASE e.type = "tool_input"
  <2>1. e.name \in Names /\ e.call \in CallIds /\ e.call # NoResult /\ e.call[1] = n
    BY <1>2 DEF Events, OfAnswer
  <2>2. ToolMessage(e.name, e.call) \in Bubbles
    <3>1. <<>> \in Seq(Pieces) /\ NoResult \in CallIds
      BY EmptySeq DEF CallIds
    <3>2. QED
      BY <2>1, <3>1 DEF ToolMessage, Bubbles
  <2>3. HandleEvent(ms, e) = Append(ms, ToolMessage(e.name, e.call))
    BY <1>2 DEF HandleEvent
  <2>4. Placed(ToolMessage(e.name, e.call), Under(ms, Len(ms))) /\ MessageOK(ToolMessage(e.name, e.call), n)
    <3>1. PICK call : call = e.call
      OBVIOUS
    <3>2. PICK u : u = Under(ms, Len(ms))
      OBVIOUS
    <3>3. call # NoResult /\ (call[1] \in muddled \/ call[1] = u) /\ call[1] \in 0..n
      BY <2>1, <3>1, <3>2
    <3>4. Placed(ToolMessage(e.name, call), u) /\ MessageOK(ToolMessage(e.name, call), n)
      BY <3>3, ToolGood
    <3>5. QED
      BY <3>1, <3>2, <3>4
  <2>5. QED
    BY <2>2, <2>3, <2>4, NoAsk, WholeAppend DEF Messages
<1>3. CASE e.type = "tool_result"
  <2>1. e.result \in CallIds /\ (e.result # NoResult => e.result[1] = n)
    BY <1>3 DEF Events, OfAnswer
  <2>2. HandleEvent(ms, e) = AddResult(ms, e.name, e.result)
    BY <1>3 DEF HandleEvent
  <2>3. CASE Waiting(ms, e.name) = {}
    <3>1. HandleEvent(ms, e) = Append(ms, EmptyAnswer)
      BY <2>2, <2>3 DEF AddResult
    <3>2. QED
      BY <3>1, Answering, NoAsk, AnswerGood, WholeAppend DEF Messages
  <2>4. CASE Waiting(ms, e.name) # {}
    <3> DEFINE j == Max(Waiting(ms, e.name))
               m == [ms[j] EXCEPT !.result = e.result]
    <3>1. Waiting(ms, e.name) \subseteq 1..Len(ms) /\ Len(ms) \in Nat /\ DOMAIN ms = 1..Len(ms)
      BY LenProperties DEF Waiting
    <3>2. j \in Waiting(ms, e.name) /\ j \in 1..Len(ms)
      BY <2>4, <3>1, MaxIn
    <3>3. ms[j].role = "tool" /\ ms[j] \in Messages
      BY <3>2, ElementOfSeq DEF Waiting
    <3>4. HandleEvent(ms, e) = Append([ms EXCEPT ![j] = m], EmptyAnswer)
      BY <2>2, <2>4 DEF AddResult
    <3> HIDE DEF j
    <3>5. ms[j] \in Bubbles /\ ~IsAsk(ms[j])
      BY <3>3, NoQuestion
    <3>6. Under(ms, j) \in 0..n /\ Placed(ms[j], Under(ms, j)) /\ MessageOK(ms[j], n)
      <4>1. j \in 0..Len(ms)
        BY <3>2
      <4>2. QED
        BY <3>1, <3>2, <4>1, UnderLow DEF Whole
    <3>7. m \in Bubbles /\ Placed(m, Under(ms, j)) /\ MessageOK(m, n)
      <4>1. e.result # NoResult => Under(ms, j) <= e.result[1]
        BY <2>1, <3>6
      <4>2. QED
        BY <2>1, <3>5, <3>6, <4>1, ResultGood
    <3> HIDE DEF m
    <3>8. [ms EXCEPT ![j] = m] \in Seq(Messages) /\ Whole([ms EXCEPT ![j] = m], n)
      BY <3>2, <3>5, <3>7, AsksSame, WholeChange
    <3>9. QED
      BY <3>4, <3>8, Answering, NoAsk, AnswerGood, WholeAppend DEF Messages
  <2>5. QED
    BY <2>3, <2>4
<1>4. CASE e.type \in {"done", "stream_end"}
  <2>1. HandleEvent(ms, e) = DropEmptyAnswer(ms)
    BY <1>4 DEF HandleEvent
  <2>2. CASE EndsWithAnswer(ms) /\ Last(ms).content = <<>>
    <3>1. Whole(Front(ms), n)
      BY <2>2, LastBubble
    <3>2. QED
      BY <2>1, <2>2, <3>1 DEF DropEmptyAnswer
  <2>3. QED
    BY <2>1, <2>2 DEF DropEmptyAnswer
<1>5. CASE e.type = "error"
  <2>1. e.ask = n
    BY <1>5 DEF OfAnswer
  <2> DEFINE m == [EmptyAnswer EXCEPT !.content = <<ErrorPiece(n)>>]
             p == ErrorPiece(n)
  <2>2. p \in Pieces /\ p[1] = "error" /\ p[2] = n /\ Len(p) = 2 /\ p # OpenTag /\ p # CloseTag
    BY DEF Pieces, ErrorPiece, OpenTag, CloseTag
  <2>3. <<>> \in Seq(Pieces) /\ <<p>> = Append(<<>>, p) /\ <<p>> \in Seq(Pieces)
    BY <2>2, EmptySeq
  <2> HIDE DEF p
  <2>4. Clear(Append(<<>>, p))
    BY <2>2, <2>3, ClearNothing, ClearOther
  <2>5. NumbersOf(Append(<<>>, p)) = NumbersOf(<<>>) \union {n}
    <3>1. NumberOf(p) = {n}
      BY <2>2 DEF NumberOf
    <3>2. QED
      BY <2>2, <2>3, <3>1, NumbersLonger
  <2>6. EmptyAnswer.content = <<>> /\ EmptyAnswer \in Bubbles
    BY Answering DEF EmptyAnswer
  <2>7. n \in 0..n
    OBVIOUS
  <2>8. m \in Bubbles /\ Placed(m, Under(ms, Len(ms))) /\ MessageOK(m, n)
    <3>1. Placed(EmptyAnswer, Under(ms, Len(ms))) /\ MessageOK(EmptyAnswer, n)
      BY AnswerGood
    <3>2. m = [EmptyAnswer EXCEPT !.content = Append(<<>>, p)]
      BY <2>3 DEF p
    <3>3. Append(<<>>, p) \in Seq(Pieces)
      BY <2>3
    <3>4. NumbersOf(Append(<<>>, p)) \subseteq NumbersOf(EmptyAnswer.content) \union {n}
      BY <2>5, <2>6
    <3> HIDE DEF m
    <3>5. QED
      BY <2>4, <2>6, <2>7, <3>1, <3>2, <3>3, <3>4, LongerGood
  <2>9. HandleEvent(ms, e) = Append(ms, m)
    BY <1>5, <2>1 DEF HandleEvent, AddError
  <2> HIDE DEF m
  <2>10. QED
    BY <2>8, <2>9, NoAsk, WholeAppend DEF Messages
<1>6. CASE e.type \notin {"thinking", "text", "tool_input", "tool_result", "done", "stream_end", "error"}
  BY <1>6 DEF HandleEvent
<1>7. QED
  BY <1>1, <1>2, <1>3, <1>4, <1>5, <1>6
-----------------------------------------------------------------------------
(* What the page shows of an answer when h of its events were handled: the *)
(* pieces of all of them, in their order; each result in the bubble of its *)
(* call, when that came before it; a bubble that waits, because its result *)
(* comes next or was empty; and a place for the text that follows.         *)
Spins(m, n) == m.role = "tool" /\ m.result = NoResult /\ m.call[1] = n
EmptyOutput(e, m) == e.type = "tool_result" /\ e.result = NoResult /\ e.name = m.name

Arrived(es, h) == LET arrived == At(es, {l \in 1..h : Streams(es[l])})
                  IN [i \in DOMAIN arrived |-> arrived[i].piece]
ResultFor(es, l) ==
    /\ es[l].type = "tool_result" /\ es[l].result # NoResult
    /\ \E k \in 1..(l - 1) : es[k].type = "tool_input" /\ es[k].call = es[l].result
Calling(es, h) == h > 0 /\ es[h].type = "tool_input"
Over(es, h) == \E l \in 1..h : Ends(es[l])

Holds(m, c) == m.role = "tool" /\ m.call = c /\ m.result = c
ResultsShown(ms, es, h) == \A l \in 1..h : ResultFor(es, l) => \E i \in DOMAIN ms : Holds(ms[i], es[l].result)
SpinsFor(m, es, h) == \E l \in 1..h : EmptyOutput(es[l], m)
WaitingShown(ms, es, n, h) ==
    \A i \in DOMAIN ms : Spins(ms[i], n) => (i = Len(ms) /\ Calling(es, h)) \/ SpinsFor(ms[i], es, h)
EndShown(ms, es, h) ==
    IF Calling(es, h) THEN ms # <<>> /\ Last(ms) = ToolMessage(es[h].name, es[h].call)
    ELSE EndsWithAnswer(ms) \/ Over(es, h)
Shows(ms, es, n, h) ==
    PiecesOf(ms, n) = Arrived(es, h) /\ ResultsShown(ms, es, h) /\ WaitingShown(ms, es, n, h) /\ EndShown(ms, es, h)

LEMMA ArrivedNext ==
    ASSUME NEW es \in Seq(Events), NEW h \in Nat, h + 1 \in 1..Len(es)
    PROVE  Arrived(es, h + 1) = IF Streams(es[h + 1]) THEN Append(Arrived(es, h), es[h + 1].piece) ELSE Arrived(es, h)
<1> DEFINE P == {l \in 1..h : Streams(es[l])}
           Q == {l \in 1..(h + 1) : Streams(es[l])}
<1>1. \A l \in 1..(h + 1) : l \in 1..h \/ l = h + 1
  OBVIOUS
<1>2. \A l \in 1..h : l \in 1..(h + 1)
  OBVIOUS
<1>3. h + 1 \in 1..(h + 1) /\ P \subseteq 1..((h + 1) - 1)
  OBVIOUS
<1>4. CASE ~Streams(es[h + 1])
  <2>1. Q = P
    BY <1>1, <1>2, <1>4
  <2>2. QED
    BY <1>4, <2>1 DEF Arrived
<1>5. CASE Streams(es[h + 1])
  <2>1. Q = P \union {h + 1}
    BY <1>1, <1>2, <1>3, <1>5
  <2>2. At(es, P \union {h + 1}) = Append(At(es, P), es[h + 1])
    <3> HIDE DEF P
    <3> QED BY <1>3, AtNext
  <2>3. PICK s : s = At(es, P)
    OBVIOUS
  <2>4. s \in Seq(Events) /\ es[h + 1] \in Events
    BY <2>3, AtType, ElementOfSeq
  <2>5. PICK t : t = Append(s, es[h + 1])
    OBVIOUS
  <2>6. Len(s) \in Nat /\ DOMAIN s = 1..Len(s) /\ DOMAIN t = 1..(Len(s) + 1) /\ (\A i \in 1..Len(s) : t[i] = s[i]) /\ t[Len(s) + 1] = es[h + 1]
    <3>1. t \in Seq(Events) /\ Len(t) = Len(s) + 1 /\ \A i \in 1..Len(s) : t[i] = s[i]
      BY <2>4, <2>5, AppendProperties
    <3>2. t[Len(s) + 1] = es[h + 1]
      BY <2>4, <2>5, AppendProperties
    <3>3. QED
      BY <2>4, <3>1, <3>2, LenProperties
  <2>7. Arrived(es, h) = [i \in DOMAIN s |-> s[i].piece] /\ Arrived(es, h + 1) = [i \in DOMAIN t |-> t[i].piece]
    BY <2>1, <2>2, <2>3, <2>5 DEF Arrived
  <2>8. PICK a : a = [i \in 1..Len(s) |-> s[i].piece]
    OBVIOUS
  <2>9. PICK U : U = {s[i].piece : i \in 1..Len(s)} \union {es[h + 1].piece}
    OBVIOUS
  <2>10. a \in Seq(U) /\ Len(a) = Len(s) /\ es[h + 1].piece \in U
    BY <2>6, <2>8, <2>9
  <2>11. PICK p \in U : p = es[h + 1].piece
    BY <2>10
  <2>12. PICK b : b = [i \in 1..(Len(s) + 1) |-> t[i].piece]
    OBVIOUS
  <2>13. b \in Seq(U) /\ Len(b) = Len(s) + 1 /\ (\A i \in 1..Len(s) : b[i] = a[i]) /\ b[Len(s) + 1] = p
    <3>1. \A i \in 1..(Len(s) + 1) : i \in 1..Len(s) \/ i = Len(s) + 1
      BY <2>6
    <3>2. \A i \in 1..Len(s) : i \in 1..(Len(s) + 1)
      BY <2>6
    <3>3. Len(s) + 1 \in 1..(Len(s) + 1)
      BY <2>6
    <3>4. (\A i \in 1..Len(s) : b[i] = a[i]) /\ b[Len(s) + 1] = p
      BY <2>6, <2>8, <2>11, <2>12, <3>2, <3>3
    <3>5. \A i \in 1..(Len(s) + 1) : b[i] \in U
      <4>1. \A i \in 1..Len(s) : a[i] \in U
        BY <2>8, <2>9
      <4>2. QED
        BY <3>1, <3>4, <4>1
    <3>6. b \in [1..(Len(s) + 1) -> U] /\ Len(s) + 1 \in Nat
      BY <2>6, <2>12, <3>5
    <3>7. b \in Seq(U) /\ Len(b) = Len(s) + 1
      BY <3>6
    <3>8. QED
      BY <3>4, <3>7
  <2>14. b = Append(a, p)
    <3>1. PICK d : d = Append(a, p)
      OBVIOUS
    <3>2. d \in Seq(U) /\ Len(d) = Len(s) + 1 /\ \A i \in 1..Len(s) : d[i] = a[i]
      BY <2>10, <3>1, AppendProperties
    <3>3. d[Len(s) + 1] = p
      BY <2>10, <3>1, AppendProperties
    <3>4. \A i \in 1..(Len(s) + 1) : i \in 1..Len(s) \/ i = Len(s) + 1
      BY <2>6
    <3>5. \A i \in 1..Len(b) : b[i] = d[i]
      BY <2>13, <3>2, <3>3, <3>4
    <3>6. QED
      BY <2>13, <3>1, <3>2, <3>5, SeqEqual
  <2>15. QED
    BY <1>5, <2>6, <2>7, <2>8, <2>11, <2>12, <2>14
<1>6. QED
  BY <1>4, <1>5

LEMMA AppendAt ==
    ASSUME NEW ms \in Seq(Messages), NEW m \in Messages
    PROVE  /\ Append(ms, m) \in Seq(Messages) /\ Len(ms) \in Nat /\ Len(Append(ms, m)) = Len(ms) + 1
           /\ DOMAIN ms = 1..Len(ms) /\ DOMAIN Append(ms, m) = 1..(Len(ms) + 1)
           /\ \A i \in 1..Len(ms) : i \in 1..(Len(ms) + 1) /\ i # Len(ms) + 1 /\ Append(ms, m)[i] = ms[i]
           /\ Len(ms) + 1 \in 1..(Len(ms) + 1) /\ Append(ms, m)[Len(ms) + 1] = m
           /\ \A i \in 1..(Len(ms) + 1) : i \in 1..Len(ms) \/ i = Len(ms) + 1
           /\ Append(ms, m) # <<>> /\ Last(Append(ms, m)) = m
<1>1. Append(ms, m) \in Seq(Messages) /\ Len(Append(ms, m)) = Len(ms) + 1 /\ \A i \in 1..Len(ms) : Append(ms, m)[i] = ms[i]
  BY AppendProperties
<1>2. Append(ms, m)[Len(ms) + 1] = m
  BY AppendProperties
<1>3. Append(ms, m) # <<>>
  BY AppendProperties
<1>4. Last(Append(ms, m)) = m
  BY EndOfAppend
<1>5. Len(ms) \in Nat /\ DOMAIN ms = 1..Len(ms) /\ DOMAIN Append(ms, m) = 1..(Len(ms) + 1)
  BY <1>1, LenProperties
<1>6. \A i \in 1..Len(ms) : i \in 1..(Len(ms) + 1) /\ i # Len(ms) + 1
  BY <1>5
<1>7. Len(ms) + 1 \in 1..(Len(ms) + 1) /\ \A i \in 1..(Len(ms) + 1) : i \in 1..Len(ms) \/ i = Len(ms) + 1
  BY <1>5
<1>8. QED
  BY <1>1, <1>2, <1>3, <1>4, <1>5, <1>6, <1>7
-----------------------------------------------------------------------------
(* One more event of the answer.                                           *)
LEMMA PiecesEmptyAdded ==
    ASSUME NEW ms \in Seq(Messages), NEW m \in Messages, NEW n, PiecesIn(m.content, n) = <<>>
    PROVE  PiecesOf(Append(ms, m), n) = PiecesOf(ms, n)
<1>1. PiecesOf(ms, n) \in Seq(AnyPieces) /\ PiecesOf(Append(ms, m), n) = PiecesOf(ms, n) \o PiecesIn(m.content, n)
  BY PiecesOfAppend
<1>2. QED
  BY <1>1

LEMMA NotCalling ==
    ASSUME NEW es, Followed(es), NEW h \in Nat, h \in DOMAIN es \/ h = 0, es[h + 1].type # "tool_result"
    PROVE  ~Calling(es, h)
  BY DEF Followed, Calling

LEMMA NotOver ==
    ASSUME NEW es \in Seq(Events), Ended(es), NEW h \in Nat, h + 1 \in 1..Len(es), es[h + 1].type # "stream_end"
    PROVE  ~Over(es, h)
<1>1. ASSUME NEW l \in 1..h PROVE l < h + 1 /\ l \in DOMAIN es /\ h + 1 \in DOMAIN es
  BY LenProperties
<1>2. QED
  BY <1>1 DEF Ended, Over

LEMMA OneMore ==
    ASSUME NEW h \in Nat
    PROVE  /\ \A l \in 1..(h + 1) : l \in 1..h \/ l = h + 1
           /\ \A l \in 1..h : l \in 1..(h + 1)
           /\ h + 1 \in 1..(h + 1) /\ h + 1 > 0 /\ 1..((h + 1) - 1) = 1..h
  OBVIOUS

(* An event that is no result shows none.                                  *)
LEMMA ResultsSame ==
    ASSUME NEW h \in Nat, NEW ms, NEW mt, NEW es, ResultsShown(ms, es, h),
           \A i \in DOMAIN ms : ms[i].role = "tool" /\ ms[i].result # NoResult =>
               \E j \in DOMAIN mt : mt[j].role = "tool" /\ mt[j].call = ms[i].call /\ mt[j].result = ms[i].result,
           ~ResultFor(es, h + 1) \/ \E i \in DOMAIN mt : Holds(mt[i], es[h + 1].result)
    PROVE  ResultsShown(mt, es, h + 1)
<1>1. ASSUME NEW l \in 1..h, ResultFor(es, l) PROVE \E i \in DOMAIN mt : Holds(mt[i], es[l].result)
  <2>1. PICK i \in DOMAIN ms : Holds(ms[i], es[l].result)
    BY <1>1 DEF ResultsShown
  <2>2. es[l].result # NoResult
    BY <1>1 DEF ResultFor
  <2>3. QED
    BY <2>1, <2>2 DEF Holds
<1>2. QED
  BY <1>1, OneMore DEF ResultsShown

LEMMA SpinsLater == ASSUME NEW h \in Nat, NEW m, NEW es, SpinsFor(m, es, h) PROVE SpinsFor(m, es, h + 1)
  BY OneMore DEF SpinsFor

LEMMA NextStream ==
    ASSUME NEW n \in Nat, NEW es \in Seq(Events), Orderly(es), AllOf(es, n),
           NEW h \in Nat, h + 1 \in 1..Len(es), h \in DOMAIN es \/ h = 0, NEW ms \in Seq(Messages), Whole(ms, n),
           Shows(ms, es, n, h), es[h + 1].type \in {"thinking", "text"}
    PROVE  Shows(HandleEvent(ms, es[h + 1]), es, n, h + 1)
<1>1. PICK e \in Events : e = es[h + 1]
  BY ElementOfSeq
<1>2. ~Calling(es, h) /\ ~Over(es, h) /\ ~Calling(es, h + 1) /\ ~ResultFor(es, h + 1)
  BY NotCalling, NotOver DEF Calling, ResultFor, Orderly
<1>3. EndsWithAnswer(ms)
  BY <1>2 DEF Shows, EndShown
<1>4. OfAnswer(e, n) /\ Streams(e)
  BY <1>1, LenProperties DEF AllOf, Streams
<1>5. e.piece \in Pieces /\ Len(e.piece) = 3 /\ e.piece[1] = e.type /\ e.piece[2] = n
  BY <1>4, EventPiece
<1>6. PICK r \in Seq(Messages), m \in Bubbles : ms = Append(r, m) /\ m.role = "assistant" /\ MessageOK(m, n)
  BY <1>3, LastBubble
<1>7. \E c : Grown(c, m.content, e.piece) /\ HandleEvent(ms, e) = Append(r, [m EXCEPT !.content = c])
  <2>1. PICK p : p = e.piece
    OBVIOUS
  <2>2. p \in Pieces /\ Len(p) > 1 /\ p[1] = e.type
    BY <1>5, <2>1
  <2>3. Clear(m.content)
    BY <1>6 DEF MessageOK
  <2>4. CASE e.type = "thinking"
    <3>1. HandleEvent(ms, e) = AddThinking(Append(r, m), p) /\ p[1] = "thinking"
      BY <1>6, <2>1, <2>2, <2>4 DEF HandleEvent
    <3>2. \E c : Grown(c, m.content, p) /\ AddThinking(Append(r, m), p) = Append(r, [m EXCEPT !.content = c])
      BY <1>6, <2>2, <2>3, <3>1, PieceExtends
    <3>3. QED
      BY <2>1, <3>1, <3>2
  <2>5. CASE e.type = "text"
    <3>1. HandleEvent(ms, e) = AddText(Append(r, m), p) /\ p[1] = "text"
      BY <1>6, <2>1, <2>2, <2>5 DEF HandleEvent
    <3>2. \E c : Grown(c, m.content, p) /\ AddText(Append(r, m), p) = Append(r, [m EXCEPT !.content = c])
      BY <1>6, <2>2, <2>3, <3>1, PieceExtends
    <3>3. QED
      BY <2>1, <3>1, <3>2
  <2>6. QED
    BY <1>1, <2>4, <2>5
<1>8. PICK c : Grown(c, m.content, e.piece) /\ HandleEvent(ms, e) = Append(r, [m EXCEPT !.content = c])
  BY <1>7
<1>9. PICK mt : mt = [m EXCEPT !.content = c]
  OBVIOUS
<1>10. c \in Seq(Pieces) /\ PiecesIn(c, n) = Append(PiecesIn(m.content, n), e.piece)
  BY <1>5, <1>8 DEF Grown, Own
<1>11. mt \in Bubbles /\ mt.role = "assistant" /\ mt.content = c /\ mt.call = m.call /\ mt.result = m.result
  BY <1>6, <1>9, <1>10 DEF Bubbles
<1>12. m \in Messages /\ mt \in Messages
  BY <1>11 DEF Messages
<1>13. PICK mst : mst = Append(r, mt)
  OBVIOUS
<1>14. HandleEvent(ms, e) = mst
  BY <1>8, <1>9, <1>13
<1>15. PiecesOf(mst, n) = Arrived(es, h + 1)
  <2>1. PiecesOf(mst, n) = PiecesOf(r, n) \o PiecesIn(c, n) /\ PiecesOf(ms, n) = PiecesOf(r, n) \o PiecesIn(m.content, n)
        /\ PiecesOf(r, n) \in Seq(AnyPieces)
    BY <1>6, <1>11, <1>12, <1>13, PiecesOfAppend
  <2>2. PiecesIn(m.content, n) \in Seq(AnyPieces) /\ e.piece \in AnyPieces
    BY <1>5, <1>12, ContentType, PiecesInType DEF AnyPieces
  <2>3. PiecesOf(mst, n) = Append(PiecesOf(ms, n), e.piece)
    <3>1. PICK x \in Seq(AnyPieces) : x = PiecesOf(r, n)
      BY <2>1
    <3>2. PICK y \in Seq(AnyPieces) : y = PiecesIn(m.content, n)
      BY <2>2
    <3>3. PICK p \in AnyPieces : p = e.piece
      BY <2>2
    <3>4. x \o Append(y, p) = Append(x \o y, p)
      OBVIOUS
    <3>5. QED
      BY <1>10, <2>1, <3>1, <3>2, <3>3, <3>4
  <2>4. Arrived(es, h + 1) = Append(Arrived(es, h), e.piece)
    BY <1>1, <1>4, ArrivedNext
  <2>5. QED
    BY <2>3, <2>4 DEF Shows
<1>16. /\ Len(r) \in Nat /\ DOMAIN ms = 1..(Len(r) + 1) /\ DOMAIN mst = 1..(Len(r) + 1) /\ Len(ms) = Len(r) + 1
       /\ ms[Len(r) + 1] = m /\ mst[Len(r) + 1] = mt /\ \A i \in 1..Len(r) : mst[i] = ms[i]
       /\ \A i \in 1..(Len(r) + 1) : i \in 1..Len(r) \/ i = Len(r) + 1
       /\ EndsWithAnswer(mst)
  <2>1. /\ Len(r) \in Nat /\ DOMAIN ms = 1..(Len(r) + 1) /\ Len(ms) = Len(r) + 1 /\ ms[Len(r) + 1] = m
        /\ (\A i \in 1..Len(r) : ms[i] = r[i]) /\ \A i \in 1..(Len(r) + 1) : i \in 1..Len(r) \/ i = Len(r) + 1
    BY <1>6, <1>12, AppendAt
  <2>2. /\ DOMAIN mst = 1..(Len(r) + 1) /\ mst[Len(r) + 1] = mt /\ (\A i \in 1..Len(r) : mst[i] = r[i])
        /\ mst # <<>> /\ Last(mst) = mt
    BY <1>12, <1>13, AppendAt
  <2>3. EndsWithAnswer(mst)
    BY <1>11, <2>2 DEF EndsWithAnswer
  <2>4. QED
    BY <2>1, <2>2, <2>3
<1>17. ResultsShown(mst, es, h + 1)
  <2>1. \A i \in DOMAIN ms : ms[i].role = "tool" => mst[i].role = "tool" /\ mst[i].call = ms[i].call /\ mst[i].result = ms[i].result
    BY <1>6, <1>16
  <2>2. QED
    BY <1>2, <1>16, <2>1, ResultsSame DEF Shows
<1>18. WaitingShown(mst, es, n, h + 1)
  <2>1. ASSUME NEW i \in DOMAIN mst, Spins(mst[i], n) PROVE SpinsFor(mst[i], es, h + 1)
    <3>1. i # Len(r) + 1
      BY <1>11, <1>16, <2>1 DEF Spins
    <3>2. mst[i] = ms[i] /\ i \in DOMAIN ms
      BY <1>16, <3>1
    <3>3. SpinsFor(ms[i], es, h)
      BY <1>2, <2>1, <3>2 DEF Shows, WaitingShown
    <3>4. QED
      BY <3>2, <3>3, SpinsLater
  <2>2. QED
    BY <2>1 DEF WaitingShown
<1>19. EndShown(mst, es, h + 1)
  BY <1>2, <1>16 DEF EndShown
<1>20. QED
  BY <1>1, <1>14, <1>15, <1>17, <1>18, <1>19 DEF Shows

LEMMA SpinsSame ==
    ASSUME NEW h \in Nat, NEW n, NEW ms, NEW es, WaitingShown(ms, es, n, h), ~Calling(es, h)
    PROVE  \A i \in DOMAIN ms : Spins(ms[i], n) => SpinsFor(ms[i], es, h + 1)
  BY SpinsLater DEF WaitingShown

LEMMA NextInput ==
    ASSUME NEW n \in Nat, NEW es \in Seq(Events), Orderly(es), AllOf(es, n),
           NEW h \in Nat, h + 1 \in 1..Len(es), h \in DOMAIN es \/ h = 0, NEW ms \in Seq(Messages),
           Shows(ms, es, n, h), es[h + 1].type = "tool_input"
    PROVE  Shows(HandleEvent(ms, es[h + 1]), es, n, h + 1)
<1>1. PICK e \in Events : e = es[h + 1]
  BY ElementOfSeq
<1>2. ~Calling(es, h) /\ Calling(es, h + 1) /\ ~ResultFor(es, h + 1) /\ ~Streams(e)
  BY <1>1, NotCalling, OneMore DEF Calling, ResultFor, Orderly, Streams
<1>3. e.name \in Names /\ e.call \in CallIds
  BY <1>1 DEF Events
<1>4. PICK m : m = ToolMessage(e.name, e.call)
  OBVIOUS
<1>5. m \in Messages /\ m.content = <<>>
  <2>1. <<>> \in Seq(Pieces) /\ NoResult \in CallIds
    BY EmptySeq DEF CallIds
  <2>2. m \in Bubbles /\ m.content = <<>>
    BY <1>3, <1>4, <2>1 DEF ToolMessage, Bubbles
  <2>3. QED
    BY <2>2 DEF Messages
<1>6. PICK mst : mst = Append(ms, m)
  OBVIOUS
<1>7. HandleEvent(ms, e) = mst
  BY <1>1, <1>4, <1>6 DEF HandleEvent
<1>8. /\ Len(ms) \in Nat /\ DOMAIN ms = 1..Len(ms) /\ DOMAIN mst = 1..(Len(ms) + 1) /\ Len(mst) = Len(ms) + 1
      /\ (\A i \in 1..Len(ms) : i \in 1..(Len(ms) + 1) /\ mst[i] = ms[i])
      /\ \A i \in 1..(Len(ms) + 1) : i \in 1..Len(ms) \/ i = Len(ms) + 1
      /\ mst # <<>> /\ Last(mst) = m
  BY <1>5, <1>6, AppendAt
<1>9. PiecesOf(mst, n) = Arrived(es, h + 1)
  <2>1. PiecesIn(m.content, n) = <<>>
    BY <1>5, PiecesInNothing
  <2>2. PiecesOf(mst, n) = PiecesOf(ms, n)
    BY <1>5, <1>6, <2>1, PiecesEmptyAdded
  <2>3. Arrived(es, h + 1) = Arrived(es, h)
    BY <1>1, <1>2, ArrivedNext
  <2>4. QED
    BY <2>2, <2>3 DEF Shows
<1>10. ResultsShown(mst, es, h + 1)
  <2>1. \A i \in DOMAIN ms : i \in DOMAIN mst /\ mst[i] = ms[i]
    BY <1>8
  <2>2. QED
    BY <1>2, <2>1, ResultsSame DEF Shows
<1>11. WaitingShown(mst, es, n, h + 1)
  <2>1. \A i \in DOMAIN ms : Spins(ms[i], n) => SpinsFor(ms[i], es, h + 1)
    BY <1>2, SpinsSame DEF Shows
  <2>2. QED
    BY <1>2, <1>8, <2>1 DEF WaitingShown
<1>12. EndShown(mst, es, h + 1)
  BY <1>1, <1>2, <1>4, <1>8 DEF EndShown
<1>13. QED
  BY <1>1, <1>7, <1>9, <1>10, <1>11, <1>12 DEF Shows

LEMMA NextError ==
    ASSUME NEW n \in Nat, NEW es \in Seq(Events), Orderly(es), AllOf(es, n),
           NEW h \in Nat, h + 1 \in 1..Len(es), h \in DOMAIN es \/ h = 0, NEW ms \in Seq(Messages),
           Shows(ms, es, n, h), es[h + 1].type = "error"
    PROVE  Shows(HandleEvent(ms, es[h + 1]), es, n, h + 1)
<1>1. PICK e \in Events : e = es[h + 1]
  BY ElementOfSeq
<1>2. ~Calling(es, h) /\ ~Calling(es, h + 1) /\ ~ResultFor(es, h + 1) /\ ~Streams(e)
  BY <1>1, NotCalling, OneMore DEF Calling, ResultFor, Orderly, Streams
<1>3. e.ask \in Nat
  BY <1>1 DEF Events
<1>4. PICK m : m = [EmptyAnswer EXCEPT !.content = <<ErrorPiece(e.ask)>>]
  OBVIOUS
<1>5. m \in Messages /\ m.content = <<ErrorPiece(e.ask)>> /\ m.role = "assistant"
  <2>1. <<ErrorPiece(e.ask)>> \in Seq(Pieces)
    BY <1>3 DEF Pieces
  <2>2. m \in Bubbles /\ m.content = <<ErrorPiece(e.ask)>> /\ m.role = "assistant"
    BY <1>4, <2>1, Answering DEF Bubbles, EmptyAnswer
  <2>3. QED
    BY <2>2 DEF Messages
<1>6. PICK mst : mst = Append(ms, m)
  OBVIOUS
<1>7. HandleEvent(ms, e) = mst
  BY <1>1, <1>4, <1>6 DEF HandleEvent, AddError
<1>8. /\ Len(ms) \in Nat /\ DOMAIN ms = 1..Len(ms) /\ DOMAIN mst = 1..(Len(ms) + 1) /\ Len(mst) = Len(ms) + 1
      /\ (\A i \in 1..Len(ms) : i \in 1..(Len(ms) + 1) /\ mst[i] = ms[i])
      /\ \A i \in 1..(Len(ms) + 1) : i \in 1..Len(ms) \/ i = Len(ms) + 1
      /\ mst # <<>> /\ Last(mst) = m /\ mst[Len(ms) + 1] = m
  BY <1>5, <1>6, AppendAt
<1>9. PiecesOf(mst, n) = Arrived(es, h + 1)
  <2>1. PiecesIn(m.content, n) = <<>>
    <3>1. PICK c : c = <<ErrorPiece(e.ask)>>
      OBVIOUS
    <3>2. c \in Seq(AnyPieces)
      BY <1>5, <3>1, ContentType
    <3>3. Len(c) = 1 /\ c[1] = ErrorPiece(e.ask)
      BY <3>1
    <3>4. ~Own(c[1], n)
      BY <3>3 DEF Own, ErrorPiece
    <3>5. \A j \in 1..Len(c) : ~Own(c[j], n)
      BY <3>3, <3>4
    <3>6. QED
      BY <1>5, <3>1, <3>2, <3>5, NoPieces
  <2>2. PiecesOf(mst, n) = PiecesOf(ms, n)
    BY <1>5, <1>6, <2>1, PiecesEmptyAdded
  <2>3. Arrived(es, h + 1) = Arrived(es, h)
    BY <1>1, <1>2, ArrivedNext
  <2>4. QED
    BY <2>2, <2>3 DEF Shows
<1>10. ResultsShown(mst, es, h + 1)
  <2>1. \A i \in DOMAIN ms : i \in DOMAIN mst /\ mst[i] = ms[i]
    BY <1>8
  <2>2. QED
    BY <1>2, <2>1, ResultsSame DEF Shows
<1>11. WaitingShown(mst, es, n, h + 1)
  <2>1. \A i \in DOMAIN ms : Spins(ms[i], n) => SpinsFor(ms[i], es, h + 1)
    BY <1>2, SpinsSame DEF Shows
  <2>2. ~Spins(m, n)
    BY <1>5 DEF Spins
  <2>3. QED
    BY <1>2, <1>8, <2>1, <2>2 DEF WaitingShown
<1>12. EndShown(mst, es, h + 1)
  <2>1. EndsWithAnswer(mst)
    BY <1>5, <1>8 DEF EndsWithAnswer
  <2>2. QED
    BY <1>2, <2>1 DEF EndShown
<1>13. QED
  BY <1>1, <1>7, <1>9, <1>10, <1>11, <1>12 DEF Shows

LEMMA NextSame ==
    ASSUME NEW n \in Nat, NEW es \in Seq(Events), NEW h \in Nat, h + 1 \in 1..Len(es), NEW ms \in Seq(Messages),
           Shows(ms, es, n, h), ~Calling(es, h), ~Calling(es, h + 1), ~ResultFor(es, h + 1), ~Streams(es[h + 1])
    PROVE  Shows(ms, es, n, h + 1)
<1>1. PiecesOf(ms, n) = Arrived(es, h + 1)
  BY ArrivedNext DEF Shows
<1>2. ResultsShown(ms, es, h + 1)
  BY ResultsSame DEF Shows
<1>3. WaitingShown(ms, es, n, h + 1)
  BY SpinsSame DEF Shows, WaitingShown
<1>4. EndShown(ms, es, h + 1)
  <2>1. Over(es, h) => Over(es, h + 1)
    BY OneMore DEF Over
  <2>2. QED
    BY <2>1 DEF Shows, EndShown
<1>5. QED
  BY <1>1, <1>2, <1>3, <1>4 DEF Shows

LEMMA NextEnd ==
    ASSUME NEW n \in Nat, NEW es \in Seq(Events), Orderly(es), AllOf(es, n),
           NEW h \in Nat, h + 1 \in 1..Len(es), h \in DOMAIN es \/ h = 0, NEW ms \in Seq(Messages),
           Shows(ms, es, n, h), Ends(es[h + 1])
    PROVE  Shows(HandleEvent(ms, es[h + 1]), es, n, h + 1)
<1>1. PICK e \in Events : e = es[h + 1]
  BY ElementOfSeq
<1>2. ~Calling(es, h) /\ ~Calling(es, h + 1) /\ ~ResultFor(es, h + 1) /\ ~Streams(e)
  BY <1>1, NotCalling, OneMore DEF Calling, ResultFor, Orderly, Streams, Ends
<1>3. HandleEvent(ms, e) = DropEmptyAnswer(ms)
  BY <1>1 DEF HandleEvent, Ends
<1>4. Shows(ms, es, n, h + 1)
  BY <1>1, <1>2, NextSame
<1>5. CASE ~(EndsWithAnswer(ms) /\ Last(ms).content = <<>>)
  BY <1>1, <1>3, <1>4, <1>5 DEF DropEmptyAnswer
<1>6. CASE EndsWithAnswer(ms) /\ Last(ms).content = <<>>
  <2>1. PICK r \in Seq(Messages), m \in Bubbles : ms = Append(r, m) /\ Front(ms) = r /\ Last(ms) = m
    BY <1>6, AnswerLast
  <2>2. m \in Messages /\ m.content = <<>> /\ m.role = "assistant"
    BY <1>6, <2>1 DEF EndsWithAnswer, Messages
  <2>3. HandleEvent(ms, e) = r
    BY <1>3, <1>6, <2>1 DEF DropEmptyAnswer
  <2>4. /\ Len(r) \in Nat /\ DOMAIN r = 1..Len(r) /\ DOMAIN ms = 1..(Len(r) + 1) /\ ms[Len(r) + 1] = m
        /\ (\A i \in 1..Len(r) : i \in 1..(Len(r) + 1) /\ ms[i] = r[i])
        /\ \A i \in 1..(Len(r) + 1) : i \in 1..Len(r) \/ i = Len(r) + 1
    BY <2>1, <2>2, AppendAt
  <2>5. PiecesOf(r, n) = Arrived(es, h + 1)
    <3>1. PiecesIn(m.content, n) = <<>>
      BY <2>2, PiecesInNothing
    <3>2. PiecesOf(ms, n) = PiecesOf(r, n)
      BY <2>1, <2>2, <3>1, PiecesEmptyAdded
    <3>3. QED
      BY <1>4, <3>2 DEF Shows
  <2>6. ResultsShown(r, es, h + 1)
    <3>1. \A i \in DOMAIN ms : ms[i].role = "tool" => i \in DOMAIN r /\ r[i] = ms[i]
      BY <2>2, <2>4
    <3>2. QED
      BY <1>2, <3>1, ResultsSame DEF Shows
  <2>7. WaitingShown(r, es, n, h + 1)
    <3>1. \A i \in DOMAIN ms : Spins(ms[i], n) => SpinsFor(ms[i], es, h + 1)
      BY <1>2, SpinsSame DEF Shows
    <3>2. QED
      BY <2>4, <3>1 DEF WaitingShown
  <2>8. EndShown(r, es, h + 1)
    <3>1. Over(es, h + 1)
      BY OneMore DEF Over
    <3>2. QED
      BY <1>2, <3>1 DEF EndShown
  <2>9. QED
    BY <1>1, <2>3, <2>5, <2>6, <2>7, <2>8 DEF Shows
<1>7. QED
  BY <1>5, <1>6

LEMMA NextResult ==
    ASSUME NEW n \in Nat, NEW es \in Seq(Events), Orderly(es), AllOf(es, n),
           NEW h \in Nat, h + 1 \in 1..Len(es), h \in DOMAIN es \/ h = 0, NEW ms \in Seq(Messages),
           Shows(ms, es, n, h), es[h + 1].type = "tool_result"
    PROVE  Shows(HandleEvent(ms, es[h + 1]), es, n, h + 1)
<1>1. PICK e \in Events : e = es[h + 1]
  BY ElementOfSeq
<1>2. e.type = "tool_result" /\ e.result \in CallIds /\ ~Streams(e) /\ ~Calling(es, h + 1)
  BY <1>1 DEF Events, Streams, Calling
<1>3. PICK w : w = Waiting(ms, e.name)
  OBVIOUS
<1>4. w \subseteq 1..Len(ms) /\ Len(ms) \in Nat /\ DOMAIN ms = 1..Len(ms)
  BY <1>3, LenProperties DEF Waiting
<1>5. Calling(es, h) => /\ ms # <<>> /\ Last(ms) = ToolMessage(es[h].name, es[h].call) /\ es[h].name = e.name
                        /\ Len(ms) \in w /\ Max(w) = Len(ms) /\ ms[Len(ms)].call = es[h].call
  <2>1. SUFFICES ASSUME Calling(es, h)
                 PROVE  /\ ms # <<>> /\ Last(ms) = ToolMessage(es[h].name, es[h].call) /\ es[h].name = e.name
                        /\ Len(ms) \in w /\ Max(w) = Len(ms) /\ ms[Len(ms)].call = es[h].call
    OBVIOUS
  <2>2. ms # <<>> /\ Last(ms) = ToolMessage(es[h].name, es[h].call)
    BY <2>1 DEF Shows, EndShown
  <2>3. es[h].name = e.name
    BY <1>1, <2>1 DEF Orderly, Followed, Calling
  <2>4. Len(ms) \in 1..Len(ms) /\ ms[Len(ms)] = ToolMessage(es[h].name, es[h].call)
    BY <2>2, EmptySeq, LenProperties DEF Last
  <2>5. Len(ms) \in w
    BY <1>3, <1>4, <2>3, <2>4 DEF Waiting, ToolMessage
  <2>6. Max(w) \in w /\ \A x \in w : x <= Max(w)
    <3>1. w # {}
      BY <2>5
    <3>2. QED
      BY <1>4, <3>1, MaxIn
  <2>7. Max(w) = Len(ms)
    <3>1. PICK x \in w : x = Max(w)
      BY <2>6
    <3>2. x \in 1..Len(ms) /\ Len(ms) <= x
      BY <1>4, <2>5, <2>6, <3>1
    <3>3. QED
      BY <1>4, <3>1, <3>2
  <2>8. QED
    BY <2>2, <2>3, <2>4, <2>5, <2>7 DEF ToolMessage
<1>6. PICK mid : mid = IF w = {} THEN ms ELSE [ms EXCEPT ![Max(w)].result = e.result]
  OBVIOUS
<1>7. HandleEvent(ms, e) = Append(mid, EmptyAnswer)
  BY <1>1, <1>2, <1>3, <1>6 DEF HandleEvent, AddResult
<1>8. /\ mid \in Seq(Messages) /\ Len(mid) = Len(ms)
      /\ \A i \in 1..Len(ms) : /\ mid[i].content = ms[i].content /\ mid[i].role = ms[i].role
                               /\ mid[i].name = ms[i].name /\ mid[i].call = ms[i].call
                               /\ IF w # {} /\ i = Max(w) THEN mid[i].result = e.result ELSE mid[i] = ms[i]
  <2>1. CASE w = {}
    BY <1>6, <2>1
  <2>2. CASE w # {}
    <3>1. PICK j \in w : j = Max(w)
      BY <1>4, <2>2, MaxIn
    <3>2. j \in 1..Len(ms) /\ ms[j] \in Bubbles
      <4>1. j \in 1..Len(ms) /\ ms[j].role = "tool" /\ ms[j] \in Messages
        BY <1>3, <1>4, <3>1, ElementOfSeq DEF Waiting
      <4>2. QED
        BY <4>1, NoQuestion
    <3>3. PICK m : m = [ms[j] EXCEPT !.result = e.result]
      OBVIOUS
    <3>4. m \in Bubbles /\ m.content = ms[j].content /\ m.role = ms[j].role /\ m.name = ms[j].name /\ m.call = ms[j].call /\ m.result = e.result
      <4>1. PICK b \in Bubbles : b = ms[j]
        BY <3>2
      <4>2. m = [b EXCEPT !.result = e.result]
        BY <3>3, <4>1
      <4>3. m \in Bubbles /\ m.content = b.content /\ m.role = b.role /\ m.name = b.name /\ m.call = b.call /\ m.result = e.result
        BY <1>2, <4>2 DEF Bubbles
      <4>4. QED
        BY <4>1, <4>3
    <3>5. mid = [ms EXCEPT ![j] = m]
      BY <1>6, <2>2, <3>1, <3>3
    <3>6. m \in Messages
      BY <3>4 DEF Messages
    <3>7. mid \in Seq(Messages) /\ Len(mid) = Len(ms) /\ \A i \in 1..Len(ms) : mid[i] = IF i = j THEN m ELSE ms[i]
      BY <3>2, <3>5, <3>6, ExceptSeq
    <3>8. QED
      BY <2>2, <3>1, <3>4, <3>7
  <2>3. QED
    BY <2>1, <2>2
<1>9. EmptyAnswer \in Messages /\ EmptyAnswer.content = <<>> /\ EmptyAnswer.role = "assistant"
  BY Answering DEF Messages, EmptyAnswer
<1>10. PICK mst : mst = Append(mid, EmptyAnswer)
  OBVIOUS
<1>11. /\ DOMAIN mst = 1..(Len(ms) + 1) /\ mst[Len(ms) + 1] = EmptyAnswer
       /\ (\A i \in 1..Len(ms) : i \in 1..(Len(ms) + 1) /\ mst[i] = mid[i])
       /\ \A i \in 1..(Len(ms) + 1) : i \in 1..Len(ms) \/ i = Len(ms) + 1
       /\ mst # <<>> /\ Last(mst) = EmptyAnswer
  BY <1>8, <1>9, <1>10, AppendAt
<1>12. w # {} => Max(w) \in w /\ Max(w) \in 1..Len(ms) /\ ms[Max(w)].role = "tool" /\ ms[Max(w)].name = e.name /\ ms[Max(w)].result = NoResult
  <2>1. w # {} => Max(w) \in w
    BY <1>4, MaxIn
  <2>2. QED
    BY <1>3, <1>4, <2>1 DEF Waiting
<1>13. PiecesOf(mst, n) = Arrived(es, h + 1)
  <2>1. PiecesIn(EmptyAnswer.content, n) = <<>>
    BY <1>9, PiecesInNothing
  <2>2. PiecesOf(mst, n) = PiecesOf(mid, n)
    BY <1>8, <1>9, <1>10, <2>1, PiecesEmptyAdded
  <2>3. PiecesOf(mid, n) = PiecesOf(ms, n)
    BY <1>8, PiecesOfSame
  <2>4. Arrived(es, h + 1) = Arrived(es, h)
    BY <1>1, <1>2, ArrivedNext
  <2>5. QED
    BY <2>2, <2>3, <2>4 DEF Shows
<1>14. ResultsShown(mst, es, h + 1)
  <2>1. ASSUME NEW i \in DOMAIN ms, ms[i].role = "tool", ms[i].result # NoResult
        PROVE  i \in DOMAIN mst /\ mst[i] = ms[i]
    <3>1. ~(w # {} /\ i = Max(w))
      BY <1>12, <2>1
    <3>2. QED
      BY <1>4, <1>8, <1>11, <3>1
  <2>2. ASSUME ResultFor(es, h + 1) PROVE \E i \in DOMAIN mst : Holds(mst[i], es[h + 1].result)
    <3>1. PICK k \in 1..h : es[k].type = "tool_input" /\ es[k].call = e.result
      BY <1>1, <2>2, OneMore DEF ResultFor
    <3>2. k \in DOMAIN es /\ h + 1 \in DOMAIN es /\ k < h + 1
      BY LenProperties
    <3>3. k + 1 = h + 1
      BY <1>1, <1>2, <3>1, <3>2 DEF Orderly, Paired
    <3>4. k = h
      BY <3>3
    <3>5. Calling(es, h) /\ es[h].call = e.result
      BY <3>1, <3>4 DEF Calling
    <3>6. Len(ms) \in w /\ Max(w) = Len(ms) /\ ms[Len(ms)].call = e.result
      BY <1>5, <3>5
    <3>7. Holds(mst[Len(ms)], e.result) /\ Len(ms) \in DOMAIN mst
      <4>1. Len(ms) \in 1..Len(ms) /\ w # {} /\ ms[Len(ms)].role = "tool"
        BY <1>4, <1>12, <3>6
      <4>2. mid[Len(ms)].result = e.result /\ mid[Len(ms)].call = e.result /\ mid[Len(ms)].role = "tool"
        BY <1>8, <3>6, <4>1
      <4>3. QED
        BY <1>11, <4>1, <4>2 DEF Holds
    <3>8. QED
      BY <1>1, <3>7
  <2>3. \A i \in DOMAIN ms : ms[i].role = "tool" /\ ms[i].result # NoResult =>
            \E j \in DOMAIN mst : mst[j].role = "tool" /\ mst[j].call = ms[i].call /\ mst[j].result = ms[i].result
    BY <2>1
  <2>4. QED
    BY <2>2, <2>3, ResultsSame DEF Shows
<1>15. WaitingShown(mst, es, n, h + 1)
  <2>1. ASSUME NEW i \in DOMAIN mst, Spins(mst[i], n) PROVE SpinsFor(mst[i], es, h + 1)
    <3>1. i \in 1..Len(ms) /\ mst[i] = mid[i]
      BY <1>9, <1>11, <2>1 DEF Spins
    <3>2. CASE w # {} /\ i = Max(w)
      <4>1. mst[i].result = e.result /\ mst[i].name = e.name
        BY <1>8, <1>12, <3>1, <3>2
      <4>2. EmptyOutput(e, mst[i])
        BY <1>2, <2>1, <4>1 DEF EmptyOutput, Spins
      <4>3. QED
        BY <1>1, <4>2, OneMore DEF SpinsFor
    <3>3. CASE ~(w # {} /\ i = Max(w))
      <4>1. mst[i] = ms[i] /\ i \in DOMAIN ms
        BY <1>4, <1>8, <3>1, <3>3
      <4>2. ~(i = Len(ms) /\ Calling(es, h))
        BY <1>5, <3>3
      <4>3. SpinsFor(ms[i], es, h)
        BY <2>1, <4>1, <4>2 DEF Shows, WaitingShown
      <4>4. QED
        BY <4>1, <4>3, SpinsLater
    <3>4. QED
      BY <3>2, <3>3
  <2>2. QED
    BY <2>1 DEF WaitingShown
<1>16. EndShown(mst, es, h + 1)
  <2>1. EndsWithAnswer(mst)
    BY <1>9, <1>11 DEF EndsWithAnswer
  <2>2. QED
    BY <1>2, <2>1 DEF EndShown
<1>17. QED
  BY <1>1, <1>7, <1>10, <1>13, <1>14, <1>15, <1>16 DEF Shows

LEMMA ShowsNext ==
    ASSUME NEW n \in Nat, NEW es \in Seq(Events), Orderly(es), AllOf(es, n),
           NEW h \in Nat, h + 1 \in 1..Len(es), NEW ms \in Seq(Messages), Whole(ms, n), Shows(ms, es, n, h)
    PROVE  Shows(HandleEvent(ms, es[h + 1]), es, n, h + 1)
<1>1. h \in DOMAIN es \/ h = 0
  BY LenProperties
<1>2. PICK e \in Events : e = es[h + 1]
  BY ElementOfSeq
<1>3. CASE e.type \in {"thinking", "text"}
  BY <1>1, <1>2, <1>3, NextStream
<1>4. CASE e.type = "tool_input"
  BY <1>1, <1>2, <1>4, NextInput
<1>5. CASE e.type = "tool_result"
  BY <1>1, <1>2, <1>5, NextResult
<1>6. CASE e.type = "error"
  BY <1>1, <1>2, <1>6, NextError
<1>7. CASE e.type \in {"done", "stream_end"}
  BY <1>1, <1>2, <1>7, NextEnd DEF Ends
<1>8. CASE e.type \notin {"thinking", "text", "tool_input", "tool_result", "done", "stream_end", "error"}
  <2>1. ~Calling(es, h) /\ ~Calling(es, h + 1) /\ ~ResultFor(es, h + 1) /\ ~Streams(es[h + 1])
    BY <1>1, <1>2, <1>8, NotCalling DEF Calling, ResultFor, Orderly, Streams
  <2>2. HandleEvent(ms, es[h + 1]) = ms
    BY <1>2, <1>8 DEF HandleEvent
  <2>3. QED
    BY <2>1, <2>2, NextSame
<1>9. QED
  BY <1>3, <1>4, <1>5, <1>6, <1>7, <1>8
-----------------------------------------------------------------------------
(* A page on which the question is the last.                               *)
AsksLast(ms, n) == Asks(ms) # <<>> /\ Last(Asks(ms)) = n

LEMMA ChunkWhole ==
    ASSUME NEW n \in Nat, NEW es \in Seq(Events), Orderly(es), AllOf(es, n),
           NEW a \in Nat, NEW b \in Nat, a <= b, b <= Len(es),
           NEW ms \in Seq(Messages), Whole(ms, n), n \in muddled \/ AsksLast(ms, n)
    PROVE  /\ Whole(HandleEvents(ms, At(es, (a + 1)..b)), n)
           /\ Shows(ms, es, n, a) => Shows(HandleEvents(ms, At(es, (a + 1)..b)), es, n, b)
<1>1. PICK cs : cs = At(es, (a + 1)..b)
  OBVIOUS
<1>2. cs \in Seq(Events) /\ Len(cs) = b - a /\ \A i \in 1..(b - a) : cs[i] = es[a + i]
  BY <1>1, AtStretch
<1>3. PICK N : N = b - a
  OBVIOUS
<1>4. N \in Nat /\ a + N = b /\ Len(es) \in Nat
  BY <1>3, LenProperties
<1>5. PICK f \in [0..N -> Seq(Messages)] :
          f[0] = ms /\ HandleEvents(ms, cs) = f[N] /\ \A i \in 1..N : f[i] = HandleEvent(f[i - 1], es[a + i])
  <2>1. PICK f \in [0..Len(cs) -> Seq(Messages)] :
            f[0] = ms /\ HandleEvents(ms, cs) = f[Len(cs)] /\ \A i \in 1..Len(cs) : f[i] = HandleEvent(f[i - 1], cs[i])
    BY <1>2, HandledOneByOne
  <2>2. \A i \in 1..N : f[i] = HandleEvent(f[i - 1], es[a + i])
    BY <1>2, <1>3, <2>1
  <2>3. QED
    BY <1>2, <1>3, <2>1, <2>2
<1> DEFINE Good(x, i) == Asks(x) = Asks(ms) /\ Whole(x, n) /\ (Shows(ms, es, n, a) => Shows(x, es, n, a + i))
           S == {i \in 0..N : Good(f[i], i)}
<1>6. 0 \in S
  <2>1. a + 0 = a /\ 0 \in 0..N
    BY <1>4
  <2>2. QED
    BY <1>5, <2>1
<1>7. ASSUME NEW i \in 0..(N - 1), i \in S PROVE i + 1 \in S
  <2>1. i \in Nat /\ i \in 0..N /\ i + 1 \in 0..N /\ i + 1 \in 1..N /\ (i + 1) - 1 = i
        /\ a + i \in Nat /\ a + (i + 1) = (a + i) + 1 /\ (a + i) + 1 \in 1..Len(es)
    BY <1>4
  <2>2. PICK x \in Seq(Messages) : x = f[i]
    BY <2>1
  <2>3. PICK h \in Nat : h = a + i
    BY <2>1
  <2>4. h + 1 \in 1..Len(es) /\ a + (i + 1) = h + 1
    BY <2>1, <2>3
  <2>5. PICK e \in Events : e = es[h + 1]
    BY <2>4, ElementOfSeq
  <2>6. f[i + 1] = HandleEvent(x, e)
    <3>1. f[i + 1] = HandleEvent(f[(i + 1) - 1], es[a + (i + 1)])
      BY <1>5, <2>1
    <3>2. QED
      BY <2>1, <2>2, <2>4, <2>5, <3>1
  <2>7. Asks(x) = Asks(ms) /\ Whole(x, n) /\ (Shows(ms, es, n, a) => Shows(x, es, n, h))
    BY <1>7, <2>2, <2>3
  <2>8. Asks(HandleEvent(x, e)) = Asks(ms)
    BY <2>7, EventKeeps
  <2>9. Whole(HandleEvent(x, e), n)
    <3>1. OfAnswer(e, n)
      BY <2>4, <2>5, LenProperties DEF AllOf
    <3>2. n \in muddled \/ Under(x, Len(x)) = n
      BY <2>7, UnderLast DEF AsksLast
    <3>3. QED
      BY <2>7, <3>1, <3>2, EventWhole
  <2>10. Shows(ms, es, n, a) => Shows(HandleEvent(x, e), es, n, h + 1)
    BY <2>4, <2>5, <2>7, ShowsNext
  <2>11. QED
    BY <2>1, <2>4, <2>6, <2>8, <2>9, <2>10
<1>8. \A i \in 0..N : i \in S
  <2> HIDE DEF S
  <2> QED BY <1>4, <1>6, <1>7, Upwards
<1>9. N \in 0..N
  BY <1>4
<1>10. Good(f[N], N)
  BY <1>8, <1>9
<1>11. QED
  BY <1>1, <1>4, <1>5, <1>10
-----------------------------------------------------------------------------
(* What the lists of messages hold of a question: nothing before it is     *)
(* asked; no bubble that waits, but for an empty output, after its answer. *)
QuietOf(ms, es, n) == \A i \in DOMAIN ms : Spins(ms[i], n) => SpinsFor(ms[i], es, Len(es))

LEMMA NothingOf ==
    ASSUME NEW n \in Nat, NEW k \in Nat, k < n, NEW ms \in Seq(Messages), Whole(ms, k)
    PROVE  (\A i \in DOMAIN ms : ~Spins(ms[i], n)) /\ PiecesOf(ms, n) = <<>>
<1>1. \A i \in DOMAIN ms : PartsOf(ms[i]) \subseteq 0..k /\ (ms[i].role = "tool" => ms[i].call # NoResult)
  BY DEF Whole, MessageOK
<1>2. n \notin 0..k
  OBVIOUS
<1>3. ASSUME NEW i \in DOMAIN ms, Spins(ms[i], n) PROVE FALSE
  <2>1. ms[i].call \in {ms[i].call} \ {<<>>}
    BY <1>1, <1>3 DEF Spins, NoResult
  <2>2. ms[i].call[1] \in PartsOf(ms[i])
    BY <2>1, PartsOfIs
  <2>3. QED
    BY <1>1, <1>2, <1>3, <2>2 DEF Spins
<1>4. ASSUME NEW i \in 1..Len(ms) PROVE PiecesIn(ms[i].content, n) = <<>>
  <2>1. i \in DOMAIN ms /\ ms[i] \in Messages
    BY LenProperties, ElementOfSeq
  <2>2. PICK m \in Messages : m = ms[i]
    BY <2>1
  <2>3. PICK c \in Seq(AnyPieces) : c = m.content
    BY ContentType
  <2>4. ASSUME NEW j \in 1..Len(c) PROVE ~Own(c[j], n)
    <3>1. c[j] \in ToSet(c)
      BY LenProperties DEF ToSet
    <3>2. Len(c[j]) = 3 => c[j][2] \in NumbersOf(c)
      BY <3>1 DEF NumbersOf
    <3>3. NumbersOf(c) \subseteq 0..k
      BY <1>1, <2>1, <2>2, <2>3, PartsOfIs
    <3>4. QED
      BY <1>2, <3>2, <3>3 DEF Own
  <2>5. PiecesIn(c, n) = <<>>
    BY <2>4, NoPieces
  <2>6. QED
    BY <2>2, <2>3, <2>5
<1>5. PiecesOf(ms, n) = <<>>
  BY <1>4, NoPiecesOf
<1>6. QED
  BY <1>3, <1>5

LEMMA NotYet ==
    ASSUME NEW n \in Nat, NEW k \in Nat, k < n, NEW ms \in Seq(Messages), Whole(ms, k), NEW es
    PROVE  QuietOf(ms, es, n)
  BY NothingOf DEF QuietOf

LEMMA QuietNothing == \A es, n : QuietOf(<<>>, es, n)
<1>1. DOMAIN <<>> = {}
  OBVIOUS
<1>2. QED
  BY <1>1 DEF QuietOf

LEMMA NoneArrived == ASSUME NEW es \in Seq(Events) PROVE Arrived(es, 0) = <<>>
<1>1. {l \in 1..0 : Streams(es[l])} = {}
  OBVIOUS
<1>2. At(es, {}) = <<>>
  BY AtNone
<1>3. Arrived(es, 0) = [i \in DOMAIN <<>> |-> <<>>[i].piece]
  BY <1>1, <1>2 DEF Arrived
<1>4. DOMAIN <<>> = {}
  OBVIOUS
<1>5. PICK f : f = [i \in DOMAIN <<>> |-> <<>>[i].piece]
  OBVIOUS
<1>6. f \in [1..0 -> {}]
  BY <1>4, <1>5
<1>7. f \in Seq({}) /\ Len(f) = 0
  BY <1>6
<1>8. QED
  BY <1>3, <1>5, <1>7, EmptySeq

LEMMA ShowsAtFirst ==
    ASSUME NEW n \in Nat, NEW k \in Nat, k < n, NEW ms \in Seq(Messages), Whole(ms, k), NEW es \in Seq(Events)
    PROVE  Shows(Append(Append(ms, UserMessage(n)), EmptyAnswer), es, n, 0)
<1>1. PICK q \in Messages : q = UserMessage(n)
  BY Question
<1>2. PICK x : x = Append(ms, q)
  OBVIOUS
<1>3. PICK y : y = Append(x, EmptyAnswer)
  OBVIOUS
<1>4. q.role = "user" /\ q.content = <<<<"typed", n>>>>
  BY <1>1 DEF UserMessage
<1>5. EmptyAnswer \in Messages /\ EmptyAnswer.role = "assistant" /\ EmptyAnswer.content = <<>>
  BY Answering DEF Messages, EmptyAnswer
<1>6. /\ x \in Seq(Messages) /\ Len(ms) \in Nat /\ Len(x) = Len(ms) + 1 /\ DOMAIN ms = 1..Len(ms) /\ x[Len(ms) + 1] = q
      /\ (\A i \in 1..Len(ms) : x[i] = ms[i]) /\ \A i \in 1..(Len(ms) + 1) : i \in 1..Len(ms) \/ i = Len(ms) + 1
  BY <1>2, AppendAt
<1>7. /\ DOMAIN y = 1..(Len(x) + 1) /\ y[Len(x) + 1] = EmptyAnswer /\ (\A i \in 1..Len(x) : y[i] = x[i])
      /\ (\A i \in 1..(Len(x) + 1) : i \in 1..Len(x) \/ i = Len(x) + 1) /\ y # <<>> /\ Last(y) = EmptyAnswer
  BY <1>3, <1>5, <1>6, AppendAt
<1>8. PiecesOf(y, n) = <<>>
  <2>1. PiecesIn(q.content, n) = <<>>
    <3>1. PICK c : c = <<<<"typed", n>>>>
      OBVIOUS
    <3>2. c \in Seq(AnyPieces)
      BY <1>4, <3>1, ContentType
    <3>3. PICK p : p = <<"typed", n>>
      OBVIOUS
    <3>4. Len(p) = 2 /\ Len(c) = 1 /\ c[1] = p
      BY <3>1, <3>3
    <3>5. ~Own(p, n)
      BY <3>4 DEF Own
    <3>6. \A j \in 1..Len(c) : ~Own(c[j], n)
      BY <3>4, <3>5
    <3>7. QED
      BY <1>4, <3>1, <3>2, <3>6, NoPieces
  <2>2. PiecesIn(EmptyAnswer.content, n) = <<>>
    BY <1>5, PiecesInNothing
  <2>3. PiecesOf(x, n) = PiecesOf(ms, n)
    BY <1>2, <2>1, PiecesEmptyAdded
  <2>4. PiecesOf(y, n) = PiecesOf(x, n)
    BY <1>3, <1>5, <1>6, <2>2, PiecesEmptyAdded
  <2>5. QED
    BY <2>3, <2>4, NothingOf
<1>9. \A i \in DOMAIN y : ~Spins(y[i], n)
  <2>1. \A i \in DOMAIN ms : ~Spins(ms[i], n)
    BY NothingOf
  <2>2. ~Spins(q, n) /\ ~Spins(EmptyAnswer, n)
    BY <1>4, <1>5 DEF Spins
  <2>3. \A i \in 1..Len(x) : ~Spins(x[i], n)
    BY <1>6, <2>1, <2>2
  <2>4. QED
    BY <1>7, <2>2, <2>3
<1>10. EndsWithAnswer(y) /\ ~Calling(es, 0) /\ \A l : l \notin 1..0
  BY <1>5, <1>7 DEF EndsWithAnswer, Calling
<1>11. ResultsShown(y, es, 0) /\ WaitingShown(y, es, n, 0) /\ EndShown(y, es, 0)
  BY <1>9, <1>10 DEF ResultsShown, WaitingShown, EndShown
<1>12. PiecesOf(y, n) = Arrived(es, 0)
  BY <1>8, NoneArrived
<1>13. QED
  BY <1>1, <1>2, <1>3, <1>11, <1>12 DEF Shows

(* An answer that is read to its end leaves no call open. *)
LEMMA ShownQuiet ==
    ASSUME NEW es \in Seq(Events), Orderly(es), NEW n, NEW ms, Shows(ms, es, n, Len(es))
    PROVE  QuietOf(ms, es, n)
<1>1. Len(es) \in Nat /\ DOMAIN es = 1..Len(es)
  BY LenProperties
<1>2. Len(es) > 0 => Len(es) \in DOMAIN es /\ Len(es) + 1 \notin DOMAIN es
  BY <1>1
<1>3. ~Calling(es, Len(es))
  BY <1>2 DEF Calling, Orderly, Followed
<1>4. QED
  BY <1>3 DEF Shows, WaitingShown, QuietOf

LEMMA BrokenOff ==
    ASSUME NEW n \in Nat, NEW ms \in Seq(Messages), Whole(ms, n), n \in muddled \/ AsksLast(ms, n)
    PROVE  /\ Whole(BreakOff(ms, n), n)
           /\ \A es : QuietOf(ms, es, n) => QuietOf(BreakOff(ms, n), es, n)
<1>1. CASE ~EndsWithAnswer(ms)
  BY <1>1 DEF BreakOff
<1>2. CASE EndsWithAnswer(ms)
  <2>1. PICK r \in Seq(Messages), m \in Bubbles :
             /\ ms = Append(r, m) /\ m.role = "assistant"
             /\ Whole(r, n) /\ MessageOK(m, n) /\ Placed(m, Under(ms, Len(ms))) /\ Under(ms, Len(ms)) = Under(r, Len(r))
    BY <1>2, LastBubble
  <2>2. PICK p : p = ErrorPiece(n)
    OBVIOUS
  <2>3. p \in Pieces /\ p[1] = "error" /\ p[2] = n /\ Len(p) > 1
    BY <2>2 DEF Pieces, ErrorPiece
  <2>4. Clear(m.content)
    BY <2>1 DEF MessageOK
  <2>5. PICK c : Grown(c, m.content, p) /\ Extended(Append(r, m), <<p>>) = Append(r, [m EXCEPT !.content = c])
    BY <2>1, <2>3, <2>4, PieceExtends
  <2>6. PICK mt : mt = [m EXCEPT !.content = c]
    OBVIOUS
  <2>7. BreakOff(ms, n) = Append(r, mt)
    BY <1>2, <2>1, <2>2, <2>5, <2>6 DEF BreakOff
  <2>8. PICK u : u = Under(r, Len(r))
    OBVIOUS
  <2>9. Placed(m, u) /\ (p[2] \in muddled \/ p[2] = u) /\ p[2] \in 0..n
    <3>1. n \in muddled \/ Under(ms, Len(ms)) = n
      BY UnderLast DEF AsksLast
    <3>2. QED
      BY <2>1, <2>3, <2>8, <3>1
  <2>10. mt \in Bubbles /\ Whole(Append(r, mt), n)
    BY <2>1, <2>5, <2>6, <2>8, <2>9, PieceWhole
  <2>11. m \in Messages /\ mt \in Messages /\ mt.role = "assistant"
    <3>1. mt.role = m.role
      BY <2>6 DEF Bubbles
    <3>2. QED
      BY <2>1, <2>10, <3>1 DEF Messages
  <2>12. ASSUME NEW es, QuietOf(ms, es, n) PROVE QuietOf(Append(r, mt), es, n)
    <3>1. PICK y : y = Append(r, mt)
      OBVIOUS
    <3>2. /\ DOMAIN ms = 1..(Len(r) + 1) /\ \A i \in 1..Len(r) : i \in 1..(Len(r) + 1) /\ ms[i] = r[i]
      BY <2>1, <2>11, AppendAt
    <3>3. /\ DOMAIN y = 1..(Len(r) + 1) /\ y[Len(r) + 1] = mt /\ (\A i \in 1..Len(r) : y[i] = r[i])
          /\ \A i \in 1..(Len(r) + 1) : i \in 1..Len(r) \/ i = Len(r) + 1
      BY <2>11, <3>1, AppendAt
    <3>4. ~Spins(mt, n)
      BY <2>11 DEF Spins
    <3>5. QED
      BY <2>12, <3>1, <3>2, <3>3, <3>4 DEF QuietOf
  <2>13. QED
    BY <2>7, <2>10, <2>12
<1>3. QED
  BY <1>1, <1>2
-----------------------------------------------------------------------------
(* The page, and whatever else has messages, at every state.               *)
Latest == IF Reads THEN asked - 1 ELSE asked
Elsewhere == {store[id] : id \in Ids} \union {v.msgs : v \in saves} \union {g.msgs : g \in gets}

EventsInv == Orderly(events) /\ AllOf(events, asked) /\ size = Len(events)
PlaceInv == Whole(messages, asked) /\ \A ms \in Elsewhere : Whole(ms, Latest)
ShownInv == Reads /\ asked \notin muddled => Shows(messages, events, asked, got \div 2)
SpinInv ==
    ~Reads /\ AllRead /\ events # <<>> /\ asked \notin muddled =>
        \A ms \in {messages} \union Elsewhere : QuietOf(ms, events, asked)
AnswerInv == EventsInv /\ PlaceInv /\ ShownInv /\ SpinInv

LEMMA AnswerTypes ==
    ASSUME SessionInv
    PROVE  /\ messages \in Seq(Messages) /\ events \in Seq(Events) /\ asked \in Nat
           /\ \A ms \in Elsewhere : ms \in Seq(Messages)
           /\ Latest \in Nat /\ Latest <= asked /\ (Reads => Latest < asked /\ reading.ask = asked)
<1>1. messages \in Seq(Messages) /\ events \in Seq(Events) /\ asked \in Nat
  BY DEF SessionInv, TypesInv, SeenInv
<1>2. \A ms \in Elsewhere : ms \in Seq(Messages)
  BY DEF SessionInv, TypesInv, Elsewhere, SaveRecords, GetRecords
<1>3. Reads => asked \in Nat \ {0} /\ reading.ask = asked
  BY DEF SessionInv, ReadInv
<1>4. Latest \in Nat /\ Latest <= asked /\ (Reads => Latest < asked)
  BY <1>1, <1>3 DEF Latest
<1>5. QED
  BY <1>1, <1>2, <1>3, <1>4

LEMMA AskedLast == ASSUME SessionInv, Reads PROVE asked \in muddled \/ AsksLast(messages, asked)
<1>1. asked \in Nat \ {0} /\ (asked \notin muddled => Page = Talk(asked))
  BY DEF SessionInv, ReadInv
<1>2. Len(seen) = asked /\ seen \in Seq(Seq(Nat))
  BY DEF SessionInv, SeenInv
<1>3. seen[asked] \in Seq(Nat)
  BY <1>1, <1>2, ElementOfSeq
<1>4. PICK s \in Seq(Nat) : s = seen[asked]
  BY <1>3
<1>5. Append(s, asked) # <<>> /\ Last(Append(s, asked)) = asked
  <2>1. Append(s, asked) # <<>>
    BY <1>1, AppendProperties
  <2>2. QED
    BY <1>1, <2>1, EndOfAppend
<1>6. QED
  BY <1>1, <1>4, <1>5 DEF AsksLast, Page, Talk

(* What stays whole though more is muddled. *)
LEMMA StaysWhole ==
    ASSUME NEW ms, NEW n \in Nat, NEW k \in Nat, n <= k, Whole(ms, n), muddled \subseteq muddled'
    PROVE  Whole(ms, k)'
  BY WholeLater

LEMMA PlaceKept ==
    ASSUME PlaceInv, muddled \subseteq muddled', Latest \in Nat, Latest' \in Nat, Latest <= Latest',
           NEW M, \A ms \in M : Whole(ms, Latest'),
           \A ms \in Elsewhere' : ms \in Elsewhere \/ ms \in M
    PROVE  \A ms \in Elsewhere' : Whole(ms, Latest)'
<1>1. PICK k \in Nat : k = Latest
  OBVIOUS
<1>2. PICK l \in Nat : l = Latest'
  OBVIOUS
<1>3. PICK E : E = Elsewhere'
  OBVIOUS
<1>4. \A ms \in E : Whole(ms, k) \/ Whole(ms, l)
  BY <1>1, <1>2, <1>3 DEF PlaceInv
<1>5. k <= l
  BY <1>1, <1>2
<1>6. ASSUME NEW ms \in E PROVE Whole(ms, l)'
  <2>1. CASE Whole(ms, k)
    BY <1>5, <2>1, StaysWhole
  <2>2. CASE Whole(ms, l)
    <3>1. l <= l
      OBVIOUS
    <3>2. QED
      BY <2>2, <3>1, StaysWhole
  <2>3. QED
    BY <1>4, <2>1, <2>2
<1>7. QED
  BY <1>2, <1>3, <1>6

(* The steps that leave the answer alone, and those that put another       *)
(* conversation on the page.                                               *)
LEMMA OthersKeepAnswers ==
    ASSUME SessionInv, AnswerInv, UNCHANGED <<asked, reading, events, size, got>>, muddled \subseteq muddled',
           \A ms \in Elsewhere' : ms \in Elsewhere \/ ms = <<>>,
           \/ messages' = messages
           \/ (messages' \in Elsewhere \/ messages' = <<>>) /\ (Reads => asked \in muddled')
    PROVE  AnswerInv'
<1>1. EventsInv'
  BY DEF AnswerInv, EventsInv, Orderly, AllOf, Followed, Paired, Ended
<1>2. Latest' = Latest /\ Latest \in Nat /\ Latest <= asked /\ asked \in Nat
  BY AnswerTypes DEF Latest, Reads
<1>3. \A ms \in Elsewhere' : Whole(ms, Latest)'
  <2>1. PICK M : M = {<<>>}
    OBVIOUS
  <2>2. \A ms \in M : Whole(ms, Latest')
    BY <2>1, WholeNothing
  <2>3. \A ms \in Elsewhere' : ms \in Elsewhere \/ ms \in M
    BY <2>1
  <2>4. QED
    BY <1>2, <2>2, <2>3, PlaceKept, SMTT(30) DEF AnswerInv
<1>4. Whole(messages, asked)'
  <2>1. PICK ms : ms = messages'
    OBVIOUS
  <2>2. PICK n \in Nat : n = asked
    BY <1>2
  <2>3. PICK k \in Nat : k = Latest
    BY <1>2
  <2>4. Whole(ms, n) \/ Whole(ms, k)
    BY <2>1, <2>2, <2>3, WholeNothing DEF AnswerInv, PlaceInv
  <2>5. k <= n /\ n <= n
    BY <1>2, <2>2, <2>3
  <2>6. Whole(ms, n)'
    BY <2>4, <2>5, StaysWhole
  <2>7. n = asked'
    BY <2>2
  <2>8. QED
    BY <2>1, <2>6, <2>7
<1>5. ShownInv'
  <2>1. ASSUME Reads', asked' \notin muddled' PROVE messages' = messages /\ Reads /\ asked \notin muddled
    BY <2>1 DEF Reads
  <2>2. QED
    BY <2>1 DEF AnswerInv, ShownInv
<1>6. SpinInv'
  <2>1. ASSUME (~Reads)', AllRead', events' # <<>>, asked' \notin muddled', NEW ms, ms = messages' \/ ms \in Elsewhere'
        PROVE  QuietOf(ms, events, asked)
    <3>1. ~Reads /\ AllRead /\ events # <<>> /\ asked \notin muddled
      BY <2>1 DEF Reads, AllRead
    <3>2. ms = messages \/ ms \in Elsewhere \/ ms = <<>>
      BY <2>1
    <3>3. QED
      BY <3>1, <3>2, QuietNothing DEF AnswerInv, SpinInv
  <2>2. events' = events /\ asked' = asked
    OBVIOUS
  <2>3. QED
    BY <2>1, <2>2 DEF SpinInv
<1>7. QED
  BY <1>1, <1>3, <1>4, <1>5, <1>6 DEF AnswerInv, PlaceInv

(* What others read and store is what was there. *)
LEMMA ElsewhereSame == ASSUME UNCHANGED store, saves' \subseteq saves, gets' \subseteq gets PROVE Elsewhere' \subseteq Elsewhere
  BY DEF Elsewhere, Ids

LEMMA CallsKeepAnswers ==
    ASSUME SessionInv, AnswerInv,
           \/ \E v \in saves : ServeSave(v) \/ SaveFails(v) \/ SaveAnswerLost(v) \/ SaveAnswered(v)
           \/ \E g \in gets : ServeGet(g) \/ GetFails(g)
           \/ \E id \in deletes : ServeDelete(id)
           \/ \E id \in Ids : OpenSession(id) \/ DeleteSession(id)
           \/ Return \/ Compose \/ BrowserNext \/ Tick \/ UNCHANGED chatVars
    PROVE  AnswerInv'
<1>1. /\ UNCHANGED <<asked, reading, events, size, got, messages>> /\ muddled \subseteq muddled'
  BY DEF ServeSave, SaveFails, SaveAnswerLost, SaveAnswered, ServeGet, GetFails, ServeDelete, OpenSession, DeleteSession, Return, Compose, BrowserNext,
         Tick, chatVars, pageVars, rest, streamVars, ghostVars
<1>2. \A ms \in Elsewhere' : ms \in Elsewhere \/ ms = <<>>
  <2>1. CASE \E v \in saves : ServeSave(v)
    <3>1. PICK v \in saves : ServeSave(v)
      BY <2>1
    <3>2. PICK m : m = v.msgs
      OBVIOUS
    <3>3. m \in Elsewhere
      BY <3>2 DEF Elsewhere
    <3>4. \A i \in Ids' : store'[i] = m \/ (i \in Ids /\ store'[i] = store[i])
      BY <3>1, <3>2 DEF ServeSave, Put, Ids
    <3>5. \A w \in saves' : w \in saves \/ w.msgs = m
      <4>1. v \in SaveRecords
        BY DEF SessionInv, TypesInv
      <4>2. PICK w : w = [v EXCEPT !.id = IdOf(v), !.served = TRUE]
        OBVIOUS
      <4>3. w.msgs = m
        BY <3>2, <4>1, <4>2 DEF SaveRecords
      <4>4. QED
        BY <3>1, <4>2, <4>3 DEF ServeSave
    <3>6. gets' = gets
      BY <3>1 DEF ServeSave
    <3>7. QED
      BY <3>3, <3>4, <3>5, <3>6 DEF Elsewhere
  <2>2. CASE \E g \in gets : ServeGet(g)
    <3>1. PICK g \in gets : ServeGet(g)
      BY <2>2
    <3>2. PICK h : h = [g EXCEPT !.served = TRUE, !.found = g.id \in Ids, !.msgs = IF g.id \in Ids THEN store[g.id] ELSE <<>>]
      OBVIOUS
    <3>3. h.msgs = IF g.id \in Ids THEN store[g.id] ELSE <<>>
      <4>1. g \in GetRecords
        BY DEF SessionInv, TypesInv
      <4>2. QED
        BY <3>2, <4>1 DEF GetRecords
    <3>4. h.msgs \in Elsewhere \/ h.msgs = <<>>
      BY <3>3 DEF Elsewhere
    <3>5. gets' = (gets \ {g}) \union {h} /\ store' = store /\ saves' = saves
      BY <3>1, <3>2 DEF ServeGet, serverVars
    <3>6. QED
      BY <3>4, <3>5 DEF Elsewhere, Ids
  <2>3. CASE \E id \in deletes : ServeDelete(id)
    <3>1. PICK id \in deletes : ServeDelete(id)
      BY <2>3
    <3>2. saves' = saves /\ gets' = gets /\ \A i \in Ids' : i \in Ids /\ store'[i] = store[i]
      BY <3>1 DEF ServeDelete, Ids
    <3>3. QED
      BY <3>2 DEF Elsewhere
  <2>4. CASE \E id \in Ids : OpenSession(id)
    <3>1. PICK id \in Ids : OpenSession(id)
      BY <2>4
    <3>2. PICK g : g = [id |-> id, served |-> FALSE, found |-> FALSE, msgs |-> <<>>]
      OBVIOUS
    <3>3. g.msgs = <<>> /\ gets' = gets \union {g} /\ store' = store /\ saves' = saves
      BY <3>1, <3>2 DEF OpenSession, serverVars
    <3>4. QED
      BY <3>3 DEF Elsewhere, Ids
  <2>5. CASE ~((\E v \in saves : ServeSave(v)) \/ (\E g \in gets : ServeGet(g)) \/ (\E id \in deletes : ServeDelete(id))
               \/ (\E id \in Ids : OpenSession(id)))
    <3>1. UNCHANGED store /\ saves' \subseteq saves /\ gets' \subseteq gets
      BY <2>5 DEF SaveFails, SaveAnswerLost, SaveAnswered, GetFails, DeleteSession, Return, Compose, BrowserNext,
             Tick, chatVars, callVars, serverVars
    <3>2. QED
      BY <3>1, ElsewhereSame
  <2>6. QED
    BY <2>1, <2>2, <2>3, <2>4, <2>5
<1>3. QED
  BY <1>1, <1>2, OthersKeepAnswers

(* Another conversation is put on the page.                                *)
LEMMA PageKeepsAnswers ==
    ASSUME SessionInv, AnswerInv, NewChat \/ \E g \in gets : GetAnswered(g)
    PROVE  AnswerInv'
<1>1. /\ UNCHANGED <<asked, reading, events, size, got, store, saves>> /\ gets' \subseteq gets /\ muddled' = Replaced
  BY DEF NewChat, GetAnswered, callVars, serverVars, rest, streamVars
<1>2. messages' \in Elsewhere \/ messages' = <<>>
  BY DEF NewChat, GetAnswered, Elsewhere
<1>3. muddled \subseteq muddled' /\ (Reads => asked \in muddled')
  BY <1>1, AnswerTypes DEF Replaced
<1>4. \A ms \in Elsewhere' : ms \in Elsewhere \/ ms = <<>>
  BY <1>1, ElsewhereSame
<1>5. QED
  BY <1>1, <1>2, <1>3, <1>4, OthersKeepAnswers

LEMMA SendKeepsAnswers == ASSUME SessionInv, AnswerInv, Send PROVE AnswerInv'
<1>1. PICK n : n = asked + 1
  OBVIOUS
<1>2. /\ messages \in Seq(Messages) /\ asked \in Nat /\ n \in Nat /\ asked < n /\ asked <= n
      /\ ~Reads /\ Latest = asked /\ user.answers \subseteq Answer
  <2>1. ~Reads /\ user.answers \subseteq Answer
    BY DEF SessionInv, TypesInv, Send, User
  <2>2. QED
    BY <1>1, <2>1, AnswerTypes DEF Latest
<1>3. asked' = n /\ muddled \subseteq muddled' /\ UNCHANGED <<store, saves, gets>>
  BY <1>1 DEF Send, callVars, serverVars
<1>4. PICK a \in Answer : events' = AnswerEvents(n, a) /\ Open(Len(events'))
  BY <1>2, <1>3 DEF Send
<1>5. PICK es : es = events'
  OBVIOUS
<1>6. es \in Seq(Events) /\ Orderly(es) /\ AllOf(es, n) /\ size' = Len(es) /\ got' = 0
  BY <1>2, <1>4, <1>5, AnswerType, AnswerOrderly DEF Open
<1>7. EventsInv'
  <2>1. events' = es /\ asked' = n
    BY <1>3, <1>5
  <2>2. QED
    BY <1>6, <2>1 DEF EventsInv, Orderly, AllOf, Followed, Paired, Ended
<1>8. Reads' /\ Latest' = asked
  <2>1. reading'.ask = n
    BY <1>3 DEF Send
  <2>2. Reads'
    BY <1>1, <1>2, <2>1 DEF Reads, NoReading
  <2>3. QED
    BY <1>1, <1>2, <1>3, <2>2 DEF Latest
<1>9. PICK ms \in Seq(Messages) : ms = messages
  BY <1>2
<1>10. PICK q \in Messages : q = UserMessage(n)
  BY <1>2, Question
<1>11. PICK mst : mst = Append(Append(ms, q), EmptyAnswer)
  OBVIOUS
<1>12. messages' = mst
  <2>1. messages' = ms \o <<q, EmptyAnswer>>
    BY <1>3, <1>9, <1>10 DEF Send
  <2>2. EmptyAnswer \in Messages
    BY Answering DEF Messages
  <2>3. ms \o <<q, EmptyAnswer>> = Append(Append(ms, q), EmptyAnswer)
    BY <1>9, <1>10, <2>2
  <2>4. QED
    BY <1>11, <2>1, <2>3
<1>13. PICK k \in Nat : k = asked /\ k < n /\ k <= n
  BY <1>2
<1>14. Whole(ms, k)
  BY <1>9, <1>13 DEF AnswerInv, PlaceInv
<1>15. Whole(messages, asked)'
  <2>1. Whole(ms, n)
    BY <1>2, <1>3, <1>13, <1>14, WholeLater
  <2>2. Placed(q, n) /\ MessageOK(q, n) /\ IsAsk(q) /\ Ask(q) = n
    <3>1. n <= n
      BY <1>2
    <3>2. QED
      BY <1>2, <1>10, <3>1, QuestionGood, Question
  <2>3. Whole(Append(ms, q), n) /\ Append(ms, q) \in Seq(Messages)
    BY <2>1, <2>2, WholeAppend, AppendAt
  <2>4. Whole(mst, n)
    <3>1. PICK x \in Seq(Messages) : x = Append(ms, q)
      BY <2>3
    <3>2. EmptyAnswer \in Messages /\ ~IsAsk(EmptyAnswer)
      BY Answering, NoAsk DEF Messages
    <3>3. Placed(EmptyAnswer, Under(x, Len(x))) /\ MessageOK(EmptyAnswer, n)
      BY AnswerGood
    <3>4. QED
      BY <1>11, <2>3, <3>1, <3>2, <3>3, WholeAppend
  <2>5. Whole(mst, n)'
    <3>1. n <= n
      BY <1>2
    <3>2. QED
      BY <1>2, <1>3, <2>4, <3>1, StaysWhole
  <2>6. QED
    BY <1>3, <1>12, <2>5
<1>16. \A x \in Elsewhere' : Whole(x, Latest)'
  <2>1. Elsewhere' \subseteq Elsewhere
    BY <1>3, ElsewhereSame
  <2>2. Latest \in Nat /\ Latest' \in Nat /\ Latest <= Latest'
    BY <1>2, <1>8
  <2>3. PICK M : M = {}
    OBVIOUS
  <2>4. (\A x \in M : Whole(x, Latest')) /\ \A x \in Elsewhere' : x \in Elsewhere \/ x \in M
    BY <2>1, <2>3
  <2>5. QED
    BY <1>3, <2>2, <2>4, PlaceKept DEF AnswerInv
<1>17. ShownInv'
  <2>1. Shows(mst, es, n, 0)
    BY <1>2, <1>6, <1>9, <1>10, <1>11, <1>13, <1>14, ShowsAtFirst
  <2>2. got' \div 2 = 0
    BY <1>6
  <2>3. QED
    BY <1>3, <1>5, <1>12, <2>1, <2>2 DEF ShownInv
<1>18. SpinInv'
  BY <1>8 DEF SpinInv
<1>19. QED
  BY <1>7, <1>15, <1>16, <1>17, <1>18 DEF AnswerInv, PlaceInv

LEMMA ChunkKeepsAnswers == ASSUME SessionInv, StreamInv, AnswerInv, Chunk PROVE AnswerInv'
<1>1. PICK k \in 1..3 : Read(k) /\ messages' = HandleEvents(messages, At(events, CompleteLines(k)))
  BY DEF Chunk, EventsOf
<1>2. /\ Reads /\ Reads' /\ UNCHANGED <<asked, muddled, reading, events, store, saves, gets>>
      /\ size' = size /\ got' = got + k /\ k \in 1..(2 * size - got)
  <2>1. UNCHANGED <<asked, muddled, reading, events, store, saves, gets>> /\ Reads
    BY DEF Chunk, callVars, serverVars, ghostVars
  <2>2. Reads'
    BY <2>1 DEF Reads
  <2>3. QED
    BY <1>1, <2>1, <2>2 DEF Read
<1>3. EventsInv'
  BY <1>2 DEF AnswerInv, EventsInv, Orderly, AllOf, Followed, Paired, Ended
<1>4. PICK a \in Nat, b \in Nat : a = got \div 2 /\ b = (got + k) \div 2 /\ a <= b /\ b <= size
  <2>1. size \in Nat /\ got \in Nat /\ got + k <= 2 * size
    BY <1>2 DEF StreamInv
  <2>2. got \div 2 \in Nat /\ (got + k) \div 2 \in Nat /\ got \div 2 <= (got + k) \div 2 /\ (got + k) \div 2 <= size
    BY <2>1
  <2>3. QED
    BY <2>2
<1>5. CompleteLines(k) = (a + 1)..b
  BY <1>2, <1>4, LinesOfChunk
<1>6. PICK n \in Nat : n = asked
  BY AnswerTypes
<1>7. PICK es \in Seq(Events) : es = events
  BY AnswerTypes
<1>8. PICK ms \in Seq(Messages) : ms = messages
  BY AnswerTypes
<1>9. Orderly(es) /\ AllOf(es, n) /\ b <= Len(es) /\ Whole(ms, n) /\ (n \in muddled \/ AsksLast(ms, n))
  <2>1. Orderly(es) /\ AllOf(es, n) /\ size = Len(es) /\ Whole(ms, n)
    BY <1>6, <1>7, <1>8 DEF AnswerInv, EventsInv, PlaceInv
  <2>2. n \in muddled \/ AsksLast(ms, n)
    BY <1>2, <1>6, <1>8, AskedLast
  <2>3. QED
    BY <1>4, <2>1, <2>2
<1>10. PICK mst : mst = HandleEvents(ms, At(es, (a + 1)..b))
  OBVIOUS
<1>11. messages' = mst
  BY <1>1, <1>5, <1>7, <1>8, <1>10
<1>12. Whole(mst, n) /\ (Shows(ms, es, n, a) => Shows(mst, es, n, b))
  BY <1>4, <1>9, <1>10, ChunkWhole
<1>13. Whole(messages, asked)'
  <2>1. n <= n
    OBVIOUS
  <2>2. Whole(mst, n)'
    BY <1>2, <1>12, <2>1, StaysWhole
  <2>3. QED
    BY <1>2, <1>6, <1>11, <2>2
<1>14. \A x \in Elsewhere' : Whole(x, Latest)'
  <2>1. Elsewhere' \subseteq Elsewhere
    BY <1>2, ElsewhereSame
  <2>2. Latest' = Latest /\ Latest \in Nat /\ Latest <= Latest'
    <3>1. Latest' = Latest /\ Latest \in Nat
      BY <1>2, AnswerTypes DEF Latest
    <3>2. QED
      BY <3>1
  <2>3. PICK M : M = {}
    OBVIOUS
  <2>4. (\A x \in M : Whole(x, Latest')) /\ \A x \in Elsewhere' : x \in Elsewhere \/ x \in M
    BY <2>1, <2>3
  <2>5. QED
    BY <1>2, <2>2, <2>4, PlaceKept DEF AnswerInv
<1>15. ShownInv'
  <2>1. ASSUME asked' \notin muddled' PROVE Shows(mst, es, n, b)
    BY <1>2, <1>4, <1>6, <1>7, <1>8, <1>12, <2>1 DEF AnswerInv, ShownInv
  <2>2. got' \div 2 = b
    BY <1>2, <1>4
  <2>3. QED
    BY <1>2, <1>6, <1>7, <1>11, <2>1, <2>2 DEF ShownInv
<1>16. SpinInv'
  BY <1>2 DEF SpinInv
<1>17. QED
  BY <1>3, <1>13, <1>14, <1>15, <1>16 DEF AnswerInv, PlaceInv

(* The answer was read to its end, or broke off. *)
LEMMA EndKeepsAnswers ==
    ASSUME SessionInv, StreamInv, AnswerInv, Finish \/ Break
    PROVE  AnswerInv'
<1>1. /\ Reads /\ EndSend(messages') /\ UNCHANGED <<asked, muddled, events, size, got, store, gets>>
      /\ messages' = IF Finish THEN messages ELSE BreakOff(messages, asked)
  <2>1. Reads /\ UNCHANGED <<asked, muddled, events, size, got, store, gets>>
    BY DEF Finish, Break, rest, streamVars, serverVars, ghostVars
  <2>2. CASE Finish
    BY <2>1, <2>2 DEF Finish, EndSend
  <2>3. CASE ~Finish
    BY <2>1, <2>3, AnswerTypes DEF Break, EndSend
  <2>4. QED
    BY <2>2, <2>3
<1>2. ~Reads' /\ Latest' = asked
  <2>1. ~Reads'
    BY <1>1 DEF EndSend, Reads
  <2>2. QED
    BY <1>1, <2>1 DEF Latest
<1>3. EventsInv'
  BY <1>1 DEF AnswerInv, EventsInv, Orderly, AllOf, Followed, Paired, Ended
<1>4. PICK n \in Nat : n = asked
  BY AnswerTypes
<1>5. PICK es \in Seq(Events) : es = events
  BY AnswerTypes
<1>6. PICK ms \in Seq(Messages) : ms = messages
  BY AnswerTypes
<1>7. Orderly(es) /\ Whole(ms, n) /\ (n \in muddled \/ AsksLast(ms, n)) /\ size = Len(es)
  <2>1. Orderly(es) /\ size = Len(es) /\ Whole(ms, n)
    BY <1>4, <1>5, <1>6 DEF AnswerInv, EventsInv, PlaceInv
  <2>2. n \in muddled \/ AsksLast(ms, n)
    BY <1>1, <1>4, <1>6, AskedLast
  <2>3. QED
    BY <2>1, <2>2
<1>8. PICK mst : mst = messages'
  OBVIOUS
<1>9. mst = ms \/ mst = BreakOff(ms, n)
  BY <1>1, <1>4, <1>6, <1>8
<1>10. Whole(mst, n) /\ (QuietOf(ms, es, n) => QuietOf(mst, es, n))
  BY <1>7, <1>9, BrokenOff
<1>11. Whole(messages, asked)'
  <2>1. n <= n
    OBVIOUS
  <2>2. Whole(mst, n)'
    BY <1>1, <1>10, <2>1, StaysWhole
  <2>3. QED
    BY <1>1, <1>4, <1>8, <2>2
<1>12. \A x \in Elsewhere' : x \in Elsewhere \/ x = mst
  <2>1. \A v \in saves' : v \in saves \/ v.msgs = mst
    <3>1. PICK w : w = [ask |-> reading.ask, sid |-> reading.sid, msgs |-> mst, id |-> NoId, served |-> FALSE, live |-> TRUE]
      OBVIOUS
    <3>2. w.msgs = mst
      BY <3>1
    <3>3. saves' = saves \/ saves' = saves \union {w}
      BY <1>1, <1>8, <3>1 DEF EndSend, AutoSave
    <3>4. QED
      BY <3>2, <3>3
  <2>2. QED
    BY <1>1, <2>1 DEF Elsewhere, Ids
<1>13. Latest \in Nat /\ Latest' \in Nat /\ Latest <= Latest' /\ Latest < n
  BY <1>1, <1>2, <1>4, AnswerTypes
<1>14. \A x \in Elsewhere' : Whole(x, Latest)'
  <2>1. PICK M : M = {mst}
    OBVIOUS
  <2>2. (\A x \in M : Whole(x, Latest')) /\ \A x \in Elsewhere' : x \in Elsewhere \/ x \in M
    BY <1>2, <1>4, <1>10, <1>12, <2>1
  <2>3. QED
    BY <1>1, <1>13, <2>2, PlaceKept DEF AnswerInv
<1>15. ShownInv'
  BY <1>2 DEF ShownInv
<1>16. SpinInv'
  <2>1. ASSUME AllRead', asked' \notin muddled', NEW x, x = mst \/ x \in Elsewhere' PROVE QuietOf(x, es, n)
    <3>1. AllRead /\ asked \notin muddled
      BY <1>1, <2>1 DEF AllRead
    <3>2. got \div 2 = Len(es)
      BY <1>7, <3>1 DEF AllRead
    <3>3. Shows(ms, es, n, Len(es))
      BY <1>1, <1>4, <1>5, <1>6, <3>1, <3>2 DEF AnswerInv, ShownInv
    <3>4. QuietOf(ms, es, n)
      BY <1>7, <3>3, ShownQuiet
    <3>5. CASE x = mst
      BY <1>10, <3>4, <3>5
    <3>6. CASE x \in Elsewhere
      <4>1. PICK k \in Nat : k = Latest /\ k < n
        BY <1>13
      <4>2. Whole(x, k) /\ x \in Seq(Messages)
        BY <3>6, <4>1, AnswerTypes DEF AnswerInv, PlaceInv
      <4>3. QED
        BY <4>1, <4>2, NotYet
    <3>7. QED
      BY <1>12, <2>1, <3>5, <3>6
  <2>2. events' = es /\ asked' = n /\ messages' = mst
    BY <1>1, <1>4, <1>5, <1>8
  <2>3. QED
    BY <2>1, <2>2 DEF SpinInv
<1>17. QED
  BY <1>3, <1>11, <1>14, <1>15, <1>16 DEF AnswerInv, PlaceInv

LEMMA LeaveKeepsAnswers == ASSUME SessionInv, AnswerInv, Leave PROVE AnswerInv'
<1>1. /\ messages' = <<>> /\ events' = <<>> /\ size' = 0 /\ UNCHANGED <<asked, muddled, store>> /\ gets' = {}
      /\ saves' = {[v EXCEPT !.live = FALSE] : v \in saves} /\ ~Reads' /\ Latest' = asked
  <2>1. /\ messages' = <<>> /\ events' = <<>> /\ size' = 0 /\ UNCHANGED <<asked, muddled, store>> /\ gets' = {}
        /\ saves' = {[v EXCEPT !.live = FALSE] : v \in saves} /\ reading' = NoReading
    BY DEF Leave, Open, serverVars
  <2>2. ~Reads'
    BY <2>1 DEF Reads
  <2>3. QED
    BY <2>1, <2>2 DEF Latest
<1>2. EventsInv'
  <2>1. DOMAIN <<>> = {} /\ Len(<<>>) = 0
    OBVIOUS
  <2>2. QED
    BY <1>1, <2>1 DEF EventsInv, Orderly, AllOf, Followed, Paired, Ended
<1>3. \A x \in Elsewhere' : x \in Elsewhere
  <2>1. ASSUME NEW v \in saves PROVE [v EXCEPT !.live = FALSE].msgs = v.msgs
    BY DEF SessionInv, TypesInv, SaveRecords
  <2>2. \A w \in saves' : \E v \in saves : w.msgs = v.msgs
    BY <1>1, <2>1
  <2>3. QED
    BY <1>1, <2>2 DEF Elsewhere, Ids
<1>4. \A x \in Elsewhere' : Whole(x, Latest)'
  <2>1. Latest \in Nat /\ Latest' \in Nat /\ Latest <= Latest'
    BY <1>1, AnswerTypes
  <2>2. PICK M : M = {}
    OBVIOUS
  <2>3. (\A x \in M : Whole(x, Latest')) /\ \A x \in Elsewhere' : x \in Elsewhere \/ x \in M
    BY <1>3, <2>2
  <2>4. QED
    BY <1>1, <2>1, <2>3, PlaceKept DEF AnswerInv
<1>5. Whole(messages, asked)'
  <2>1. DOMAIN messages' = {}
    BY <1>1
  <2>2. QED
    BY <2>1 DEF Whole
<1>6. ShownInv' /\ SpinInv'
  BY <1>1 DEF ShownInv, SpinInv
<1>7. QED
  BY <1>2, <1>4, <1>5, <1>6 DEF AnswerInv, PlaceInv

LEMMA AnswerInvInit == ASSUME ChatInit PROVE AnswerInv
<1>1. messages = <<>> /\ events = <<>> /\ size = 0 /\ reading = NoReading /\ asked = 0 /\ store = <<>> /\ saves = {} /\ gets = {}
  BY DEF ChatInit, PageInit
<1>2. DOMAIN <<>> = {} /\ Len(<<>>) = 0
  OBVIOUS
<1>3. EventsInv
  BY <1>1, <1>2 DEF EventsInv, Orderly, AllOf, Followed, Paired, Ended
<1>4. Elsewhere = {}
  BY <1>1, <1>2 DEF Elsewhere, Ids
<1>5. Whole(messages, asked)
  BY <1>1, WholeNothing
<1>6. ShownInv /\ SpinInv
  BY <1>1 DEF ShownInv, SpinInv, Reads
<1>7. QED
  BY <1>3, <1>4, <1>5, <1>6 DEF AnswerInv, PlaceInv

LEMMA AnswerInvNext == ASSUME ChatInv, AnswerInv, [ChatNext]_chatVars PROVE AnswerInv'
<1>1. SessionInv /\ StreamInv
  BY DEF ChatInv
<1>2. CASE Send
  BY <1>1, <1>2, SendKeepsAnswers
<1>3. CASE Chunk
  BY <1>1, <1>3, ChunkKeepsAnswers
<1>4. CASE Finish \/ Break
  BY <1>1, <1>4, EndKeepsAnswers
<1>5. CASE Leave
  BY <1>1, <1>5, LeaveKeepsAnswers
<1>6. CASE NewChat \/ \E g \in gets : GetAnswered(g)
  BY <1>1, <1>6, PageKeepsAnswers
<1>7. CASE \/ \E v \in saves : ServeSave(v) \/ SaveFails(v) \/ SaveAnswerLost(v) \/ SaveAnswered(v)
           \/ \E g \in gets : ServeGet(g) \/ GetFails(g)
           \/ \E id \in deletes : ServeDelete(id)
           \/ \E id \in Ids : OpenSession(id) \/ DeleteSession(id)
           \/ Return \/ Compose \/ BrowserNext \/ Tick \/ UNCHANGED chatVars
  BY <1>1, <1>7, CallsKeepAnswers
<1>8. QED
  BY <1>2, <1>3, <1>4, <1>5, <1>6, <1>7 DEF ChatNext, ServerNext, AnswerNext, ReadNext, UserNext, FaultNext

LEMMA AllWhole == ASSUME AnswerInv PROVE \A ms \in Conversations : InPlace(ms) /\ \A i \in DOMAIN ms : Told(ms[i])
<1>1. \A ms \in Conversations : ms = messages \/ ms \in Elsewhere
  BY DEF Conversations, Elsewhere
<1>2. \A ms \in Conversations : Whole(ms, asked) \/ Whole(ms, Latest)
  BY <1>1 DEF AnswerInv, PlaceInv
<1>3. QED
  BY <1>2, WholeIs

LEMMA AllShown == ASSUME SessionInv, StreamInv, AnswerInv PROVE AnswerShown
<1>1. SUFFICES ASSUME Reads, reading.ask \notin muddled
               PROVE  /\ PiecesOf(messages, reading.ask) =
                             LET arrived == At(events, {l \in handled : Streams(events[l])})
                             IN [i \in DOMAIN arrived |-> arrived[i].piece]
                      /\ \A l \in handled : ResultOfInput(l) =>
                             \E i \in DOMAIN messages : messages[i].call = events[l].result
                                                       /\ messages[i].result = events[l].result
  BY DEF AnswerShown
<1>2. reading.ask = asked /\ handled = 1..(got \div 2)
  BY <1>1, AnswerTypes DEF StreamInv, ArrivedHandled
<1>3. Shows(messages, events, asked, got \div 2)
  BY <1>1, <1>2 DEF AnswerInv, ShownInv
<1>4. PiecesOf(messages, reading.ask) = LET arrived == At(events, {l \in handled : Streams(events[l])})
                                        IN [i \in DOMAIN arrived |-> arrived[i].piece]
  BY <1>2, <1>3 DEF Shows, Arrived
<1>5. \A l \in handled : ResultOfInput(l) =>
          \E i \in DOMAIN messages : messages[i].call = events[l].result /\ messages[i].result = events[l].result
  BY <1>2, <1>3 DEF Shows, ResultsShown, ResultOfInput, ResultFor, Holds
<1>6. QED
  BY <1>4, <1>5

LEMMA OnlyEmpty == ASSUME SessionInv, AnswerInv PROVE OnlyEmptySpins
<1>1. SUFFICES ASSUME ~Reads, AllRead, events # <<>>, asked \notin muddled, NEW i \in DOMAIN messages,
                      Shown(messages[i], streaming) = "spinner", messages[i].call[1] = asked
               PROVE  \E l \in DOMAIN events : events[l].type = "tool_result" /\ events[l].result = NoResult
                                               /\ events[l].name = messages[i].name
  BY DEF OnlyEmptySpins
<1>2. QuietOf(messages, events, asked)
  BY <1>1 DEF AnswerInv, SpinInv
<1>3. messages[i].role = "tool" /\ messages[i].result = NoResult
  <2>1. messages[i] \in Messages
    BY <1>1, AnswerTypes, LenProperties, ElementOfSeq
  <2>2. PICK m \in Messages : m = messages[i]
    BY <2>1
  <2>3. m.role \in {"user", "tool", "assistant"}
    <3>1. CASE m \in Bubbles
      BY <3>1 DEF Bubbles
    <3>2. CASE m \in Questions
      <4>1. PICK n \in Nat : m = UserMessage(n)
        BY <3>2 DEF Questions
      <4>2. QED
        BY <4>1 DEF UserMessage
    <3>3. QED
      BY <3>1, <3>2 DEF Messages
  <2>4. CASE m.role = "user"
    BY <1>1, <2>2, <2>4 DEF Shown
  <2>5. CASE m.role = "tool"
    <3>1. Shown(m, streaming) = IF m.result = NoResult THEN "spinner" ELSE "result"
      BY <2>5 DEF Shown
    <3>2. QED
      BY <1>1, <2>2, <2>5, <3>1
  <2>6. CASE m.role = "assistant"
    <3>1. CASE m.content = <<>>
      <4>1. Shown(m, streaming) = IF streaming THEN "dots" ELSE "nothing"
        BY <2>6, <3>1 DEF Shown
      <4>2. QED
        BY <1>1, <2>2, <4>1
    <3>2. CASE m.content # <<>>
      <4>1. Shown(m, streaming) = "bubble"
        BY <2>6, <3>2 DEF Shown
      <4>2. QED
        BY <1>1, <2>2, <4>1
    <3>3. QED
      BY <3>1, <3>2
  <2>7. QED
    BY <2>3, <2>4, <2>5, <2>6
<1>4. SpinsFor(messages[i], events, Len(events))
  BY <1>1, <1>2, <1>3 DEF QuietOf, Spins
<1>5. DOMAIN events = 1..Len(events)
  BY AnswerTypes, LenProperties
<1>6. QED
  BY <1>4, <1>5 DEF SpinsFor, EmptyOutput

(* Whatever the answers and the cuts of the network, of every question     *)
(* that no click muddled: its answer stands under it, in one piece and in  *)
(* sight; while it is read the page shows all of it that has arrived, each *)
(* result that came after its call's input in the bubble of the call; and  *)
(* what spins when it is read is a call of a tool that had an empty output *)
(* (handleAgentEvent, Chat.tsx:171-237, the loop of `send' that feeds it,  *)
(* and loadSession).                                                       *)
THEOREM ChatAnswersWhole == ChatSpec => []AnswersWhole
<1>1. ChatInit => AnswerInv
  BY AnswerInvInit
<1>2. ChatInv /\ AnswerInv /\ [ChatNext]_chatVars => AnswerInv'
  BY AnswerInvNext
<1>3. ChatInv /\ AnswerInv => AnswersWhole
  BY AllWhole, AllShown, OnlyEmpty DEF ChatInv, AnswersWhole
<1>4. QED
  BY ChatInvInit, ChatInvNext, <1>1, <1>2, <1>3, PTL DEF ChatSpec
=============================================================================
