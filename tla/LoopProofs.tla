------------------------------ MODULE LoopProofs ------------------------------
(***************************************************************************)
(* The agent loop (AgentLoop), for any conversations, answers, numbers of  *)
(* turns and limits: what is sent to the model has its roles alternating   *)
(* and its calls paired with their results, and tools that may not run     *)
(* beside others do not.  Behind it the answers it collects (Stream), for  *)
(* any numbers of chunks and calls: what is collected is what was sent.    *)
(***************************************************************************)
EXTENDS AgentLoop, Stream, WellFoundedInduction, SequenceTheorems, FiniteSetTheorems, TLAPS

-----------------------------------------------------------------------------
(* Loops over a sequence. *)

LEMMA SmallestNumber ==
    ASSUME NEW S, S \subseteq Nat, S # {}
    PROVE  \E n \in S : \A m \in S : n <= m
<1> DEFINE R == OpToRel(<, Nat)
<1>1. IsWellFoundedOn(R, Nat)
  BY NatLessThanWellFounded, Zenon
<1>2. PICK n \in S : \A m \in S : ~(<<m, n>> \in R)
  <2> HIDE DEF R
  <2> QED BY <1>1, WFMin
<1>3. \A m \in S : ~(m < n)
  BY <1>2, Zenon DEF OpToRel
<1>4. QED
  BY <1>3

(* A set that holds 0, and with a number the next, holds them all. *)
LEMMA Upwards ==
    ASSUME NEW N \in Nat, NEW S, 0 \in S, \A n \in 0..(N - 1) : n \in S => n + 1 \in S
    PROVE  \A n \in 0..N : n \in S
<1> DEFINE Bad == {n \in 0..N : n \notin S}
<1>1. SUFFICES ASSUME Bad # {} PROVE FALSE
  OBVIOUS
<1>2. PICK n \in Bad : \A m \in Bad : n <= m
  <2>1. Bad \subseteq Nat
    OBVIOUS
  <2> HIDE DEF Bad
  <2>2. QED
    BY <1>1, <2>1, SmallestNumber
<1>3. n # 0 /\ n - 1 \in 0..(N - 1) /\ (n - 1) + 1 = n
  OBVIOUS
<1>4. n - 1 \in S
  BY <1>2, <1>3
<1>5. QED
  BY <1>3, <1>4

(* f is what N rounds of a loop make, one after the other, beginning       *)
(* with a.                                                                 *)
Rounds(f, N, a, F) == \A k \in 0..N : f[k] = IF k = 0 THEN a ELSE F[<<f[k - 1], k>>]

LEMMA RoundsExist ==
    ASSUME NEW N \in Nat, NEW D, NEW a \in D, NEW F \in [D \X (1..N) -> D]
    PROVE  \E f \in [0..N -> D] : Rounds(f, N, a, F)
<1> DEFINE Upto(n) == \E f \in [0..n -> D] : \A i \in 0..n : f[i] = IF i = 0 THEN a ELSE F[<<f[i - 1], i>>]
           S == {n \in 0..N : Upto(n)}
<1>1. 0 \in S
  <2> DEFINE f == [i \in 0..0 |-> a]
  <2>1. f \in [0..0 -> D] /\ \A i \in 0..0 : i = 0 /\ f[i] = a
    OBVIOUS
  <2>2. Upto(0)
    <3> HIDE DEF f
    <3> QED BY <2>1
  <2>3. QED
    BY <2>2
<1>2. ASSUME NEW n \in 0..(N - 1), n \in S PROVE n + 1 \in S
  <2>1. PICK f \in [0..n -> D] : \A i \in 0..n : f[i] = IF i = 0 THEN a ELSE F[<<f[i - 1], i>>]
    BY <1>2
  <2> DEFINE g == [i \in 0..(n + 1) |-> IF i = n + 1 THEN F[<<f[n], n + 1>>] ELSE f[i]]
  <2>2. n + 1 \in 1..N /\ n \in 0..n /\ f[n] \in D
    BY <2>1
  <2>3. g \in [0..(n + 1) -> D]
    <3>1. F[<<f[n], n + 1>>] \in D
      BY <2>2
    <3>2. \A i \in 0..(n + 1) : i # n + 1 => i \in 0..n
      OBVIOUS
    <3>3. \A i \in 0..(n + 1) : (IF i = n + 1 THEN F[<<f[n], n + 1>>] ELSE f[i]) \in D
      BY <3>1, <3>2
    <3>4. QED
      BY <3>3
  <2>4. ASSUME NEW i \in 0..(n + 1) PROVE g[i] = IF i = 0 THEN a ELSE F[<<g[i - 1], i>>]
    <3>1. CASE i = n + 1
      <4>1. i # 0 /\ i - 1 = n /\ g[n] = f[n]
        BY <3>1
      <4>2. QED
        BY <3>1, <4>1
    <3>2. CASE i # n + 1
      <4>1. i \in 0..n /\ g[i] = f[i] /\ (i # 0 => g[i - 1] = f[i - 1])
        BY <3>2
      <4>2. QED
        BY <2>1, <4>1
    <3>3. QED
      BY <3>1, <3>2
  <2>5. Upto(n + 1)
    <3> HIDE DEF g
    <3> QED BY <2>3, <2>4
  <2>6. QED
    BY <2>2, <2>5
<1>3. \A n \in 0..N : n \in S
  <2> HIDE DEF S
  <2> QED BY <1>1, <1>2, Upwards
<1>4. QED
  BY <1>3 DEF Rounds

LEMMA TheOne == ASSUME NEW x PROVE The({x}) = x
  BY DEF The

-----------------------------------------------------------------------------
(* Messages. *)

Roles == {"user", "assistant"}

LEMMA TextMessageType ==
    ASSUME NEW role \in Roles, NEW text \in Nat
    PROVE  /\ TextMessage(role, text) \in Message /\ TextMessage(role, text).role = role
           /\ Plain(TextMessage(role, text))
  BY EmptySeq DEF TextMessage, Message, Roles, Plain

LEMMA OtherRole == \A role \in Roles : Other(role) \in Roles /\ Other(role) # role
  BY DEF Other, Roles

LEMMA JoinedType ==
    ASSUME NEW c \in Message, NEW m \in Message
    PROVE  /\ Joined(c, m) \in Message
           /\ Joined(c, m).role \in {c.role, m.role}
           /\ c.calls = <<>> /\ m.calls = <<>> => Joined(c, m).calls = <<>>
           /\ c.results = <<>> /\ m.results = <<>> => Joined(c, m).results = <<>>
<1> DEFINE kept == IF m.text > 0 /\ c.text = 0 THEN m ELSE c
           text == IF m.text > 0 THEN kept.text + 1 + m.text ELSE kept.text
           both == [kept EXCEPT !.text = text, !.calls = @ \o m.calls, !.results = @ \o m.results]
           sum == c.text + 2 + m.text
<1>1. kept \in Message /\ kept \in {c, m}
  OBVIOUS
<1>2. /\ kept.calls \o m.calls \in Seq(CallId) /\ kept.results \o m.results \in Seq(CallId)
      /\ kept.calls = <<>> /\ m.calls = <<>> => kept.calls \o m.calls = <<>>
      /\ kept.results = <<>> /\ m.results = <<>> => kept.results \o m.results = <<>>
  <2> HIDE DEF kept
  <2>1. kept.calls \in Seq(CallId) /\ m.calls \in Seq(CallId) /\ kept.results \in Seq(CallId)
        /\ m.results \in Seq(CallId)
    BY <1>1 DEF Message
  <2> QED
    BY <2>1, ConcatProperties, ConcatEmptySeq
<1>8. text \in Nat /\ sum \in Nat
  <2> HIDE DEF kept
  <2>1. kept.text \in Nat /\ m.text \in Nat /\ c.text \in Nat
    BY <1>1 DEF Message
  <2> QED
    BY <2>1
<1>3. /\ both \in Message /\ both.role = kept.role
      /\ both.calls = kept.calls \o m.calls /\ both.results = kept.results \o m.results
  <2> HIDE DEF kept, text
  <2> QED
    BY <1>1, <1>2, <1>8 DEF Message
<1>4. Joined(c, m) \in {TextMessage(c.role, sum), both, kept}
  <2>1. both = [kept EXCEPT !.text = IF m.text > 0 THEN @ + 1 + m.text ELSE @,
                            !.calls = @ \o m.calls, !.results = @ \o m.results]
    <3> HIDE DEF kept
    <3> QED
      BY <1>1 DEF Message
  <2> HIDE DEF both
  <2>2. QED
    BY <2>1 DEF Joined
<1>5. c.role \in Roles
  BY DEF Message, Roles
<1>6. /\ TextMessage(c.role, sum).role = c.role
      /\ TextMessage(c.role, sum).calls = <<>> /\ TextMessage(c.role, sum).results = <<>>
  BY DEF TextMessage
<1> HIDE DEF both, kept, text, sum
<1>7. QED
  BY <1>1, <1>2, <1>3, <1>4, <1>5, <1>6, <1>8, TextMessageType

-----------------------------------------------------------------------------
(* Neighbours of one role are joined. *)

LEMMA FrontOf ==
    ASSUME NEW T, NEW s \in Seq(T), s # <<>>
    PROVE  /\ Len(s) \in Nat \ {0} /\ Last(s) = s[Len(s)] /\ Last(s) \in T
           /\ Front(s) \in Seq(T) /\ Len(Front(s)) = Len(s) - 1
           /\ \A k \in 1..(Len(s) - 1) : Front(s)[k] = s[k]
<1>1. Len(s) \in Nat \ {0}
  BY EmptySeq
<1>2. \A k \in 1..Len(s) : s[k] \in T
  BY ElementOfSeq
<1>3. Last(s) = s[Len(s)] /\ Last(s) \in T
  BY <1>1, <1>2 DEF Last
<1>4. /\ SubSeq(s, 1, Len(s) - 1) \in Seq(T)
      /\ Len(SubSeq(s, 1, Len(s) - 1)) = IF 1 <= Len(s) - 1 THEN (Len(s) - 1) - 1 + 1 ELSE 0
      /\ \A i \in 1..((Len(s) - 1) - 1 + 1) : SubSeq(s, 1, Len(s) - 1)[i] = s[1 + i - 1]
  BY <1>1, <1>2, SubSeqProperties
<1> DEFINE n == Len(s)
           f == SubSeq(s, 1, n - 1)
<1>5. f \in Seq(T) /\ Len(f) = n - 1 /\ \A k \in 1..(n - 1) : f[k] = s[k]
  <2> HIDE DEF f, n
  <2>1. n \in Nat \ {0} /\ Len(f) = (IF 1 <= n - 1 THEN (n - 1) - 1 + 1 ELSE 0) /\ f \in Seq(T)
    BY <1>1, <1>4 DEF n, f
  <2>2. ASSUME NEW k \in 1..(n - 1) PROVE f[k] = s[k]
    <3>1. k \in 1..((n - 1) - 1 + 1) /\ 1 + k - 1 = k
      BY <2>1
    <3>2. f[k] = s[1 + k - 1]
      BY <1>4, <3>1 DEF n, f
    <3>3. QED
      BY <3>1, <3>2
  <2>3. QED
    BY <2>1, <2>2
<1>6. QED
  BY <1>1, <1>3, <1>5 DEF Front

(* What is so of the messages a loop has put together from the first k of  *)
(* a history that begins with a message of the user's.                     *)
Alternates(h) == \A k \in 1..(Len(h) - 1) : h[k].role # h[k + 1].role
NoResultsOfModel(h) == \A k \in 1..Len(h) : h[k].role = "assistant" => h[k].results = <<>>
AllPlain(h) == \A k \in 1..Len(h) : Plain(h[k])

(* A sequence with its last element replaced, or with one more. *)
LEMMA LastReplaced ==
    ASSUME NEW T, NEW s \in Seq(T), s # <<>>, NEW e \in T
    PROVE  /\ Append(Front(s), e) \in Seq(T) /\ Len(Append(Front(s), e)) = Len(s)
           /\ Append(Front(s), e)[Len(s)] = e
           /\ \A k \in 1..(Len(s) - 1) : Append(Front(s), e)[k] = s[k]
<1>1. /\ Front(s) \in Seq(T) /\ Len(Front(s)) = Len(s) - 1 /\ Len(s) \in Nat \ {0}
      /\ \A k \in 1..(Len(s) - 1) : Front(s)[k] = s[k]
  BY FrontOf
<1>2. /\ Append(Front(s), e) \in Seq(T) /\ Len(Append(Front(s), e)) = Len(Front(s)) + 1
      /\ \A i \in 1..Len(Front(s)) : Append(Front(s), e)[i] = Front(s)[i]
      /\ Append(Front(s), e)[Len(Front(s)) + 1] = e
  BY <1>1, AppendProperties
<1>3. QED
  BY <1>1, <1>2

(* The first k messages of h, put together as out. *)
Together(out, h, k) ==
    /\ out \in Seq(Message) /\ Len(out) <= k /\ (k > 0 => out # <<>>)
    /\ k > 0 => out[1].role = h[1].role /\ out[Len(out)].role = h[k].role
    /\ Alternates(out)
    /\ NoResultsOfModel(h) => NoResultsOfModel(out)
    /\ AllPlain(h) => AllPlain(out)

LEMMA MergedKeeps ==
    ASSUME NEW h \in Seq(Message), NEW k \in 1..Len(h), NEW out, Together(out, h, k - 1)
    PROVE  Together(Merged(out, h[k]), h, k)
<1> DEFINE m == h[k]
           new == Merged(out, m)
<1>1. out \in Seq(Message) /\ Len(out) \in Nat /\ Len(h) \in Nat /\ m \in Message
      /\ \A i \in 1..Len(out) : out[i] \in Message
  BY LenProperties, ElementOfSeq DEF Together
<1>2. CASE out # <<>> /\ Last(out).role = m.role
  <2> DEFINE j == Joined(Last(out), m)
  <2>1. Last(out) = out[Len(out)] /\ Last(out) \in Message /\ Len(out) \in Nat \ {0}
    BY <1>1, <1>2, FrontOf
  <2>2. /\ j \in Message /\ j.role = m.role
        /\ Last(out).results = <<>> /\ m.results = <<>> => j.results = <<>>
        /\ Plain(Last(out)) /\ Plain(m) => Plain(j)
    BY <1>1, <1>2, <2>1, JoinedType DEF Plain
  <2>3. new = Append(Front(out), j)
    BY <1>2 DEF Merged
  <2> HIDE DEF j, m, new
  <2>4. /\ new \in Seq(Message) /\ Len(new) = Len(out) /\ new[Len(out)] = j
        /\ \A i \in 1..(Len(out) - 1) : new[i] = out[i]
    BY <1>1, <1>2, <2>2, <2>3, LastReplaced
  <2>5. \A i \in 1..Len(out) : new[i].role = out[i].role
    BY <1>2, <2>1, <2>2, <2>4
  <2>6. k > 1
    BY <1>2, <2>1 DEF Together
  <2>7. /\ Len(new) <= k /\ new # <<>>
        /\ new[1].role = h[1].role /\ new[Len(new)].role = m.role
    <3>1. 1 \in 1..Len(out) /\ new # <<>>
      BY <2>1, <2>4, EmptySeq
    <3>2. QED
      BY <2>1, <2>2, <2>4, <2>5, <2>6, <3>1 DEF Together
  <2>8. Alternates(new)
    <3>1. \A i \in 1..(Len(out) - 1) : i \in 1..Len(out) /\ i + 1 \in 1..Len(out)
      BY <2>1
    <3> QED
      BY <2>4, <2>5, <3>1 DEF Alternates, Together
  <2>9. NoResultsOfModel(h) => NoResultsOfModel(new)
    <3>1. SUFFICES ASSUME NoResultsOfModel(h), NEW i \in 1..Len(new), new[i].role = "assistant"
                   PROVE  new[i].results = <<>>
      BY DEF NoResultsOfModel
    <3>2. NoResultsOfModel(out)
      BY <3>1 DEF Together
    <3>3. CASE i = Len(out)
      BY <1>2, <2>1, <2>2, <2>4, <3>1, <3>2, <3>3 DEF NoResultsOfModel, m
    <3>4. CASE i # Len(out)
      <4>1. i \in 1..(Len(out) - 1) /\ i \in 1..Len(out)
        BY <2>1, <2>4, <3>4
      <4>2. QED
        BY <2>4, <3>1, <3>2, <4>1 DEF NoResultsOfModel
    <3>5. QED
      BY <3>3, <3>4
  <2>10. AllPlain(h) => AllPlain(new)
    <3>1. SUFFICES ASSUME AllPlain(h), NEW i \in 1..Len(new)
                   PROVE  Plain(new[i])
      BY DEF AllPlain
    <3>2. AllPlain(out)
      BY <3>1 DEF Together
    <3>3. CASE i = Len(out)
      BY <1>2, <2>1, <2>2, <2>4, <3>1, <3>2, <3>3 DEF AllPlain, m
    <3>4. CASE i # Len(out)
      <4>1. i \in 1..(Len(out) - 1) /\ i \in 1..Len(out)
        BY <2>1, <2>4, <3>4
      <4>2. QED
        BY <2>4, <3>1, <3>2, <4>1 DEF AllPlain
    <3>5. QED
      BY <3>3, <3>4
  <2>11. QED
    BY <2>4, <2>7, <2>8, <2>9, <2>10 DEF Together, m, new
<1>3. CASE ~(out # <<>> /\ Last(out).role = m.role)
  <2>1. new = Append(out, m)
    BY <1>3 DEF Merged
  <2> HIDE DEF m, new
  <2>2. /\ new \in Seq(Message) /\ Len(new) = Len(out) + 1 /\ new[Len(out) + 1] = m
        /\ new # <<>> /\ \A i \in 1..Len(out) : new[i] = out[i]
    BY <1>1, <2>1, AppendProperties
  <2>3. out # <<>> => Len(out) \in Nat \ {0} /\ out[Len(out)].role # m.role /\ k > 1
                      /\ out[1].role = h[1].role
    <3>1. SUFFICES ASSUME out # <<>> PROVE Len(out) \in Nat \ {0} /\ out[Len(out)].role # m.role /\ k > 1
                                           /\ out[1].role = h[1].role
      OBVIOUS
    <3>2. Len(out) \in Nat \ {0}
      BY <1>1, <3>1, EmptySeq
    <3>3. k > 1
      BY <3>2 DEF Together
    <3>4. QED
      BY <1>3, <3>1, <3>2, <3>3 DEF Together, Last
  <2>4. out = <<>> => Len(out) = 0 /\ k = 1
    BY <1>1, EmptySeq DEF Together
  <2>5. new[1].role = h[1].role /\ new[Len(new)].role = m.role /\ Len(new) <= k
    <3>1. CASE out = <<>>
      BY <2>2, <2>4, <3>1 DEF m
    <3>2. CASE out # <<>>
      <4>1. new[1] = out[1] /\ new[Len(new)] = m
        BY <2>2, <2>3, <3>2
      <4>2. QED
        BY <1>1, <2>2, <2>3, <3>2, <4>1 DEF Together
    <3>3. QED
      BY <3>1, <3>2
  <2>6. Alternates(new)
    <3>1. SUFFICES ASSUME NEW i \in 1..Len(out) PROVE new[i].role # new[i + 1].role
      BY <1>1, <2>2 DEF Alternates
    <3>2. out # <<>>
      BY <2>4
    <3>3. CASE i = Len(out)
      BY <2>2, <2>3, <3>2, <3>3
    <3>4. CASE i # Len(out)
      <4>1. i \in 1..(Len(out) - 1) /\ i + 1 \in 1..Len(out)
        BY <1>1, <3>4
      <4>2. QED
        BY <2>2, <4>1 DEF Together, Alternates
    <3>5. QED
      BY <3>3, <3>4
  <2>7. \A i \in 1..Len(new) : i \in 1..Len(out) \/ (i = Len(out) + 1)
    BY <1>1, <2>2
  <2>8. NoResultsOfModel(h) => NoResultsOfModel(new)
    <3>1. m.role = "assistant" /\ NoResultsOfModel(h) => m.results = <<>>
      BY DEF NoResultsOfModel, m
    <3>2. QED
      BY <2>2, <2>7, <3>1 DEF NoResultsOfModel, Together
  <2>9. AllPlain(h) => AllPlain(new)
    <3>1. AllPlain(h) => Plain(m)
      BY DEF AllPlain, m
    <3>2. QED
      BY <2>2, <2>7, <3>1 DEF AllPlain, Together
  <2>10. QED
    BY <2>2, <2>5, <2>6, <2>8, <2>9 DEF Together, m, new
<1>4. QED
  BY <1>2, <1>3

LEMMA MergedType ==
    ASSUME NEW out \in Seq(Message), NEW m \in Message
    PROVE  Merged(out, m) \in Seq(Message)
<1>1. CASE out # <<>> /\ Last(out).role = m.role
  <2>1. Last(out) \in Message
    BY <1>1, FrontOf
  <2>2. Joined(Last(out), m) \in Message
    BY <2>1, JoinedType
  <2>3. QED
    BY <1>1, <2>2, LastReplaced DEF Merged
<1>2. CASE ~(out # <<>> /\ Last(out).role = m.role)
  BY <1>2, AppendProperties DEF Merged
<1>3. QED
  BY <1>1, <1>2

LEMMA FilledType ==
    ASSUME NEW out \in Seq(Message), NEW m \in Message
    PROVE  Filled(out, m) \in Seq(Message)
<1>1. m.role \in Roles
  BY DEF Message, Roles
<1>2. TextMessage(Other(m.role), Continued) \in Message
  BY <1>1, OtherRole, TextMessageType DEF Continued
<1>3. Append(out, TextMessage(Other(m.role), Continued)) \in Seq(Message)
  BY <1>2, AppendProperties
<1>4. QED
  BY <1>3, AppendProperties DEF Filled

LEMMA MergeRounds ==
    ASSUME NEW h \in Seq(Message)
    PROVE  \E f \in [0..Len(h) -> Seq(Message)] :
              /\ f[0] = <<>> /\ \A k \in 1..Len(h) : f[k] = Merged(f[k - 1], h[k])
              /\ MergeConsecutiveSameRole(h) = f[Len(h)]
<1> DEFINE D == Seq(Message)
           N == Len(h)
           F == [p \in D \X (1..N) |-> Merged(p[1], h[p[2]])]
           merged == CHOOSE merged : merged = [k \in 0..N |->
                IF k = 0 THEN <<>> ELSE The({Merged(out, h[k]) : out \in {merged[k - 1]}})]
<1>1. N \in Nat /\ \A k \in 1..N : h[k] \in Message
  BY LenProperties, ElementOfSeq
<1>2. F \in [D \X (1..N) -> D]
  BY <1>1, MergedType
<1>3. <<>> \in D
  BY EmptySeq
<1>4. PICK f \in [0..N -> D] : Rounds(f, N, <<>>, F)
  <2> HIDE DEF D, N, F
  <2>1. QED
    BY <1>1, <1>2, <1>3, RoundsExist
<1>5. f[0] = <<>> /\ \A k \in 1..N : f[k] = Merged(f[k - 1], h[k])
  <2>1. f[0] = <<>>
    <3> HIDE DEF D, F
    <3>1. 0 \in 0..N
      BY <1>1
    <3> QED
      BY <1>4, <3>1 DEF Rounds
  <2>2. ASSUME NEW k \in 1..N PROVE f[k] = Merged(f[k - 1], h[k])
    <3>1. k - 1 \in 0..N /\ k \in 0..N /\ k # 0
      BY <1>1
    <3>2. f[k - 1] \in D
      BY <3>1
    <3>3. F[<<f[k - 1], k>>] = Merged(f[k - 1], h[k])
      BY <3>2
    <3>4. f[k] = F[<<f[k - 1], k>>]
      BY <1>4, <3>1 DEF Rounds
    <3>5. QED
      BY <3>3, <3>4
  <2>3. QED
    BY <2>1, <2>2
<1>6. f = [k \in 0..N |-> IF k = 0 THEN <<>> ELSE The({Merged(out, h[k]) : out \in {f[k - 1]}})]
  <2>1. ASSUME NEW k \in 0..N
        PROVE  f[k] = IF k = 0 THEN <<>> ELSE The({Merged(out, h[k]) : out \in {f[k - 1]}})
    <3>1. {Merged(out, h[k]) : out \in {f[k - 1]}} = {Merged(f[k - 1], h[k])}
      OBVIOUS
    <3>2. The({Merged(out, h[k]) : out \in {f[k - 1]}}) = Merged(f[k - 1], h[k])
      BY <3>1, TheOne
    <3>3. k = 0 \/ k \in 1..N
      BY <1>1
    <3>4. QED
      BY <1>5, <3>2, <3>3
  <2>2. QED
    BY <2>1
<1>7. merged = [k \in 0..N |->
                IF k = 0 THEN <<>> ELSE The({Merged(out, h[k]) : out \in {merged[k - 1]}})]
  <2> HIDE DEF D, N, F
  <2> QED BY <1>6
<1>8. ASSUME NEW k \in 1..N PROVE merged[k] = Merged(merged[k - 1], h[k])
  <2> HIDE DEF merged
  <2>1. {Merged(out, h[k]) : out \in {merged[k - 1]}} = {Merged(merged[k - 1], h[k])}
    OBVIOUS
  <2>2. The({Merged(out, h[k]) : out \in {merged[k - 1]}}) = Merged(merged[k - 1], h[k])
    BY <2>1, TheOne
  <2>3. k \in 0..N /\ k # 0
    BY <1>1
  <2>4. QED
    BY <1>7, <2>2, <2>3
<1>9. MergeConsecutiveSameRole(h) = merged[N]
  BY DEF MergeConsecutiveSameRole
<1>10. merged[0] = <<>>
  <2> HIDE DEF merged
  <2> QED BY <1>1, <1>7
<1>11. \A k \in 0..N : merged[k] \in D
  <2> DEFINE S == {k \in 0..N : merged[k] \in D}
  <2> HIDE DEF merged, D
  <2>1. 0 \in S
    BY <1>1, <1>3, <1>10
  <2>2. ASSUME NEW k \in 0..(N - 1), k \in S PROVE k + 1 \in S
    <3>1. k + 1 \in 1..N /\ (k + 1) - 1 = k /\ k + 1 \in 0..N
      BY <1>1
    <3>2. merged[k + 1] = Merged(merged[k], h[k + 1])
      BY <1>8, <3>1
    <3>3. Merged(merged[k], h[k + 1]) \in D
      BY <1>1, <2>2, <3>1, MergedType DEF D
    <3>4. QED
      BY <3>1, <3>2, <3>3
  <2>3. \A k \in 0..N : k \in S
    <3> HIDE DEF S
    <3> QED BY <1>1, <2>1, <2>2, Upwards
  <2>4. QED
    BY <2>3
<1>12. merged \in [0..N -> D]
  <2> HIDE DEF merged, D
  <2>1. merged = [k \in 0..N |-> merged[k]]
    BY <1>7
  <2>2. QED
    BY <1>11, <2>1
<1>13. QED
  <2> HIDE DEF merged
  <2> QED BY <1>8, <1>9, <1>10, <1>12

LEMMA FillRounds ==
    ASSUME NEW h \in Seq(Message)
    PROVE  \E f \in [0..Len(h) -> Seq(Message)] :
              /\ f[0] = <<>> /\ \A k \in 1..Len(h) : f[k] = Filled(f[k - 1], h[k])
              /\ EnsureAlternatingRoles(h) = f[Len(h)]
<1> DEFINE D == Seq(Message)
           N == Len(h)
           F == [p \in D \X (1..N) |-> Filled(p[1], h[p[2]])]
           filled == CHOOSE filled : filled = [k \in 0..N |->
                IF k = 0 THEN <<>> ELSE The({Filled(out, h[k]) : out \in {filled[k - 1]}})]
<1>1. N \in Nat /\ \A k \in 1..N : h[k] \in Message
  BY LenProperties, ElementOfSeq
<1>2. F \in [D \X (1..N) -> D]
  BY <1>1, FilledType
<1>3. <<>> \in D
  BY EmptySeq
<1>4. PICK f \in [0..N -> D] : Rounds(f, N, <<>>, F)
  <2> HIDE DEF D, N, F
  <2>1. QED
    BY <1>1, <1>2, <1>3, RoundsExist
<1>5. f[0] = <<>> /\ \A k \in 1..N : f[k] = Filled(f[k - 1], h[k])
  <2>1. f[0] = <<>>
    <3> HIDE DEF D, F
    <3>1. 0 \in 0..N
      BY <1>1
    <3> QED
      BY <1>4, <3>1 DEF Rounds
  <2>2. ASSUME NEW k \in 1..N PROVE f[k] = Filled(f[k - 1], h[k])
    <3>1. k - 1 \in 0..N /\ k \in 0..N /\ k # 0
      BY <1>1
    <3>2. f[k - 1] \in D
      BY <3>1
    <3>3. F[<<f[k - 1], k>>] = Filled(f[k - 1], h[k])
      BY <3>2
    <3>4. f[k] = F[<<f[k - 1], k>>]
      BY <1>4, <3>1 DEF Rounds
    <3>5. QED
      BY <3>3, <3>4
  <2>3. QED
    BY <2>1, <2>2
<1>6. f = [k \in 0..N |-> IF k = 0 THEN <<>> ELSE The({Filled(out, h[k]) : out \in {f[k - 1]}})]
  <2>1. ASSUME NEW k \in 0..N
        PROVE  f[k] = IF k = 0 THEN <<>> ELSE The({Filled(out, h[k]) : out \in {f[k - 1]}})
    <3>1. {Filled(out, h[k]) : out \in {f[k - 1]}} = {Filled(f[k - 1], h[k])}
      OBVIOUS
    <3>2. The({Filled(out, h[k]) : out \in {f[k - 1]}}) = Filled(f[k - 1], h[k])
      BY <3>1, TheOne
    <3>3. k = 0 \/ k \in 1..N
      BY <1>1
    <3>4. QED
      BY <1>5, <3>2, <3>3
  <2>2. QED
    BY <2>1
<1>7. filled = [k \in 0..N |->
                IF k = 0 THEN <<>> ELSE The({Filled(out, h[k]) : out \in {filled[k - 1]}})]
  <2> HIDE DEF D, N, F
  <2> QED BY <1>6
<1>8. ASSUME NEW k \in 1..N PROVE filled[k] = Filled(filled[k - 1], h[k])
  <2> HIDE DEF filled
  <2>1. {Filled(out, h[k]) : out \in {filled[k - 1]}} = {Filled(filled[k - 1], h[k])}
    OBVIOUS
  <2>2. The({Filled(out, h[k]) : out \in {filled[k - 1]}}) = Filled(filled[k - 1], h[k])
    BY <2>1, TheOne
  <2>3. k \in 0..N /\ k # 0
    BY <1>1
  <2>4. QED
    BY <1>7, <2>2, <2>3
<1>9. EnsureAlternatingRoles(h) = filled[N]
  BY DEF EnsureAlternatingRoles
<1>10. filled[0] = <<>>
  <2> HIDE DEF filled
  <2> QED BY <1>1, <1>7
<1>11. \A k \in 0..N : filled[k] \in D
  <2> DEFINE S == {k \in 0..N : filled[k] \in D}
  <2> HIDE DEF filled, D
  <2>1. 0 \in S
    BY <1>1, <1>3, <1>10
  <2>2. ASSUME NEW k \in 0..(N - 1), k \in S PROVE k + 1 \in S
    <3>1. k + 1 \in 1..N /\ (k + 1) - 1 = k /\ k + 1 \in 0..N
      BY <1>1
    <3>2. filled[k + 1] = Filled(filled[k], h[k + 1])
      BY <1>8, <3>1
    <3>3. Filled(filled[k], h[k + 1]) \in D
      BY <1>1, <2>2, <3>1, FilledType DEF D
    <3>4. QED
      BY <3>1, <3>2, <3>3
  <2>3. \A k \in 0..N : k \in S
    <3> HIDE DEF S
    <3> QED BY <1>1, <2>1, <2>2, Upwards
  <2>4. QED
    BY <2>3
<1>12. filled \in [0..N -> D]
  <2> HIDE DEF filled, D
  <2>1. filled = [k \in 0..N |-> filled[k]]
    BY <1>7
  <2>2. QED
    BY <1>11, <2>1
<1>13. QED
  <2> HIDE DEF filled
  <2> QED BY <1>8, <1>9, <1>10, <1>12

LEMMA MergedFrom ==
    ASSUME NEW h \in Seq(Message), NEW f \in [0..Len(h) -> Seq(Message)], f[0] = <<>>,
           \A k \in 1..Len(h) : f[k] = Merged(f[k - 1], h[k])
    PROVE  \A k \in 0..Len(h) : Together(f[k], h, k)
<1> DEFINE S == {k \in 0..Len(h) : Together(f[k], h, k)}
<1>1. Len(h) \in Nat
  BY LenProperties
<1>2. 0 \in S
  <2>1. <<>> \in Seq(Message) /\ Len(<<>>) = 0
    BY EmptySeq
  <2>2. Together(<<>>, h, 0)
    BY <2>1 DEF Together, Alternates, NoResultsOfModel, AllPlain
  <2>3. QED
    BY <1>1, <2>2
<1>3. ASSUME NEW k \in 0..(Len(h) - 1), k \in S PROVE k + 1 \in S
  <2>1. k + 1 \in 1..Len(h) /\ (k + 1) - 1 = k /\ k + 1 \in 0..Len(h)
    BY <1>1
  <2>2. Together(f[k], h, (k + 1) - 1)
    BY <1>3, <2>1
  <2>3. Together(Merged(f[k], h[k + 1]), h, k + 1)
    BY <2>1, <2>2, MergedKeeps
  <2>4. f[k + 1] = Merged(f[k], h[k + 1])
    BY <2>1
  <2>5. QED
    BY <2>1, <2>3, <2>4
<1>4. QED
  <2> HIDE DEF S
  <2>1. \A k \in 0..Len(h) : k \in S
    BY <1>1, <1>2, <1>3, Upwards
  <2>2. QED
    BY <2>1 DEF S

(* A message is put behind one of another role, and joined to one of its   *)
(* own.                                                                    *)
LEMMA MergedTurn ==
    ASSUME NEW h \in Seq(Message), NEW k \in 1..Len(h), NEW out, Together(out, h, k - 1)
    PROVE  /\ k = 1 \/ h[k - 1].role # h[k].role
                => /\ Len(Merged(out, h[k])) = Len(out) + 1
                   /\ Merged(out, h[k])[Len(out) + 1] = h[k]
                   /\ \A j \in 1..Len(out) : Merged(out, h[k])[j] = out[j]
           /\ k > 1 /\ h[k - 1].role = h[k].role => Len(Merged(out, h[k])) = Len(out)
<1>1. out \in Seq(Message) /\ Len(out) \in Nat /\ Len(h) \in Nat /\ h[k] \in Message
  BY LenProperties, ElementOfSeq DEF Together
<1>2. out = <<>> => Len(out) = 0 /\ k = 1
  BY <1>1, EmptySeq DEF Together
<1>3. out # <<>> => k > 1
  <2>1. out # <<>> => Len(out) > 0
    BY <1>1, EmptySeq
  <2>2. QED
    BY <1>1, <2>1 DEF Together
<1>4. out # <<>> => Last(out) = out[Len(out)] /\ Last(out).role = h[k - 1].role
  BY <1>1, <1>3 DEF Together, Last
<1>5. ASSUME k = 1 \/ h[k - 1].role # h[k].role
      PROVE  Merged(out, h[k]) = Append(out, h[k])
  <2>1. ~(out # <<>> /\ Last(out).role = h[k].role)
    BY <1>3, <1>4, <1>5
  <2>2. QED
    BY <2>1 DEF Merged
<1>6. ASSUME k > 1, h[k - 1].role = h[k].role
      PROVE  Len(Merged(out, h[k])) = Len(out)
  <2>1. out # <<>> /\ Last(out).role = h[k].role
    BY <1>2, <1>4, <1>6
  <2>2. Joined(Last(out), h[k]) \in Message
    BY <1>1, <2>1, FrontOf, JoinedType
  <2>3. Merged(out, h[k]) = Append(Front(out), Joined(Last(out), h[k]))
    BY <2>1 DEF Merged
  <2>4. QED
    BY <1>1, <2>1, <2>2, <2>3, LastReplaced
<1>7. /\ Len(Append(out, h[k])) = Len(out) + 1 /\ Append(out, h[k])[Len(out) + 1] = h[k]
      /\ \A j \in 1..Len(out) : Append(out, h[k])[j] = out[j]
  BY <1>1, AppendProperties
<1>8. QED
  BY <1>5, <1>6, <1>7

-----------------------------------------------------------------------------
(* Histories whose calls have their results. *)

(* Only the second message and the third may have one role. *)
AlternatesButAtTwo(h) == \A k \in 1..(Len(h) - 1) : h[k].role = h[k + 1].role => k = 2

(* The calls of a message are answered, unless it is null or cut, and the  *)
(* message behind it has no text where it has results.                     *)
Textless(h, k) == ResultsOf(h, k) # <<>> => h[k].text = 0
Settled(h, k) == (Answered(h, k) \/ Null(h, k) \/ Cut(h, k)) /\ Textless(h, k + 1)

(* So it is of the third message and those behind it. *)
AnsweredBehind(h) == \A k \in 3..Len(h) : Settled(h, k)

(* No calls are answered by no results. *)
LEMMA NothingMatches == Match(<<>>, <<>>)
<1> DEFINE f == [j \in {} |-> 0]
<1>1. DOMAIN <<>> = {}
  BY EmptySeq
<1>2. f \in Surjection({}, {})
  BY DEF Surjection
<1> HIDE DEF f
<1>3. QED
  BY <1>1, <1>2 DEF Match

LEMMA NoCallsSettled ==
    ASSUME NEW h, NEW k, CallsOf(h, k) = <<>>, ResultsOf(h, k + 1) = <<>>
    PROVE  Settled(h, k)
  BY NothingMatches DEF Settled, Answered, Textless

(* g is h, but for its first two messages, and perhaps shorter.            *)
Behind(g, h) == Len(g) <= Len(h) /\ \A k \in 3..Len(g) : g[k] = h[k + (Len(h) - Len(g))]

LEMMA AnsweredFrom ==
    ASSUME NEW g \in Seq(Message), NEW h \in Seq(Message), NEW p \in Nat, p >= 3, Len(g) <= Len(h),
           \A k \in p..Len(g) : g[k] = h[k + (Len(h) - Len(g))], AnsweredBehind(h)
    PROVE  \A k \in p..Len(g) : Settled(g, k)
<1> DEFINE d == Len(h) - Len(g)
<1>1. /\ Len(g) \in Nat /\ Len(h) \in Nat /\ d \in Nat
      /\ DOMAIN g = 1..Len(g) /\ DOMAIN h = 1..Len(h)
      /\ \A k \in p..Len(g) : g[k] = h[k + d]
  BY LenProperties
<1>2. SUFFICES ASSUME NEW k \in p..Len(g) PROVE Settled(g, k)
  OBVIOUS
<1> HIDE DEF d
<1>3. k + d \in 3..Len(h) /\ (k + d) + 1 = (k + 1) + d /\ g[k] = h[k + d]
  BY <1>1 DEF d
<1>4. k \in DOMAIN g /\ k + d \in DOMAIN h
  BY <1>1, <1>3
<1>5. CallsOf(g, k) = CallsOf(h, k + d)
  BY <1>3, <1>4 DEF CallsOf
<1>6. Null(g, k) = Null(h, k + d) /\ Cut(g, k) = Cut(h, k + d)
  BY <1>3, <1>4 DEF Null, Cut
<1>7. /\ ResultsOf(g, k + 1) = ResultsOf(h, (k + d) + 1)
      /\ Textless(g, k + 1) = Textless(h, (k + d) + 1)
  <2>1. CASE k + 1 \in 1..Len(g)
    <3>1. (k + d) + 1 \in DOMAIN h /\ k + 1 \in DOMAIN g
      BY <1>1, <2>1 DEF d
    <3>2. g[k + 1] = h[(k + d) + 1]
      BY <1>1, <1>3, <2>1
    <3>3. QED
      BY <3>1, <3>2 DEF ResultsOf, Textless
  <2>2. CASE k + 1 \notin 1..Len(g)
    <3>1. (k + d) + 1 \notin DOMAIN h /\ k + 1 \notin DOMAIN g
      BY <1>1, <2>2 DEF d
    <3>2. QED
      BY <3>1 DEF ResultsOf, Textless
  <2>3. QED
    BY <2>1, <2>2
<1>8. QED
  BY <1>3, <1>5, <1>6, <1>7 DEF Settled, Answered, AnsweredBehind

LEMMA BehindKeeps ==
    ASSUME NEW g \in Seq(Message), NEW h \in Seq(Message), Behind(g, h), AnsweredBehind(h)
    PROVE  AnsweredBehind(g)
<1>1. PICK p \in Nat : p = 3
  OBVIOUS
<1>2. p >= 3 /\ Len(g) <= Len(h) /\ \A k \in p..Len(g) : g[k] = h[k + (Len(h) - Len(g))]
  BY <1>1 DEF Behind
<1>3. \A k \in p..Len(g) : Settled(g, k)
  BY <1>2, AnsweredFrom
<1>4. QED
  BY <1>1, <1>3 DEF AnsweredBehind

LEMMA MergeBehind ==
    ASSUME NEW h \in Seq(Message), h # <<>>
    PROVE  /\ Together(MergeConsecutiveSameRole(h), h, Len(h))
           /\ AlternatesButAtTwo(h) => Behind(MergeConsecutiveSameRole(h), h)
<1> DEFINE N == Len(h)
<1>1. N \in Nat \ {0}
  BY EmptySeq
<1>2. PICK f \in [0..N -> Seq(Message)] :
              /\ f[0] = <<>> /\ \A k \in 1..N : f[k] = Merged(f[k - 1], h[k])
              /\ MergeConsecutiveSameRole(h) = f[N]
  BY MergeRounds
<1>3. \A k \in 0..N : Together(f[k], h, k)
  BY <1>2, MergedFrom
<1>4. Together(f[N], h, N)
  BY <1>1, <1>3
<1>5. ASSUME AlternatesButAtTwo(h) PROVE Behind(f[N], h)
  <2>1. CASE N <= 2
    <3>1. Len(f[N]) \in Nat /\ Len(f[N]) <= N
      BY <1>4, LenProperties DEF Together
    <3>2. 3..Len(f[N]) = {}
      BY <1>1, <2>1, <3>1
    <3>3. QED
      BY <3>1, <3>2 DEF Behind
  <2>2. CASE N > 2
    <3> DEFINE d == IF h[2].role = h[3].role THEN 1 ELSE 0
               Copied(k) == Len(f[k]) = k - d /\ \A j \in 3..(k - d) : f[k][j] = h[j + d]
               S == {k \in 0..(N - 3) : Copied(k + 3)}
    <3>1. 1 \in 1..N /\ 2 \in 1..N /\ 3 \in 1..N /\ 1 \in 0..N /\ 2 \in 0..N /\ 0 \in 0..N
      BY <1>1, <2>2
    <3>2. \A k \in 1..(N - 1) : k # 2 => h[k].role # h[k + 1].role
      BY <1>5 DEF AlternatesButAtTwo
    <3>12. ASSUME NEW i \in 0..N, NEW k \in 1..N, k = i + 1
           PROVE  /\ i = 0 \/ h[i].role # h[k].role
                      => /\ Len(f[k]) = Len(f[i]) + 1 /\ f[k][Len(f[i]) + 1] = h[k]
                         /\ \A j \in 1..Len(f[i]) : f[k][j] = f[i][j]
                  /\ i > 0 /\ h[i].role = h[k].role => Len(f[k]) = Len(f[i])
      <4>1. i = k - 1
        BY <3>12
      <4>2. Together(f[k - 1], h, k - 1) /\ f[k] = Merged(f[k - 1], h[k])
        BY <1>2, <1>3, <4>1
      <4>3. (k = 1) = (i = 0) /\ (k > 1) = (i > 0)
        BY <3>12
      <4>4. QED
        BY <4>1, <4>2, <4>3, MergedTurn
    <3>3. Len(f[1]) = 1
      <4>1. f[0] = <<>> /\ Len(f[0]) = 0
        BY <1>2, EmptySeq
      <4>2. Len(f[1]) = Len(f[0]) + 1
        <5> HIDE DEF N
        <5> QED BY <3>12, <3>1
      <4>3. QED
        BY <4>1, <4>2
    <3>4. Len(f[2]) = 2
      <4>1. h[1].role # h[2].role
        BY <1>1, <2>2, <3>2
      <4>2. Len(f[2]) = Len(f[1]) + 1
        <5> HIDE DEF N
        <5> QED BY <3>12, <3>1, <4>1
      <4>3. QED
        BY <3>3, <4>2
    <3>5. Copied(3)
      <4> HIDE DEF N
      <4>1. CASE h[2].role = h[3].role
        <5>1. Len(f[3]) = Len(f[2])
          BY <3>12, <3>1, <4>1
        <5>2. QED
          BY <3>4, <4>1, <5>1
      <4>2. CASE h[2].role # h[3].role
        <5>1. Len(f[3]) = Len(f[2]) + 1 /\ f[3][Len(f[2]) + 1] = h[3]
          BY <3>12, <3>1, <4>2
        <5>2. QED
          BY <3>4, <4>2, <5>1
      <4>3. QED
        BY <4>1, <4>2
    <3>6. ASSUME NEW k \in 0..(N - 4), k \in S PROVE k + 1 \in S
      <4> DEFINE n == k + 3
      <4>1. n \in 3..(N - 1) /\ n + 1 \in 1..N /\ (n + 1) - 1 = n /\ n \in 0..N /\ n # 2 /\ n \in 1..(N - 1)
            /\ d \in {0, 1} /\ k + 1 \in 0..(N - 3) /\ (k + 1) + 3 = n + 1
        BY <1>1, <2>2
      <4> HIDE DEF d
      <4>2. Copied(n)
        BY <3>6
      <4> HIDE DEF n
      <4>3. h[n].role # h[n + 1].role
        BY <3>2, <4>1
      <4>4. /\ Len(f[n + 1]) = Len(f[n]) + 1 /\ f[n + 1][Len(f[n]) + 1] = h[n + 1]
            /\ \A j \in 1..Len(f[n]) : f[n + 1][j] = f[n][j]
        BY <3>12, <4>1, <4>3
      <4>5. Len(f[n + 1]) = (n + 1) - d
        BY <4>1, <4>2, <4>4
      <4>6. ASSUME NEW j \in 3..((n + 1) - d) PROVE f[n + 1][j] = h[j + d]
        <5>1. CASE j = (n + 1) - d
          <6>1. j = Len(f[n]) + 1 /\ j + d = n + 1
            BY <4>1, <4>2, <5>1
          <6>2. QED
            BY <4>4, <6>1
        <5>2. CASE j # (n + 1) - d
          <6>1. j \in 3..(n - d) /\ j \in 1..Len(f[n])
            BY <4>1, <4>2, <5>2
          <6>2. QED
            BY <4>2, <4>4, <6>1
        <5>3. QED
          BY <5>1, <5>2
      <4>7. QED
        BY <4>1, <4>5, <4>6
    <3>7. N - 3 \in 0..(N - 3)
      <4>1. N - 3 \in Nat /\ (N - 3) - 1 = N - 4 /\ 0 \in 0..(N - 3) /\ 0 + 3 = 3
        BY <1>1, <2>2
      <4> QED BY <4>1
    <3>8. N - 3 \in S
      <4>1. N - 3 \in Nat /\ (N - 3) - 1 = N - 4 /\ 0 \in 0..(N - 3) /\ 0 + 3 = 3
        BY <1>1, <2>2
      <4> HIDE DEF Copied, N
      <4>2. 0 \in S
        BY <3>5, <4>1
      <4> HIDE DEF S
      <4>3. \A k \in 0..((N - 3) - 1) : k \in S => k + 1 \in S
        BY <3>6, <4>1
      <4>4. \A k \in 0..(N - 3) : k \in S
        BY <4>1, <4>2, <4>3, Upwards
      <4>5. QED
        BY <3>7, <4>4
    <3>9. Copied(N)
      <4>1. (N - 3) + 3 = N
        BY <1>1
      <4> HIDE DEF Copied
      <4> QED BY <3>8, <4>1
    <3>10. d \in {0, 1} /\ Len(h) - Len(f[N]) = d /\ Len(f[N]) <= Len(h)
      <4>1. d \in {0, 1}
        OBVIOUS
      <4> HIDE DEF d
      <4> QED BY <1>1, <3>9, <4>1
    <3>11. QED
      <4> HIDE DEF d
      <4> QED BY <3>9, <3>10 DEF Behind
  <2>3. QED
    BY <1>1, <2>1, <2>2
<1>6. QED
  BY <1>2, <1>4, <1>5

(* No filler is needed where roles alternate. *)
LEMMA AlternatingStays ==
    ASSUME NEW h \in Seq(Message), Alternates(h)
    PROVE  EnsureAlternatingRoles(h) = h
<1> DEFINE N == Len(h)
<1>1. N \in Nat /\ \A k \in 1..N : h[k] \in Message
  BY LenProperties, ElementOfSeq
<1>2. PICK f \in [0..N -> Seq(Message)] :
              /\ f[0] = <<>> /\ \A k \in 1..N : f[k] = Filled(f[k - 1], h[k])
              /\ EnsureAlternatingRoles(h) = f[N]
  BY FillRounds
<1> DEFINE Copy(k) == Len(f[k]) = k /\ \A j \in 1..k : f[k][j] = h[j]
           S == {k \in 0..N : Copy(k)}
<1>3. 0 \in S
  <2>1. Len(f[0]) = 0
    BY <1>2, EmptySeq
  <2>2. QED
    BY <1>1, <2>1
<1>4. ASSUME NEW k \in 0..(N - 1), k \in S PROVE k + 1 \in S
  <2>1. k + 1 \in 1..N /\ (k + 1) - 1 = k /\ k + 1 \in 0..N /\ k \in 0..N /\ h[k + 1] \in Message
    BY <1>1
  <2>2. f[k + 1] = Filled(f[k], h[k + 1]) /\ f[k] \in Seq(Message)
    BY <1>2, <2>1
  <2>3. Copy(k)
    BY <1>4
  <2>4. ~(f[k] # <<>> /\ Last(f[k]).role = h[k + 1].role)
    <3>1. SUFFICES ASSUME f[k] # <<>> PROVE Last(f[k]).role # h[k + 1].role
      OBVIOUS
    <3>2. Len(f[k]) \in Nat \ {0} /\ Last(f[k]) = f[k][Len(f[k])]
      BY <2>2, <3>1, FrontOf
    <3>3. k \in 1..(N - 1) /\ Last(f[k]) = h[k]
      <4> HIDE DEF N
      <4> QED BY <1>1, <2>3, <3>2
    <3>4. QED
      BY <3>3 DEF Alternates
  <2>5. f[k + 1] = Append(f[k], h[k + 1])
    BY <2>2, <2>4 DEF Filled
  <2>6. Len(f[k + 1]) = k + 1 /\ f[k + 1][k + 1] = h[k + 1] /\ \A j \in 1..k : f[k + 1][j] = f[k][j]
    BY <2>1, <2>2, <2>3, <2>5, AppendProperties
  <2>7. Copy(k + 1)
    BY <2>1, <2>3, <2>6
  <2>8. QED
    BY <2>1, <2>7
<1>5. Copy(N)
  <2> HIDE DEF Copy
  <2>1. \A k \in 0..N : k \in S
    <3> HIDE DEF S
    <3> QED BY <1>1, <1>3, <1>4, Upwards
  <2>2. QED
    BY <1>1, <2>1
<1>6. f[N] = h
  BY <1>1, <1>5, SeqEqual
<1>7. QED
  BY <1>2, <1>6

-----------------------------------------------------------------------------
(* What is sent. *)

Between(h) ==
    /\ h \in Seq(Message) /\ h # <<>> /\ NoResultsOfModel(h)
    /\ h[1].role = "user" /\ h[Len(h)].role = "user"

(* A history a turn may begin with: a conversation, or one whose calls     *)
(* have their results.                                                     *)
Ready(h) == Between(h) /\ ((AlternatesButAtTwo(h) /\ AnsweredBehind(h)) \/ AllPlain(h))

(* A request. *)
Sendable(h) ==
    /\ Between(h) /\ AnsweredBehind(h) /\ Len(h) <= MaxMessages
    /\ \A k \in 1..(Len(h) - 1) : h[k].role = h[k + 1].role => k = 2 /\ Len(h) = MaxMessages

LEMMA PlainAnswered ==
    ASSUME NEW h \in Seq(Message), AllPlain(h)
    PROVE  AnsweredBehind(h) /\ NoResultsOfModel(h)
<1>1. DOMAIN h = 1..Len(h) /\ Len(h) \in Nat
  BY LenProperties
<1>2. \A k \in 1..Len(h) : h[k].calls = <<>> /\ h[k].results = <<>>
  BY DEF AllPlain, Plain
<1>3. \A k \in Nat : CallsOf(h, k) = <<>> /\ ResultsOf(h, k) = <<>>
  BY <1>1, <1>2 DEF CallsOf, ResultsOf
<1>4. ASSUME NEW k \in 3..Len(h) PROVE Settled(h, k)
  <2>1. CallsOf(h, k) = <<>> /\ ResultsOf(h, k + 1) = <<>>
    BY <1>1, <1>3
  <2>2. QED
    BY <2>1, NoCallsSettled
<1>5. QED
  BY <1>2, <1>4 DEF AnsweredBehind, NoResultsOfModel

LEMMA MergeReady ==
    ASSUME NEW h, Ready(h)
    PROVE  LET g == MergeConsecutiveSameRole(h) IN Between(g) /\ Alternates(g) /\ AnsweredBehind(g)
<1> DEFINE g == MergeConsecutiveSameRole(h)
<1>1. h \in Seq(Message) /\ h # <<>> /\ Len(h) \in Nat \ {0}
  BY EmptySeq DEF Ready, Between
<1>2. Together(g, h, Len(h)) /\ (AlternatesButAtTwo(h) => Behind(g, h))
  BY <1>1, MergeBehind
<1> HIDE DEF g
<1>3. Between(g) /\ Alternates(g) /\ (AllPlain(h) => AllPlain(g))
  BY <1>1, <1>2 DEF Together, Ready, Between
<1>4. AnsweredBehind(g)
  BY <1>1, <1>2, <1>3, BehindKeeps, PlainAnswered DEF Ready, Between
<1>5. QED
  BY <1>3, <1>4 DEF g

(* A message that is truncated keeps its role alone; no other changes. *)
LEMMA TruncatedType ==
    ASSUME NEW m \in Message
    PROVE  LET t == Truncated(m) IN
           /\ t \in Message /\ t.role = m.role
           /\ t = m \/ (m.text > MaxMessageSize /\ t.cut /\ t.results = <<>>)
<1> DEFINE left == MaxMessageSize \div 2 + 23 + MaxMessageSize \div 4
           cut == [role |-> m.role, text |-> left, array |-> FALSE, calls |-> <<>>, results |-> <<>>,
                   cut |-> TRUE]
<1>1. left \in Nat
  BY DEF MaxMessageSize
<1> HIDE DEF left
<1>2. cut \in Message /\ cut.role = m.role /\ cut.cut /\ cut.results = <<>>
  BY <1>1, EmptySeq DEF Message
<1>4. Truncated(m) = IF m.text > MaxMessageSize THEN cut ELSE m
  BY DEF Truncated, left
<1> HIDE DEF cut
<1>5. QED
  BY <1>2, <1>4

(* Truncation leaves the history a request is made of, and of the results  *)
(* behind the third message all.                                           *)
LEMMA TruncateKeeps ==
    ASSUME NEW h, Between(h), Alternates(h), AnsweredBehind(h)
    PROVE  LET g == TruncateLargeContent(h) IN Between(g) /\ Alternates(g) /\ AnsweredBehind(g)
<1> DEFINE g == TruncateLargeContent(h)
           n == Len(h)
<1>1. /\ h \in Seq(Message) /\ h # <<>> /\ n \in Nat \ {0} /\ DOMAIN h = 1..n
      /\ \A k \in 1..n : h[k] \in Message
  BY EmptySeq, LenProperties, ElementOfSeq DEF Between
<1>2. g = [k \in 1..n |-> Truncated(h[k])]
  BY <1>1 DEF TruncateLargeContent
<1>3. \A k \in 1..n : g[k] = Truncated(h[k])
  BY <1>2
<1>4. ASSUME NEW k \in 1..n
      PROVE  /\ g[k] \in Message /\ g[k].role = h[k].role
             /\ g[k] = h[k] \/ (h[k].text > MaxMessageSize /\ g[k].cut /\ g[k].results = <<>>)
  BY <1>1, <1>3, TruncatedType
<1>5. g \in Seq(Message) /\ Len(g) = n /\ DOMAIN g = 1..n
  <2>1. g \in [1..n -> Message]
    BY <1>2, <1>4
  <2> HIDE DEF g, n
  <2>2. QED
    BY <1>1, <2>1
<1> HIDE DEF g, n
<1>6. Between(g)
  <2>1. 1 \in 1..n /\ n \in 1..n /\ g # <<>>
    BY <1>1, <1>5, EmptySeq
  <2>2. NoResultsOfModel(g)
    BY <1>4, <1>5 DEF NoResultsOfModel, Between, n
  <2>3. QED
    BY <1>4, <1>5, <2>1, <2>2 DEF Between, n
<1>7. Alternates(g)
  <2>1. \A k \in 1..(n - 1) : k \in 1..n /\ k + 1 \in 1..n
    BY <1>1
  <2>2. QED
    BY <1>4, <1>5, <2>1 DEF Alternates, n
<1>8. ASSUME NEW k \in 3..n PROVE Settled(g, k)
  <2>1. Settled(h, k) /\ k \in 1..n /\ k \in Nat
    BY <1>1 DEF AnsweredBehind, n
  <2>2. ResultsOf(g, k + 1) = ResultsOf(h, k + 1) /\ Textless(g, k + 1)
    <3>1. CASE k + 1 \in 1..n
      <4>1. ResultsOf(h, k + 1) = h[k + 1].results /\ ResultsOf(g, k + 1) = g[k + 1].results
        BY <1>1, <1>5, <3>1 DEF ResultsOf
      <4>2. h[k + 1].results # <<>> => h[k + 1].text = 0
        BY <2>1, <4>1 DEF Settled, Textless
      <4>3. g[k + 1] = h[k + 1] \/ (g[k + 1].results = <<>> /\ h[k + 1].results = <<>>)
        <5>1. ~(0 > MaxMessageSize)
          BY DEF MaxMessageSize
        <5>2. QED
          BY <1>4, <3>1, <4>2, <5>1
      <4>4. QED
        BY <4>1, <4>2, <4>3 DEF Textless
    <3>2. CASE k + 1 \notin 1..n
      BY <1>1, <1>5, <3>2 DEF ResultsOf, Textless
    <3>3. QED
      BY <3>1, <3>2
  <2>3. CASE g[k] = h[k]
    <3>1. CallsOf(g, k) = CallsOf(h, k) /\ Null(g, k) = Null(h, k) /\ Cut(g, k) = Cut(h, k)
      BY <1>1, <1>5, <2>1, <2>3 DEF CallsOf, Null, Cut
    <3>2. QED
      BY <2>1, <2>2, <3>1 DEF Settled, Answered
  <2>4. CASE g[k] # h[k]
    <3>1. Cut(g, k)
      BY <1>4, <1>5, <2>1, <2>4 DEF Cut
    <3>2. QED
      BY <2>2, <3>1 DEF Settled
  <2>5. QED
    BY <2>3, <2>4
<1>9. QED
  BY <1>5, <1>6, <1>7, <1>8 DEF AnsweredBehind, g

LEMMA CapSendable ==
    ASSUME NEW h, Between(h), Alternates(h), AnsweredBehind(h)
    PROVE  Sendable(CapMessageCount(h))
<1>1. /\ h \in Seq(Message) /\ h # <<>> /\ Len(h) \in Nat \ {0} /\ MaxMessages \in Nat /\ MaxMessages > 4
      /\ \A k \in 1..Len(h) : h[k] \in Message
  BY EmptySeq, ElementOfSeq, ConstantsAssumption DEF Between, KeepCount
<1>2. CASE Len(h) <= MaxMessages
  <2>1. CapMessageCount(h) = h
    BY <1>2 DEF CapMessageCount
  <2>2. QED
    BY <1>2, <2>1 DEF Sendable, Alternates
<1>3. CASE Len(h) > MaxMessages
  <2> DEFINE n == Len(h)
             a == SubSeq(h, 1, 2)
             b == SubSeq(h, n - (MaxMessages - 2) + 1, n)
             c == a \o b
             d == n - MaxMessages
  <2>1. CapMessageCount(h) = c
    BY <1>1, <1>3 DEF CapMessageCount
  <2>2. a \in Seq(Message) /\ Len(a) = 2 /\ a[1] = h[1] /\ a[2] = h[2]
    <3>1. \A i \in 1..2 : h[i] \in Message
      BY <1>1, <1>3
    <3>2. /\ a \in Seq(Message) /\ Len(a) = IF 1 <= 2 THEN 2 - 1 + 1 ELSE 0
          /\ \A i \in 1..(2 - 1 + 1) : a[i] = h[1 + i - 1]
      BY <3>1, SubSeqProperties
    <3> HIDE DEF a
    <3>3. \A i \in 1..2 : a[i] = h[i]
      BY <3>2
    <3>4. QED
      BY <3>2, <3>3
  <2>3. b \in Seq(Message) /\ Len(b) = MaxMessages - 2 /\ \A i \in 1..(MaxMessages - 2) : b[i] = h[i + d + 2]
    <3> DEFINE l == n - (MaxMessages - 2) + 1
    <3>1. l \in Int /\ n \in Int /\ l <= n /\ n - l + 1 = MaxMessages - 2 /\ \A i \in l..n : h[i] \in Message
      BY <1>1, <1>3
    <3>2. /\ SubSeq(h, l, n) \in Seq(Message) /\ Len(SubSeq(h, l, n)) = IF l <= n THEN n - l + 1 ELSE 0
          /\ \A i \in 1..(n - l + 1) : SubSeq(h, l, n)[i] = h[l + i - 1]
      <4> HIDE DEF l, n
      <4> QED BY <3>1, SubSeqProperties
    <3>3. \A i \in 1..(MaxMessages - 2) : l + i - 1 = i + d + 2
      BY <1>1
    <3>4. b = SubSeq(h, l, n)
      OBVIOUS
    <3> HIDE DEF b, l, d, n
    <3>5. QED
      BY <3>1, <3>2, <3>3, <3>4
  <2> HIDE DEF a, b, c
  <2>4. /\ c \in Seq(Message) /\ Len(c) = MaxMessages /\ c[1] = h[1] /\ c[2] = h[2]
        /\ \A i \in 3..MaxMessages : c[i] = h[i + d]
    <3>1. /\ c \in Seq(Message) /\ Len(c) = Len(a) + Len(b)
          /\ \A i \in 1..(Len(a) + Len(b)) : c[i] = IF i <= Len(a) THEN a[i] ELSE b[i - Len(a)]
      <4>1. a \in Seq(Message) /\ b \in Seq(Message)
        BY <2>2, <2>3
      <4>2. QED
        BY <4>1, ConcatProperties, Zenon DEF c
    <3>2. d \in Nat /\ Len(a) + Len(b) = MaxMessages
      BY <1>1, <1>3, <2>2, <2>3
    <3>3. c[1] = h[1] /\ c[2] = h[2]
      <4>1. \A i \in 1..2 : i \in 1..(Len(a) + Len(b)) /\ i <= Len(a)
        BY <1>1, <2>2, <3>2
      <4>2. \A i \in 1..2 : c[i] = a[i]
        BY <3>1, <4>1
      <4>3. QED
        BY <2>2, <4>2
    <3>4. ASSUME NEW i \in 3..MaxMessages PROVE c[i] = h[i + d]
      <4>1. i \in 1..(Len(a) + Len(b)) /\ ~(i <= Len(a)) /\ i - 2 \in 1..(MaxMessages - 2) /\ (i - 2) + d + 2 = i + d
        BY <1>1, <2>2, <3>2
      <4>2. c[i] = b[i - 2]
        BY <2>2, <3>1, <4>1
      <4>3. b[i - 2] = h[(i - 2) + d + 2]
        BY <2>3, <4>1
      <4>4. QED
        BY <4>1, <4>2, <4>3
    <3>5. QED
      BY <3>1, <3>2, <3>3, <3>4
  <2>5. d \in Nat /\ \A i \in 3..MaxMessages : i + d \in 1..n
    BY <1>1, <1>3
  <2> HIDE DEF d
  <2>6. ASSUME NEW i \in 1..MaxMessages PROVE \E j \in 1..n : c[i] = h[j]
    <3>1. i = 1 \/ i = 2 \/ i \in 3..MaxMessages
      BY <1>1
    <3>2. 1 \in 1..n /\ 2 \in 1..n
      BY <1>1, <1>3
    <3>3. QED
      BY <2>4, <2>5, <3>1, <3>2
  <2>7. NoResultsOfModel(c)
    BY <2>4, <2>6 DEF NoResultsOfModel, Between
  <2>8. c[1].role = "user" /\ c[Len(c)].role = "user" /\ c # <<>>
    <3>1. MaxMessages \in 3..MaxMessages /\ MaxMessages + d = n
      BY <1>1 DEF d
    <3>2. QED
      BY <1>1, <2>4, <3>1, EmptySeq DEF Between
  <2>9. AnsweredBehind(c)
    <3>1. Behind(c, h)
      <4>1. \A k \in 3..Len(c) : c[k] = h[k + d]
        BY <2>4
      <4>2. d = Len(h) - Len(c) /\ Len(c) <= Len(h)
        BY <1>1, <1>3, <2>4 DEF d
      <4>3. QED
        BY <4>1, <4>2 DEF Behind
    <3>2. QED
      BY <1>1, <2>4, <3>1, BehindKeeps
  <2>10. ASSUME NEW k \in 1..(MaxMessages - 1), k # 2 PROVE c[k].role # c[k + 1].role
    <3>1. CASE k = 1
      <4>1. h[1].role # h[1 + 1].role
        BY <1>1, <1>3 DEF Alternates
      <4>2. QED
        BY <2>4, <3>1, <4>1
    <3>2. CASE k # 1
      <4>1. k \in 3..MaxMessages /\ k + 1 \in 3..MaxMessages /\ (k + 1) + d = (k + d) + 1 /\ k + d \in 1..(n - 1)
        BY <1>1, <1>3, <2>5, <2>10, <3>2 DEF d
      <4>2. h[k + d].role # h[(k + d) + 1].role
        BY <4>1 DEF Alternates
      <4>3. QED
        BY <2>4, <4>1, <4>2
    <3>3. QED
      BY <3>1, <3>2
  <2>11. QED
    BY <2>1, <2>4, <2>7, <2>8, <2>9, <2>10 DEF Sendable, Between
<1>4. QED
  BY <1>1, <1>2, <1>3

LEMMA NormalizeReady == ASSUME NEW h, Ready(h) PROVE Sendable(NormalizeMessages(h))
<1> DEFINE g == MergeConsecutiveSameRole(h)
<1>1. Between(g) /\ Alternates(g) /\ AnsweredBehind(g)
  BY MergeReady
<1> HIDE DEF g
<1> DEFINE t == TruncateLargeContent(g)
<1>2. Between(t) /\ Alternates(t) /\ AnsweredBehind(t)
  BY <1>1, TruncateKeeps
<1> HIDE DEF t
<1>3. EnsureAlternatingRoles(t) = t
  BY <1>2, AlternatingStays DEF Between
<1>4. QED
  BY <1>2, <1>3, CapSendable DEF NormalizeMessages, t, g

(* The last messages of a history that is long enough to be compacted. *)
LEMMA LastFour ==
    ASSUME NEW h \in Seq(Message), Len(h) >= 8
    PROVE  /\ Len(h) \in Nat /\ LastMessages(h) \in Seq(Message) /\ Len(LastMessages(h)) = 4
           /\ \A i \in 1..4 : LastMessages(h)[i] = h[i + (Len(h) - 4)]
<1> DEFINE n == Len(h)
           l == n - 4 + 1
<1>1. n \in Nat /\ \A k \in 1..n : h[k] \in Message
  BY LenProperties, ElementOfSeq
<1>2. l \in Int /\ n \in Int /\ l <= n /\ n - l + 1 = 4 /\ \A i \in l..n : h[i] \in Message
  BY <1>1
<1>3. \A i \in 1..4 : l + i - 1 = i + (n - 4)
  BY <1>1
<1>4. LastMessages(h) = SubSeq(h, l, n)
  BY DEF LastMessages, KeepCount
<1> HIDE DEF l, n
<1>5. /\ SubSeq(h, l, n) \in Seq(Message) /\ Len(SubSeq(h, l, n)) = IF l <= n THEN n - l + 1 ELSE 0
      /\ \A i \in 1..(n - l + 1) : SubSeq(h, l, n)[i] = h[l + i - 1]
  BY <1>2, SubSeqProperties
<1>6. QED
  BY <1>1, <1>2, <1>3, <1>4, <1>5 DEF n

LEMMA CompactedReady ==
    ASSUME NEW h, Ready(h), Len(h) >= 8
    PROVE  Ready(Compacted(h))
<1> DEFINE n == Len(h)
           a == <<TextMessage("user", Summary), TextMessage("assistant", Summary)>>
           c == a \o LastMessages(h)
<1>1. h \in Seq(Message) /\ n \in Nat /\ n >= 8 /\ DOMAIN h = 1..n
  BY LenProperties DEF Ready, Between
<1>2. /\ LastMessages(h) \in Seq(Message) /\ Len(LastMessages(h)) = 4
      /\ \A i \in 1..4 : LastMessages(h)[i] = h[i + (n - 4)]
  BY <1>1, LastFour
<1>3. /\ a \in Seq(Message) /\ Len(a) = 2 /\ a[1] = TextMessage("user", Summary) /\ a[2] = TextMessage("assistant", Summary)
  BY TextMessageType DEF Roles, Summary
<1> HIDE DEF a
<1>4. /\ c \in Seq(Message) /\ Len(c) = 6
      /\ \A i \in 1..6 : c[i] = IF i <= 2 THEN a[i] ELSE LastMessages(h)[i - 2]
  <2>1. /\ c \in Seq(Message) /\ Len(c) = Len(a) + Len(LastMessages(h))
        /\ \A i \in 1..(Len(a) + Len(LastMessages(h))) :
              c[i] = IF i <= Len(a) THEN a[i] ELSE LastMessages(h)[i - Len(a)]
    <3>1. a \in Seq(Message) /\ LastMessages(h) \in Seq(Message)
      BY <1>2, <1>3
    <3>2. QED
      BY <3>1, ConcatProperties, Zenon
  <2> HIDE DEF c
  <2>2. QED
    BY <1>2, <1>3, <2>1
<1> HIDE DEF c
<1>5. /\ c[1] = TextMessage("user", Summary) /\ c[2] = TextMessage("assistant", Summary)
      /\ \A i \in 3..6 : c[i] = h[i + (n - 6)]
  <2>1. c[1] = a[1] /\ c[2] = a[2]
    <3>1. \A i \in 1..2 : i \in 1..6 /\ i <= 2
      OBVIOUS
    <3>2. \A i \in 1..2 : c[i] = a[i]
      BY <1>4, <3>1
    <3>3. QED
      BY <3>2
  <2>2. ASSUME NEW i \in 3..6 PROVE c[i] = h[i + (n - 6)]
    <3>1. i \in 1..6 /\ ~(i <= 2) /\ i - 2 \in 1..4 /\ (i - 2) + (n - 4) = i + (n - 6)
      BY <1>1
    <3>2. c[i] = LastMessages(h)[i - 2] /\ LastMessages(h)[i - 2] = h[(i - 2) + (n - 4)]
      BY <1>2, <1>4, <3>1
    <3>3. QED
      BY <3>1, <3>2
  <2>3. QED
    BY <1>3, <2>1, <2>2
<1>6. \A i \in 1..6 : i = 1 \/ i = 2 \/ (i \in 3..6 /\ i + (n - 6) \in 1..n)
  BY <1>1
<1>7. \A role \in Roles :
         TextMessage(role, Summary).role = role /\ Plain(TextMessage(role, Summary))
  BY TextMessageType DEF Summary
<1>8. Plain(c[1]) /\ Plain(c[2]) /\ c[1].role = "user" /\ c[2].role = "assistant"
  BY <1>5, <1>7 DEF Roles
<1>9. NoResultsOfModel(c)
  <2>1. ASSUME NEW i \in 1..6, c[i].role = "assistant" PROVE c[i].results = <<>>
    BY <1>5, <1>6, <1>8, <2>1 DEF Ready, Between, NoResultsOfModel, Plain
  <2>2. QED
    BY <1>4, <2>1 DEF NoResultsOfModel
<1>10. Between(c)
  <2>1. 6 \in 3..6 /\ 6 + (n - 6) = n
    BY <1>1
  <2>2. c[6].role = "user"
    BY <1>5, <2>1 DEF Ready, Between
  <2>3. c # <<>>
    BY <1>4, EmptySeq
  <2>4. QED
    BY <1>4, <1>8, <1>9, <2>2, <2>3 DEF Between
<1>11. AllPlain(h) => AllPlain(c)
  <2>1. ASSUME AllPlain(h), NEW i \in 1..6 PROVE Plain(c[i])
    BY <1>5, <1>6, <1>8, <2>1 DEF AllPlain
  <2>2. QED
    BY <1>4, <2>1 DEF AllPlain
<1>12. ASSUME AlternatesButAtTwo(h) PROVE AlternatesButAtTwo(c)
  <2>1. ASSUME NEW k \in 1..5, k # 2 PROVE c[k].role # c[k + 1].role
    <3>1. CASE k = 1
      <4>1. c[1].role # c[1 + 1].role
        BY <1>8
      <4>2. QED
        BY <3>1, <4>1
    <3>2. CASE k # 1
      <4>1. /\ k \in 3..6 /\ k + 1 \in 3..6 /\ k + (n - 6) \in 1..(n - 1) /\ k + (n - 6) # 2
            /\ (k + 1) + (n - 6) = (k + (n - 6)) + 1
        BY <1>1, <2>1, <3>2
      <4>2. h[k + (n - 6)].role # h[(k + (n - 6)) + 1].role
        BY <1>12, <4>1 DEF AlternatesButAtTwo
      <4>3. QED
        BY <1>5, <4>1, <4>2
    <3>3. QED
      BY <3>1, <3>2
  <2>2. QED
    BY <1>4, <2>1 DEF AlternatesButAtTwo
<1>13. AnsweredBehind(h) => AnsweredBehind(c)
  <2>1. Behind(c, h)
    BY <1>1, <1>4, <1>5 DEF Behind
  <2>2. QED
    BY <1>1, <1>4, <2>1, BehindKeeps
<1>14. Compacted(h) = c
  BY DEF Compacted, c, a
<1>15. QED
  BY <1>10, <1>11, <1>12, <1>13, <1>14 DEF Ready

LEMMA SnippedReady ==
    ASSUME NEW h, Ready(h), Len(h) >= 8
    PROVE  Ready(Snipped(h))
<1>1. /\ h \in Seq(Message) /\ Len(h) \in Nat /\ DOMAIN h = 1..Len(h)
      /\ \A i \in 1..Len(h) : h[i] \in Message
  BY LenProperties, ElementOfSeq DEF Ready, Between
<1>2. CASE Len(h) = 8
  BY <1>2 DEF Snipped
<1>3. CASE Len(h) > 8
  <2> DEFINE n == Len(h)
             a == SubSeq(h, 1, 2)
             b == a \o <<TextMessage("user", Summary)>>
             c == b \o LastMessages(h)
  <2>1. /\ LastMessages(h) \in Seq(Message) /\ Len(LastMessages(h)) = 4
        /\ \A i \in 1..4 : LastMessages(h)[i] = h[i + (n - 4)]
    BY <1>1, <1>3, LastFour
  <2>2. a \in Seq(Message) /\ Len(a) = 2 /\ \A i \in 1..2 : a[i] = h[i]
    <3>1. \A i \in 1..2 : h[i] \in Message
      BY <1>1, <1>3
    <3>2. /\ a \in Seq(Message) /\ Len(a) = IF 1 <= 2 THEN 2 - 1 + 1 ELSE 0
          /\ \A i \in 1..(2 - 1 + 1) : a[i] = h[1 + i - 1]
      BY <3>1, SubSeqProperties
    <3> HIDE DEF a
    <3>3. \A i \in 1..2 : a[i] = h[i]
      BY <3>2
    <3>4. QED
      BY <3>2, <3>3
  <2> HIDE DEF a
  <2>3. b \in Seq(Message) /\ Len(b) = 3 /\ b[3] = TextMessage("user", Summary) /\ \A i \in 1..2 : b[i] = h[i]
    <3>1. TextMessage("user", Summary) \in Message
      BY TextMessageType DEF Roles, Summary
    <3>2. b = Append(a, TextMessage("user", Summary))
      BY <2>2, <3>1, AppendIsConcat
    <3> HIDE DEF b
    <3>3. /\ b \in Seq(Message) /\ Len(b) = Len(a) + 1 /\ b[Len(a) + 1] = TextMessage("user", Summary)
          /\ \A i \in 1..Len(a) : b[i] = a[i]
      <4>1. a \in Seq(Message)
        BY <2>2
      <4>2. QED
        BY <3>1, <3>2, <4>1, AppendProperties
    <3>4. QED
      BY <2>2, <3>3
  <2> HIDE DEF b
  <2>4. /\ c \in Seq(Message) /\ Len(c) = 7
        /\ \A i \in 1..7 : c[i] = IF i <= 3 THEN b[i] ELSE LastMessages(h)[i - 3]
    <3>1. /\ c \in Seq(Message) /\ Len(c) = Len(b) + Len(LastMessages(h))
          /\ \A i \in 1..(Len(b) + Len(LastMessages(h))) :
                c[i] = IF i <= Len(b) THEN b[i] ELSE LastMessages(h)[i - Len(b)]
      <4>1. b \in Seq(Message) /\ LastMessages(h) \in Seq(Message)
        BY <2>1, <2>3
      <4>2. QED
        BY <4>1, ConcatProperties, Zenon
    <3> HIDE DEF c
    <3>2. QED
      BY <2>1, <2>3, <3>1
  <2> HIDE DEF c
  <2>5. /\ \A i \in 1..2 : c[i] = h[i]
        /\ c[3] = TextMessage("user", Summary)
        /\ \A i \in 4..7 : c[i] = h[i + (n - 7)]
    <3>1. \A i \in 1..3 : c[i] = b[i]
      <4>1. \A i \in 1..3 : i \in 1..7 /\ i <= 3
        OBVIOUS
      <4>2. QED
        BY <2>4, <4>1
    <3>2. ASSUME NEW i \in 4..7 PROVE c[i] = h[i + (n - 7)]
      <4>1. i \in 1..7 /\ ~(i <= 3) /\ i - 3 \in 1..4 /\ (i - 3) + (n - 4) = i + (n - 7)
        BY <1>1
      <4>2. c[i] = LastMessages(h)[i - 3] /\ LastMessages(h)[i - 3] = h[(i - 3) + (n - 4)]
        BY <2>1, <2>4, <4>1
      <4>3. QED
        BY <4>1, <4>2
    <3>3. QED
      BY <2>3, <3>1, <3>2
  <2>6. \A i \in 1..7 : (i \in 1..2 /\ i \in 1..n) \/ i = 3 \/ (i \in 4..7 /\ i + (n - 7) \in 1..n)
    BY <1>1, <1>3
  <2>7. Plain(c[3]) /\ c[3].role = "user"
    BY <2>5, TextMessageType DEF Roles, Summary
  <2>8. NoResultsOfModel(c)
    <3>1. ASSUME NEW i \in 1..7, c[i].role = "assistant" PROVE c[i].results = <<>>
      BY <2>5, <2>6, <2>7, <3>1 DEF Ready, Between, NoResultsOfModel, Plain
    <3>2. QED
      BY <2>4, <3>1 DEF NoResultsOfModel
  <2>9. Between(c)
    <3>1. 7 \in 4..7 /\ 7 + (n - 7) = n /\ 1 \in 1..2
      BY <1>1
    <3>2. c[7].role = "user" /\ c[1].role = "user"
      BY <2>5, <3>1 DEF Ready, Between
    <3>3. c # <<>>
      <4>1. Len(c) = 7 /\ Len(<<>>) = 0
        BY <2>4, EmptySeq
      <4>2. QED
        BY <4>1
    <3>4. QED
      BY <2>4, <2>8, <3>2, <3>3 DEF Between
  <2>10. AllPlain(h) => AllPlain(c)
    <3>1. ASSUME AllPlain(h), NEW i \in 1..7 PROVE Plain(c[i])
      BY <2>5, <2>6, <2>7, <3>1 DEF AllPlain
    <3>2. QED
      BY <2>4, <3>1 DEF AllPlain
  <2>11. ASSUME AlternatesButAtTwo(h)
         PROVE  AlternatesButAtTwo(c) /\ c[4].role = "assistant"
    <3>1. \A k \in 3..(n - 1) : h[k].role # h[k + 1].role
      BY <1>1, <2>11 DEF AlternatesButAtTwo
    <3>2. c[4].role = "assistant"
      <4>1. /\ n - 3 \in 3..(n - 1) /\ n - 2 \in 3..(n - 1) /\ n - 1 \in 3..(n - 1)
            /\ (n - 3) + 1 = n - 2 /\ (n - 2) + 1 = n - 1 /\ (n - 1) + 1 = n
        BY <1>1, <1>3
      <4>2. h[n - 3].role # h[n - 2].role /\ h[n - 2].role # h[n - 1].role /\ h[n - 1].role # h[n].role
        BY <3>1, <4>1
      <4>3. h[n - 3] \in Message /\ h[n - 2] \in Message /\ h[n - 1] \in Message /\ h[n].role = "user"
        BY <1>1, <1>3 DEF Ready, Between
      <4>4. \A m \in Message : m.role = "user" \/ m.role = "assistant"
        BY DEF Message
      <4>5. h[n - 3].role = "assistant"
        BY <4>2, <4>3, <4>4
      <4>6. 4 \in 4..7 /\ 4 + (n - 7) = n - 3
        BY <1>1
      <4>7. QED
        BY <2>5, <4>5, <4>6
    <3>3. ASSUME NEW k \in 1..6, k # 2 PROVE c[k].role # c[k + 1].role
      <4>1. CASE k = 1
        <5>1. h[1].role # h[1 + 1].role
          BY <1>1, <1>3, <2>11 DEF AlternatesButAtTwo
        <5>2. 1 \in 1..2 /\ 1 + 1 \in 1..2
          OBVIOUS
        <5>3. QED
          BY <2>5, <4>1, <5>1, <5>2
      <4>2. CASE k = 3
        <5>1. 3 + 1 = 4
          OBVIOUS
        <5>2. QED
          BY <2>7, <3>2, <4>2, <5>1
      <4>3. CASE k \in 4..6
        <5>1. /\ k \in 4..7 /\ k + 1 \in 4..7 /\ k + (n - 7) \in 3..(n - 1)
              /\ (k + 1) + (n - 7) = (k + (n - 7)) + 1
          BY <1>1, <1>3, <4>3
        <5>2. QED
          BY <2>5, <3>1, <5>1
      <4>4. QED
        BY <3>3, <4>1, <4>2, <4>3
    <3>4. QED
      BY <2>4, <3>2, <3>3 DEF AlternatesButAtTwo
  <2>12. ASSUME AnsweredBehind(h), AlternatesButAtTwo(h) PROVE AnsweredBehind(c)
    <3>1. \A k \in 4..Len(c) : Settled(c, k)
      <4>1. \A k \in 4..Len(c) : c[k] = h[k + (Len(h) - Len(c))]
        BY <2>4, <2>5
      <4>2. Len(c) <= Len(h)
        BY <1>3, <2>4
      <4>3. PICK p \in Nat : p = 4
        OBVIOUS
      <4>4. p >= 3 /\ c \in Seq(Message) /\ \A k \in p..Len(c) : c[k] = h[k + (Len(h) - Len(c))]
        BY <2>4, <4>1, <4>3
      <4>5. \A k \in p..Len(c) : Settled(c, k)
        BY <1>1, <2>12, <4>2, <4>4, AnsweredFrom
      <4>6. QED
        BY <4>3, <4>5
    <3>2. Settled(c, 3)
      <4>1. DOMAIN c = 1..7 /\ 3 \in 1..7 /\ 4 \in 1..7 /\ 3 + 1 = 4
        BY <2>4, LenProperties
      <4>2. c[4].results = <<>> /\ c[3].calls = <<>>
        BY <2>4, <2>7, <2>8, <2>11, <2>12, <4>1 DEF NoResultsOfModel, Plain
      <4>3. CallsOf(c, 3) = <<>> /\ ResultsOf(c, 3 + 1) = <<>>
        BY <4>1, <4>2 DEF CallsOf, ResultsOf
      <4>4. QED
        BY <4>3, NoCallsSettled
    <3>3. \A k \in 3..Len(c) : k = 3 \/ k \in 4..Len(c)
      BY <2>4
    <3>4. QED
      BY <3>1, <3>2, <3>3 DEF AnsweredBehind
  <2>13. Snipped(h) = c
    BY <1>3 DEF Snipped, c, b, a
  <2>14. QED
    BY <2>9, <2>10, <2>11, <2>12, <2>13 DEF Ready
<1>4. QED
  BY <1>1, <1>2, <1>3

-----------------------------------------------------------------------------
(* The calls of an answer. *)

CallType == [id : CallId, safe : BOOLEAN, valid : BOOLEAN]

LEMMA PlacesRounds ==
    ASSUME NEW a, NEW safe, a.calls \in Seq(CallType)
    PROVE  \E f \in [0..Len(a.calls) -> Seq(1..Len(a.calls))] :
              /\ f[0] = <<>>
              /\ \A k \in 1..Len(a.calls) :
                    f[k] = IF a.calls[k].safe = safe THEN Append(f[k - 1], k) ELSE f[k - 1]
              /\ Places(a, safe) = f[Len(a.calls)]
<1> DEFINE N == Len(a.calls)
           D == Seq(1..N)
           Put(out, k) == IF a.calls[k].safe = safe THEN Append(out, k) ELSE out
           F == [p \in D \X (1..N) |-> Put(p[1], p[2])]
           places == CHOOSE places : places = [k \in 0..N |->
                        IF k = 0 THEN <<>>
                        ELSE IF a.calls[k].safe = safe THEN Append(places[k - 1], k) ELSE places[k - 1]]
<1>1. N \in Nat
  BY LenProperties
<1>2. \A out \in D, k \in 1..N : Put(out, k) \in D
  <2> HIDE DEF N
  <2> QED BY <1>1, AppendProperties
<1>3. F \in [D \X (1..N) -> D]
  <2> HIDE DEF D, N, Put
  <2> QED BY <1>2
<1>4. <<>> \in D
  BY EmptySeq
<1>5. PICK f \in [0..N -> D] : Rounds(f, N, <<>>, F)
  <2> HIDE DEF D, N, F
  <2> QED BY <1>1, <1>3, <1>4, RoundsExist
<1>6. f[0] = <<>> /\ \A k \in 1..N : f[k] = Put(f[k - 1], k)
  <2> HIDE DEF Put
  <2>1. f[0] = <<>>
    <3> HIDE DEF D, F
    <3>1. 0 \in 0..N
      BY <1>1
    <3> QED
      BY <1>5, <3>1 DEF Rounds
  <2>2. ASSUME NEW k \in 1..N PROVE f[k] = Put(f[k - 1], k)
    <3>1. k - 1 \in 0..N /\ k \in 0..N /\ k # 0
      BY <1>1
    <3>2. f[k - 1] \in D
      BY <3>1
    <3>3. F[<<f[k - 1], k>>] = Put(f[k - 1], k)
      <4> HIDE DEF D, N
      <4> QED BY <3>2
    <3>4. f[k] = F[<<f[k - 1], k>>]
      BY <1>5, <3>1 DEF Rounds
    <3>5. QED
      BY <3>3, <3>4
  <2>3. QED
    BY <2>1, <2>2
<1>7. f = [k \in 0..N |-> IF k = 0 THEN <<>> ELSE Put(f[k - 1], k)]
  <2> HIDE DEF Put, D
  <2>1. ASSUME NEW k \in 0..N PROVE f[k] = IF k = 0 THEN <<>> ELSE Put(f[k - 1], k)
    <3>1. k = 0 \/ k \in 1..N
      BY <1>1
    <3>2. QED
      BY <1>6, <3>1
  <2>2. QED
    BY <2>1
<1>8. places = [k \in 0..N |-> IF k = 0 THEN <<>> ELSE Put(places[k - 1], k)]
  <2> HIDE DEF D, N, F
  <2> QED BY <1>7
<1>9. Places(a, safe) = places[N]
  BY DEF Places
<1> HIDE DEF places
<1>10. places[0] = <<>> /\ \A k \in 1..N : places[k] = Put(places[k - 1], k)
  <2> HIDE DEF Put, N
  <2>1. 0 \in 0..N /\ \A k \in 1..N : k \in 0..N /\ k # 0
    BY <1>1
  <2> QED BY <1>8, <2>1
<1>11. \A k \in 0..N : places[k] \in D
  <2> DEFINE S == {k \in 0..N : places[k] \in D}
  <2> HIDE DEF D, Put, N
  <2>1. 0 \in S
    BY <1>1, <1>4, <1>10
  <2>2. ASSUME NEW k \in 0..(N - 1), k \in S PROVE k + 1 \in S
    <3>1. k + 1 \in 1..N /\ (k + 1) - 1 = k /\ k + 1 \in 0..N
      BY <1>1
    <3>2. places[k + 1] = Put(places[k], k + 1)
      BY <1>10, <3>1
    <3>3. QED
      BY <1>2, <2>2, <3>1, <3>2
  <2>3. \A k \in 0..N : k \in S
    <3> HIDE DEF S
    <3> QED BY <1>1, <2>1, <2>2, Upwards
  <2>4. QED
    BY <2>3
<1>12. places \in [0..N -> D]
  <2> HIDE DEF D, Put
  <2>1. places = [k \in 0..N |-> places[k]]
    BY <1>8
  <2>2. QED
    BY <1>11, <2>1
<1>13. QED
  BY <1>9, <1>10, <1>12

LEMMA ToSetAppend ==
    ASSUME NEW T, NEW s \in Seq(T), NEW e \in T
    PROVE  ToSet(Append(s, e)) = ToSet(s) \cup {e}
<1>1. /\ Len(s) \in Nat /\ DOMAIN s = 1..Len(s)
      /\ Append(s, e) \in Seq(T) /\ Len(Append(s, e)) = Len(s) + 1
      /\ \A i \in 1..Len(s) : Append(s, e)[i] = s[i]
      /\ Append(s, e)[Len(s) + 1] = e
  BY AppendProperties, LenProperties
<1>2. DOMAIN Append(s, e) = 1..(Len(s) + 1)
  BY <1>1, LenProperties
<1>3. \A i \in 1..(Len(s) + 1) : i \in 1..Len(s) \/ i = Len(s) + 1
  BY <1>1
<1>4. Len(s) + 1 \in 1..(Len(s) + 1) /\ \A i \in 1..Len(s) : i \in 1..(Len(s) + 1)
  BY <1>1
<1> DEFINE new == Append(s, e)
<1> HIDE DEF new
<1>5. {new[i] : i \in DOMAIN new} = {s[i] : i \in DOMAIN s} \cup {e}
  BY <1>1, <1>2, <1>3, <1>4 DEF new
<1>6. QED
  BY <1>5 DEF ToSet, new

(* Every call is either beside others or by itself, and at one place. *)
LEMMA PlacesAre ==
    ASSUME NEW a, NEW safe \in BOOLEAN, a.calls \in Seq(CallType)
    PROVE  /\ Places(a, safe) \in Seq(1..Len(a.calls))
           /\ ToSet(Places(a, safe)) = {k \in 1..Len(a.calls) : a.calls[k].safe = safe}
<1> DEFINE N == Len(a.calls)
<1>1. N \in Nat
  BY LenProperties
<1>2. PICK f \in [0..N -> Seq(1..N)] :
              /\ f[0] = <<>>
              /\ \A k \in 1..N : f[k] = IF a.calls[k].safe = safe THEN Append(f[k - 1], k) ELSE f[k - 1]
              /\ Places(a, safe) = f[N]
  BY PlacesRounds
<1> DEFINE Chosen(n) == {k \in 1..n : a.calls[k].safe = safe}
           S == {n \in 0..N : ToSet(f[n]) = Chosen(n)}
<1>3. 0 \in S
  <2>1. ToSet(<<>>) = {}
    BY DEF ToSet
  <2>2. Chosen(0) = {}
    OBVIOUS
  <2>3. 0 \in 0..N /\ ToSet(f[0]) = {}
    BY <1>1, <1>2, <2>1
  <2> HIDE DEF Chosen
  <2>4. QED
    BY <2>2, <2>3
<1>4. ASSUME NEW n \in 0..(N - 1), n \in S PROVE n + 1 \in S
  <2> HIDE DEF N
  <2>1. n + 1 \in 1..N /\ (n + 1) - 1 = n /\ n + 1 \in 0..N /\ n \in 0..N
    BY <1>1
  <2>2. f[n] \in Seq(1..N)
    BY <2>1
  <2>3. ToSet(Append(f[n], n + 1)) = ToSet(f[n]) \cup {n + 1}
    <3> DEFINE m == n + 1
               T == 1..N
    <3>1. m \in T /\ f[n] \in Seq(T)
      BY <2>1, <2>2
    <3> HIDE DEF m, T
    <3>2. \A s \in Seq(T) : ToSet(Append(s, m)) = ToSet(s) \cup {m}
      BY <3>1, ToSetAppend
    <3> HIDE DEF ToSet
    <3>3. QED
      BY <3>1, <3>2 DEF m
  <2>4. Chosen(n + 1) = IF a.calls[n + 1].safe = safe THEN Chosen(n) \cup {n + 1} ELSE Chosen(n)
    <3>1. \A k \in 1..(n + 1) : k \in 1..n \/ k = n + 1
      BY <2>1
    <3>2. n + 1 \in 1..(n + 1) /\ \A k \in 1..n : k \in 1..(n + 1)
      BY <2>1
    <3>3. QED
      BY <3>1, <3>2
  <2>5. f[n + 1] = IF a.calls[n + 1].safe = safe THEN Append(f[n], n + 1) ELSE f[n]
    BY <1>2, <2>1
  <2>6. ToSet(f[n]) = Chosen(n)
    BY <1>4
  <2> HIDE DEF Chosen
  <2>7. ToSet(f[n + 1]) = Chosen(n + 1)
    BY <2>3, <2>4, <2>5, <2>6
  <2>8. QED
    BY <2>1, <2>7
<1>5. N \in S
  <2> HIDE DEF S, N
  <2>1. \A n \in 0..N : n \in S
    BY <1>1, <1>3, <1>4, Upwards
  <2>2. QED
    BY <1>1, <2>1
<1>6. QED
  BY <1>1, <1>2, <1>5

LEMMA PlacesLengths ==
    ASSUME NEW a, a.calls \in Seq(CallType)
    PROVE  Len(Concurrent(a)) + Len(Serial(a)) = Len(a.calls)
<1> DEFINE N == Len(a.calls)
<1>1. N \in Nat
  BY LenProperties
<1>2. PICK f \in [0..N -> Seq(1..N)] :
              /\ f[0] = <<>>
              /\ \A k \in 1..N : f[k] = IF a.calls[k].safe = TRUE THEN Append(f[k - 1], k) ELSE f[k - 1]
              /\ Places(a, TRUE) = f[N]
  BY PlacesRounds
<1>3. PICK g \in [0..N -> Seq(1..N)] :
              /\ g[0] = <<>>
              /\ \A k \in 1..N : g[k] = IF a.calls[k].safe = FALSE THEN Append(g[k - 1], k) ELSE g[k - 1]
              /\ Places(a, FALSE) = g[N]
  BY PlacesRounds
<1> DEFINE S == {n \in 0..N : Len(f[n]) + Len(g[n]) = n}
<1>4. 0 \in S
  BY <1>1, <1>2, <1>3, EmptySeq
<1>5. ASSUME NEW n \in 0..(N - 1), n \in S PROVE n + 1 \in S
  <2>1. a.calls[n + 1].safe \in BOOLEAN
    <3>1. n + 1 \in 1..N
      BY <1>1
    <3>2. a.calls[n + 1] \in CallType
      BY <3>1, ElementOfSeq
    <3>3. QED
      BY <3>2 DEF CallType
  <2> HIDE DEF N
  <2>2. n + 1 \in 1..N /\ (n + 1) - 1 = n /\ n + 1 \in 0..N /\ n \in 0..N
    BY <1>1
  <2>3. f[n] \in Seq(1..N) /\ g[n] \in Seq(1..N)
    BY <2>2
  <2>4. Len(Append(f[n], n + 1)) = Len(f[n]) + 1 /\ Len(Append(g[n], n + 1)) = Len(g[n]) + 1
        /\ Len(f[n]) \in Nat /\ Len(g[n]) \in Nat
    BY <2>2, <2>3, AppendProperties, LenProperties
  <2>5. /\ f[n + 1] = IF a.calls[n + 1].safe = TRUE THEN Append(f[n], n + 1) ELSE f[n]
        /\ g[n + 1] = IF a.calls[n + 1].safe = FALSE THEN Append(g[n], n + 1) ELSE g[n]
    BY <1>2, <1>3, <2>2
  <2>6. Len(f[n]) + Len(g[n]) = n
    BY <1>5
  <2>7. Len(f[n + 1]) + Len(g[n + 1]) = n + 1
    <3>1. CASE a.calls[n + 1].safe = TRUE
      <4>1. a.calls[n + 1].safe # FALSE
        BY <3>1
      <4>2. f[n + 1] = Append(f[n], n + 1) /\ g[n + 1] = g[n]
        BY <2>5, <3>1, <4>1
      <4>3. Len(f[n + 1]) = Len(f[n]) + 1 /\ Len(g[n + 1]) = Len(g[n])
        BY <2>4, <4>2
      <4>4. QED
        BY <2>4, <2>6, <4>3
    <3>2. CASE a.calls[n + 1].safe = FALSE
      <4>1. f[n + 1] = f[n] /\ g[n + 1] = Append(g[n], n + 1)
        BY <2>5, <3>2
      <4>2. Len(f[n + 1]) = Len(f[n]) /\ Len(g[n + 1]) = Len(g[n]) + 1
        BY <2>4, <4>1
      <4>3. QED
        BY <2>4, <2>6, <4>2
    <3>3. QED
      BY <2>1, <3>1, <3>2
  <2>8. QED
    BY <2>2, <2>7
<1>6. N \in S
  <2> HIDE DEF S, N
  <2>1. \A n \in 0..N : n \in S
    BY <1>1, <1>4, <1>5, Upwards
  <2>2. QED
    BY <1>1, <2>1
<1>7. QED
  BY <1>2, <1>3, <1>6 DEF Concurrent, Serial

-----------------------------------------------------------------------------
(* The inductive invariant. *)

Ids(called) == [k \in 1..Len(called) |-> called[k].id]

(* The history while tools run: its last message is the model's, with the  *)
(* calls of this turn, or null; what the others call is answered.          *)
Called(h) ==
    /\ h \in Seq(Message) /\ Len(h) >= 2 /\ NoResultsOfModel(h) /\ AlternatesButAtTwo(h)
    /\ h[1].role = "user" /\ h[Len(h)].role = "assistant"
    /\ \A k \in 3..(Len(h) - 1) : Settled(h, k)
    /\ Null(h, Len(h)) \/ h[Len(h)].calls = Ids(calls)

HistoryInv ==
    /\ messages \in Seq(Message)
    /\ pc \in {"start", "turn"} => Ready(messages)
    /\ pc \in {"ask", "wait"} => Sendable(messages)
    /\ pc \in {"together", "serial"} => Called(messages)

CountsInv ==
    /\ pc \in {"start", "turn", "ask", "wait", "together", "serial", "ended"}
    /\ iteration \in 0..MaxIterations
    /\ pc \in {"ask", "wait", "together", "serial"} => iteration < MaxIterations
    /\ compactFailures \in 0..MaxCompactFailures
    /\ tries \in 0..MaxTries /\ (pc \in {"ask", "wait"} => tries < MaxTries)
    /\ cancelled \in BOOLEAN
    /\ outcome \in {"none", "command", "done", "failed", "cancelled", "max"}
    /\ (outcome # "none") = (pc = "ended")

(* The calls that were not yet answered: those that run side by side and   *)
(* those behind them, or the queue, of which only the head may be one that *)
(* may run beside others.                                                  *)
ToolsInv ==
    /\ calls \in Seq(CallType)
    /\ running \subseteq 1..Len(calls)
    /\ queue \in Seq(1..Len(calls)) /\ results \in Seq(1..Len(calls))
    /\ pc \notin {"together", "serial"} => running = {}
    /\ pc = "together" =>
          /\ running # {} /\ \A k \in running : calls[k].safe
          /\ queue = Serial([calls |-> calls]) /\ results = <<>>
    /\ pc = "serial" =>
          /\ running # {} => queue # <<>> /\ running = {queue[1]}
          /\ Len(results) + Len(queue) = Len(calls)
          /\ ToSet(results) \cup ToSet(queue) = 1..Len(calls)
          /\ \A k \in 1..Len(calls) :
                calls[k].safe => k \in ToSet(results) \/ (queue # <<>> /\ k = queue[1])

LoopInv == HistoryInv /\ CountsInv /\ ToolsInv

LEMMA InvSafe == LoopInv => LoopSafe
<1> SUFFICES ASSUME LoopInv PROVE LoopSafe
  OBVIOUS
<1>1. /\ DOMAIN calls = 1..Len(calls) /\ DOMAIN messages = 1..Len(messages)
      /\ Len(calls) \in Nat /\ Len(messages) \in Nat
  BY LenProperties DEF LoopInv, ToolsInv, HistoryInv
<1>2. LoopTypeOK
  <2>1. pc = "ask" => Len(messages) <= MaxMessages
    BY DEF LoopInv, HistoryInv, Sendable
  <2>2. QED
    BY <1>1, <2>1 DEF LoopTypeOK, LoopInv, HistoryInv, CountsInv, ToolsInv
<1>3. PairedBehindCuts
  <2>1. SUFFICES ASSUME pc = "ask", NEW k \in 1..Len(messages), k >= 3
                 PROVE  Answered(messages, k) \/ Null(messages, k) \/ Cut(messages, k)
    BY <1>1 DEF PairedBehindCuts, Request
  <2>2. AnsweredBehind(messages)
    BY <2>1 DEF LoopInv, HistoryInv, Sendable
  <2>3. k \in 3..Len(messages)
    BY <1>1, <2>1
  <2>4. QED
    BY <2>2, <2>3 DEF AnsweredBehind, Settled
<1>4. AlternatingButAtLimit
  BY DEF AlternatingButAtLimit, Request, LoopInv, HistoryInv, Sendable, Between
<1>5. UnsafeRunsAlone
  <2>1. SUFFICES ASSUME NEW k \in running, ~calls[k].safe
                 PROVE  running = {k} /\ \A j \in 1..Len(calls) : calls[j].safe => j \in ToSet(results)
    BY <1>1 DEF UnsafeRunsAlone
  <2>2. pc = "serial"
    BY <2>1 DEF LoopInv, ToolsInv
  <2>3. running = {queue[1]}
    BY <2>1, <2>2 DEF LoopInv, ToolsInv
  <2>4. \A j \in 1..Len(calls) : calls[j].safe => j \in ToSet(results) \/ j = queue[1]
    BY <2>2 DEF LoopInv, ToolsInv
  <2>5. QED
    BY <2>1, <2>3, <2>4
<1>6. QED
  BY <1>2, <1>3, <1>4, <1>5 DEF LoopSafe

LEMMA InitInv == LoopInit => LoopInv
<1> SUFFICES ASSUME LoopInit PROVE LoopInv
  OBVIOUS
<1>1. /\ messages \in Seq(Message) /\ messages # <<>>
      /\ messages[1].role = "user" /\ messages[Len(messages)].role = "user"
      /\ \A k \in DOMAIN messages : Plain(messages[k])
  BY HistoriesAssumption DEF LoopInit
<1>2. AllPlain(messages)
  BY <1>1, LenProperties DEF AllPlain
<1>3. Ready(messages)
  BY <1>1, <1>2, PlainAnswered DEF Ready, Between
<1>4. HistoryInv
  BY <1>1, <1>3 DEF HistoryInv, LoopInit
<1>5. CountsInv
  <2>1. 0 \in 0..MaxIterations /\ 0 \in 0..MaxCompactFailures /\ 0 \in 0..MaxTries
    BY ConstantsAssumption DEF MaxCompactFailures, MaxTries
  <2>2. QED
    BY <2>1 DEF CountsInv, LoopInit
<1>6. ToolsInv
  <2>1. <<>> \in Seq(CallType) /\ <<>> \in Seq(1..Len(<<>>))
    BY EmptySeq
  <2>2. QED
    BY <2>1 DEF ToolsInv, LoopInit
<1>7. QED
  BY <1>4, <1>5, <1>6 DEF LoopInv

-----------------------------------------------------------------------------
(* The steps without tools. *)

(* The tools are left alone, and none runs. *)
LEMMA NoTools ==
    ASSUME ToolsInv, pc \notin {"together", "serial"}, pc' \notin {"together", "serial"}, UNCHANGED toolVars
    PROVE  ToolsInv'
  BY DEF ToolsInv, toolVars

LEMMA StartKeeps == ASSUME LoopInv, Start PROVE LoopInv'
<1>1. pc = "start" /\ pc' \in {"turn", "ended"} /\ messages' = messages /\ UNCHANGED toolVars
  BY DEF Start, End
<1>2. HistoryInv'
  BY <1>1 DEF LoopInv, HistoryInv
<1>3. CountsInv'
  BY DEF LoopInv, CountsInv, Start, End
<1>4. ToolsInv'
  BY <1>1, NoTools DEF LoopInv
<1>5. QED
  BY <1>2, <1>3, <1>4 DEF LoopInv

LEMMA BeginTurnKeeps == ASSUME LoopInv, BeginTurn PROVE LoopInv'
<1>1. pc = "turn" /\ pc' = "ask" /\ UNCHANGED toolVars /\ iteration < MaxIterations
  BY DEF BeginTurn
<1>2. Ready(messages)
  BY <1>1 DEF LoopInv, HistoryInv
<1>3. /\ compactFailures \in Nat
      /\ MayCompact => compactFailures < MaxCompactFailures /\ Len(messages) >= 8
  BY DEF LoopInv, CountsInv, MayCompact, MinMessagesForCompact
<1>4. PICK c \in {[messages |-> messages, failures |-> compactFailures]}
                 \cup (IF MayCompact THEN Compactions(messages, compactFailures) ELSE {}) :
            messages' = NormalizeMessages(c.messages) /\ compactFailures' = c.failures
  BY DEF BeginTurn
<1>5. Ready(c.messages) /\ c.failures \in 0..MaxCompactFailures
  <2>1. CASE c = [messages |-> messages, failures |-> compactFailures]
    BY <1>2, <2>1 DEF LoopInv, CountsInv
  <2>2. CASE MayCompact /\ c \in Compactions(messages, compactFailures)
    <3>1. Ready(Compacted(messages)) /\ Ready(Snipped(messages))
      BY <1>2, <1>3, <2>2, CompactedReady, SnippedReady
    <3>2. \/ c = [messages |-> messages, failures |-> 0]
          \/ c = [messages |-> Compacted(messages), failures |-> 0]
          \/ c = [messages |-> Snipped(messages), failures |-> compactFailures + 1]
      BY <2>2 DEF Compactions
    <3>3. 0 \in 0..MaxCompactFailures /\ compactFailures + 1 \in 0..MaxCompactFailures
      BY <1>3, <2>2 DEF MaxCompactFailures
    <3>4. QED
      BY <1>2, <3>1, <3>2, <3>3
  <2>3. QED
    BY <1>4, <2>1, <2>2
<1>6. Sendable(messages')
  BY <1>4, <1>5, NormalizeReady
<1>7. HistoryInv'
  BY <1>1, <1>6 DEF HistoryInv, Sendable, Between
<1>8. CountsInv'
  <2>1. tries' = 0 /\ UNCHANGED <<iteration, cancelled, outcome>>
    BY DEF BeginTurn
  <2>2. QED
    BY <1>1, <1>4, <1>5, <2>1 DEF LoopInv, CountsInv, MaxTries
<1>9. ToolsInv'
  BY <1>1, NoTools DEF LoopInv
<1>10. QED
  BY <1>7, <1>8, <1>9 DEF LoopInv

LEMMA EndsKeep ==
    ASSUME LoopInv, StopAfterMaxIterations \/ WaitOver \/ StopWaiting \/ AskFails
    PROVE  LoopInv'
<1>1. /\ pc \in {"turn", "ask", "wait"} /\ messages' = messages /\ UNCHANGED toolVars
      /\ pc' = "ended" \/ (pc \in {"ask", "wait"} /\ pc' \in {"ask", "wait"})
  BY DEF StopAfterMaxIterations, WaitOver, StopWaiting, AskFails, End
<1>2. HistoryInv'
  BY <1>1 DEF LoopInv, HistoryInv
<1>3. CountsInv'
  <2>1. CASE StopAfterMaxIterations \/ WaitOver \/ StopWaiting
    BY <2>1 DEF LoopInv, CountsInv, StopAfterMaxIterations, WaitOver, StopWaiting, End
  <2>2. CASE AskFails
    BY <2>2 DEF LoopInv, CountsInv, AskFails, End, MaxTries
  <2>3. QED
    BY <2>1, <2>2
<1>4. ToolsInv'
  BY <1>1, NoTools DEF LoopInv
<1>5. QED
  BY <1>2, <1>3, <1>4 DEF LoopInv

LEMMA CancelKeeps == ASSUME LoopInv, Cancel PROVE LoopInv'
<1>1. UNCHANGED <<messages, iteration, compactFailures, tries, calls, running, queue, results, pc, outcome>>
      /\ cancelled' = TRUE
  BY DEF Cancel, toolVars
<1>2. HistoryInv'
  BY <1>1 DEF LoopInv, HistoryInv, Called
<1>3. CountsInv' /\ ToolsInv'
  BY <1>1 DEF LoopInv, CountsInv, ToolsInv
<1>4. QED
  BY <1>2, <1>3 DEF LoopInv

-----------------------------------------------------------------------------
(* An answer, its tools, and their results. *)

LEMMA ToSetConcat ==
    ASSUME NEW T, NEW s \in Seq(T), NEW t \in Seq(T)
    PROVE  ToSet(s \o t) = ToSet(s) \cup ToSet(t)
<1> DEFINE u == s \o t
<1>1. /\ Len(s) \in Nat /\ Len(t) \in Nat /\ DOMAIN s = 1..Len(s) /\ DOMAIN t = 1..Len(t)
      /\ u \in Seq(T) /\ Len(u) = Len(s) + Len(t)
      /\ \A i \in 1..(Len(s) + Len(t)) : u[i] = IF i <= Len(s) THEN s[i] ELSE t[i - Len(s)]
  BY LenProperties, ConcatProperties
<1>2. DOMAIN u = 1..(Len(s) + Len(t))
  BY <1>1, LenProperties
<1> HIDE DEF u
<1>3. ASSUME NEW i \in 1..(Len(s) + Len(t)) PROVE u[i] \in ToSet(s) \cup ToSet(t)
  <2>1. CASE i <= Len(s)
    <3>1. i \in DOMAIN s /\ u[i] = s[i]
      BY <1>1, <2>1
    <3>2. QED
      BY <3>1 DEF ToSet
  <2>2. CASE ~(i <= Len(s))
    <3>1. i - Len(s) \in DOMAIN t /\ u[i] = t[i - Len(s)]
      BY <1>1, <2>2
    <3>2. QED
      BY <3>1 DEF ToSet
  <2>3. QED
    BY <2>1, <2>2
<1>4. ASSUME NEW i \in 1..Len(s) PROVE s[i] \in ToSet(u)
  <2>1. i \in DOMAIN u /\ u[i] = s[i]
    BY <1>1, <1>2
  <2>2. QED
    BY <2>1 DEF ToSet
<1>5. ASSUME NEW i \in 1..Len(t) PROVE t[i] \in ToSet(u)
  <2>1. i + Len(s) \in DOMAIN u /\ u[i + Len(s)] = t[i]
    <3>1. i + Len(s) \in 1..(Len(s) + Len(t)) /\ ~(i + Len(s) <= Len(s)) /\ (i + Len(s)) - Len(s) = i
      BY <1>1
    <3>2. QED
      BY <1>1, <1>2, <3>1
  <2>2. QED
    BY <2>1 DEF ToSet
<1>6. ToSet(u) \subseteq ToSet(s) \cup ToSet(t)
  BY <1>2, <1>3 DEF ToSet
<1>7. ToSet(s) \subseteq ToSet(u) /\ ToSet(t) \subseteq ToSet(u)
  BY <1>1, <1>4, <1>5 DEF ToSet
<1>8. ToSet(u) = ToSet(s) \cup ToSet(t)
  BY <1>6, <1>7
<1>9. QED
  BY <1>8 DEF u

LEMMA HeadAndTail ==
    ASSUME NEW T, NEW s \in Seq(T), s # <<>>
    PROVE  /\ Head(s) = s[1] /\ Head(s) \in T /\ Tail(s) \in Seq(T) /\ Len(s) \in Nat \ {0}
           /\ Len(Tail(s)) = Len(s) - 1
           /\ ToSet(s) = {s[1]} \cup ToSet(Tail(s))
<1>1. /\ Head(s) \in T /\ Tail(s) \in Seq(T) /\ Len(Tail(s)) = Len(s) - 1
      /\ \A i \in 1..Len(Tail(s)) : Tail(s)[i] = s[i + 1]
  BY HeadTailProperties
<1>2. Len(s) \in Nat \ {0} /\ DOMAIN s = 1..Len(s)
  BY EmptySeq, LenProperties
<1>3. Head(s) = s[1]
  OBVIOUS
<1> DEFINE t == Tail(s)
           n == Len(s)
<1>4. DOMAIN t = 1..(n - 1) /\ \A i \in 1..(n - 1) : t[i] = s[i + 1]
  BY <1>1, LenProperties
<1> HIDE DEF t
<1>5. ToSet(s) = {s[1]} \cup ToSet(t)
  <2>1. \A i \in 1..n : i = 1 \/ (i - 1 \in 1..(n - 1) /\ (i - 1) + 1 = i)
    BY <1>2
  <2>2. 1 \in 1..n /\ \A i \in 1..(n - 1) : i + 1 \in 1..n
    BY <1>2
  <2> HIDE DEF n
  <2>3. \A i \in 1..n : s[i] = s[1] \/ \E j \in 1..(n - 1) : s[i] = t[j]
    BY <1>4, <2>1
  <2>4. {s[i] : i \in 1..n} = {s[1]} \cup {t[i] : i \in 1..(n - 1)}
    BY <1>4, <2>2, <2>3
  <2>5. QED
    BY <1>2, <1>4, <2>4 DEF ToSet, n
<1>6. QED
  BY <1>1, <1>2, <1>3, <1>5 DEF t

(* A message put behind a history changes what is so of the one before it  *)
(* only by its results.                                                    *)
LEMMA AppendAnswered ==
    ASSUME NEW h \in Seq(Message), NEW m \in Message
    PROVE  LET g == Append(h, m) IN
           /\ \A k \in 1..(Len(h) - 1) : Settled(g, k) = Settled(h, k)
           /\ m.results = <<>> => \A k \in 1..Len(h) : Settled(g, k) = Settled(h, k)
           /\ \A k \in 1..Len(h) : Null(g, k) = Null(h, k) /\ CallsOf(g, k) = CallsOf(h, k)
           /\ ResultsOf(g, Len(h) + 1) = m.results /\ CallsOf(g, Len(h) + 1) = m.calls
           /\ ResultsOf(g, Len(h) + 2) = <<>>
<1> DEFINE g == Append(h, m)
           n == Len(h)
<1>1. /\ n \in Nat /\ DOMAIN h = 1..n /\ g \in Seq(Message) /\ Len(g) = n + 1
      /\ \A i \in 1..n : g[i] = h[i]
      /\ g[n + 1] = m
  BY LenProperties, AppendProperties
<1>2. DOMAIN g = 1..(n + 1)
  BY <1>1, LenProperties
<1> HIDE DEF g, n
<1>3. \A k \in 1..n : k \in DOMAIN g /\ k \in DOMAIN h /\ g[k] = h[k]
  BY <1>1, <1>2
<1>4. \A k \in 1..n : /\ CallsOf(g, k) = CallsOf(h, k) /\ ResultsOf(g, k) = ResultsOf(h, k)
                      /\ Textless(g, k) = Textless(h, k)
  BY <1>3 DEF CallsOf, ResultsOf, Textless
<1>5. \A k \in 1..n : Null(g, k) = Null(h, k) /\ Cut(g, k) = Cut(h, k)
  BY <1>3 DEF Null, Cut
<1>6. n + 1 \in DOMAIN g /\ n + 1 \notin DOMAIN h /\ n + 2 \notin DOMAIN g
  BY <1>1, <1>2
<1>7. /\ ResultsOf(g, n + 1) = m.results /\ CallsOf(g, n + 1) = m.calls /\ ResultsOf(g, n + 2) = <<>>
      /\ ResultsOf(h, n + 1) = <<>>
  BY <1>1, <1>6 DEF CallsOf, ResultsOf
<1>8. \A k \in 1..(n - 1) : k \in 1..n /\ k + 1 \in 1..n
  BY <1>1
<1>9. \A k \in 1..(n - 1) : Settled(g, k) = Settled(h, k)
  BY <1>4, <1>5, <1>8 DEF Settled, Answered
<1>10. ASSUME m.results = <<>>, NEW k \in 1..n PROVE Settled(g, k) = Settled(h, k)
  <2>1. ResultsOf(g, k + 1) = ResultsOf(h, k + 1) /\ Textless(g, k + 1) = Textless(h, k + 1)
    <3>1. CASE k = n
      <4>1. ResultsOf(g, k + 1) = <<>> /\ ResultsOf(h, k + 1) = <<>>
        BY <1>7, <1>10, <3>1
      <4>2. QED
        BY <4>1 DEF Textless
    <3>2. CASE k + 1 \in 1..n
      BY <1>4, <3>2
    <3>3. QED
      BY <1>1, <3>1, <3>2
  <2>2. QED
    BY <1>4, <1>5, <2>1 DEF Settled, Answered
<1>11. QED
  BY <1>4, <1>5, <1>7, <1>9, <1>10 DEF g, n

LEMMA AssistantMessageType ==
    ASSUME NEW a \in AnswerType
    PROVE  LET m == AssistantMessage(a) IN
           /\ m \in Message /\ m.role = "assistant" /\ m.results = <<>>
           /\ (m.text = 0 /\ m.array = FALSE) \/ m.calls = Ids(a.calls)
<1> DEFINE m == AssistantMessage(a)
           ok == \A k \in DOMAIN a.calls : a.calls[k].valid
           N == Len(a.calls)
           ids == Ids(a.calls)
<1>1. a.calls \in Seq(CallType) /\ a.text \in Nat /\ DOMAIN a.calls = 1..N /\ N \in Nat
  BY LenProperties DEF AnswerType, CallType
<1>2. ok \in BOOLEAN
  OBVIOUS
<1>3. \A k \in 1..N : a.calls[k].id \in CallId
  <2>1. \A k \in 1..N : a.calls[k] \in CallType
    BY <1>1, ElementOfSeq
  <2>2. QED
    BY <2>1 DEF CallType
<1>4. ids \in Seq(CallId) /\ ids = [k \in DOMAIN a.calls |-> a.calls[k].id]
  <2>1. ids = [k \in 1..N |-> a.calls[k].id]
    BY DEF Ids
  <2> HIDE DEF N, ids
  <2>2. QED
    BY <1>1, <1>3, <2>1
<1>6. <<>> \in Seq(CallId)
  BY EmptySeq
<1> HIDE DEF N, ok, ids
<1>7. m = [role |-> "assistant", text |-> IF ok THEN a.text ELSE 0, array |-> ok,
           calls |-> IF ok THEN ids ELSE <<>>, results |-> <<>>, cut |-> FALSE]
  BY <1>4 DEF AssistantMessage, ok
<1> HIDE DEF m
<1>8. CASE ok
  <2>1. m = [role |-> "assistant", text |-> a.text, array |-> TRUE, calls |-> ids, results |-> <<>>,
             cut |-> FALSE]
    BY <1>1, <1>7, <1>8
  <2>2. m \in Message
    BY <1>1, <1>4, <1>6, <2>1 DEF Message
  <2>3. m.role = "assistant" /\ m.results = <<>> /\ m.calls = ids
    BY <2>1
  <2>4. QED
    BY <2>2, <2>3 DEF m, ids
<1>9. CASE ~ok
  <2>1. m = [role |-> "assistant", text |-> 0, array |-> FALSE, calls |-> <<>>, results |-> <<>>,
             cut |-> FALSE]
    <3>1. ok = FALSE
      BY <1>2, <1>9, Zenon
    <3>2. (IF ok THEN ids ELSE <<>>) = <<>> /\ (IF ok THEN a.text ELSE 0) = 0
      BY <1>9
    <3>3. QED
      BY <1>7, <3>1, <3>2, Zenon
  <2>2. QED
    BY <1>6, <2>1 DEF Message, m
<1>10. QED
  BY <1>2, <1>8, <1>9

(* The history that an answer with calls makes of a request. *)
LEMMA AnswerCalled ==
    ASSUME LoopInv, pc = "ask", NEW a \in AnswerType
    PROVE  LET g == Append(messages, AssistantMessage(a)) IN
           /\ g \in Seq(Message) /\ Len(g) >= 2 /\ NoResultsOfModel(g) /\ AlternatesButAtTwo(g)
           /\ g[1].role = "user" /\ g[Len(g)].role = "assistant"
           /\ \A k \in 3..(Len(g) - 1) : Settled(g, k)
           /\ Null(g, Len(g)) \/ g[Len(g)].calls = Ids(a.calls)
<1> DEFINE m == AssistantMessage(a)
           g == Append(messages, m)
           n == Len(messages)
<1>1. /\ m \in Message /\ m.role = "assistant" /\ m.results = <<>>
      /\ (m.text = 0 /\ m.array = FALSE) \/ m.calls = Ids(a.calls)
  BY AssistantMessageType
<1>2. Sendable(messages)
  BY DEF LoopInv, HistoryInv
<1>3. messages \in Seq(Message) /\ messages # <<>> /\ n \in Nat \ {0}
  BY <1>2, EmptySeq DEF Sendable, Between
<1> HIDE DEF m
<1>4. /\ g \in Seq(Message) /\ Len(g) = n + 1 /\ g[n + 1] = m
      /\ \A k \in 1..n : g[k] = messages[k]
  BY <1>1, <1>3, AppendProperties
<1>5. \A k \in 1..n : Settled(g, k) = Settled(messages, k)
  BY <1>1, <1>3, AppendAnswered
<1> HIDE DEF g
<1>6. DOMAIN g = 1..(n + 1) /\ n + 1 \in 1..(n + 1) /\ \A k \in 1..(n + 1) : k \in 1..n \/ k = n + 1
  BY <1>3, <1>4, LenProperties
<1> HIDE DEF n
<1>7. NoResultsOfModel(g)
  BY <1>1, <1>2, <1>4, <1>6 DEF NoResultsOfModel, Sendable, Between, n
<1>8. AlternatesButAtTwo(g)
  <2>1. ASSUME NEW k \in 1..n, g[k].role = g[k + 1].role PROVE k = 2
    <3>1. CASE k = n
      <4>1. g[n].role = "user"
        BY <1>2, <1>3, <1>4 DEF Sendable, Between, n
      <4>2. QED
        BY <1>1, <1>4, <2>1, <3>1, <4>1
    <3>2. CASE k # n
      <4>1. k \in 1..(n - 1) /\ k + 1 \in 1..n
        BY <1>3, <3>2
      <4>2. messages[k].role = messages[k + 1].role
        BY <1>4, <2>1, <4>1
      <4>3. QED
        BY <1>2, <4>1, <4>2 DEF Sendable, n
    <3>3. QED
      BY <3>1, <3>2
  <2>2. QED
    BY <1>3, <1>4, <2>1 DEF AlternatesButAtTwo
<1>9. g[1].role = "user" /\ g[n + 1].role = "assistant"
  BY <1>1, <1>2, <1>3, <1>4 DEF Sendable, Between
<1>10. \A k \in 3..n : Settled(g, k)
  <2>1. \A k \in 3..n : k \in 1..n
    BY <1>3
  <2>2. QED
    BY <1>2, <1>5, <2>1 DEF Sendable, AnsweredBehind, n
<1>11. m.text = 0 /\ m.array = FALSE => Null(g, n + 1)
  BY <1>4, <1>6 DEF Null
<1>12. (n + 1) - 1 = n /\ n + 1 >= 2
  BY <1>3
<1>13. QED
  BY <1>1, <1>4, <1>7, <1>8, <1>9, <1>10, <1>11, <1>12 DEF g, m

LEMMA PartitionKeeps ==
    ASSUME NEW a, a.calls \in Seq(CallType), calls' = a.calls, results' = <<>>,
           running' = Partition(a).together, queue' = Partition(a).after,
           pc' = IF Partition(a).together # {} THEN "together" ELSE "serial"
    PROVE  ToolsInv'
<1> DEFINE N == Len(a.calls)
           C == Concurrent(a)
           S == Serial(a)
<1>1. /\ C \in Seq(1..N) /\ ToSet(C) = {k \in 1..N : a.calls[k].safe = TRUE}
      /\ S \in Seq(1..N) /\ ToSet(S) = {k \in 1..N : a.calls[k].safe = FALSE}
      /\ Len(C) + Len(S) = N /\ N \in Nat
  BY PlacesAre, PlacesLengths, LenProperties DEF Concurrent, Serial
<1>2. ASSUME NEW k \in 1..N PROVE a.calls[k].safe \in BOOLEAN
  <2>1. a.calls[k] \in CallType
    BY ElementOfSeq
  <2>2. QED
    BY <2>1 DEF CallType
<1>3. ToSet(C) \cup ToSet(S) = 1..N
  BY <1>1, <1>2
<1>4. <<>> \in Seq(1..N) /\ Len(<<>>) = 0 /\ ToSet(<<>>) = {}
  BY EmptySeq DEF ToSet
<1>5. Serial([calls |-> a.calls]) = S
  BY DEF Serial, Places
<1> HIDE DEF C, S
<1>6. CASE Len(C) > 1
  <2>1. Partition(a) = [together |-> ToSet(C), after |-> S]
    BY <1>6 DEF Partition, C, S
  <2>2. ToSet(C) # {}
    <3>1. 1 \in DOMAIN C
      BY <1>1, <1>6, LenProperties
    <3>2. QED
      BY <3>1 DEF ToSet
  <2>3. running' = ToSet(C) /\ queue' = S /\ pc' = "together"
    BY <2>1, <2>2
  <2>4. /\ running' \subseteq 1..N /\ running' # {} /\ \A k \in running' : a.calls[k].safe
    BY <1>1, <2>2, <2>3
  <2>5. QED
    BY <1>1, <1>4, <1>5, <2>3, <2>4 DEF ToolsInv
<1>7. CASE ~(Len(C) > 1)
  <2>1. Partition(a) = [together |-> {}, after |-> C \o S]
    BY <1>7 DEF Partition, C, S
  <2>2. running' = {} /\ queue' = C \o S /\ pc' = "serial"
    BY <2>1
  <2>3. /\ C \o S \in Seq(1..N) /\ Len(C \o S) = Len(C) + Len(S)
        /\ \A i \in 1..(Len(C) + Len(S)) : (C \o S)[i] = IF i <= Len(C) THEN C[i] ELSE S[i - Len(C)]
    <3>1. C \in Seq(1..N) /\ S \in Seq(1..N)
      BY <1>1
    <3>2. QED
      BY <3>1, ConcatProperties, Zenon
  <2>4. ToSet(C \o S) = 1..N
    <3>1. ToSet(C \o S) = ToSet(C) \cup ToSet(S)
      BY <1>1, ToSetConcat
    <3>2. QED
      BY <1>3, <3>1
  <2>5. ASSUME NEW k \in 1..N, a.calls[k].safe PROVE C \o S # <<>> /\ k = (C \o S)[1]
    <3>1. k \in ToSet(C)
      BY <1>1, <1>2, <2>5
    <3>2. PICK i \in DOMAIN C : k = C[i]
      BY <3>1 DEF ToSet
    <3>3. DOMAIN C = 1..Len(C) /\ Len(C) \in Nat /\ Len(S) \in Nat
      BY <1>1, LenProperties
    <3>4. i = 1 /\ Len(C) = 1
      BY <1>7, <3>2, <3>3
    <3>5. (C \o S)[1] = C[1]
      BY <2>3, <3>3, <3>4
    <3>6. Len(C \o S) # 0
      BY <2>3, <3>3, <3>4
    <3>7. QED
      BY <1>4, <3>2, <3>4, <3>5, <3>6
  <2> DEFINE q == C \o S
  <2> HIDE DEF q
  <2>6. /\ queue' = q /\ q \in Seq(1..N) /\ Len(q) = N /\ ToSet(q) = 1..N
        /\ \A k \in 1..N : a.calls[k].safe => q # <<>> /\ k = q[1]
    BY <1>1, <2>2, <2>3, <2>4, <2>5 DEF q
  <2>7. Len(results') + Len(queue') = N /\ ToSet(results') \cup ToSet(queue') = 1..N
    BY <1>1, <1>4, <2>6
  <2>8. QED
    BY <1>4, <2>2, <2>6, <2>7 DEF ToolsInv
<1>8. QED
  BY <1>6, <1>7

LEMMA AnswerKeeps == ASSUME LoopInv, NEW a \in Answers, Answer(a) PROVE LoopInv'
<1>1. a \in AnswerType /\ pc = "ask" /\ UNCHANGED <<iteration, compactFailures, tries, cancelled>>
  BY ConstantsAssumption DEF Answer
<1>2. CASE a.calls = <<>>
  <2>1. pc' = "ended" /\ outcome' = "done" /\ messages' = messages /\ UNCHANGED toolVars
    BY <1>2 DEF Answer, End
  <2>2. HistoryInv' /\ CountsInv'
    BY <1>1, <2>1 DEF LoopInv, HistoryInv, CountsInv
  <2>3. ToolsInv'
    BY <1>1, <2>1, NoTools DEF LoopInv
  <2>4. QED
    BY <2>2, <2>3 DEF LoopInv
<1>3. CASE a.calls # <<>>
  <2>1. /\ messages' = Append(messages, AssistantMessage(a))
        /\ calls' = a.calls /\ results' = <<>> /\ outcome' = outcome
        /\ running' = Partition(a).together /\ queue' = Partition(a).after
        /\ pc' = IF Partition(a).together # {} THEN "together" ELSE "serial"
    BY <1>3 DEF Answer
  <2>2. Called(messages)'
    <3> DEFINE g == Append(messages, AssistantMessage(a))
    <3>1. /\ g \in Seq(Message) /\ Len(g) >= 2 /\ NoResultsOfModel(g) /\ AlternatesButAtTwo(g)
          /\ g[1].role = "user" /\ g[Len(g)].role = "assistant"
          /\ \A k \in 3..(Len(g) - 1) : Settled(g, k)
          /\ Null(g, Len(g)) \/ g[Len(g)].calls = Ids(a.calls)
      BY <1>1, AnswerCalled
    <3> HIDE DEF g
    <3>2. messages' = g
      BY <2>1 DEF g
    <3>3. QED
      BY <2>1, <3>1, <3>2 DEF Called
  <2>3. pc' \in {"together", "serial"}
    BY <2>1
  <2>4. HistoryInv'
    BY <2>2, <2>3 DEF HistoryInv, Called
  <2>5. CountsInv'
    BY <1>1, <2>1, <2>3 DEF LoopInv, CountsInv
  <2>6. ToolsInv'
    BY <1>1, <2>1, PartitionKeeps DEF AnswerType, CallType
  <2>7. QED
    BY <2>4, <2>5, <2>6 DEF LoopInv
<1>4. QED
  BY <1>2, <1>3

(* While tools run the history and the counts stay. *)
LEMMA ToolsLeave ==
    ASSUME LoopInv, pc \in {"together", "serial"}, pc' \in {"together", "serial"},
           UNCHANGED <<messages, iteration, compactFailures, tries, calls, cancelled, outcome>>
    PROVE  HistoryInv' /\ CountsInv'
<1>2. Called(messages)'
  BY DEF LoopInv, HistoryInv, Called
<1>3. HistoryInv'
  BY <1>2 DEF LoopInv, HistoryInv
<1>4. CountsInv'
  BY DEF LoopInv, CountsInv
<1>5. QED
  BY <1>3, <1>4

LEMMA EndTogetherKeeps == ASSUME LoopInv, NEW k \in running, EndTogether(k) PROVE LoopInv'
<1>1. /\ pc = "together" /\ pc' \in {"together", "serial"} /\ running' = running \ {k}
      /\ UNCHANGED <<messages, iteration, compactFailures, tries, calls, queue, cancelled, outcome>>
  BY DEF EndTogether
<1>2. HistoryInv' /\ CountsInv'
  BY <1>1, ToolsLeave
<1> DEFINE a == [calls |-> calls]
           N == Len(calls)
<1>3. a.calls \in Seq(CallType) /\ a.calls = calls
  BY DEF LoopInv, ToolsInv
<1>4. /\ calls \in Seq(CallType) /\ running \subseteq 1..N /\ \A i \in running : calls[i].safe
      /\ queue = Serial(a) /\ results = <<>> /\ queue \in Seq(1..N) /\ results \in Seq(1..N)
  BY <1>1 DEF LoopInv, ToolsInv
<1> HIDE DEF a
<1>5. CASE running' # {}
  <2>1. UNCHANGED <<results, pc>>
    BY <1>5 DEF EndTogether
  <2>2. QED
    BY <1>1, <1>2, <1>4, <1>5, <2>1 DEF LoopInv, ToolsInv, a
<1>6. CASE running' = {}
  <2>1. results' = Concurrent(a) /\ pc' = "serial"
    BY <1>6 DEF EndTogether, a
  <2>2. /\ Concurrent(a) \in Seq(1..N) /\ ToSet(Concurrent(a)) = {i \in 1..N : calls[i].safe = TRUE}
        /\ Serial(a) \in Seq(1..N) /\ ToSet(Serial(a)) = {i \in 1..N : calls[i].safe = FALSE}
        /\ Len(Concurrent(a)) + Len(Serial(a)) = N
    BY <1>3, PlacesAre, PlacesLengths DEF Concurrent, Serial
  <2>3. ASSUME NEW i \in 1..N PROVE calls[i].safe \in BOOLEAN
    <3>1. calls[i] \in CallType
      BY <1>4, ElementOfSeq
    <3>2. QED
      BY <3>1 DEF CallType
  <2>4. ToSet(Concurrent(a)) \cup ToSet(Serial(a)) = 1..N
    BY <2>2, <2>3
  <2>5. \A i \in 1..N : calls[i].safe => i \in ToSet(Concurrent(a))
    BY <2>2, <2>3
  <2>6. queue' = Serial(a) /\ calls' = calls
    BY <1>1, <1>4
  <2>7. ToolsInv'
    BY <1>4, <1>6, <2>1, <2>2, <2>4, <2>5, <2>6 DEF ToolsInv
  <2>8. QED
    BY <1>2, <2>7 DEF LoopInv
<1>7. QED
  BY <1>5, <1>6

(* The first call of the queue has its result. *)
LEMMA TakenFromQueue ==
    ASSUME ToolsInv, pc = "serial", pc' = "serial", queue # <<>>, calls' = calls, running' = {},
           results' = Append(results, Head(queue)), queue' = Tail(queue)
    PROVE  ToolsInv'
<1> DEFINE N == Len(calls)
<1>1. /\ calls \in Seq(CallType) /\ queue \in Seq(1..N) /\ results \in Seq(1..N)
      /\ Len(results) + Len(queue) = N /\ ToSet(results) \cup ToSet(queue) = 1..N
      /\ \A k \in 1..N : calls[k].safe => k \in ToSet(results) \/ k = queue[1]
  BY DEF ToolsInv
<1>2. /\ Head(queue) = queue[1] /\ Head(queue) \in 1..N /\ Tail(queue) \in Seq(1..N)
      /\ Len(queue) \in Nat \ {0} /\ Len(Tail(queue)) = Len(queue) - 1
      /\ ToSet(queue) = {queue[1]} \cup ToSet(Tail(queue))
  BY <1>1, HeadAndTail
<1> DEFINE r == Append(results, Head(queue))
           q == Tail(queue)
<1> HIDE DEF N
<1>3. r \in Seq(1..N) /\ Len(r) = Len(results) + 1 /\ Len(results) \in Nat
  BY <1>1, <1>2, AppendProperties, LenProperties
<1>4. ToSet(r) = ToSet(results) \cup {queue[1]}
  <2>1. ToSet(r) = ToSet(results) \cup {Head(queue)}
    BY <1>1, <1>2, ToSetAppend
  <2>2. QED
    BY <1>2, <2>1
<1> HIDE DEF r, q
<1>5. Len(r) + Len(q) = N
  BY <1>1, <1>2, <1>3 DEF q
<1>6. ToSet(r) \cup ToSet(q) = 1..N
  BY <1>1, <1>2, <1>4 DEF q
<1>7. \A k \in 1..N : calls[k].safe => k \in ToSet(r)
  BY <1>1, <1>4
<1>8. q \in Seq(1..N) /\ results' = r /\ queue' = q
  BY <1>2 DEF r, q
<1>9. QED
  BY <1>1, <1>3, <1>5, <1>6, <1>7, <1>8 DEF ToolsInv, N

LEMMA SerialKeeps == ASSUME LoopInv, Refuse \/ RunTool \/ EndTool PROVE LoopInv'
<1>1. /\ pc = "serial" /\ pc' = "serial"
      /\ UNCHANGED <<messages, iteration, compactFailures, tries, calls, cancelled, outcome>>
  BY DEF Refuse, RunTool, EndTool, AtNextCall
<1>2. HistoryInv' /\ CountsInv'
  BY <1>1, ToolsLeave
<1>3. CASE Refuse
  <2>1. queue # <<>> /\ running' = {} /\ results' = Append(results, Head(queue)) /\ queue' = Tail(queue)
    BY <1>3 DEF Refuse, AtNextCall
  <2>2. QED
    BY <1>1, <1>2, <2>1, TakenFromQueue DEF LoopInv
<1>4. CASE EndTool
  <2>1. queue # <<>> /\ running' = {} /\ results' = Append(results, Head(queue)) /\ queue' = Tail(queue)
    BY <1>4 DEF EndTool, LoopInv, ToolsInv
  <2>2. QED
    BY <1>1, <1>2, <2>1, TakenFromQueue DEF LoopInv
<1>5. CASE RunTool
  <2>1. queue # <<>> /\ running' = {Head(queue)} /\ UNCHANGED <<queue, results>>
    BY <1>5 DEF RunTool, AtNextCall
  <2>2. Head(queue) = queue[1] /\ Head(queue) \in 1..Len(calls)
    BY <2>1, HeadAndTail DEF LoopInv, ToolsInv
  <2>3. ToolsInv'
    BY <1>1, <2>1, <2>2 DEF LoopInv, ToolsInv
  <2>4. QED
    BY <1>2, <2>3 DEF LoopInv
<1>6. QED
  BY <1>3, <1>4, <1>5

(* The message with the results of this turn. *)
ResultMessage == [role |-> "user", text |-> 0, array |-> TRUE, calls |-> <<>>,
                  results |-> [k \in DOMAIN results |-> calls[results[k]].id], cut |-> FALSE]

LEMMA ResultMessageType ==
    ASSUME LoopInv, pc = "serial", queue = <<>>
    PROVE  /\ ResultMessage \in Message /\ ResultMessage.role = "user" /\ ResultMessage.text = 0
           /\ ResultMessage.calls = <<>> /\ Match(Ids(calls), ResultMessage.results)
<1> DEFINE N == Len(calls)
           ids == [k \in DOMAIN results |-> calls[results[k]].id]
<1>1. results \in Seq(1..N) /\ Len(results) + Len(queue) = N /\ ToSet(results) \cup ToSet(queue) = 1..N
  BY DEF LoopInv, ToolsInv
<1>2. Len(queue) = 0 /\ ToSet(queue) = {}
  BY EmptySeq DEF ToSet
<1>3. DOMAIN results = 1..Len(results) /\ Len(results) = N /\ ToSet(results) = 1..N /\ N \in Nat
  <2> HIDE DEF N
  <2>1. Len(results) \in Nat /\ DOMAIN results = 1..Len(results)
    BY <1>1, LenProperties
  <2>2. Len(results) = N
    <3>1. Len(results) + 0 = N
      BY <1>1, <1>2, Zenon
    <3>2. QED
      BY <2>1, <3>1
  <2>3. ToSet(results) = 1..N
    <3>1. ToSet(results) \cup {} = 1..N
      BY <1>1, <1>2, Zenon
    <3>2. QED
      BY <3>1
  <2>4. QED
    BY <2>1, <2>2, <2>3
<1>4. \A k \in 1..N : results[k] \in 1..N
  BY <1>1, <1>3, ElementOfSeq
<1>5. \A k \in 1..N : calls[k].id \in CallId
  <2>1. \A k \in 1..N : calls[k] \in CallType
    BY ElementOfSeq DEF LoopInv, ToolsInv
  <2>2. QED
    BY <2>1 DEF CallType
<1>6. ids \in Seq(CallId) /\ Len(ids) = N /\ DOMAIN ids = 1..N
  <2>1. \A k \in 1..N : calls[results[k]].id \in CallId
    BY <1>4, <1>5
  <2> HIDE DEF N
  <2>2. QED
    BY <1>3, <2>1
<1>7. Match(Ids(calls), ids)
  <2> DEFINE c == Ids(calls)
  <2>1. c = [k \in 1..N |-> calls[k].id]
    BY DEF Ids
  <2> HIDE DEF N, c
  <2>2. c \in Seq(CallId) /\ Len(c) = N /\ DOMAIN c = 1..N
    BY <1>3, <1>5, <2>1
  <2>3. results \in Surjection(1..N, 1..N)
    <3>1. results \in [1..N -> 1..N]
      BY <1>1, <1>3, <1>4
    <3>2. \A k \in 1..N : \E j \in 1..N : results[j] = k
      BY <1>3 DEF ToSet
    <3>3. QED
      BY <3>1, <3>2 DEF Surjection
  <2>4. \A j \in 1..N : ids[j] = c[results[j]]
    BY <1>3, <1>4, <2>1
  <2> HIDE DEF ids
  <2>5. Match(c, ids)
    BY <1>6, <2>2, <2>3, <2>4 DEF Match
  <2>6. QED
    BY <2>5 DEF c
<1>8. ResultMessage = [role |-> "user", text |-> 0, array |-> TRUE, calls |-> <<>>, results |-> ids,
                       cut |-> FALSE]
  BY DEF ResultMessage
<1>9. <<>> \in Seq(CallId)
  BY EmptySeq
<1> HIDE DEF ids
<1>10. ResultMessage \in Message
  BY <1>6, <1>8, <1>9 DEF Message
<1>11. /\ ResultMessage.role = "user" /\ ResultMessage.calls = <<>> /\ ResultMessage.text = 0
       /\ ResultMessage.results = ids
  BY <1>8
<1>12. QED
  BY <1>7, <1>10, <1>11

LEMMA AddResultsKeeps == ASSUME LoopInv, AddResults PROVE LoopInv'
<1> DEFINE m == ResultMessage
           n == Len(messages)
           g == Append(messages, m)
<1>1. /\ pc = "serial" /\ running = {} /\ queue = <<>> /\ pc' = "turn" /\ messages' = g
      /\ iteration' = iteration + 1 /\ UNCHANGED <<compactFailures, tries, toolVars, cancelled, outcome>>
  BY DEF AddResults, ResultMessage
<1>2. /\ m \in Message /\ m.role = "user" /\ m.calls = <<>> /\ m.text = 0
      /\ Match(Ids(calls), m.results)
  BY <1>1, ResultMessageType
<1>3. Called(messages)
  BY <1>1 DEF LoopInv, HistoryInv
<1>4. messages \in Seq(Message) /\ n \in Nat /\ n >= 2 /\ DOMAIN messages = 1..n
  BY <1>3, LenProperties DEF Called
<1> HIDE DEF m
<1>5. /\ g \in Seq(Message) /\ g # <<>> /\ Len(g) = n + 1 /\ g[n + 1] = m
      /\ \A k \in 1..n : g[k] = messages[k]
  BY <1>2, <1>4, AppendProperties
<1>6. /\ \A k \in 1..(n - 1) : Settled(g, k) = Settled(messages, k)
      /\ \A k \in 1..n : Null(g, k) = Null(messages, k) /\ CallsOf(g, k) = CallsOf(messages, k)
      /\ ResultsOf(g, n + 1) = m.results /\ CallsOf(g, n + 1) = m.calls /\ ResultsOf(g, n + 2) = <<>>
  BY <1>2, <1>4, AppendAnswered
<1> HIDE DEF g
<1>7. \A k \in 1..(n + 1) : k \in 1..n \/ k = n + 1
  BY <1>4
<1> HIDE DEF n
<1>8. NoResultsOfModel(g)
  BY <1>2, <1>3, <1>5, <1>7 DEF NoResultsOfModel, Called, n
<1>9. Between(g)
  <2>1. 1 \in 1..n
    BY <1>4
  <2>2. QED
    BY <1>2, <1>3, <1>5, <1>8, <2>1 DEF Between, Called
<1>10. AlternatesButAtTwo(g)
  <2>1. ASSUME NEW k \in 1..n, g[k].role = g[k + 1].role PROVE k = 2
    <3>1. CASE k = n
      <4>1. g[n].role = "assistant" /\ g[n + 1].role = "user"
        BY <1>2, <1>3, <1>4, <1>5 DEF Called, n
      <4>2. QED
        BY <2>1, <3>1, <4>1
    <3>2. CASE k # n
      <4>1. k \in 1..(n - 1) /\ k + 1 \in 1..n
        BY <1>4, <3>2
      <4>2. messages[k].role = messages[k + 1].role
        BY <1>5, <2>1, <4>1
      <4>3. QED
        BY <1>3, <4>1, <4>2 DEF Called, AlternatesButAtTwo, n
    <3>3. QED
      BY <3>1, <3>2
  <2>2. \A k \in 1..(Len(g) - 1) : k \in 1..n
    BY <1>4, <1>5
  <2>3. QED
    BY <2>1, <2>2 DEF AlternatesButAtTwo
<1>11. Settled(g, n)
  <2>1. n \in 1..n
    BY <1>4
  <2>4. Textless(g, n + 1)
    BY <1>2, <1>5 DEF Textless
  <2>2. CASE Null(messages, n)
    BY <1>6, <2>1, <2>2, <2>4 DEF Settled
  <2>3. CASE ~Null(messages, n)
    <3>1. messages[n].calls = Ids(calls)
      BY <1>3, <2>3 DEF Called, n
    <3>2. CallsOf(g, n) = messages[n].calls
      BY <1>4, <1>6, <2>1 DEF CallsOf
    <3>3. QED
      BY <1>2, <1>6, <2>4, <3>1, <3>2 DEF Settled, Answered
  <2>5. QED
    BY <2>2, <2>3
<1>12. Settled(g, n + 1)
  <2>1. (n + 1) + 1 = n + 2
    BY <1>4
  <2>2. CallsOf(g, n + 1) = <<>> /\ ResultsOf(g, (n + 1) + 1) = <<>>
    BY <1>2, <1>6, <2>1
  <2>3. QED
    BY <2>2, NoCallsSettled
<1>13. AnsweredBehind(g)
  <2>1. ASSUME NEW k \in 3..(n + 1) PROVE Settled(g, k)
    <3>1. CASE k \in 3..(n - 1)
      <4>1. k \in 1..(n - 1) /\ k \in 1..n
        BY <1>4, <3>1
      <4>2. QED
        BY <1>3, <1>6, <3>1, <4>1 DEF Called, n
    <3>2. CASE k = n
      BY <1>11, <3>2
    <3>3. CASE k = n + 1
      BY <1>12, <3>3
    <3>4. QED
      BY <1>4, <3>1, <3>2, <3>3
  <2>2. QED
    BY <1>5, <2>1 DEF AnsweredBehind
<1>14. HistoryInv'
  <2>1. Ready(g)
    BY <1>9, <1>10, <1>13 DEF Ready
  <2>2. QED
    BY <1>1, <1>5, <2>1 DEF HistoryInv
<1>15. CountsInv'
  <2>1. iteration \in 0..MaxIterations /\ iteration < MaxIterations /\ MaxIterations \in Nat
    BY <1>1, ConstantsAssumption DEF LoopInv, CountsInv
  <2>2. iteration' \in 0..MaxIterations
    BY <1>1, <2>1
  <2>3. QED
    BY <1>1, <2>2 DEF LoopInv, CountsInv
<1>16. ToolsInv'
  BY <1>1 DEF LoopInv, ToolsInv, toolVars
<1>17. QED
  BY <1>14, <1>15, <1>16 DEF LoopInv

LEMMA StutterKeeps == ASSUME LoopInv, UNCHANGED loopVars PROVE LoopInv'
<1>1. UNCHANGED <<messages, iteration, compactFailures, tries, calls, running, queue, results, pc, cancelled,
                  outcome>>
  BY DEF loopVars
<1>2. HistoryInv'
  BY <1>1 DEF LoopInv, HistoryInv, Called
<1>3. CountsInv' /\ ToolsInv'
  BY <1>1 DEF LoopInv, CountsInv, ToolsInv
<1>4. QED
  BY <1>2, <1>3 DEF LoopInv

LEMMA NextInv == LoopInv /\ [LoopNext]_loopVars => LoopInv'
<1> SUFFICES ASSUME LoopInv, [LoopNext]_loopVars PROVE LoopInv'
  OBVIOUS
<1>1. CASE Start
  BY <1>1, StartKeeps
<1>2. CASE BeginTurn
  BY <1>2, BeginTurnKeeps
<1>3. CASE StopAfterMaxIterations \/ WaitOver \/ StopWaiting \/ AskFails
  BY <1>3, EndsKeep
<1>4. CASE \E k \in running : EndTogether(k)
  BY <1>4, EndTogetherKeeps
<1>5. CASE Refuse \/ RunTool \/ EndTool
  BY <1>5, SerialKeeps
<1>6. CASE AddResults
  BY <1>6, AddResultsKeeps
<1>7. CASE \E a \in Answers : Answer(a)
  BY <1>7, AnswerKeeps
<1>8. CASE Cancel
  BY <1>8, CancelKeeps
<1>9. CASE UNCHANGED loopVars
  BY <1>9, StutterKeeps
<1>10. QED
  BY <1>1, <1>2, <1>3, <1>4, <1>5, <1>6, <1>7, <1>8, <1>9 DEF LoopNext, LoopGoesOn

(* normalize.go:33, loop.go:324 and 464, README.md:31: of any conversation,*)
(* any answers and any limits, what is sent has the user's and the model's *)
(* messages in turns, but where the limit cut it; behind the third message *)
(* each call has one result, but where the message of the calls is null    *)
(* or has been truncated; and a tool that may not run beside others runs   *)
(* alone, when those that may have their results.                          *)
THEOREM LoopAlwaysSafe == LoopSpec => []LoopSafe
<1>1. LoopInit => LoopInv
  BY InitInv
<1>2. LoopInv /\ [LoopNext]_loopVars => LoopInv'
  BY NextInv
<1>3. LoopInv => LoopSafe
  BY InvSafe
<1>4. QED
  BY <1>1, <1>2, <1>3, PTL DEF LoopSpec

-----------------------------------------------------------------------------
(* An answer (Stream). *)

(* The events so far fit one behind the other, and no block is open, or    *)
(* one of this kind is, or the message has ended.                          *)
EventsFit(t) == \A i \in DOMAIN t.events : EventFits(t.events, i)
BlocksDone(t) ==
    /\ EventsFit(t)
    /\ IF t.events = <<>> THEN t.blockIndex = 0
       ELSE /\ t.events[Len(t.events)].type = "stop"
            /\ t.blockIndex = t.events[Len(t.events)].index + 1
Inside(t, kind) ==
    /\ EventsFit(t) /\ t.events # <<>>
    /\ t.events[Len(t.events)].type \in {"start", "delta"}
    /\ t.events[Len(t.events)].block = kind
    /\ t.events[Len(t.events)].index = t.blockIndex
Closed(t) ==
    /\ EventsFit(t) /\ t.events # <<>>
    /\ t.events[Len(t.events)].type = "message_stop"

(* Before a call: what is open, and of an answer whose reasoning comes     *)
(* first, that its text is in one block.  T are the pieces of text sent.   *)
NoCallYet(t, T, first) ==
    /\ t.toolCalls = {} /\ t.currentTool = <<>> /\ t.toolUses = <<>>
    /\ ~(t.textOpen /\ t.thinkingOpen)
    /\ t.textOpen => Inside(t, "text")
    /\ t.thinkingOpen => Inside(t, "thinking")
    /\ ~t.textOpen /\ ~t.thinkingOpen => BlocksDone(t)
    /\ first => /\ t.textContent = <<>>
                /\ IF T = {} THEN t.currentText = <<>> /\ ~t.textOpen
                   ELSE t.textOpen /\ InOrder(t.currentText, T)

(* In the only call, of whose arguments A were sent.  The loop has the     *)
(* text already, and may still hold its last piece.                        *)
OneCallOpen(t, T, A, first) ==
    /\ t.toolCalls = {1} /\ t.toolUses = <<>> /\ ~t.textOpen
    /\ Len(t.currentTool) = 1 /\ t.currentTool[1].call = 1
    /\ InOrder(t.currentTool[1].input, A)
    /\ ~t.thinkingOpen => Inside(t, "tool_use")
    /\ first => /\ InOrder(t.textContent, T)
                /\ T = {} => t.currentText = <<>>

(* Thinking that is open was sent after the last text. *)
ThinkingLast ==
    reply.thinkingOpen =>
        \E m \in DOMAIN chunks :
            chunks[m].reasoning /\ \A n \in m..Len(chunks) : ~chunks[n].text

NoCallDone(t, T, first) ==
    t.toolUses = <<>> /\ Closed(t) /\ (first => InOrder(t.textContent, T))
OneCallDone(t, T, A, first, nested) ==
    /\ Len(t.toolUses) = 1 /\ t.toolUses[1].call = 1 /\ InOrder(t.toolUses[1].input, A)
    /\ first => InOrder(t.textContent, T)
    /\ nested => Closed(t)

OpenaiInv ==
    /\ ~Finished /\ ~ended =>
          /\ StartedCalls = {} => NoCallYet(reply, SentText, ReasoningFirst)
          /\ StartedCalls = {1} /\ CallsLast =>
                OneCallOpen(reply, SentText, SentArgs(1), ReasoningFirst)
          /\ OneCall /\ CallsLast => ThinkingLast
    /\ ~Finished /\ ended /\ StartedCalls = {} => Closed(reply)
    /\ Finished =>
          /\ StartedCalls = {} => NoCallDone(reply, SentText, ReasoningFirst)
          /\ StartedCalls = {1} /\ CallsLast =>
                OneCallDone(reply, SentText, SentArgs(1), ReasoningFirst, TextBeforeCall)

(* Of Gemini every text is in a block of its own, and every call whole. *)
GeminiText(t, T) ==
    /\ ~t.thinkingOpen /\ t.currentTool = <<>>
    /\ IF t.textOpen THEN Inside(t, "text") /\ InOrder(t.textContent \o t.currentText, T)
       ELSE BlocksDone(t) /\ InOrder(t.textContent, T)
GeminiInv ==
    /\ SentCallsCollected
    /\ IF ended THEN Closed(reply) /\ InOrder(reply.textContent, SentText)
       ELSE GeminiText(reply, SentText)

StreamInv ==
    /\ StreamTypeOK
    /\ StartedCalls # {} => 1 \in StartedCalls
    /\ \A k \in Call \ StartedCalls : SentArgs(k) = {}
    /\ provider = "openai" => OpenaiInv
    /\ provider = "gemini" => GeminiInv

-----------------------------------------------------------------------------
(* Numbers in order. *)

LEMMA InOrderNone == InOrder(<<>>, {})
  BY DEF InOrder, ToSet

LEMMA InOrderMore ==
    ASSUME NEW n \in Piece, NEW s \in Seq(Piece), NEW S, S \subseteq 0..(n - 1), InOrder(s, S)
    PROVE  InOrder(Append(s, n), S \cup {n})
<1>1. ToSet(Append(s, n)) = S \cup {n}
  BY ToSetAppend DEF InOrder
<1>2. ASSUME NEW i \in DOMAIN Append(s, n), NEW j \in DOMAIN Append(s, n), i < j
      PROVE  Append(s, n)[i] < Append(s, n)[j]
  <2>1. /\ Len(s) \in Nat /\ DOMAIN s = 1..Len(s) /\ DOMAIN Append(s, n) = 1..(Len(s) + 1)
        /\ \A k \in 1..Len(s) : Append(s, n)[k] = s[k]
        /\ Append(s, n)[Len(s) + 1] = n
    BY AppendProperties, LenProperties
  <2>2. i \in 1..Len(s) /\ Append(s, n)[i] = s[i]
    BY <1>2, <2>1
  <2>3. s[i] \in S
    BY <2>1, <2>2 DEF InOrder, ToSet
  <2>4. CASE j \in 1..Len(s)
    <3>1. Append(s, n)[j] = s[j]
      BY <2>1, <2>4
    <3>2. s[i] < s[j]
      BY <1>2, <2>1, <2>2, <2>4 DEF InOrder
    <3>3. QED
      BY <2>2, <3>1, <3>2
  <2>5. CASE j = Len(s) + 1
    <3>1. s[i] \in 0..(n - 1)
      BY <2>3
    <3>2. n \in Nat
      BY BoundsAssumption DEF Piece
    <3>3. s[i] < n
      BY <3>1, <3>2
    <3>4. QED
      BY <2>1, <2>2, <2>5, <3>3
  <2>6. QED
    BY <2>1, <2>4, <2>5
<1>3. QED
  BY <1>1, <1>2 DEF InOrder

LEMMA InOrderOne ==
    ASSUME NEW n \in Piece
    PROVE  InOrder(<<n>>, {n})
<1>1. InOrder(Append(<<>>, n), {} \cup {n})
  BY EmptySeq, InOrderNone, InOrderMore
<1>2. Append(<<>>, n) = <<n>>
  OBVIOUS
<1>3. QED
  BY <1>1, <1>2

-----------------------------------------------------------------------------
(* What one event does to an answer. *)

EventOf(t, type, block, call, piece) ==
    [type |-> type, index |-> t.blockIndex, block |-> block, call |-> call, piece |-> piece]

LEMMA EventType ==
    ASSUME NEW t \in Reply, NEW type \in {"start", "delta", "stop", "message_stop"},
           NEW block \in {"none", "text", "thinking", "tool_use"},
           NEW call \in Call \cup {NoCall}, NEW piece \in Piece
    PROVE  /\ EventOf(t, type, block, call, piece) \in Event
           /\ t.events \in Seq(Event)
           /\ Append(t.events, EventOf(t, type, block, call, piece)) \in Seq(Event)
<1>1. t.events \in Seq(Event) /\ t.blockIndex \in Nat
  BY DEF Reply
<1>2. EventOf(t, type, block, call, piece) \in Event
  BY <1>1 DEF Event, EventOf
<1>3. QED
  BY <1>1, <1>2, AppendProperties

LEMMA Fillers == Filler \in Piece /\ NoCall \in Call \cup {NoCall}
  BY BoundsAssumption DEF Filler, Piece

(* r is t, but for one event more and what the second says of the loop.    *)
SameFlags(r, t) ==
    r.textOpen = t.textOpen /\ r.thinkingOpen = t.thinkingOpen /\ r.toolCalls = t.toolCalls
SameText(r, t) == r.currentText = t.currentText /\ r.textContent = t.textContent
SameTools(r, t) == r.currentTool = t.currentTool /\ r.toolUses = t.toolUses

LEMMA StartTextDoes ==
    ASSUME NEW t \in Reply
    PROVE  LET r == StartBlock(t, "text", NoCall)
           IN  /\ r \in Reply /\ SameFlags(r, t) /\ SameTools(r, t)
               /\ r.blockIndex = t.blockIndex
               /\ r.events = Append(t.events, EventOf(t, "start", "text", NoCall, Filler))
               /\ r.currentText = <<>> /\ r.textContent = t.textContent
<1> DEFINE e == EventOf(t, "start", "text", NoCall, Filler)
           new == Append(t.events, e)
<1>1. new \in Seq(Event)
  BY EventType, Fillers
<1>2. StartBlock(t, "text", NoCall) = [t EXCEPT !.events = new, !.currentText = <<>>]
  BY DEF StartBlock, Made, Collect, StartText, EventOf
<1>3. <<>> \in Seq(Piece)
  BY EmptySeq
<1> HIDE DEF new
<1>4. [t EXCEPT !.events = new, !.currentText = <<>>] \in Reply
  BY <1>1, <1>3 DEF Reply
<1>5. QED
  BY <1>2, <1>4 DEF Reply, SameFlags, SameTools, new

LEMMA StartThinkingDoes ==
    ASSUME NEW t \in Reply
    PROVE  LET r == StartBlock(t, "thinking", NoCall)
           IN  /\ r \in Reply /\ SameFlags(r, t) /\ SameTools(r, t) /\ SameText(r, t)
               /\ r.blockIndex = t.blockIndex
               /\ r.events = Append(t.events, EventOf(t, "start", "thinking", NoCall, Filler))
<1> DEFINE e == EventOf(t, "start", "thinking", NoCall, Filler)
           new == Append(t.events, e)
<1>1. new \in Seq(Event)
  BY EventType, Fillers
<1>2. StartBlock(t, "thinking", NoCall) = [t EXCEPT !.events = new]
  BY DEF StartBlock, Made, Collect, EventOf
<1> HIDE DEF new
<1>3. [t EXCEPT !.events = new] \in Reply
  BY <1>1 DEF Reply
<1>4. QED
  BY <1>2, <1>3 DEF Reply, SameFlags, SameTools, SameText, new

LEMMA StartCallDoes ==
    ASSUME NEW t \in Reply, NEW k \in Call
    PROVE  LET r == StartBlock(t, "tool_use", k)
           IN  /\ r \in Reply /\ SameFlags(r, t) /\ SameText(r, t)
               /\ r.blockIndex = t.blockIndex
               /\ r.events = Append(t.events, EventOf(t, "start", "tool_use", k, Filler))
               /\ r.currentTool = <<[call |-> k, input |-> <<>>]>> /\ r.toolUses = t.toolUses
<1> DEFINE e == EventOf(t, "start", "tool_use", k, Filler)
           new == Append(t.events, e)
           tool == <<[call |-> k, input |-> <<>>]>>
<1>1. new \in Seq(Event)
  BY EventType, Fillers
<1>2. StartBlock(t, "tool_use", k) = [t EXCEPT !.events = new, !.currentTool = tool]
  BY DEF StartBlock, Made, Collect, StartCall, EventOf
<1>3. tool \in Seq(ToolUse)
  <2>1. <<>> \in Seq(Piece)
    BY EmptySeq
  <2>2. [call |-> k, input |-> <<>>] \in ToolUse
    BY <2>1 DEF ToolUse
  <2>3. QED
    BY <2>2
<1> HIDE DEF new, tool
<1>4. [t EXCEPT !.events = new, !.currentTool = tool] \in Reply
  BY <1>1, <1>3 DEF Reply
<1>5. QED
  BY <1>2, <1>4 DEF Reply, SameFlags, SameText, new, tool

LEMMA DeltaTextDoes ==
    ASSUME NEW t \in Reply, NEW n \in Piece
    PROVE  LET r == Delta(t, "text", n)
           IN  /\ r \in Reply /\ SameFlags(r, t) /\ SameTools(r, t)
               /\ r.blockIndex = t.blockIndex
               /\ r.events = Append(t.events, EventOf(t, "delta", "text", NoCall, n))
               /\ r.currentText = Append(t.currentText, n) /\ r.textContent = t.textContent
<1> DEFINE e == EventOf(t, "delta", "text", NoCall, n)
           new == Append(t.events, e)
           text == Append(t.currentText, n)
<1>1. new \in Seq(Event)
  BY EventType, Fillers
<1>2. Delta(t, "text", n) = [t EXCEPT !.events = new, !.currentText = text]
  BY DEF Delta, Made, Collect, EventOf, Reply
<1>3. text \in Seq(Piece)
  BY AppendProperties DEF Reply
<1> HIDE DEF new, text
<1>4. [t EXCEPT !.events = new, !.currentText = text] \in Reply
  BY <1>1, <1>3 DEF Reply
<1>5. QED
  BY <1>2, <1>4 DEF Reply, SameFlags, SameTools, new, text

LEMMA DeltaThinkingDoes ==
    ASSUME NEW t \in Reply, NEW n \in Piece
    PROVE  LET r == Delta(t, "thinking", n)
           IN  /\ r \in Reply /\ SameFlags(r, t) /\ SameTools(r, t) /\ SameText(r, t)
               /\ r.blockIndex = t.blockIndex
               /\ r.events = Append(t.events, EventOf(t, "delta", "thinking", NoCall, n))
<1> DEFINE e == EventOf(t, "delta", "thinking", NoCall, n)
           new == Append(t.events, e)
<1>1. new \in Seq(Event)
  BY EventType, Fillers
<1>2. Delta(t, "thinking", n) = [t EXCEPT !.events = new]
  BY DEF Delta, Made, Collect, EventOf
<1> HIDE DEF new
<1>3. [t EXCEPT !.events = new] \in Reply
  BY <1>1 DEF Reply
<1>4. QED
  BY <1>2, <1>3 DEF Reply, SameFlags, SameTools, SameText, new

LEMMA MessageStopDoes ==
    ASSUME NEW t \in Reply
    PROVE  LET r == MessageStop(t)
           IN  /\ r \in Reply /\ SameFlags(r, t) /\ SameTools(r, t) /\ SameText(r, t)
               /\ r.blockIndex = t.blockIndex
               /\ r.events = Append(t.events, EventOf(t, "message_stop", "none", NoCall, Filler))
<1> DEFINE e == EventOf(t, "message_stop", "none", NoCall, Filler)
           new == Append(t.events, e)
<1>1. new \in Seq(Event)
  BY EventType, Fillers
<1>2. MessageStop(t) = [t EXCEPT !.events = new]
  BY DEF MessageStop, Made, Collect, EventOf
<1> HIDE DEF new
<1>3. [t EXCEPT !.events = new] \in Reply
  BY <1>1 DEF Reply
<1>4. QED
  BY <1>2, <1>3 DEF Reply, SameFlags, SameTools, SameText, new

LEMMA AtMostOne ==
    ASSUME NEW T, NEW s \in Seq(T), Len(s) <= 1, s # <<>>
    PROVE  Len(s) = 1 /\ 1 \in 1..Len(s) /\ s[1] \in T /\ s = <<s[1]>>
<1>1. Len(s) \in Nat \ {0}
  BY EmptySeq
<1> DEFINE l == Len(s)
<1>2. l \in Nat /\ l # 0 /\ l <= 1
  BY <1>1
<1>3. l = 1
  <2> HIDE DEF l
  <2> QED BY <1>2
<1>4. s[1] \in T
  BY <1>3, ElementOfSeq
<1>5. s = <<s[1]>>
  <2>1. <<s[1]>> \in Seq(T) /\ Len(<<s[1]>>) = 1 /\ <<s[1]>>[1] = s[1]
    BY <1>4
  <2>2. QED
    BY <1>3, <2>1, SeqEqual
<1>6. QED
  BY <1>3, <1>4, <1>5

(* Arguments go to the call that is open, if one is. *)
LEMMA DeltaCallDoes ==
    ASSUME NEW t \in Reply, NEW n \in Piece, Len(t.currentTool) <= 1
    PROVE  LET r == Delta(t, "tool_use", n)
           IN  /\ r \in Reply /\ SameFlags(r, t) /\ SameText(r, t)
               /\ r.blockIndex = t.blockIndex /\ r.toolUses = t.toolUses
               /\ r.events = Append(t.events, EventOf(t, "delta", "tool_use", NoCall, n))
               /\ t.currentTool = <<>> => r.currentTool = <<>>
               /\ t.currentTool # <<>> =>
                     r.currentTool = <<[call |-> t.currentTool[1].call,
                                        input |-> Append(t.currentTool[1].input, n)]>>
<1> DEFINE e == EventOf(t, "delta", "tool_use", NoCall, n)
           new == Append(t.events, e)
           tool == [t.currentTool EXCEPT ![1].input = Append(@, n)]
           same == <<[call |-> t.currentTool[1].call, input |-> Append(t.currentTool[1].input, n)]>>
<1>1. new \in Seq(Event)
  BY EventType, Fillers
<1>2. t.currentTool = <<>> => Delta(t, "tool_use", n) = [t EXCEPT !.events = new]
  BY DEF Delta, Made, Collect, EventOf, Reply
<1>3. t.currentTool # <<>> =>
          Delta(t, "tool_use", n) = [t EXCEPT !.events = new, !.currentTool = tool]
  BY DEF Delta, Made, Collect, EventOf, Reply
<1>4. t.currentTool # <<>> => tool = same /\ same \in Seq(ToolUse)
  <2>1. SUFFICES ASSUME t.currentTool # <<>> PROVE tool = same /\ same \in Seq(ToolUse)
    OBVIOUS
  <2> DEFINE c == t.currentTool
             more == Append(c[1].input, n)
             one == [call |-> c[1].call, input |-> more]
  <2>2. c \in Seq(ToolUse) /\ Len(c) <= 1 /\ c # <<>>
    BY <2>1 DEF Reply
  <2>3. c[1] \in ToolUse /\ Len(c) = 1 /\ 1 \in 1..Len(c)
    <3> HIDE DEF c
    <3> QED BY <2>2, AtMostOne
  <2>4. c[1].call \in Call /\ more \in Seq(Piece)
    <3> HIDE DEF c
    <3> QED BY <2>3, AppendProperties DEF ToolUse
  <2>5. [c[1] EXCEPT !.input = more] = one /\ one \in ToolUse
    <3> HIDE DEF c, more
    <3> QED BY <2>3, <2>4 DEF ToolUse
  <2>6. tool = [c EXCEPT ![1] = one]
    <3>1. tool = [c EXCEPT ![1] = [c[1] EXCEPT !.input = more]]
      OBVIOUS
    <3> HIDE DEF tool, c, more, one
    <3> QED BY <2>5, <3>1
  <2>7. tool \in Seq(ToolUse) /\ Len(tool) = 1 /\ tool[1] = one
    <3> HIDE DEF c, one, tool
    <3> QED BY <2>2, <2>3, <2>5, <2>6, ExceptSeq
  <2>8. same = <<one>>
    OBVIOUS
  <2>9. <<one>> \in Seq(ToolUse) /\ Len(<<one>>) = 1 /\ <<one>>[1] = one
    <3> HIDE DEF one
    <3> QED BY <2>5
  <2>10. tool = <<one>>
    <3> HIDE DEF one, tool
    <3> QED BY <2>7, <2>9, SeqEqual
  <2>11. QED
    <3> HIDE DEF one, tool, same
    <3> QED BY <2>8, <2>9, <2>10
<1> HIDE DEF new, tool, same
<1>5. CASE t.currentTool = <<>>
  <2>1. [t EXCEPT !.events = new] \in Reply
    BY <1>1 DEF Reply
  <2>2. QED
    BY <1>2, <1>5, <2>1 DEF Reply, SameFlags, SameText, new
<1>6. CASE t.currentTool # <<>>
  <2>1. [t EXCEPT !.events = new, !.currentTool = same] \in Reply
    BY <1>1, <1>4, <1>6 DEF Reply
  <2>2. QED
    BY <1>3, <1>4, <1>6, <2>1 DEF Reply, SameFlags, SameText, new, same
<1>7. QED
  BY <1>5, <1>6

(* A stop hands the open call to the agent, or the text. *)
Stopped(r, t) ==
    /\ r.blockIndex = t.blockIndex + 1
    /\ r.events = Append(t.events, EventOf(t, "stop", "none", NoCall, Filler))
    /\ r.currentText = t.currentText /\ r.currentTool = <<>>
    /\ t.currentTool # <<>> => /\ r.toolUses = t.toolUses \o t.currentTool
                               /\ r.textContent = t.textContent
    /\ t.currentTool = <<>> => /\ r.toolUses = t.toolUses
                               /\ r.textContent = t.textContent \o t.currentText

LEMMA StopDoes ==
    ASSUME NEW t \in Reply
    PROVE  StopBlock(t) \in Reply /\ SameFlags(StopBlock(t), t) /\ Stopped(StopBlock(t), t)
<1> DEFINE e == EventOf(t, "stop", "none", NoCall, Filler)
           new == Append(t.events, e)
           uses == t.toolUses \o t.currentTool
           text == t.textContent \o t.currentText
<1>1. new \in Seq(Event)
  BY EventType, Fillers
<1>2. t.currentTool = <<>> =>
          Made(t, "stop", "none", NoCall, Filler) = [t EXCEPT !.events = new, !.textContent = text]
  BY DEF Made, Collect, EventOf, Reply
<1>3. t.currentTool # <<>> =>
          Made(t, "stop", "none", NoCall, Filler)
             = [t EXCEPT !.events = new, !.toolUses = uses, !.currentTool = <<>>]
  BY DEF Made, Collect, EventOf, Reply
<1>4. uses \in Seq(ToolUse) /\ text \in Seq(Piece) /\ <<>> \in Seq(ToolUse)
  BY ConcatProperties, EmptySeq DEF Reply
<1> HIDE DEF new, uses, text
<1>5. CASE t.currentTool = <<>>
  <2> DEFINE made == [t EXCEPT !.events = new, !.textContent = text]
  <2>1. made \in Reply /\ made.blockIndex = t.blockIndex /\ t.blockIndex \in Nat
    BY <1>1, <1>4 DEF Reply
  <2>2. StopBlock(t) = [made EXCEPT !.blockIndex = t.blockIndex + 1]
    BY <1>2, <1>5, <2>1 DEF StopBlock
  <2>3. [made EXCEPT !.blockIndex = t.blockIndex + 1] \in Reply
    <3> DEFINE next == t.blockIndex + 1
    <3>1. next \in Nat
      BY <2>1
    <3> HIDE DEF made, next
    <3>2. [made EXCEPT !.blockIndex = next] \in Reply
      BY <2>1, <3>1 DEF Reply
    <3>3. QED
      BY <3>2 DEF next
  <2>4. QED
    BY <1>5, <2>2, <2>3 DEF Reply, SameFlags, Stopped, new, text
<1>6. CASE t.currentTool # <<>>
  <2> DEFINE made == [t EXCEPT !.events = new, !.toolUses = uses, !.currentTool = <<>>]
  <2>1. made \in Reply /\ made.blockIndex = t.blockIndex /\ t.blockIndex \in Nat
    BY <1>1, <1>4 DEF Reply
  <2>2. StopBlock(t) = [made EXCEPT !.blockIndex = t.blockIndex + 1]
    BY <1>3, <1>6, <2>1 DEF StopBlock
  <2>3. [made EXCEPT !.blockIndex = t.blockIndex + 1] \in Reply
    <3> DEFINE next == t.blockIndex + 1
    <3>1. next \in Nat
      BY <2>1
    <3> HIDE DEF made, next
    <3>2. [made EXCEPT !.blockIndex = next] \in Reply
      BY <2>1, <3>1 DEF Reply
    <3>3. QED
      BY <3>2 DEF next
  <2>4. QED
    BY <1>6, <2>2, <2>3 DEF Reply, SameFlags, Stopped, new, uses
<1>7. QED
  BY <1>5, <1>6

-----------------------------------------------------------------------------
(* Blocks nest. *)

LEMMA EventsFitMore ==
    ASSUME NEW E \in Seq(Event), NEW e \in Event, \A i \in DOMAIN E : EventFits(E, i),
           EventFits(Append(E, e), Len(E) + 1)
    PROVE  /\ \A i \in DOMAIN Append(E, e) : EventFits(Append(E, e), i)
           /\ Append(E, e) # <<>> /\ Append(E, e)[Len(Append(E, e))] = e
<1> DEFINE new == Append(E, e)
<1>1. /\ Len(E) \in Nat /\ DOMAIN E = 1..Len(E) /\ DOMAIN new = 1..(Len(E) + 1)
      /\ \A i \in 1..Len(E) : new[i] = E[i]
      /\ new # <<>> /\ Len(new) = Len(E) + 1 /\ new[Len(E) + 1] = e
  BY AppendProperties, LenProperties
<1> HIDE DEF new
<1>2. ASSUME NEW i \in 1..Len(E) PROVE EventFits(new, i)
  <2>1. new[i] = E[i] /\ (i # 1 => new[i - 1] = E[i - 1])
    BY <1>1
  <2>2. EventFits(E, i)
    BY <1>1
  <2>3. E[i].type \in {"delta", "stop"} => i # 1
    BY <2>2 DEF EventFits
  <2>4. QED
    BY <2>1, <2>2, <2>3 DEF EventFits
<1>3. QED
  BY <1>1, <1>2 DEF new

LEMMA LastEvent ==
    ASSUME NEW t \in Reply, t.events # <<>>
    PROVE  /\ Len(t.events) \in Nat /\ Len(t.events) >= 1
           /\ t.events[Len(t.events)] \in Event
<1>1. t.events \in Seq(Event)
  BY DEF Reply
<1>2. Len(t.events) \in Nat \ {0}
  BY <1>1, EmptySeq
<1>3. QED
  BY <1>1, <1>2, ElementOfSeq

LEMMA StartNests ==
    ASSUME NEW t \in Reply, NEW r, NEW block \in {"text", "thinking", "tool_use"},
           NEW call \in Call \cup {NoCall}, BlocksDone(t), r.blockIndex = t.blockIndex,
           r.events = Append(t.events, EventOf(t, "start", block, call, Filler))
    PROVE  Inside(r, block)
<1> DEFINE e == EventOf(t, "start", block, call, Filler)
           E == t.events
           new == Append(E, e)
<1>1. e \in Event /\ E \in Seq(Event) /\ Len(E) \in Nat
  BY EventType, Fillers, LenProperties
<1>2. e.type = "start" /\ e.index = t.blockIndex /\ e.block = block
  BY DEF EventOf
<1>3. new[Len(E) + 1] = e /\ \A i \in 1..Len(E) : new[i] = E[i]
  <2> HIDE DEF e, E
  <2> QED BY <1>1, AppendProperties
<1> HIDE DEF e
<1>4. EventFits(new, Len(E) + 1)
  <2>1. CASE E = <<>>
    <3>1. Len(E) + 1 = 1 /\ t.blockIndex = 0
      BY <2>1 DEF BlocksDone
    <3>2. QED
      BY <1>2, <1>3, <3>1 DEF EventFits
  <2>2. CASE E # <<>>
    <3>1. /\ Len(E) \in 1..Len(E) /\ (Len(E) + 1) - 1 = Len(E) /\ Len(E) + 1 # 1
          /\ E[Len(E)].type = "stop" /\ t.blockIndex = E[Len(E)].index + 1
      BY <2>2, LastEvent DEF BlocksDone
    <3>2. new[Len(E)] = E[Len(E)]
      BY <1>3, <3>1
    <3> HIDE DEF new, E
    <3>3. QED
      BY <1>2, <1>3, <3>1, <3>2 DEF EventFits
  <2>3. QED
    BY <2>1, <2>2
<1>5. \A i \in DOMAIN E : EventFits(E, i)
  BY DEF BlocksDone, EventsFit
<1>6. (\A i \in DOMAIN new : EventFits(new, i)) /\ new # <<>> /\ new[Len(new)] = e
  <2> HIDE DEF E
  <2> QED BY <1>1, <1>4, <1>5, EventsFitMore
<1>7. r.events = new
  BY DEF e
<1>8. QED
  <2> HIDE DEF new
  <2> QED BY <1>2, <1>6, <1>7 DEF Inside, EventsFit

LEMMA DeltaNests ==
    ASSUME NEW t \in Reply, NEW r, NEW block \in {"text", "thinking", "tool_use"},
           NEW piece \in Piece, Inside(t, block), r.blockIndex = t.blockIndex,
           r.events = Append(t.events, EventOf(t, "delta", block, NoCall, piece))
    PROVE  Inside(r, block)
<1> DEFINE e == EventOf(t, "delta", block, NoCall, piece)
           E == t.events
           new == Append(E, e)
<1>1. e \in Event /\ E \in Seq(Event) /\ Len(E) \in Nat
  BY EventType, Fillers, LenProperties
<1>2. e.type = "delta" /\ e.index = t.blockIndex /\ e.block = block
  BY DEF EventOf
<1>3. new[Len(E) + 1] = e /\ \A i \in 1..Len(E) : new[i] = E[i]
  <2> HIDE DEF e, E
  <2> QED BY <1>1, AppendProperties
<1> HIDE DEF e
<1>4. EventFits(new, Len(E) + 1)
  <2>1. /\ Len(E) \in 1..Len(E) /\ (Len(E) + 1) - 1 = Len(E) /\ Len(E) + 1 > 1
        /\ E[Len(E)].type \in {"start", "delta"} /\ t.blockIndex = E[Len(E)].index
        /\ E[Len(E)].block = block
    BY LastEvent DEF Inside
  <2>2. new[Len(E)] = E[Len(E)]
    BY <1>3, <2>1
  <2> HIDE DEF new, E
  <2>3. QED
    BY <1>2, <1>3, <2>1, <2>2 DEF EventFits
<1>5. \A i \in DOMAIN E : EventFits(E, i)
  BY DEF Inside, EventsFit
<1>6. (\A i \in DOMAIN new : EventFits(new, i)) /\ new # <<>> /\ new[Len(new)] = e
  <2> HIDE DEF E
  <2> QED BY <1>1, <1>4, <1>5, EventsFitMore
<1>7. r.events = new
  BY DEF e
<1>8. QED
  <2> HIDE DEF new
  <2> QED BY <1>2, <1>6, <1>7 DEF Inside, EventsFit

LEMMA StopNests ==
    ASSUME NEW t \in Reply, NEW r, NEW block, Inside(t, block), r.blockIndex = t.blockIndex + 1,
           r.events = Append(t.events, EventOf(t, "stop", "none", NoCall, Filler))
    PROVE  BlocksDone(r)
<1> DEFINE e == EventOf(t, "stop", "none", NoCall, Filler)
           E == t.events
           new == Append(E, e)
<1>1. e \in Event /\ E \in Seq(Event) /\ Len(E) \in Nat
  BY EventType, Fillers, LenProperties
<1>2. e.type = "stop" /\ e.index = t.blockIndex
  BY DEF EventOf
<1>3. new[Len(E) + 1] = e /\ \A i \in 1..Len(E) : new[i] = E[i]
  <2> HIDE DEF e, E
  <2> QED BY <1>1, AppendProperties
<1> HIDE DEF e
<1>4. EventFits(new, Len(E) + 1)
  <2>1. /\ Len(E) \in 1..Len(E) /\ (Len(E) + 1) - 1 = Len(E) /\ Len(E) + 1 > 1
        /\ E[Len(E)].type \in {"start", "delta"} /\ t.blockIndex = E[Len(E)].index
    BY LastEvent DEF Inside
  <2>2. new[Len(E)] = E[Len(E)]
    BY <1>3, <2>1
  <2> HIDE DEF new, E
  <2>3. QED
    BY <1>2, <1>3, <2>1, <2>2 DEF EventFits
<1>5. \A i \in DOMAIN E : EventFits(E, i)
  BY DEF Inside, EventsFit
<1>6. (\A i \in DOMAIN new : EventFits(new, i)) /\ new # <<>> /\ new[Len(new)] = e
  <2> HIDE DEF E
  <2> QED BY <1>1, <1>4, <1>5, EventsFitMore
<1>7. r.events = new
  BY DEF e
<1>8. QED
  <2> HIDE DEF new
  <2> QED BY <1>2, <1>6, <1>7 DEF BlocksDone, EventsFit

LEMMA MessageStopNests ==
    ASSUME NEW t \in Reply, NEW r, BlocksDone(t),
           r.events = Append(t.events, EventOf(t, "message_stop", "none", NoCall, Filler))
    PROVE  Closed(r)
<1> DEFINE e == EventOf(t, "message_stop", "none", NoCall, Filler)
           E == t.events
           new == Append(E, e)
<1>1. e \in Event /\ E \in Seq(Event) /\ Len(E) \in Nat
  BY EventType, Fillers, LenProperties
<1>2. e.type = "message_stop"
  BY DEF EventOf
<1>3. new[Len(E) + 1] = e /\ \A i \in 1..Len(E) : new[i] = E[i]
  <2> HIDE DEF e, E
  <2> QED BY <1>1, AppendProperties
<1> HIDE DEF e
<1>4. EventFits(new, Len(E) + 1)
  <2>1. CASE E = <<>>
    <3>1. Len(E) + 1 = 1
      BY <2>1
    <3>2. QED
      BY <1>2, <1>3, <3>1 DEF EventFits
  <2>2. CASE E # <<>>
    <3>1. /\ Len(E) \in 1..Len(E) /\ (Len(E) + 1) - 1 = Len(E) /\ Len(E) + 1 # 1
          /\ E[Len(E)].type = "stop"
      BY <2>2, LastEvent DEF BlocksDone
    <3>2. new[Len(E)] = E[Len(E)]
      BY <1>3, <3>1
    <3> HIDE DEF new, E
    <3>3. QED
      BY <1>2, <1>3, <3>1, <3>2 DEF EventFits
  <2>3. QED
    BY <2>1, <2>2
<1>5. \A i \in DOMAIN E : EventFits(E, i)
  BY DEF BlocksDone, EventsFit
<1>6. (\A i \in DOMAIN new : EventFits(new, i)) /\ new # <<>> /\ new[Len(new)] = e
  <2> HIDE DEF E
  <2> QED BY <1>1, <1>4, <1>5, EventsFitMore
<1>7. r.events = new
  BY DEF e
<1>8. QED
  <2> HIDE DEF new
  <2> QED BY <1>2, <1>6, <1>7 DEF Closed, EventsFit

(* All of this is about events and the index only. *)
LEMMA SameNesting ==
    ASSUME NEW t, NEW r, r.events = t.events, r.blockIndex = t.blockIndex, BlocksDone(t)
    PROVE  BlocksDone(r)
<1>1. EventsFit(r)
  BY DEF EventsFit, BlocksDone
<1>2. QED
  BY <1>1 DEF BlocksDone

-----------------------------------------------------------------------------
(* What opens and closes blocks. *)

SameRest(r, t) == /\ r.blockIndex = t.blockIndex /\ r.events = t.events
                  /\ SameTools(r, t) /\ SameText(r, t)

LEMMA FlagsSet ==
    ASSUME NEW t \in Reply, NEW b \in BOOLEAN
    PROVE  /\ LET r == [t EXCEPT !.textOpen = b]
              IN  /\ r \in Reply /\ SameRest(r, t) /\ r.textOpen = b
                  /\ r.thinkingOpen = t.thinkingOpen /\ r.toolCalls = t.toolCalls
           /\ LET r == [t EXCEPT !.thinkingOpen = b]
              IN  /\ r \in Reply /\ SameRest(r, t) /\ r.thinkingOpen = b
                  /\ r.textOpen = t.textOpen /\ r.toolCalls = t.toolCalls
<1>1. [t EXCEPT !.textOpen = b] \in Reply /\ [t EXCEPT !.thinkingOpen = b] \in Reply
  BY DEF Reply
<1>2. QED
  BY <1>1 DEF Reply, SameRest, SameTools, SameText

LEMMA CallsSet ==
    ASSUME NEW t \in Reply, NEW S \in SUBSET Call
    PROVE  LET r == [t EXCEPT !.toolCalls = S]
           IN  /\ r \in Reply /\ SameRest(r, t) /\ r.toolCalls = S
               /\ r.textOpen = t.textOpen /\ r.thinkingOpen = t.thinkingOpen
<1>1. [t EXCEPT !.toolCalls = S] \in Reply
  BY DEF Reply
<1>2. QED
  BY <1>1 DEF Reply, SameRest, SameTools, SameText

LEMMA CloseTextDoes ==
    ASSUME NEW t \in Reply
    PROVE  LET r == CloseText(t)
           IN  /\ r \in Reply /\ ~r.textOpen
               /\ r.thinkingOpen = t.thinkingOpen /\ r.toolCalls = t.toolCalls
               /\ ~t.textOpen => r = t
               /\ t.textOpen => Stopped(r, t)
<1> DEFINE s == StopBlock(t)
           r == [s EXCEPT !.textOpen = FALSE]
<1>1. s \in Reply /\ SameFlags(s, t) /\ Stopped(s, t)
  BY StopDoes
<1> HIDE DEF s
<1>2. r \in Reply /\ SameRest(r, s) /\ ~r.textOpen /\ r.thinkingOpen = s.thinkingOpen
      /\ r.toolCalls = s.toolCalls
  BY <1>1, FlagsSet
<1>3. CloseText(t) = IF t.textOpen THEN r ELSE t
  BY DEF CloseText, s
<1> HIDE DEF r
<1>4. Stopped(r, t)
  BY <1>1, <1>2 DEF Stopped, SameRest, SameTools, SameText
<1>5. QED
  BY <1>1, <1>2, <1>3, <1>4 DEF SameFlags

LEMMA CloseThinkingDoes ==
    ASSUME NEW t \in Reply
    PROVE  LET r == CloseThinking(t)
           IN  /\ r \in Reply /\ ~r.thinkingOpen
               /\ r.textOpen = t.textOpen /\ r.toolCalls = t.toolCalls
               /\ ~t.thinkingOpen => r = t
               /\ t.thinkingOpen => Stopped(r, t)
<1> DEFINE s == StopBlock(t)
           r == [s EXCEPT !.thinkingOpen = FALSE]
<1>1. s \in Reply /\ SameFlags(s, t) /\ Stopped(s, t)
  BY StopDoes
<1> HIDE DEF s
<1>2. r \in Reply /\ SameRest(r, s) /\ ~r.thinkingOpen /\ r.textOpen = s.textOpen
      /\ r.toolCalls = s.toolCalls
  BY <1>1, FlagsSet
<1>3. CloseThinking(t) = IF t.thinkingOpen THEN r ELSE t
  BY DEF CloseThinking, s
<1> HIDE DEF r
<1>4. Stopped(r, t)
  BY <1>1, <1>2 DEF Stopped, SameRest, SameTools, SameText
<1>5. QED
  BY <1>1, <1>2, <1>3, <1>4 DEF SameFlags

LEMMA OpenTextDoes ==
    ASSUME NEW t \in Reply
    PROVE  LET r == OpenText(t)
           IN  /\ r \in Reply /\ r.textOpen /\ r.thinkingOpen = t.thinkingOpen
               /\ r.toolCalls = t.toolCalls
               /\ t.textOpen => r = t
               /\ ~t.textOpen =>
                     /\ r.blockIndex = t.blockIndex /\ SameTools(r, t)
                     /\ r.events = Append(t.events, EventOf(t, "start", "text", NoCall, Filler))
                     /\ r.currentText = <<>> /\ r.textContent = t.textContent
<1> DEFINE s == StartBlock(t, "text", NoCall)
           r == [s EXCEPT !.textOpen = TRUE]
<1>1. /\ s \in Reply /\ SameFlags(s, t) /\ SameTools(s, t) /\ s.blockIndex = t.blockIndex
      /\ s.events = Append(t.events, EventOf(t, "start", "text", NoCall, Filler))
      /\ s.currentText = <<>> /\ s.textContent = t.textContent
  BY StartTextDoes
<1> HIDE DEF s
<1>2. r \in Reply /\ SameRest(r, s) /\ r.textOpen /\ r.thinkingOpen = s.thinkingOpen
      /\ r.toolCalls = s.toolCalls
  BY <1>1, FlagsSet
<1>3. OpenText(t) = IF t.textOpen THEN t ELSE r
  BY DEF OpenText, s
<1> HIDE DEF r
<1>4. QED
  BY <1>1, <1>2, <1>3 DEF SameFlags, SameRest, SameTools, SameText

LEMMA OpenThinkingDoes ==
    ASSUME NEW t \in Reply
    PROVE  LET r == OpenThinking(t)  c == CloseText(t)
           IN  /\ r \in Reply /\ r.thinkingOpen /\ r.toolCalls = t.toolCalls
               /\ t.thinkingOpen => r = t
               /\ ~t.thinkingOpen =>
                     /\ ~r.textOpen /\ r.blockIndex = c.blockIndex
                     /\ SameTools(r, c) /\ SameText(r, c)
                     /\ r.events = Append(c.events, EventOf(c, "start", "thinking", NoCall, Filler))
<1> DEFINE c == CloseText(t)
           s == StartBlock(c, "thinking", NoCall)
           r == [s EXCEPT !.thinkingOpen = TRUE]
<1>1. c \in Reply /\ ~c.textOpen /\ c.toolCalls = t.toolCalls
  BY CloseTextDoes
<1> HIDE DEF c
<1>2. /\ s \in Reply /\ SameFlags(s, c) /\ SameTools(s, c) /\ SameText(s, c)
      /\ s.blockIndex = c.blockIndex
      /\ s.events = Append(c.events, EventOf(c, "start", "thinking", NoCall, Filler))
  BY <1>1, StartThinkingDoes
<1>3. OpenThinking(t) = IF t.thinkingOpen THEN t ELSE r
  BY DEF OpenThinking, s, c
<1> HIDE DEF s
<1>4. r \in Reply /\ SameRest(r, s) /\ r.thinkingOpen /\ r.textOpen = s.textOpen
      /\ r.toolCalls = s.toolCalls
  BY <1>2, FlagsSet
<1> HIDE DEF r
<1>5. QED
  BY <1>1, <1>2, <1>3, <1>4 DEF SameFlags, SameRest, SameTools, SameText, c

(* At most one call is open. *)
OneReply == {t \in Reply : Len(t.currentTool) <= 1}

LEMMA NoneOpen == ASSUME NEW t \in Reply, t.currentTool = <<>> PROVE t \in OneReply
  BY EmptySeq DEF OneReply

LEMMA OneOpen ==
    ASSUME NEW t \in Reply, NEW x, t.currentTool = <<x>>
    PROVE  t \in OneReply /\ Len(t.currentTool) = 1 /\ t.currentTool # <<>>
<1>1. Len(<<x>>) = 1 /\ Len(<<x>>) <= 1 /\ <<x>> # <<>>
  OBVIOUS
<1>2. QED
  BY <1>1, Zenon DEF OneReply

LEMMA BlocksKeepOne ==
    ASSUME NEW t \in OneReply
    PROVE  /\ CloseText(t) \in OneReply /\ CloseThinking(t) \in OneReply
           /\ OpenText(t) \in OneReply /\ OpenThinking(t) \in OneReply
           /\ StopBlock(t) \in OneReply /\ MessageStop(t) \in OneReply
           /\ \A n \in Piece : Delta(t, "text", n) \in OneReply /\ Delta(t, "thinking", n) \in OneReply
<1>1. t \in Reply /\ Len(t.currentTool) <= 1
  BY DEF OneReply
<1>2. CloseText(t) \in OneReply
  BY <1>1, CloseTextDoes, NoneOpen DEF OneReply, Stopped
<1>3. CloseThinking(t) \in OneReply
  BY <1>1, CloseThinkingDoes, NoneOpen DEF OneReply, Stopped
<1>4. OpenText(t) \in OneReply
  BY <1>1, OpenTextDoes DEF OneReply, SameTools
<1>5. OpenThinking(t) \in OneReply
  BY <1>1, <1>2, OpenThinkingDoes DEF OneReply, SameTools
<1>6. StopBlock(t) \in OneReply
  BY <1>1, StopDoes, NoneOpen DEF Stopped
<1>7. MessageStop(t) \in OneReply
  BY <1>1, MessageStopDoes DEF OneReply, SameTools
<1>8. ASSUME NEW n \in Piece
      PROVE  Delta(t, "text", n) \in OneReply /\ Delta(t, "thinking", n) \in OneReply
  BY <1>1, DeltaTextDoes, DeltaThinkingDoes DEF OneReply, SameTools
<1>9. QED
  BY <1>2, <1>3, <1>4, <1>5, <1>6, <1>7, <1>8

LEMMA FlagsKeepOne ==
    ASSUME NEW t \in OneReply, NEW S \in SUBSET Call
    PROVE  [t EXCEPT !.toolCalls = S] \in OneReply
  BY CallsSet DEF OneReply, SameRest, SameTools

Beginning(k) == <<[call |-> k, input |-> <<>>]>>

LEMMA OpenCallDoes ==
    ASSUME NEW t \in OneReply, NEW e \in Entry
    PROVE  LET r == OpenCall(t, e)
           IN  /\ r \in OneReply
               /\ r.textOpen = t.textOpen /\ r.thinkingOpen = t.thinkingOpen /\ SameText(r, t)
               /\ r.blockIndex = t.blockIndex /\ r.toolUses = t.toolUses
               /\ ~e.starts => r = t
               /\ e.starts =>
                     /\ r.toolCalls = t.toolCalls \cup {e.call}
                     /\ r.events = Append(t.events, EventOf(t, "start", "tool_use", e.call, Filler))
                     /\ r.currentTool = Beginning(e.call)
<1> DEFINE s == StartBlock(t, "tool_use", e.call)
           S == s.toolCalls \cup {e.call}
           r == [s EXCEPT !.toolCalls = S]
<1>1. t \in Reply /\ e.call \in Call /\ e.starts \in BOOLEAN
  BY DEF OneReply, Entry
<1>2. /\ s \in Reply /\ SameFlags(s, t) /\ SameText(s, t) /\ s.blockIndex = t.blockIndex
      /\ s.events = Append(t.events, EventOf(t, "start", "tool_use", e.call, Filler))
      /\ s.currentTool = Beginning(e.call) /\ s.toolUses = t.toolUses
  BY <1>1, StartCallDoes DEF Beginning
<1>3. OpenCall(t, e) = IF e.starts THEN r ELSE t
  BY DEF OpenCall
<1> HIDE DEF s
<1>4. S \in SUBSET Call /\ S = t.toolCalls \cup {e.call}
  <2>1. s.toolCalls \in SUBSET Call
    BY <1>2 DEF Reply
  <2>2. QED
    BY <1>1, <1>2, <2>1 DEF SameFlags
<1>5. r = [s EXCEPT !.toolCalls = S]
  OBVIOUS
<1> HIDE DEF S
<1>6. r \in Reply /\ SameRest(r, s) /\ r.textOpen = s.textOpen /\ r.thinkingOpen = s.thinkingOpen
      /\ r.toolCalls = S
  BY <1>2, <1>4, <1>5, CallsSet
<1> HIDE DEF r
<1>7. r.currentTool = Beginning(e.call)
  BY <1>2, <1>6 DEF SameRest, SameTools
<1>8. r \in OneReply
  BY <1>6, <1>7, OneOpen DEF Beginning
<1>9. QED
  BY <1>1, <1>2, <1>3, <1>4, <1>6, <1>8 DEF SameFlags, SameRest, SameTools, SameText

LEMMA DeltaCallKeepsOne ==
    ASSUME NEW t \in OneReply, NEW n \in Piece
    PROVE  Delta(t, "tool_use", n) \in OneReply
<1> DEFINE r == Delta(t, "tool_use", n)
           one == [call |-> t.currentTool[1].call, input |-> Append(t.currentTool[1].input, n)]
<1>1. r \in Reply /\ (r.currentTool = <<>> \/ r.currentTool = <<one>>)
  BY DeltaCallDoes DEF OneReply
<1> HIDE DEF r, one
<1>2. r \in OneReply
  BY <1>1, NoneOpen, OneOpen
<1>3. QED
  BY <1>2 DEF r

(* One entry of a chunk's calls, or more. *)
LEMMA ToolCallType ==
    ASSUME NEW t \in OneReply, NEW e \in Entry, NEW n \in Piece
    PROVE  ToolCall(t, e, n) \in OneReply
  BY BlocksKeepOne, OpenCallDoes, DeltaCallKeepsOne DEF ToolCall

LEMMA ToolCallRounds ==
    ASSUME NEW t \in OneReply, NEW entries \in Seq(Entry), NEW n \in Piece
    PROVE  \E f \in [0..Len(entries) -> OneReply] :
              /\ f[0] = t /\ \A k \in 1..Len(entries) : f[k] = ToolCall(f[k - 1], entries[k], n)
              /\ ToolCalls(t, entries, n) = f[Len(entries)]
<1> DEFINE N == Len(entries)
           F == [p \in OneReply \X (1..N) |-> ToolCall(p[1], entries[p[2]], n)]
           called == CHOOSE called : called = [k \in 0..N |->
                        IF k = 0 THEN t ELSE ToolCall(called[k - 1], entries[k], n)]
<1>1. N \in Nat /\ \A k \in 1..N : entries[k] \in Entry
  BY LenProperties, ElementOfSeq
<1>2. F \in [OneReply \X (1..N) -> OneReply]
  <2> HIDE DEF N
  <2> QED BY <1>1, ToolCallType
<1>3. PICK f \in [0..N -> OneReply] : Rounds(f, N, t, F)
  <2> HIDE DEF N, F
  <2> QED BY <1>1, <1>2, RoundsExist
<1>4. f[0] = t /\ \A k \in 1..N : f[k - 1] \in OneReply /\ f[k] = ToolCall(f[k - 1], entries[k], n)
  <2>1. f[0] = t
    <3> HIDE DEF F, N
    <3>1. 0 \in 0..N
      BY <1>1
    <3> QED BY <1>3, <3>1 DEF Rounds
  <2>2. ASSUME NEW k \in 1..N
        PROVE  f[k - 1] \in OneReply /\ f[k] = ToolCall(f[k - 1], entries[k], n)
    <3>1. k - 1 \in 0..N /\ k \in 0..N /\ k # 0
      BY <1>1
    <3>2. f[k - 1] \in OneReply
      BY <3>1
    <3>3. F[<<f[k - 1], k>>] = ToolCall(f[k - 1], entries[k], n)
      <4> HIDE DEF N
      <4> QED BY <3>2
    <3>4. f[k] = F[<<f[k - 1], k>>]
      <4> HIDE DEF F
      <4> QED BY <1>3, <3>1 DEF Rounds
    <3>5. QED
      BY <3>2, <3>3, <3>4
  <2>3. QED
    BY <2>1, <2>2
<1>5. f = [k \in 0..N |-> IF k = 0 THEN t ELSE ToolCall(f[k - 1], entries[k], n)]
  <2>1. \A k \in 0..N : k = 0 \/ k \in 1..N
    BY <1>1
  <2> HIDE DEF N, F
  <2>2. \A k \in 0..N : f[k] = IF k = 0 THEN t ELSE ToolCall(f[k - 1], entries[k], n)
    BY <1>4, <2>1
  <2>3. QED
    BY <2>2
<1>6. called = [k \in 0..N |-> IF k = 0 THEN t ELSE ToolCall(called[k - 1], entries[k], n)]
  <2> HIDE DEF N, F
  <2> QED BY <1>5
<1>7. ToolCalls(t, entries, n) = called[N]
  BY DEF ToolCalls
<1> HIDE DEF called
<1>8. called[0] = t /\ \A k \in 1..N : called[k] = ToolCall(called[k - 1], entries[k], n)
  <2> HIDE DEF N
  <2>1. 0 \in 0..N /\ \A k \in 1..N : k \in 0..N /\ k # 0
    BY <1>1
  <2> QED BY <1>6, <2>1
<1>9. \A k \in 0..N : called[k] \in OneReply
  <2> DEFINE S == {k \in 0..N : called[k] \in OneReply}
  <2> HIDE DEF N
  <2>1. 0 \in S
    BY <1>1, <1>8
  <2>2. ASSUME NEW k \in 0..(N - 1), k \in S PROVE k + 1 \in S
    <3>1. k + 1 \in 1..N /\ (k + 1) - 1 = k /\ k + 1 \in 0..N
      BY <1>1
    <3>2. called[k + 1] = ToolCall(called[k], entries[k + 1], n)
      BY <1>8, <3>1
    <3>3. QED
      BY <1>1, <2>2, <3>1, <3>2, ToolCallType
  <2>3. \A k \in 0..N : k \in S
    <3> HIDE DEF S
    <3> QED BY <1>1, <2>1, <2>2, Upwards
  <2>4. QED
    BY <2>3
<1>10. called \in [0..N -> OneReply]
  <2>1. called = [k \in 0..N |-> called[k]]
    BY <1>6
  <2>2. QED
    BY <1>9, <2>1
<1>11. QED
  BY <1>7, <1>8, <1>10

LEMMA ToolCallsType ==
    ASSUME NEW t \in OneReply, NEW entries \in Seq(Entry), NEW n \in Piece
    PROVE  /\ ToolCalls(t, entries, n) \in OneReply
           /\ entries = <<>> => ToolCalls(t, entries, n) = t
           /\ Len(entries) = 1 => ToolCalls(t, entries, n) = ToolCall(t, entries[1], n)
<1>1. PICK f \in [0..Len(entries) -> OneReply] :
         /\ f[0] = t /\ \A k \in 1..Len(entries) : f[k] = ToolCall(f[k - 1], entries[k], n)
         /\ ToolCalls(t, entries, n) = f[Len(entries)]
  BY ToolCallRounds
<1>2. Len(entries) \in Nat /\ Len(entries) \in 0..Len(entries)
  BY LenProperties
<1>3. Len(entries) = 1 => ToolCalls(t, entries, n) = ToolCall(t, entries[1], n)
  <2>1. ASSUME Len(entries) = 1 PROVE f[1] = ToolCall(f[1 - 1], entries[1], n)
    BY <1>1, <2>1
  <2>2. 1 - 1 = 0
    OBVIOUS
  <2>3. QED
    BY <1>1, <2>1, <2>2
<1>4. entries = <<>> => Len(entries) = 0
  BY EmptySeq
<1>5. QED
  BY <1>1, <1>2, <1>3, <1>4

(* The calls of an answer, closed one by one. *)
LEMMA StopRounds ==
    ASSUME NEW t \in OneReply, NEW N \in Nat
    PROVE  \E f \in [0..N -> OneReply] :
              /\ f[0] = t /\ \A k \in 1..N : f[k] = StopBlock(f[k - 1])
              /\ StopBlocks(t, N) = f[N]
<1> DEFINE F == [p \in OneReply \X (1..N) |-> StopBlock(p[1])]
           stopped == CHOOSE stopped : stopped = [k \in 0..N |->
                        IF k = 0 THEN t ELSE StopBlock(stopped[k - 1])]
<1>1. N \in Nat
  OBVIOUS
<1>2. F \in [OneReply \X (1..N) -> OneReply]
  <2> QED BY <1>1, BlocksKeepOne
<1>3. PICK f \in [0..N -> OneReply] : Rounds(f, N, t, F)
  <2> HIDE DEF F
  <2> QED BY <1>1, <1>2, RoundsExist
<1>4. f[0] = t /\ \A k \in 1..N : f[k - 1] \in OneReply /\ f[k] = StopBlock(f[k - 1])
  <2>1. f[0] = t
    <3> HIDE DEF F
    <3>1. 0 \in 0..N
      BY <1>1
    <3> QED BY <1>3, <3>1 DEF Rounds
  <2>2. ASSUME NEW k \in 1..N
        PROVE  f[k - 1] \in OneReply /\ f[k] = StopBlock(f[k - 1])
    <3>1. k - 1 \in 0..N /\ k \in 0..N /\ k # 0
      BY <1>1
    <3>2. f[k - 1] \in OneReply
      BY <3>1
    <3>3. F[<<f[k - 1], k>>] = StopBlock(f[k - 1])
      <4> QED BY <3>2
    <3>4. f[k] = F[<<f[k - 1], k>>]
      <4> HIDE DEF F
      <4> QED BY <1>3, <3>1 DEF Rounds
    <3>5. QED
      BY <3>2, <3>3, <3>4
  <2>3. QED
    BY <2>1, <2>2
<1>5. f = [k \in 0..N |-> IF k = 0 THEN t ELSE StopBlock(f[k - 1])]
  <2>1. \A k \in 0..N : k = 0 \/ k \in 1..N
    BY <1>1
  <2> HIDE DEF F
  <2>2. \A k \in 0..N : f[k] = IF k = 0 THEN t ELSE StopBlock(f[k - 1])
    BY <1>4, <2>1
  <2>3. QED
    BY <2>2
<1>6. stopped = [k \in 0..N |-> IF k = 0 THEN t ELSE StopBlock(stopped[k - 1])]
  <2> HIDE DEF F
  <2> QED BY <1>5
<1>7. StopBlocks(t, N) = stopped[N]
  BY DEF StopBlocks
<1> HIDE DEF stopped
<1>8. stopped[0] = t /\ \A k \in 1..N : stopped[k] = StopBlock(stopped[k - 1])
  <2>1. 0 \in 0..N /\ \A k \in 1..N : k \in 0..N /\ k # 0
    BY <1>1
  <2> QED BY <1>6, <2>1
<1>9. \A k \in 0..N : stopped[k] \in OneReply
  <2> DEFINE S == {k \in 0..N : stopped[k] \in OneReply}
  <2>1. 0 \in S
    BY <1>1, <1>8
  <2>2. ASSUME NEW k \in 0..(N - 1), k \in S PROVE k + 1 \in S
    <3>1. k + 1 \in 1..N /\ (k + 1) - 1 = k /\ k + 1 \in 0..N
      BY <1>1
    <3>2. stopped[k + 1] = StopBlock(stopped[k])
      BY <1>8, <3>1
    <3>3. QED
      BY <1>1, <2>2, <3>1, <3>2, BlocksKeepOne
  <2>3. \A k \in 0..N : k \in S
    <3> HIDE DEF S
    <3> QED BY <1>1, <2>1, <2>2, Upwards
  <2>4. QED
    BY <2>3
<1>10. stopped \in [0..N -> OneReply]
  <2>1. stopped = [k \in 0..N |-> stopped[k]]
    BY <1>6
  <2>2. QED
    BY <1>9, <2>1
<1>11. QED
  BY <1>7, <1>8, <1>10

LEMMA StopBlocksType ==
    ASSUME NEW t \in OneReply, NEW N \in Nat
    PROVE  /\ StopBlocks(t, N) \in OneReply
           /\ N = 0 => StopBlocks(t, N) = t
           /\ N = 1 => StopBlocks(t, N) = StopBlock(t)
<1>1. PICK f \in [0..N -> OneReply] :
         /\ f[0] = t /\ \A k \in 1..N : f[k] = StopBlock(f[k - 1])
         /\ StopBlocks(t, N) = f[N]
  BY StopRounds
<1>2. N \in 0..N
  OBVIOUS
<1>3. N = 1 => StopBlocks(t, N) = StopBlock(t)
  <2>1. ASSUME N = 1 PROVE f[1] = StopBlock(f[1 - 1])
    BY <1>1, <2>1
  <2>2. 1 - 1 = 0
    OBVIOUS
  <2>3. QED
    BY <1>1, <2>1, <2>2
<1>4. QED
  BY <1>1, <1>2, <1>3

LEMMA CallsNumber ==
    ASSUME NEW S \in SUBSET Call
    PROVE  /\ Cardinality(S) \in Nat
           /\ S = {} => Cardinality(S) = 0
           /\ S = {1} => Cardinality(S) = 1
<1>1. IsFiniteSet(Call)
  BY BoundsAssumption, FS_Interval DEF Call
<1>2. IsFiniteSet(S)
  BY <1>1, FS_Subset
<1>3. QED
  BY <1>2, FS_CardinalityType, FS_EmptySet, FS_Singleton

LEMMA FinishType == ASSUME NEW t \in OneReply PROVE Finish(t) \in OneReply
<1> DEFINE open == CloseText(CloseThinking(t))
           number == Cardinality(t.toolCalls)
           closed == StopBlocks(open, number)
<1>1. open \in OneReply
  BY BlocksKeepOne
<1>2. number \in Nat
  <2>1. t.toolCalls \in SUBSET Call
    BY DEF OneReply, Reply
  <2>2. QED
    BY <2>1, CallsNumber
<1> HIDE DEF open, number
<1>3. closed \in OneReply
  BY <1>1, <1>2, StopBlocksType
<1> HIDE DEF closed
<1>4. MessageStop([closed EXCEPT !.toolCalls = {}]) \in OneReply
  BY <1>3, FlagsKeepOne, BlocksKeepOne
<1>5. QED
  BY <1>4 DEF Finish, open, number, closed

LEMMA ReasoningType ==
    ASSUME NEW t \in OneReply, NEW n \in Piece PROVE Reasoning(t, n) \in OneReply
  BY BlocksKeepOne DEF Reasoning

LEMMA TextType == ASSUME NEW t \in OneReply, NEW n \in Piece PROVE Text(t, n) \in OneReply
  BY BlocksKeepOne DEF Text

LEMMA TranslateType ==
    ASSUME NEW t \in OneReply, NEW chunk \in Chunk, NEW n \in Piece
    PROVE  Translate(t, chunk, n) \in OneReply
<1> DEFINE reasoned == IF chunk.reasoning THEN Reasoning(t, n) ELSE t
           written == IF chunk.text THEN Text(reasoned, n) ELSE reasoned
           called == ToolCalls(written, chunk.tools, n)
<1>1. reasoned \in OneReply
  BY ReasoningType
<1>2. written \in OneReply
  <2> HIDE DEF reasoned
  <2> QED BY <1>1, TextType
<1>3. chunk.tools \in Seq(Entry)
  BY DEF Chunk
<1>4. called \in OneReply
  <2> HIDE DEF written
  <2> QED BY <1>2, <1>3, ToolCallsType
<1>5. (IF chunk.finish THEN Finish(called) ELSE called) \in OneReply
  <2> HIDE DEF called
  <2> QED BY <1>4, FinishType
<1>6. QED
  BY <1>5 DEF Translate

LEMMA EndUnfinishedType == ASSUME NEW t \in OneReply PROVE EndUnfinished(t) \in OneReply
<1> DEFINE closed == CloseThinking(t)
           begun == StartBlock(closed, "text", NoCall)
<1>1. closed \in OneReply
  BY BlocksKeepOne
<1>2. begun \in OneReply
  <2> HIDE DEF closed
  <2>1. closed \in Reply
    BY <1>1 DEF OneReply
  <2>2. QED
    BY <1>1, <2>1, StartTextDoes DEF OneReply, SameTools
<1>3. StopBlock(Delta(begun, "text", Filler)) \in OneReply /\ CloseText(closed) \in OneReply
  <2> HIDE DEF begun, closed
  <2> QED BY <1>1, <1>2, BlocksKeepOne, Fillers
<1>4. QED
  BY <1>3, BlocksKeepOne DEF EndUnfinished

-----------------------------------------------------------------------------
(* The calls of Gemini. *)

LEMMA GeminiCallType ==
    ASSUME NEW t \in OneReply, NEW e \in Entry, NEW n \in Piece
    PROVE  GeminiCall(t, e, n) \in OneReply
<1> DEFINE c == CloseText(t)
           s == StartBlock(c, "tool_use", e.call)
<1>1. c \in OneReply /\ e.call \in Call
  BY BlocksKeepOne DEF Entry
<1>2. s \in Reply /\ s.currentTool = <<[call |-> e.call, input |-> <<>>]>>
  <2> HIDE DEF c
  <2>1. c \in Reply
    BY <1>1 DEF OneReply
  <2>2. QED
    BY <1>1, <2>1, StartCallDoes
<1>3. s \in OneReply
  <2> HIDE DEF s
  <2> QED BY <1>2, OneOpen
<1>4. StopBlock(Delta(s, "tool_use", n)) \in OneReply
  <2> HIDE DEF s
  <2> QED BY <1>3, DeltaCallKeepsOne, BlocksKeepOne
<1>5. QED
  BY <1>4 DEF GeminiCall

LEMMA GeminiCallRounds ==
    ASSUME NEW t \in OneReply, NEW entries \in Seq(Entry), NEW n \in Piece
    PROVE  \E f \in [0..Len(entries) -> OneReply] :
              /\ f[0] = t /\ \A k \in 1..Len(entries) : f[k] = GeminiCall(f[k - 1], entries[k], n)
              /\ GeminiCalls(t, entries, n) = f[Len(entries)]
<1> DEFINE N == Len(entries)
           F == [p \in OneReply \X (1..N) |-> GeminiCall(p[1], entries[p[2]], n)]
           called == CHOOSE called : called = [k \in 0..N |->
                        IF k = 0 THEN t ELSE GeminiCall(called[k - 1], entries[k], n)]
<1>1. N \in Nat /\ \A k \in 1..N : entries[k] \in Entry
  BY LenProperties, ElementOfSeq
<1>2. F \in [OneReply \X (1..N) -> OneReply]
  <2> HIDE DEF N
  <2> QED BY <1>1, GeminiCallType
<1>3. PICK f \in [0..N -> OneReply] : Rounds(f, N, t, F)
  <2> HIDE DEF N, F
  <2> QED BY <1>1, <1>2, RoundsExist
<1>4. f[0] = t /\ \A k \in 1..N : f[k - 1] \in OneReply /\ f[k] = GeminiCall(f[k - 1], entries[k], n)
  <2>1. f[0] = t
    <3> HIDE DEF F, N
    <3>1. 0 \in 0..N
      BY <1>1
    <3> QED BY <1>3, <3>1 DEF Rounds
  <2>2. ASSUME NEW k \in 1..N
        PROVE  f[k - 1] \in OneReply /\ f[k] = GeminiCall(f[k - 1], entries[k], n)
    <3>1. k - 1 \in 0..N /\ k \in 0..N /\ k # 0
      BY <1>1
    <3>2. f[k - 1] \in OneReply
      BY <3>1
    <3>3. F[<<f[k - 1], k>>] = GeminiCall(f[k - 1], entries[k], n)
      <4> HIDE DEF N
      <4> QED BY <3>2
    <3>4. f[k] = F[<<f[k - 1], k>>]
      <4> HIDE DEF F
      <4> QED BY <1>3, <3>1 DEF Rounds
    <3>5. QED
      BY <3>2, <3>3, <3>4
  <2>3. QED
    BY <2>1, <2>2
<1>5. f = [k \in 0..N |-> IF k = 0 THEN t ELSE GeminiCall(f[k - 1], entries[k], n)]
  <2>1. \A k \in 0..N : k = 0 \/ k \in 1..N
    BY <1>1
  <2> HIDE DEF N, F
  <2>2. \A k \in 0..N : f[k] = IF k = 0 THEN t ELSE GeminiCall(f[k - 1], entries[k], n)
    BY <1>4, <2>1
  <2>3. QED
    BY <2>2
<1>6. called = [k \in 0..N |-> IF k = 0 THEN t ELSE GeminiCall(called[k - 1], entries[k], n)]
  <2> HIDE DEF N, F
  <2> QED BY <1>5
<1>7. GeminiCalls(t, entries, n) = called[N]
  BY DEF GeminiCalls
<1> HIDE DEF called
<1>8. called[0] = t /\ \A k \in 1..N : called[k] = GeminiCall(called[k - 1], entries[k], n)
  <2> HIDE DEF N
  <2>1. 0 \in 0..N /\ \A k \in 1..N : k \in 0..N /\ k # 0
    BY <1>1
  <2> QED BY <1>6, <2>1
<1>9. \A k \in 0..N : called[k] \in OneReply
  <2> DEFINE S == {k \in 0..N : called[k] \in OneReply}
  <2> HIDE DEF N
  <2>1. 0 \in S
    BY <1>1, <1>8
  <2>2. ASSUME NEW k \in 0..(N - 1), k \in S PROVE k + 1 \in S
    <3>1. k + 1 \in 1..N /\ (k + 1) - 1 = k /\ k + 1 \in 0..N
      BY <1>1
    <3>2. called[k + 1] = GeminiCall(called[k], entries[k + 1], n)
      BY <1>8, <3>1
    <3>3. QED
      BY <1>1, <2>2, <3>1, <3>2, GeminiCallType
  <2>3. \A k \in 0..N : k \in S
    <3> HIDE DEF S
    <3> QED BY <1>1, <2>1, <2>2, Upwards
  <2>4. QED
    BY <2>3
<1>10. called \in [0..N -> OneReply]
  <2>1. called = [k \in 0..N |-> called[k]]
    BY <1>6
  <2>2. QED
    BY <1>9, <2>1
<1>11. QED
  BY <1>7, <1>8, <1>10

WholeUse(k, n) == [call |-> k, input |-> <<n>>]

(* A text that is closed is behind the texts before it. *)
LEMMA GeminiCloseText ==
    ASSUME NEW t \in Reply, NEW T, GeminiText(t, T)
    PROVE  LET r == CloseText(t)
           IN  r \in Reply /\ ~r.textOpen /\ GeminiText(r, T) /\ BlocksDone(r)
               /\ r.toolUses = t.toolUses
<1> DEFINE r == CloseText(t)
<1>1. /\ r \in Reply /\ ~r.textOpen /\ r.thinkingOpen = t.thinkingOpen
      /\ ~t.textOpen => r = t
      /\ t.textOpen => Stopped(r, t)
  BY CloseTextDoes
<1> HIDE DEF r
<1>2. CASE ~t.textOpen
  BY <1>1, <1>2 DEF GeminiText, r
<1>3. CASE t.textOpen
  <2>1. /\ r.blockIndex = t.blockIndex + 1 /\ r.currentTool = <<>> /\ r.toolUses = t.toolUses
        /\ r.events = Append(t.events, EventOf(t, "stop", "none", NoCall, Filler))
        /\ r.textContent = t.textContent \o t.currentText
    BY <1>1, <1>3 DEF GeminiText, Stopped
  <2>2. Inside(t, "text") /\ InOrder(t.textContent \o t.currentText, T) /\ ~t.thinkingOpen
    BY <1>3 DEF GeminiText
  <2>3. BlocksDone(r)
    BY <2>1, <2>2, StopNests
  <2>4. QED
    BY <1>1, <2>1, <2>2, <2>3 DEF GeminiText, r
<1>4. QED
  BY <1>2, <1>3

LEMMA GeminiCallDoes ==
    ASSUME NEW t \in OneReply, NEW T, GeminiText(t, T), NEW e \in Entry, NEW n \in Piece
    PROVE  /\ GeminiText(GeminiCall(t, e, n), T)
           /\ GeminiCall(t, e, n).toolUses = Append(t.toolUses, WholeUse(e.call, n))
<1> DEFINE c == CloseText(t)
           s == StartBlock(c, "tool_use", e.call)
           d == Delta(s, "tool_use", n)
           r == StopBlock(d)
<1>1. t \in Reply /\ e.call \in Call
  BY DEF OneReply, Entry
<1>2. c \in Reply /\ ~c.textOpen /\ GeminiText(c, T) /\ BlocksDone(c) /\ c.toolUses = t.toolUses
  BY <1>1, GeminiCloseText
<1> HIDE DEF c
<1>3. InOrder(c.textContent, T) /\ ~c.thinkingOpen
  BY <1>2 DEF GeminiText
<1>4. /\ s \in Reply /\ SameFlags(s, c) /\ SameText(s, c) /\ s.blockIndex = c.blockIndex
      /\ s.events = Append(c.events, EventOf(c, "start", "tool_use", e.call, Filler))
      /\ s.currentTool = <<[call |-> e.call, input |-> <<>>]>> /\ s.toolUses = c.toolUses
  BY <1>1, <1>2, StartCallDoes
<1>5. Inside(s, "tool_use")
  <2> HIDE DEF s
  <2>1. e.call \in Call \cup {NoCall}
    BY <1>1
  <2> QED BY <1>2, <1>4, <2>1, StartNests
<1> HIDE DEF s
<1>6. s \in OneReply /\ s.currentTool # <<>>
  BY <1>4, OneOpen
<1>7. /\ d \in Reply /\ SameFlags(d, s) /\ SameText(d, s)
      /\ d.blockIndex = s.blockIndex /\ d.toolUses = s.toolUses
      /\ d.events = Append(s.events, EventOf(s, "delta", "tool_use", NoCall, n))
      /\ d.currentTool = <<[call |-> s.currentTool[1].call,
                            input |-> Append(s.currentTool[1].input, n)]>>
  BY <1>6, DeltaCallDoes DEF OneReply
<1> HIDE DEF d
<1>8. d.currentTool = <<WholeUse(e.call, n)>>
  <2>1. s.currentTool[1].call = e.call /\ s.currentTool[1].input = <<>>
    BY <1>4
  <2>2. Append(<<>>, n) = <<n>>
    OBVIOUS
  <2>3. QED
    BY <1>7, <2>1, <2>2 DEF WholeUse
<1>9. Inside(d, "tool_use")
  BY <1>4, <1>5, <1>7, DeltaNests
<1>10. d.currentTool # <<>>
  BY <1>7, <1>8, OneOpen
<1>11. /\ r \in Reply /\ SameFlags(r, d) /\ r.currentTool = <<>>
       /\ r.blockIndex = d.blockIndex + 1
       /\ r.events = Append(d.events, EventOf(d, "stop", "none", NoCall, Filler))
       /\ r.toolUses = d.toolUses \o d.currentTool /\ r.textContent = d.textContent
  BY <1>7, <1>10, StopDoes DEF Stopped
<1> HIDE DEF r
<1>12. BlocksDone(r)
  BY <1>7, <1>9, <1>11, StopNests
<1>13. r.toolUses = Append(t.toolUses, WholeUse(e.call, n))
  <2>1. t.toolUses \in Seq(ToolUse) /\ r.toolUses = t.toolUses \o <<WholeUse(e.call, n)>>
    BY <1>1, <1>2, <1>4, <1>7, <1>8, <1>11 DEF Reply
  <2>2. WholeUse(e.call, n) \in ToolUse
    BY <1>1 DEF WholeUse, ToolUse
  <2> HIDE DEF r
  <2>3. QED
    BY <2>1, <2>2, AppendIsConcat
<1>14. GeminiText(r, T)
  BY <1>2, <1>3, <1>4, <1>7, <1>11, <1>12 DEF GeminiText, SameFlags, SameText
<1>15. QED
  BY <1>13, <1>14 DEF GeminiCall, r, d, s, c

LEMMA GeminiCallsDo ==
    ASSUME NEW t \in OneReply, NEW T, GeminiText(t, T), NEW entries \in Seq(Entry), NEW n \in Piece
    PROVE  LET r == GeminiCalls(t, entries, n)
               L == Len(t.toolUses)
           IN  /\ r \in OneReply /\ GeminiText(r, T)
               /\ Len(r.toolUses) = L + Len(entries)
               /\ \A i \in 1..L : r.toolUses[i] = t.toolUses[i]
               /\ \A i \in 1..Len(entries) : r.toolUses[L + i] = WholeUse(entries[i].call, n)
<1> DEFINE N == Len(entries)
           L == Len(t.toolUses)
<1>1. N \in Nat /\ \A k \in 1..N : entries[k] \in Entry
  BY LenProperties, ElementOfSeq
<1>2. L \in Nat
  BY LenProperties DEF OneReply, Reply
<1>3. PICK f \in [0..N -> OneReply] :
         /\ f[0] = t /\ \A k \in 1..N : f[k] = GeminiCall(f[k - 1], entries[k], n)
         /\ GeminiCalls(t, entries, n) = f[N]
  BY GeminiCallRounds
<1> DEFINE Good(k) ==
              /\ GeminiText(f[k], T) /\ Len(f[k].toolUses) = L + k
              /\ \A i \in 1..L : f[k].toolUses[i] = t.toolUses[i]
              /\ \A i \in 1..k : f[k].toolUses[L + i] = WholeUse(entries[i].call, n)
           S == {k \in 0..N : Good(k)}
<1>4. 0 \in S
  <2>1. Good(0)
    BY <1>2, <1>3
  <2>2. QED
    BY <1>1, <2>1
<1>5. ASSUME NEW k \in 0..(N - 1), k \in S PROVE k + 1 \in S
  <2>1. k + 1 \in 1..N /\ (k + 1) - 1 = k /\ k \in 0..N /\ k + 1 \in 0..N /\ k \in Nat
    BY <1>1
  <2> DEFINE old == f[k]
             new == f[k + 1]
             u == WholeUse(entries[k + 1].call, n)
  <2>2. old \in OneReply /\ entries[k + 1] \in Entry /\ new = GeminiCall(old, entries[k + 1], n)
    BY <1>1, <1>3, <2>1
  <2>3. GeminiText(old, T) /\ Len(old.toolUses) = L + k
    BY <1>5
  <2>4. GeminiText(new, T) /\ new.toolUses = Append(old.toolUses, u)
    BY <2>2, <2>3, GeminiCallDoes
  <2>5. old.toolUses \in Seq(ToolUse) /\ u \in ToolUse
    BY <2>2 DEF OneReply, Reply, WholeUse, ToolUse, Entry
  <2>6. /\ Len(new.toolUses) = (L + k) + 1 /\ new.toolUses[(L + k) + 1] = u
        /\ \A i \in 1..(L + k) : new.toolUses[i] = old.toolUses[i]
    <3> HIDE DEF old, new, u, L
    <3> QED BY <2>3, <2>4, <2>5, AppendProperties
  <2>7. /\ \A i \in 1..L : old.toolUses[i] = t.toolUses[i]
        /\ \A i \in 1..k : old.toolUses[L + i] = WholeUse(entries[i].call, n)
    BY <1>5
  <2>8. \A i \in 1..L : new.toolUses[i] = t.toolUses[i]
    <3> HIDE DEF old, new, L
    <3> QED BY <1>2, <2>1, <2>6, <2>7
  <2>9. ASSUME NEW i \in 1..(k + 1) PROVE new.toolUses[L + i] = WholeUse(entries[i].call, n)
    <3> HIDE DEF old, new, L
    <3>1. CASE i = k + 1
      <4>1. L + i = (L + k) + 1
        BY <1>2, <2>1, <3>1
      <4>2. QED
        BY <2>6, <3>1, <4>1
    <3>2. CASE i # k + 1
      <4>1. i \in 1..k /\ L + i \in 1..(L + k)
        BY <1>2, <2>1, <3>2
      <4>2. QED
        BY <2>6, <2>7, <4>1
    <3>3. QED
      BY <3>1, <3>2
  <2>10. Len(new.toolUses) = L + (k + 1)
    <3> HIDE DEF old, new, L
    <3> QED BY <1>2, <2>1, <2>6
  <2>11. QED
    BY <2>1, <2>4, <2>8, <2>9, <2>10
<1>6. \A k \in 0..N : k \in S
  <2> HIDE DEF S
  <2> QED BY <1>1, <1>4, <1>5, Upwards
<1>7. N \in 0..N
  BY <1>1
<1>8. Good(N) /\ f[N] \in OneReply
  BY <1>3, <1>6, <1>7
<1>9. QED
  BY <1>3, <1>8

-----------------------------------------------------------------------------
(* The answer of an OpenAI-compatible provider. *)

LEMMA ReplySeqs ==
    ASSUME NEW t \in Reply
    PROVE  /\ t.currentText \in Seq(Piece) /\ t.textContent \in Seq(Piece)
           /\ t.currentTool \in Seq(ToolUse) /\ t.toolUses \in Seq(ToolUse)
           /\ t.blockIndex \in Nat /\ t.textOpen \in BOOLEAN /\ t.thinkingOpen \in BOOLEAN
           /\ t.toolCalls \in SUBSET Call
  BY DEF Reply

LEMMA NothingBefore == ASSUME NEW T, NEW s \in Seq(T) PROVE <<>> \o s = s /\ s \o <<>> = s
  BY ConcatEmptySeq

LEMMA NotEmpty == ASSUME NEW T, NEW s \in Seq(T), Len(s) = 1 PROVE s # <<>>
<1>1. Len(<<>>) = 0
  OBVIOUS
<1>2. s = <<>> => Len(s) = 0
  BY <1>1
<1>3. QED
  BY <1>2

LEMMA ReasoningNoCall ==
    ASSUME NEW t \in OneReply, NEW T, NEW first \in BOOLEAN, NoCallYet(t, T, first),
           first => T = {}, NEW n \in Piece
    PROVE  NoCallYet(Reasoning(t, n), T, first)
<1> DEFINE c == CloseText(t)
           o == OpenThinking(t)
           r == Delta(o, "thinking", n)
<1>1. t \in Reply
  BY DEF OneReply
<1>2. /\ c \in Reply /\ ~c.textOpen /\ c.toolCalls = t.toolCalls
      /\ ~t.textOpen => c = t
      /\ t.textOpen => Stopped(c, t)
  BY <1>1, CloseTextDoes
<1>3. /\ o \in Reply /\ o.thinkingOpen /\ o.toolCalls = t.toolCalls
      /\ t.thinkingOpen => o = t
      /\ ~t.thinkingOpen =>
            /\ ~o.textOpen /\ o.blockIndex = c.blockIndex
            /\ SameTools(o, c) /\ SameText(o, c)
            /\ o.events = Append(c.events, EventOf(c, "start", "thinking", NoCall, Filler))
  BY <1>1, OpenThinkingDoes
<1> HIDE DEF o, c
<1>4. o.currentTool = <<>> /\ o.toolUses = <<>> /\ o.toolCalls = {} /\ ~o.textOpen
      /\ (first => o.textContent = <<>> /\ o.currentText = <<>>)
  BY <1>2, <1>3 DEF NoCallYet, Stopped, SameTools, SameText
<1>5. Inside(o, "thinking")
  <2>1. CASE t.thinkingOpen
    BY <1>3, <2>1 DEF NoCallYet
  <2>2. CASE ~t.thinkingOpen
    <3>1. BlocksDone(c)
      <4>1. CASE t.textOpen
        BY <1>1, <1>2, <4>1, StopNests DEF NoCallYet, Stopped
      <4>2. CASE ~t.textOpen
        BY <1>2, <2>2, <4>2 DEF NoCallYet
      <4>3. QED
        BY <4>1, <4>2
    <3>2. QED
      BY <1>2, <1>3, <2>2, <3>1, StartNests
  <2>3. QED
    BY <2>1, <2>2
<1>6. /\ r \in Reply /\ SameFlags(r, o) /\ SameTools(r, o) /\ SameText(r, o)
      /\ r.blockIndex = o.blockIndex
      /\ r.events = Append(o.events, EventOf(o, "delta", "thinking", NoCall, n))
  BY <1>3, DeltaThinkingDoes
<1> HIDE DEF r
<1>7. Inside(r, "thinking")
  BY <1>3, <1>5, <1>6, DeltaNests
<1>8. NoCallYet(r, T, first)
  BY <1>3, <1>4, <1>6, <1>7 DEF NoCallYet, SameFlags, SameTools, SameText
<1>9. QED
  BY <1>8 DEF Reasoning, r, o

LEMMA TextNoCall ==
    ASSUME NEW t \in OneReply, NEW T, NEW first \in BOOLEAN, NoCallYet(t, T, first),
           NEW n \in Piece, T \subseteq 0..(n - 1)
    PROVE  NoCallYet(Text(t, n), T \cup {n}, first)
<1> DEFINE c == CloseThinking(t)
           o == OpenText(c)
           r == Delta(o, "text", n)
<1>1. t \in Reply
  BY DEF OneReply
<1>2. /\ c \in Reply /\ ~c.thinkingOpen /\ c.textOpen = t.textOpen /\ c.toolCalls = t.toolCalls
      /\ ~t.thinkingOpen => c = t
      /\ t.thinkingOpen => Stopped(c, t)
  BY <1>1, CloseThinkingDoes
<1> HIDE DEF c
<1>3. /\ c.currentTool = <<>> /\ c.toolUses = <<>> /\ c.toolCalls = {}
      /\ c.currentText = t.currentText
  BY <1>2 DEF NoCallYet, Stopped
<1>4. first => c.textContent = <<>>
  <2>1. CASE t.thinkingOpen
    <3>1. c.textContent = t.textContent \o t.currentText
      BY <1>2, <2>1 DEF NoCallYet, Stopped
    <3>2. first => t.textContent = <<>> /\ t.currentText = <<>>
      BY <2>1 DEF NoCallYet
    <3>3. <<>> \o <<>> = <<>>
      OBVIOUS
    <3>4. QED
      BY <3>1, <3>2, <3>3
  <2>2. CASE ~t.thinkingOpen
    BY <1>2, <2>2 DEF NoCallYet
  <2>3. QED
    BY <2>1, <2>2
<1>5. IF c.textOpen THEN Inside(c, "text") ELSE BlocksDone(c)
  <2>1. CASE t.thinkingOpen
    BY <1>1, <1>2, <2>1, StopNests DEF NoCallYet, Stopped
  <2>2. CASE ~t.thinkingOpen
    BY <1>2, <2>2 DEF NoCallYet
  <2>3. QED
    BY <2>1, <2>2
<1>6. /\ o \in Reply /\ o.textOpen /\ o.thinkingOpen = c.thinkingOpen /\ o.toolCalls = c.toolCalls
      /\ c.textOpen => o = c
      /\ ~c.textOpen => /\ o.blockIndex = c.blockIndex /\ SameTools(o, c)
                        /\ o.events = Append(c.events, EventOf(c, "start", "text", NoCall, Filler))
                        /\ o.currentText = <<>> /\ o.textContent = c.textContent
  BY <1>2, OpenTextDoes
<1> HIDE DEF o
<1>7. o.currentTool = <<>> /\ o.toolUses = <<>> /\ (first => o.textContent = <<>>)
  BY <1>3, <1>4, <1>6 DEF SameTools
<1>8. first => InOrder(o.currentText, T)
  BY <1>2, <1>3, <1>6, InOrderNone DEF NoCallYet
<1>9. Inside(o, "text")
  <2>1. CASE c.textOpen
    BY <1>5, <1>6, <2>1
  <2>2. CASE ~c.textOpen
    BY <1>2, <1>5, <1>6, <2>2, StartNests
  <2>3. QED
    BY <2>1, <2>2
<1>10. /\ r \in Reply /\ SameFlags(r, o) /\ SameTools(r, o)
       /\ r.blockIndex = o.blockIndex
       /\ r.events = Append(o.events, EventOf(o, "delta", "text", NoCall, n))
       /\ r.currentText = Append(o.currentText, n) /\ r.textContent = o.textContent
  BY <1>6, DeltaTextDoes
<1> HIDE DEF r
<1>11. Inside(r, "text")
  BY <1>6, <1>9, <1>10, DeltaNests
<1>12. first => InOrder(r.currentText, T \cup {n})
  BY <1>6, <1>8, <1>10, ReplySeqs, InOrderMore
<1>13. NoCallYet(r, T \cup {n}, first)
  BY <1>2, <1>3, <1>6, <1>7, <1>10, <1>11, <1>12 DEF NoCallYet, SameFlags, SameTools
<1>14. QED
  BY <1>13 DEF Text, r, o, c

(* The first entry: the text is handed over, and the call is open. *)
LEMMA CallBegins ==
    ASSUME NEW t \in OneReply, NEW T, NEW first \in BOOLEAN, NoCallYet(t, T, first),
           NEW e \in Entry, e.call = 1, e.starts, NEW n \in Piece
    PROVE  OneCallOpen(ToolCall(t, e, n), T, IF e.args THEN {n} ELSE {}, first)
<1> DEFINE c == CloseText(t)
           o == OpenCall(c, e)
           d == Delta(o, "tool_use", n)
<1>1. t \in Reply
  BY DEF OneReply
<1>2. /\ c \in OneReply /\ c \in Reply /\ ~c.textOpen /\ c.thinkingOpen = t.thinkingOpen
      /\ c.toolCalls = t.toolCalls
      /\ ~t.textOpen => c = t
      /\ t.textOpen => Stopped(c, t)
  BY <1>1, CloseTextDoes, BlocksKeepOne
<1> HIDE DEF c
<1>3. c.currentTool = <<>> /\ c.toolUses = <<>> /\ c.toolCalls = {} /\ c.currentText = t.currentText
  BY <1>2 DEF NoCallYet, Stopped
<1>4. first => InOrder(c.textContent, T) /\ (T = {} => c.currentText = <<>>)
  <2>1. CASE t.textOpen
    <3>1. c.textContent = t.textContent \o t.currentText
      BY <1>2, <2>1 DEF NoCallYet, Stopped
    <3>2. first => t.textContent = <<>> /\ InOrder(t.currentText, T) /\ T # {}
      BY <2>1 DEF NoCallYet
    <3>3. <<>> \o t.currentText = t.currentText
      BY <1>1, ReplySeqs, NothingBefore
    <3>4. QED
      BY <3>1, <3>2, <3>3
  <2>2. CASE ~t.textOpen
    BY <1>2, <2>2, InOrderNone DEF NoCallYet
  <2>3. QED
    BY <2>1, <2>2
<1>5. ~c.thinkingOpen => BlocksDone(c)
  <2>1. CASE t.textOpen
    BY <1>1, <1>2, <2>1, StopNests DEF NoCallYet, Stopped
  <2>2. CASE ~t.textOpen
    BY <1>2, <2>2 DEF NoCallYet
  <2>3. QED
    BY <2>1, <2>2
<1>6. /\ o \in OneReply /\ o.textOpen = c.textOpen /\ o.thinkingOpen = c.thinkingOpen
      /\ SameText(o, c) /\ o.blockIndex = c.blockIndex /\ o.toolUses = c.toolUses
      /\ o.toolCalls = c.toolCalls \cup {e.call}
      /\ o.events = Append(c.events, EventOf(c, "start", "tool_use", e.call, Filler))
      /\ o.currentTool = Beginning(e.call)
  BY <1>2, OpenCallDoes
<1> HIDE DEF o
<1>7. ~o.thinkingOpen => Inside(o, "tool_use")
  <2>1. e.call \in Call \cup {NoCall}
    BY DEF Entry
  <2>2. QED
    BY <1>2, <1>5, <1>6, <2>1, StartNests
<1>8. o \in Reply /\ o.currentTool # <<>> /\ o.currentTool[1] = [call |-> 1, input |-> <<>>]
      /\ Len(o.currentTool) = 1
  BY <1>6, OneOpen DEF Beginning, OneReply
<1>9. /\ d \in Reply /\ SameFlags(d, o) /\ SameText(d, o)
      /\ d.blockIndex = o.blockIndex /\ d.toolUses = o.toolUses
      /\ d.events = Append(o.events, EventOf(o, "delta", "tool_use", NoCall, n))
      /\ d.currentTool = <<[call |-> o.currentTool[1].call,
                            input |-> Append(o.currentTool[1].input, n)]>>
  BY <1>6, <1>8, DeltaCallDoes DEF OneReply
<1> HIDE DEF d
<1>10. d.currentTool = <<WholeUse(1, n)>>
  <2>1. Append(<<>>, n) = <<n>>
    OBVIOUS
  <2>2. QED
    BY <1>8, <1>9, <2>1 DEF WholeUse
<1>11. ~d.thinkingOpen => Inside(d, "tool_use")
  BY <1>7, <1>8, <1>9, DeltaNests DEF SameFlags
<1>12. OneCallOpen(o, T, {}, first)
  BY <1>2, <1>3, <1>4, <1>6, <1>7, <1>8, InOrderNone DEF OneCallOpen, SameText
<1>13. OneCallOpen(d, T, {n}, first)
  <2>1. Len(d.currentTool) = 1 /\ d.currentTool[1].call = 1 /\ d.currentTool[1].input = <<n>>
    BY <1>9, <1>10, OneOpen DEF WholeUse
  <2>2. InOrder(<<n>>, {n})
    BY InOrderOne
  <2>3. QED
    BY <1>2, <1>3, <1>4, <1>6, <1>9, <1>11, <2>1, <2>2 DEF OneCallOpen, SameText, SameFlags
<1>14. ToolCall(t, e, n) = IF e.args THEN d ELSE o
  BY DEF ToolCall, d, o, c
<1>15. QED
  BY <1>12, <1>13, <1>14

LEMMA CallGoesOn ==
    ASSUME NEW t \in OneReply, NEW T, NEW A, NEW first \in BOOLEAN, OneCallOpen(t, T, A, first),
           NEW e \in Entry, ~e.starts, NEW n \in Piece, A \subseteq 0..(n - 1)
    PROVE  OneCallOpen(ToolCall(t, e, n), T, IF e.args THEN A \cup {n} ELSE A, first)
<1> DEFINE d == Delta(t, "tool_use", n)
<1>1. t \in Reply
  BY DEF OneReply
<1>2. CloseText(t) = t
  BY <1>1, CloseTextDoes DEF OneCallOpen
<1>3. OpenCall(t, e) = t
  BY OpenCallDoes
<1>4. ToolCall(t, e, n) = IF e.args THEN d ELSE t
  BY <1>2, <1>3 DEF ToolCall
<1>5. t.currentTool # <<>> /\ t.currentTool[1] \in ToolUse
  <2>1. Len(t.currentTool) = 1 /\ t.currentTool \in Seq(ToolUse)
    BY <1>1, ReplySeqs DEF OneCallOpen
  <2>2. t.currentTool # <<>>
    BY <2>1, NotEmpty
  <2>3. 1 \in 1..Len(t.currentTool)
    BY <2>1
  <2>4. QED
    BY <2>1, <2>2, <2>3, ElementOfSeq
<1>6. /\ d \in Reply /\ SameFlags(d, t) /\ SameText(d, t)
      /\ d.blockIndex = t.blockIndex /\ d.toolUses = t.toolUses
      /\ d.events = Append(t.events, EventOf(t, "delta", "tool_use", NoCall, n))
      /\ d.currentTool = <<[call |-> t.currentTool[1].call,
                            input |-> Append(t.currentTool[1].input, n)]>>
  BY <1>5, DeltaCallDoes DEF OneReply
<1> HIDE DEF d
<1>7. /\ Len(d.currentTool) = 1 /\ d.currentTool[1].call = 1
      /\ d.currentTool[1].input = Append(t.currentTool[1].input, n)
  BY <1>6, OneOpen DEF OneCallOpen
<1>8. InOrder(Append(t.currentTool[1].input, n), A \cup {n})
  <2>1. t.currentTool[1].input \in Seq(Piece)
    BY <1>5 DEF ToolUse
  <2>2. InOrder(t.currentTool[1].input, A)
    BY DEF OneCallOpen
  <2>3. QED
    BY <2>1, <2>2, InOrderMore
<1>9. ~d.thinkingOpen => Inside(d, "tool_use")
  BY <1>1, <1>6, DeltaNests DEF SameFlags, OneCallOpen
<1>10. OneCallOpen(d, T, A \cup {n}, first)
  BY <1>6, <1>7, <1>8, <1>9 DEF OneCallOpen, SameText, SameFlags
<1>11. QED
  BY <1>4, <1>10

(* The finish. *)
LEMMA FinishNoCall ==
    ASSUME NEW t \in OneReply, NEW T, NEW first \in BOOLEAN, NoCallYet(t, T, first)
    PROVE  NoCallDone(Finish(t), T, first)
<1> DEFINE h == CloseThinking(t)
           c == CloseText(h)
           z == [c EXCEPT !.toolCalls = {}]
           r == MessageStop(z)
<1>1. t \in Reply
  BY DEF OneReply
<1>2. /\ h \in OneReply /\ h \in Reply /\ ~h.thinkingOpen /\ h.textOpen = t.textOpen
      /\ ~t.thinkingOpen => h = t
      /\ t.thinkingOpen => Stopped(h, t)
  BY <1>1, CloseThinkingDoes, BlocksKeepOne
<1> HIDE DEF h
<1>3. /\ c \in OneReply /\ c \in Reply
      /\ ~h.textOpen => c = h
      /\ h.textOpen => Stopped(c, h)
  BY <1>2, CloseTextDoes, BlocksKeepOne
<1> HIDE DEF c
<1>4. h.currentTool = <<>> /\ h.toolUses = <<>>
  BY <1>2 DEF NoCallYet, Stopped
<1>5. c.currentTool = <<>> /\ c.toolUses = <<>>
  BY <1>3, <1>4 DEF Stopped
<1>6. IF h.textOpen THEN Inside(h, "text") ELSE BlocksDone(h)
  <2>1. CASE t.thinkingOpen
    BY <1>1, <1>2, <2>1, StopNests DEF NoCallYet, Stopped
  <2>2. CASE ~t.thinkingOpen
    BY <1>2, <2>2 DEF NoCallYet
  <2>3. QED
    BY <2>1, <2>2
<1>7. BlocksDone(c)
  BY <1>2, <1>3, <1>6, StopNests DEF Stopped
<1>8. first => InOrder(c.textContent, T)
  <2>1. SUFFICES ASSUME first PROVE InOrder(c.textContent, T)
    OBVIOUS
  <2>2. CASE t.textOpen
    <3>1. h = t /\ c.textContent = t.textContent \o t.currentText
      BY <1>2, <1>3, <1>4, <2>2 DEF NoCallYet, Stopped
    <3>2. t.textContent = <<>> /\ InOrder(t.currentText, T)
      BY <2>1, <2>2 DEF NoCallYet
    <3>3. <<>> \o t.currentText = t.currentText
      BY <1>1, ReplySeqs, NothingBefore
    <3>4. QED
      BY <3>1, <3>2, <3>3
  <2>3. CASE ~t.textOpen
    <3>1. t.textContent = <<>> /\ t.currentText = <<>> /\ T = {} /\ t.currentTool = <<>>
      BY <2>1, <2>3 DEF NoCallYet
    <3>2. <<>> \o <<>> = <<>>
      OBVIOUS
    <3>3. h.textContent = <<>>
      BY <1>2, <3>1, <3>2 DEF Stopped
    <3>4. c = h
      BY <1>2, <1>3, <2>3
    <3>5. QED
      BY <3>1, <3>3, <3>4, InOrderNone
  <2>4. QED
    BY <2>2, <2>3
<1>9. StopBlocks(c, Cardinality(t.toolCalls)) = c
  <2>1. t.toolCalls = {} /\ Cardinality({}) = 0
    BY FS_EmptySet DEF NoCallYet
  <2>2. QED
    BY <1>3, <2>1, StopBlocksType
<1>10. z \in Reply /\ SameRest(z, c)
  BY <1>3, CallsSet
<1> HIDE DEF z
<1>11. BlocksDone(z)
  BY <1>7, <1>10, SameNesting DEF SameRest
<1>12. /\ r \in Reply /\ SameTools(r, z) /\ SameText(r, z)
       /\ r.events = Append(z.events, EventOf(z, "message_stop", "none", NoCall, Filler))
  BY <1>10, MessageStopDoes
<1>13. Closed(r)
  <2> HIDE DEF r
  <2> QED BY <1>10, <1>11, <1>12, MessageStopNests
<1>14. NoCallDone(r, T, first)
  <2> HIDE DEF r
  <2> QED BY <1>5, <1>8, <1>10, <1>12, <1>13 DEF NoCallDone, SameRest, SameTools, SameText
<1>15. Finish(t) = r
  BY <1>9 DEF Finish, h, c, z
<1>16. QED
  BY <1>14, <1>15

LEMMA FinishOneCall ==
    ASSUME NEW t \in OneReply, NEW T, NEW A, NEW first \in BOOLEAN, NEW nested \in BOOLEAN,
           OneCallOpen(t, T, A, first),
           nested => ~t.thinkingOpen, first /\ T # {} => ~t.thinkingOpen
    PROVE  OneCallDone(Finish(t), T, A, first, nested)
<1> DEFINE h == CloseThinking(t)
           s == StopBlock(h)
           z == [s EXCEPT !.toolCalls = {}]
           r == MessageStop(z)
<1>1. t \in Reply
  BY DEF OneReply
<1>2. /\ h \in OneReply /\ h \in Reply /\ ~h.thinkingOpen /\ h.textOpen = t.textOpen
      /\ ~t.thinkingOpen => h = t
      /\ t.thinkingOpen => Stopped(h, t)
  BY <1>1, CloseThinkingDoes, BlocksKeepOne
<1> HIDE DEF h
<1>3. CloseText(h) = h
  BY <1>2, CloseTextDoes DEF OneCallOpen
<1>4. s \in OneReply /\ s \in Reply /\ Stopped(s, h)
  BY <1>2, StopDoes, BlocksKeepOne
<1>5. StopBlocks(CloseText(h), Cardinality(t.toolCalls)) = s
  <2>1. t.toolCalls = {1} /\ Cardinality({1}) = 1
    BY FS_Singleton DEF OneCallOpen
  <2>2. QED
    BY <1>2, <1>3, <2>1, StopBlocksType
<1> HIDE DEF s
<1>6. /\ t.currentTool # <<>> /\ t.currentTool \in Seq(ToolUse) /\ t.toolUses = <<>>
      /\ <<>> \o t.currentTool = t.currentTool
  <2>1. Len(t.currentTool) = 1 /\ t.currentTool \in Seq(ToolUse) /\ t.toolUses = <<>>
    BY <1>1, ReplySeqs DEF OneCallOpen
  <2>2. QED
    BY <2>1, NotEmpty, NothingBefore
<1>7. s.toolUses = t.currentTool
  <2>1. CASE t.thinkingOpen
    BY <1>2, <1>4, <1>6, <2>1 DEF Stopped
  <2>2. CASE ~t.thinkingOpen
    BY <1>2, <1>4, <1>6, <2>2 DEF Stopped
  <2>3. QED
    BY <2>1, <2>2
<1>8. first => InOrder(s.textContent, T)
  <2>1. SUFFICES ASSUME first PROVE InOrder(s.textContent, T)
    OBVIOUS
  <2>2. InOrder(t.textContent, T) /\ (T = {} => t.currentText = <<>>)
    BY <2>1 DEF OneCallOpen
  <2>3. CASE t.thinkingOpen
    <3>1. t.currentText = <<>>
      BY <2>1, <2>2, <2>3
    <3>2. h.textContent = t.textContent /\ h.currentText = <<>> /\ h.currentTool = <<>>
      BY <1>2, <1>6, <2>3, <3>1 DEF Stopped
    <3>3. s.textContent = t.textContent \o <<>>
      BY <1>4, <3>2 DEF Stopped
    <3>4. t.textContent \o <<>> = t.textContent
      BY <1>1, ReplySeqs, NothingBefore
    <3>5. QED
      BY <2>2, <3>3, <3>4
  <2>4. CASE ~t.thinkingOpen
    BY <1>2, <1>4, <1>6, <2>2, <2>4 DEF Stopped
  <2>5. QED
    BY <2>3, <2>4
<1>9. nested => BlocksDone(s)
  <2>1. ASSUME nested PROVE h = t /\ Inside(h, "tool_use")
    BY <1>2, <2>1 DEF OneCallOpen
  <2>2. QED
    BY <1>2, <1>4, <2>1, StopNests DEF Stopped
<1>10. z \in Reply /\ SameRest(z, s)
  BY <1>4, CallsSet
<1> HIDE DEF z
<1>11. nested => BlocksDone(z)
  BY <1>9, <1>10, SameNesting DEF SameRest
<1>12. /\ r \in Reply /\ SameTools(r, z) /\ SameText(r, z)
       /\ r.events = Append(z.events, EventOf(z, "message_stop", "none", NoCall, Filler))
  BY <1>10, MessageStopDoes
<1>13. nested => Closed(r)
  <2> HIDE DEF r
  <2> QED BY <1>10, <1>11, <1>12, MessageStopNests
<1>14. Len(r.toolUses) = 1 /\ r.toolUses[1].call = 1 /\ InOrder(r.toolUses[1].input, A)
  <2> HIDE DEF r
  <2> QED BY <1>7, <1>10, <1>12 DEF OneCallOpen, SameRest, SameTools
<1>15. OneCallDone(r, T, A, first, nested)
  <2> HIDE DEF r
  <2> QED BY <1>8, <1>10, <1>12, <1>13, <1>14 DEF OneCallDone, SameRest, SameText
<1>16. Finish(t) = r
  BY <1>5 DEF Finish, h, z
<1>17. QED
  BY <1>15, <1>16

(* The end of an answer that was not finished. *)
LEMMA EndNoCall ==
    ASSUME NEW t \in OneReply, NEW T, NEW first \in BOOLEAN, NoCallYet(t, T, first)
    PROVE  Closed(EndUnfinished(t))
<1> DEFINE h == CloseThinking(t)
           s == StartBlock(h, "text", NoCall)
           d == Delta(s, "text", Filler)
           f == StopBlock(d)
           c == CloseText(h)
           z == IF ~h.textOpen /\ h.blockIndex > 0 THEN f ELSE c
           r == MessageStop(z)
<1>1. t \in Reply
  BY DEF OneReply
<1>2. /\ h \in Reply /\ ~h.thinkingOpen /\ h.textOpen = t.textOpen
      /\ ~t.thinkingOpen => h = t
      /\ t.thinkingOpen => Stopped(h, t)
  BY <1>1, CloseThinkingDoes
<1> HIDE DEF h
<1>3. IF h.textOpen THEN Inside(h, "text") ELSE BlocksDone(h)
  <2>1. CASE t.thinkingOpen
    BY <1>1, <1>2, <2>1, StopNests DEF NoCallYet, Stopped
  <2>2. CASE ~t.thinkingOpen
    BY <1>2, <2>2 DEF NoCallYet
  <2>3. QED
    BY <2>1, <2>2
<1>4. c \in Reply /\ BlocksDone(c)
  <2>1. /\ c \in Reply
        /\ ~h.textOpen => c = h
        /\ h.textOpen => Stopped(c, h)
    BY <1>2, CloseTextDoes
  <2> HIDE DEF c
  <2>2. QED
    BY <1>2, <1>3, <2>1, StopNests DEF Stopped
<1>5. ~h.textOpen => f \in Reply /\ BlocksDone(f)
  <2>1. SUFFICES ASSUME ~h.textOpen PROVE f \in Reply /\ BlocksDone(f)
    OBVIOUS
  <2>2. /\ s \in Reply /\ s.blockIndex = h.blockIndex
        /\ s.events = Append(h.events, EventOf(h, "start", "text", NoCall, Filler))
    BY <1>2, StartTextDoes
  <2>3. Inside(s, "text")
    <3> HIDE DEF s
    <3> QED BY <1>2, <1>3, <2>1, <2>2, StartNests
  <2> HIDE DEF s
  <2>4. /\ d \in Reply /\ d.blockIndex = s.blockIndex
        /\ d.events = Append(s.events, EventOf(s, "delta", "text", NoCall, Filler))
    BY <2>2, DeltaTextDoes, Fillers
  <2> HIDE DEF d
  <2>5. Inside(d, "text")
    BY <2>2, <2>3, <2>4, DeltaNests, Fillers
  <2>6. f \in Reply /\ Stopped(f, d)
    BY <2>4, StopDoes
  <2> HIDE DEF f
  <2>7. QED
    BY <2>4, <2>5, <2>6, StopNests DEF Stopped
<1>6. z \in Reply /\ BlocksDone(z)
  <2> HIDE DEF f, c
  <2> QED BY <1>4, <1>5
<1> HIDE DEF z
<1>7. r \in Reply /\ r.events = Append(z.events, EventOf(z, "message_stop", "none", NoCall, Filler))
  BY <1>6, MessageStopDoes
<1>8. Closed(r)
  <2> HIDE DEF r
  <2> QED BY <1>6, <1>7, MessageStopNests
<1>9. EndUnfinished(t) = r
  BY DEF EndUnfinished, h, s, d, f, c, z
<1>10. QED
  BY <1>8, <1>9

-----------------------------------------------------------------------------
(* One chunk more. *)

StartedIn(chunk) == {k \in Call : \E e \in ToSet(chunk.tools) : e.call = k /\ e.starts}
ArgsIn(chunk, k) == \E e \in ToSet(chunk.tools) : e.call = k /\ e.args

Says(chunk, entries) ==
    chunk.tools = entries /\ ~chunk.text /\ ~chunk.reasoning /\ ~chunk.finish
OneEntry(e) ==
    e \in Entry /\ MaySay(e) /\ (provider = "gemini" => e = Whole(e.call))

LEMMA SentKinds ==
    ASSUME NEW chunk \in Sent
    PROVE  /\ chunk \in Chunk
           /\ \/ chunk.tools = <<>> /\ chunk.text /\ ~chunk.reasoning /\ ~chunk.finish
              \/ \E e \in Entry : OneEntry(e) /\ Says(chunk, <<e>>)
              \/ StartedCalls = {} /\ Says(chunk, [k \in Call |-> Whole(k)])
              \/ /\ provider = "openai"
                 /\ chunk.tools = <<>> /\ ~chunk.text /\ chunk.reasoning /\ ~chunk.finish
              \/ /\ provider = "openai"
                 /\ chunk.tools = <<>> /\ ~chunk.text /\ ~chunk.reasoning /\ chunk.finish
<1>1. <<>> \in Seq(Entry)
  BY EmptySeq
<1>2. [k \in Call |-> Whole(k)] \in Seq(Entry)
  <2>1. \A k \in Call : Whole(k) \in Entry
    BY DEF Whole, Entry
  <2>2. MaxCalls \in Nat
    BY BoundsAssumption
  <2>3. QED
    BY <2>1, <2>2 DEF Call
<1>3. CASE chunk = [Empty EXCEPT !.text = TRUE]
  BY <1>1, <1>3 DEF Empty, Chunk
<1>4. ASSUME NEW e \in Entry, MaySay(e), provider = "gemini" => e = Whole(e.call),
             chunk = [Empty EXCEPT !.tools = <<e>>]
      PROVE  chunk \in Chunk /\ OneEntry(e) /\ Says(chunk, <<e>>)
  <2>1. <<e>> \in Seq(Entry)
    OBVIOUS
  <2>2. QED
    BY <1>4, <2>1 DEF Empty, Chunk, OneEntry, Says
<1>5. ASSUME chunk = AllCalls, StartedCalls = {}
      PROVE  chunk \in Chunk /\ Says(chunk, [k \in Call |-> Whole(k)])
  <2> DEFINE all == [k \in Call |-> Whole(k)]
  <2>1. chunk = [Empty EXCEPT !.tools = all]
    BY <1>5 DEF AllCalls
  <2> HIDE DEF all
  <2>2. [Empty EXCEPT !.tools = all] \in Chunk /\ Says([Empty EXCEPT !.tools = all], all)
    <3>1. all \in Seq(Entry)
      BY <1>2 DEF all
    <3>2. QED
      BY <3>1 DEF Empty, Chunk, Says
  <2>3. QED
    BY <2>1, <2>2 DEF all
<1>6. ASSUME provider = "openai", chunk = [Empty EXCEPT !.reasoning = TRUE]
      PROVE  /\ chunk \in Chunk
             /\ chunk.tools = <<>> /\ ~chunk.text /\ chunk.reasoning /\ ~chunk.finish
  BY <1>1, <1>6 DEF Empty, Chunk
<1>7. ASSUME provider = "openai", chunk = [Empty EXCEPT !.finish = TRUE]
      PROVE  /\ chunk \in Chunk
             /\ chunk.tools = <<>> /\ ~chunk.text /\ ~chunk.reasoning /\ chunk.finish
  BY <1>1, <1>7 DEF Empty, Chunk
<1>8. \/ chunk = [Empty EXCEPT !.text = TRUE]
      \/ \E e \in Entry : /\ MaySay(e) /\ (provider = "gemini" => e = Whole(e.call))
                          /\ chunk = [Empty EXCEPT !.tools = <<e>>]
      \/ chunk = AllCalls /\ StartedCalls = {}
      \/ provider = "openai" /\ chunk = [Empty EXCEPT !.reasoning = TRUE]
      \/ provider = "openai" /\ chunk = [Empty EXCEPT !.finish = TRUE]
  BY DEF Sent
<1>9. chunk = [Empty EXCEPT !.text = TRUE] =>
          chunk.tools = <<>> /\ chunk.text /\ ~chunk.reasoning /\ ~chunk.finish
  BY DEF Empty
<1>10. CASE \E e \in Entry : /\ MaySay(e) /\ (provider = "gemini" => e = Whole(e.call))
                             /\ chunk = [Empty EXCEPT !.tools = <<e>>]
  BY <1>4, <1>10
<1>11. QED
  BY <1>3, <1>5, <1>6, <1>7, <1>8, <1>9, <1>10

LEMMA OneChunkMore ==
    ASSUME chunks \in Seq(Chunk), NEW chunk \in Chunk, chunks' = Append(chunks, chunk)
    PROVE  LET n == Len(chunks')
           IN  /\ n = Len(chunks) + 1 /\ n \in Nat \ {0}
               /\ chunks' \in Seq(Chunk)
               /\ DOMAIN chunks = 1..(n - 1) /\ DOMAIN chunks' = 1..n
               /\ chunks'[n] = chunk /\ \A m \in 1..(n - 1) : chunks'[m] = chunks[m]
               /\ SentText \subseteq 0..(n - 1) /\ \A k : SentArgs(k) \subseteq 0..(n - 1)
               /\ SentText' = IF chunk.text THEN SentText \cup {n} ELSE SentText
               /\ StartedCalls' = StartedCalls \cup StartedIn(chunk)
               /\ \A k : SentArgs(k)' = IF ArgsIn(chunk, k) THEN SentArgs(k) \cup {n} ELSE SentArgs(k)
               /\ Finished' <=> chunk.finish
<1>0. PICK n : n = Len(chunks')
  OBVIOUS
<1>1. /\ Len(chunks) \in Nat /\ DOMAIN chunks = 1..Len(chunks)
      /\ chunks' \in Seq(Chunk) /\ n = Len(chunks) + 1
      /\ chunks'[Len(chunks) + 1] = chunk /\ \A m \in 1..Len(chunks) : chunks'[m] = chunks[m]
      /\ chunks' # <<>>
  BY <1>0, AppendProperties, LenProperties
<1>2. /\ n \in Nat \ {0} /\ Len(chunks) = n - 1 /\ DOMAIN chunks = 1..(n - 1)
      /\ chunks'[n] = chunk /\ \A m \in 1..(n - 1) : chunks'[m] = chunks[m]
  BY <1>1
<1>3. DOMAIN chunks' = 1..n
  BY <1>1, LenProperties
<1>4. /\ \A m : m \in 1..n <=> m \in 1..(n - 1) \/ m = n
      /\ \A m \in 1..(n - 1) : m # n
  BY <1>2
<1>5. SentText \subseteq 0..(n - 1) /\ \A k : SentArgs(k) \subseteq 0..(n - 1)
  BY <1>2 DEF SentText, SentArgs
<1>6. SentText' = IF chunk.text THEN SentText \cup {n} ELSE SentText
  BY <1>2, <1>3, <1>4 DEF SentText
<1>7. StartedCalls' = StartedCalls \cup StartedIn(chunk)
  <2>1. \A m \in 1..(n - 1) : Entries(m)' = Entries(m)
    BY <1>2 DEF Entries, ToSet
  <2>2. Entries(n)' = ToSet(chunk.tools)
    BY <1>2 DEF Entries, ToSet
  <2>3. StartedCalls' = {k \in Call : \E m \in 1..n : \E e \in Entries(m)' : e.call = k /\ e.starts}
    BY <1>3 DEF StartedCalls
  <2>4. StartedCalls = {k \in Call : \E m \in 1..(n - 1) : \E e \in Entries(m) : e.call = k /\ e.starts}
    BY <1>2 DEF StartedCalls
  <2>5. QED
    BY <1>4, <2>1, <2>2, <2>3, <2>4 DEF StartedIn
<1>8. ASSUME NEW k
      PROVE  SentArgs(k)' = IF ArgsIn(chunk, k) THEN SentArgs(k) \cup {n} ELSE SentArgs(k)
  <2>1. \A m \in 1..(n - 1) : Entries(m)' = Entries(m)
    BY <1>2 DEF Entries, ToSet
  <2>2. Entries(n)' = ToSet(chunk.tools)
    BY <1>2 DEF Entries, ToSet
  <2>3. SentArgs(k)' = {m \in 1..n : \E e \in Entries(m)' : e.call = k /\ e.args}
    BY <1>3 DEF SentArgs
  <2>4. SentArgs(k) = {m \in 1..(n - 1) : \E e \in Entries(m) : e.call = k /\ e.args}
    BY <1>2 DEF SentArgs
  <2>5. QED
    BY <1>4, <2>1, <2>2, <2>3, <2>4 DEF ArgsIn
<1>9. Finished' <=> chunk.finish
  BY <1>0, <1>1, <1>2 DEF Finished, Last, Chunk
<1>10. QED
  BY <1>0, <1>1, <1>2, <1>3, <1>5, <1>6, <1>7, <1>8, <1>9

(* What the chunks have to be like holds of fewer of them, too. *)
LEMMA FewerChunks ==
    ASSUME chunks \in Seq(Chunk), NEW chunk \in Chunk, chunks' = Append(chunks, chunk)
    PROVE  /\ OneCall' => OneCall
           /\ ReasoningFirst' => ReasoningFirst /\ (chunk.reasoning => SentText = {})
           /\ CallsLast' => CallsLast /\ (chunk.reasoning \/ chunk.text => StartedCalls = {})
<1>0. PICK n : n = Len(chunks')
  OBVIOUS
<1>1. /\ n = Len(chunks) + 1 /\ n \in Nat \ {0}
      /\ DOMAIN chunks = 1..(n - 1) /\ DOMAIN chunks' = 1..n
      /\ chunks'[n] = chunk /\ \A m \in 1..(n - 1) : chunks'[m] = chunks[m]
      /\ StartedCalls' = StartedCalls \cup StartedIn(chunk)
  BY <1>0, OneChunkMore
<1>2. n \in 1..n /\ \A m \in 1..(n - 1) : m \in 1..n /\ ~(n <= m)
  BY <1>1
<1>3. OneCall' => OneCall
  BY <1>1 DEF OneCall
<1>4. ReasoningFirst' => ReasoningFirst /\ (chunk.reasoning => SentText = {})
  BY <1>1, <1>2 DEF ReasoningFirst, SentText
<1>5. CallsLast' => CallsLast
  BY <1>1, <1>2 DEF CallsLast
<1>6. ASSUME CallsLast', chunk.reasoning \/ chunk.text, NEW k \in StartedCalls PROVE FALSE
  <2>1. PICK m \in 1..(n - 1) : Entries(m) # {}
    BY <1>1 DEF StartedCalls
  <2>2. chunks[m].tools # <<>>
    BY <2>1 DEF Entries, ToSet
  <2>3. QED
    BY <1>1, <1>2, <1>6, <2>2 DEF CallsLast
<1>7. QED
  BY <1>3, <1>4, <1>5, <1>6

LEMMA SaysNothing == ASSUME NEW chunk, chunk.tools = <<>>
                     PROVE  StartedIn(chunk) = {} /\ \A k : ~ArgsIn(chunk, k)
  BY DEF StartedIn, ArgsIn, ToSet

LEMMA SaysOne ==
    ASSUME NEW chunk, NEW e \in Entry, chunk.tools = <<e>>
    PROVE  /\ StartedIn(chunk) = IF e.starts THEN {e.call} ELSE {}
           /\ \A k : ArgsIn(chunk, k) = (e.call = k /\ e.args)
<1>1. ToSet(<<e>>) = {e} /\ e.call \in Call /\ e.starts \in BOOLEAN /\ e.args \in BOOLEAN
  BY DEF ToSet, Entry
<1>2. QED
  BY <1>1 DEF StartedIn, ArgsIn

LEMMA SaysAll ==
    ASSUME NEW chunk, chunk.tools = [k \in Call |-> Whole(k)]
    PROVE  /\ StartedIn(chunk) = Call /\ \A k \in Call : ArgsIn(chunk, k)
           /\ Len(chunk.tools) = MaxCalls
<1>1. ToSet(chunk.tools) = {Whole(k) : k \in Call}
  BY DEF ToSet
<1>2. \A k \in Call : Whole(k).call = k /\ Whole(k).starts /\ Whole(k).args
  BY DEF Whole
<1>3. Len(chunk.tools) = MaxCalls
  BY BoundsAssumption DEF Call
<1>4. QED
  BY <1>1, <1>2, <1>3 DEF StartedIn, ArgsIn

LEMMA WithThinking ==
    ASSUME NEW t \in OneReply, NEW n \in Piece
    PROVE  /\ ~Text(t, n).thinkingOpen
           /\ \A e \in Entry : ToolCall(t, e, n).thinkingOpen = t.thinkingOpen
<1>1. t \in Reply
  BY DEF OneReply
<1>2. ~Text(t, n).thinkingOpen
  <2>1. CloseThinking(t) \in Reply /\ ~CloseThinking(t).thinkingOpen
    BY <1>1, CloseThinkingDoes
  <2>2. /\ OpenText(CloseThinking(t)) \in Reply
        /\ OpenText(CloseThinking(t)).thinkingOpen = CloseThinking(t).thinkingOpen
    BY <2>1, OpenTextDoes
  <2>3. QED
    BY <2>1, <2>2, DeltaTextDoes DEF Text, SameFlags
<1>3. ASSUME NEW e \in Entry PROVE ToolCall(t, e, n).thinkingOpen = t.thinkingOpen
  <2> DEFINE c == CloseText(t)
             o == OpenCall(c, e)
             d == Delta(o, "tool_use", n)
  <2>1. c \in OneReply /\ c.thinkingOpen = t.thinkingOpen
    BY <1>1, CloseTextDoes, BlocksKeepOne
  <2> HIDE DEF c
  <2>2. o \in OneReply /\ o.thinkingOpen = t.thinkingOpen
    BY <2>1, OpenCallDoes
  <2> HIDE DEF o
  <2>3. d.thinkingOpen = o.thinkingOpen
    BY <2>2, DeltaCallDoes DEF SameFlags, OneReply
  <2> HIDE DEF d
  <2>4. ToolCall(t, e, n) = IF e.args THEN d ELSE o
    BY DEF ToolCall, c, o, d
  <2>5. QED
    BY <2>2, <2>3, <2>4
<1>4. QED
  BY <1>2, <1>3

LEMMA TranslateOne ==
    ASSUME NEW t \in OneReply, NEW chunk \in Chunk, NEW n \in Piece
    PROVE  /\ chunk.tools = <<>> /\ chunk.text /\ ~chunk.reasoning /\ ~chunk.finish
                  => Translate(t, chunk, n) = Text(t, n)
           /\ chunk.tools = <<>> /\ ~chunk.text /\ chunk.reasoning /\ ~chunk.finish
                  => Translate(t, chunk, n) = Reasoning(t, n)
           /\ chunk.tools = <<>> /\ ~chunk.text /\ ~chunk.reasoning /\ chunk.finish
                  => Translate(t, chunk, n) = Finish(t)
           /\ Len(chunk.tools) = 1 /\ ~chunk.text /\ ~chunk.reasoning /\ ~chunk.finish
                  => Translate(t, chunk, n) = ToolCall(t, chunk.tools[1], n)
<1>1. chunk.tools \in Seq(Entry)
  BY DEF Chunk
<1>2. Text(t, n) \in OneReply /\ Reasoning(t, n) \in OneReply
  BY TextType, ReasoningType
<1>3. ASSUME NEW u \in OneReply
      PROVE  /\ chunk.tools = <<>> => ToolCalls(u, chunk.tools, n) = u
             /\ Len(chunk.tools) = 1 => ToolCalls(u, chunk.tools, n) = ToolCall(u, chunk.tools[1], n)
  BY <1>1, ToolCallsType
<1>4. QED
  BY <1>2, <1>3 DEF Translate

(* What a step that receives a chunk finds and leaves. *)
LEMMA ReceiveFinds ==
    ASSUME StreamInv, NEW chunk \in Sent, Receive(chunk)
    PROVE  /\ Len(chunks') \in Piece /\ chunk \in Chunk /\ chunks \in Seq(Chunk)
           /\ chunks' = Append(chunks, chunk)
           /\ reply \in OneReply
           /\ ~ended /\ ~ended' /\ ~Finished /\ provider' = provider
           /\ provider = "openai" => reply' = Translate(reply, chunk, Len(chunks'))
           /\ provider = "gemini" => reply' = GeminiParts(reply, chunk, Len(chunks'))
<1>1. /\ chunks \in Seq(Chunk) /\ reply \in OneReply /\ ended \in BOOLEAN
      /\ provider \in {"openai", "gemini"}
  BY DEF StreamInv, StreamTypeOK, OneReply
<1>2. chunk \in Chunk
  BY SentKinds
<1>3. chunks' = Append(chunks, chunk) /\ Len(chunks) < MaxChunks
  BY DEF Receive
<1>4. Len(chunks') = Len(chunks) + 1 /\ Len(chunks) \in Nat
  BY <1>1, <1>2, <1>3, AppendProperties, LenProperties
<1>5. Len(chunks') \in Piece
  BY <1>3, <1>4, BoundsAssumption DEF Piece
<1>6. QED
  BY <1>1, <1>2, <1>3, <1>5 DEF Receive

LEMMA LessIsClaimed ==
    ASSUME NEW t, NEW T, NEW A, NEW f, NEW g, f => g
    PROVE  /\ NoCallYet(t, T, g) => NoCallYet(t, T, f)
           /\ OneCallOpen(t, T, A, g) => OneCallOpen(t, T, A, f)
<1>1. NoCallYet(t, T, g) => NoCallYet(t, T, f)
  BY DEF NoCallYet
<1>2. OneCallOpen(t, T, A, g) => OneCallOpen(t, T, A, f)
  BY DEF OneCallOpen
<1>3. QED
  BY <1>1, <1>2

(* What is left to show of an answer that goes on, and of one that is      *)
(* finished.                                                               *)
LEMMA GoesOn ==
    ASSUME ~Finished', ~ended',
           StartedCalls' = {} => NoCallYet(reply', SentText', ReasoningFirst'),
           StartedCalls' = {1} /\ CallsLast' =>
               OneCallOpen(reply', SentText', SentArgs(1)', ReasoningFirst'),
           OneCall' /\ CallsLast' => ThinkingLast'
    PROVE  OpenaiInv'
  BY DEF OpenaiInv

LEMMA IsFinished ==
    ASSUME Finished',
           StartedCalls' = {} => NoCallDone(reply', SentText', ReasoningFirst'),
           StartedCalls' = {1} /\ CallsLast' =>
               OneCallDone(reply', SentText', SentArgs(1)', ReasoningFirst', TextBeforeCall')
    PROVE  OpenaiInv'
  BY DEF OpenaiInv

LEMMA ReceiveText ==
    ASSUME StreamInv, provider = "openai", NEW chunk \in Sent, Receive(chunk),
           chunk.tools = <<>>, chunk.text, ~chunk.reasoning, ~chunk.finish
    PROVE  OpenaiInv'
<1>0. PICK n : n = Len(chunks')
  OBVIOUS
<1>1. /\ n \in Piece /\ chunk \in Chunk /\ chunks \in Seq(Chunk) /\ chunks' = Append(chunks, chunk)
      /\ reply \in OneReply /\ ~ended /\ ~ended' /\ ~Finished
      /\ reply' = Translate(reply, chunk, n)
  BY <1>0, ReceiveFinds
<1>2. /\ SentText \subseteq 0..(n - 1) /\ SentText' = SentText \cup {n}
      /\ StartedCalls' = StartedCalls \cup StartedIn(chunk) /\ (Finished' <=> chunk.finish)
  BY <1>0, <1>1, OneChunkMore
<1>3. StartedCalls' = StartedCalls /\ ~Finished'
  BY <1>2, SaysNothing
<1>4. reply' = Text(reply, n)
  BY <1>1, TranslateOne
<1>5. /\ ReasoningFirst' => ReasoningFirst
      /\ CallsLast' => StartedCalls = {}
  BY <1>1, FewerChunks
<1>6. ~reply'.thinkingOpen
  BY <1>1, <1>4, WithThinking
<1>7. ASSUME StartedCalls = {} PROVE NoCallYet(reply', SentText', ReasoningFirst')
  <2>1. NoCallYet(reply, SentText, ReasoningFirst)
    BY <1>1, <1>7 DEF StreamInv, OpenaiInv
  <2>2. NoCallYet(reply, SentText, ReasoningFirst')
    BY <1>5, <2>1, LessIsClaimed
  <2>3. ReasoningFirst' \in BOOLEAN
    BY DEF ReasoningFirst
  <2>4. NoCallYet(Text(reply, n), SentText \cup {n}, ReasoningFirst')
    BY <1>1, <1>2, <2>2, <2>3, TextNoCall
  <2>5. QED
    BY <1>2, <1>4, <2>4
<1>8. ThinkingLast'
  BY <1>6 DEF ThinkingLast
<1>9. {1} # {}
  OBVIOUS
<1>10. QED
  BY <1>1, <1>3, <1>5, <1>7, <1>8, <1>9, GoesOn

LEMMA ReceiveReasoning ==
    ASSUME StreamInv, provider = "openai", NEW chunk \in Sent, Receive(chunk),
           chunk.tools = <<>>, ~chunk.text, chunk.reasoning, ~chunk.finish
    PROVE  OpenaiInv'
<1>0. PICK n : n = Len(chunks')
  OBVIOUS
<1>1. /\ n \in Piece /\ chunk \in Chunk /\ chunks \in Seq(Chunk) /\ chunks' = Append(chunks, chunk)
      /\ reply \in OneReply /\ ~ended /\ ~ended' /\ ~Finished
      /\ reply' = Translate(reply, chunk, n)
  BY <1>0, ReceiveFinds
<1>2. /\ n \in Nat \ {0} /\ DOMAIN chunks' = 1..n /\ chunks'[n] = chunk
      /\ SentText' = SentText
      /\ StartedCalls' = StartedCalls \cup StartedIn(chunk) /\ (Finished' <=> chunk.finish)
  BY <1>0, <1>1, OneChunkMore
<1>3. StartedCalls' = StartedCalls /\ ~Finished'
  BY <1>2, SaysNothing
<1>4. reply' = Reasoning(reply, n)
  BY <1>1, TranslateOne
<1>5. /\ ReasoningFirst' => ReasoningFirst /\ SentText = {}
      /\ CallsLast' => StartedCalls = {}
  BY <1>1, FewerChunks
<1>6. ASSUME StartedCalls = {} PROVE NoCallYet(reply', SentText', ReasoningFirst')
  <2>1. NoCallYet(reply, SentText, ReasoningFirst)
    BY <1>1, <1>6 DEF StreamInv, OpenaiInv
  <2>2. NoCallYet(reply, SentText, ReasoningFirst')
    BY <1>5, <2>1, LessIsClaimed
  <2>3. ReasoningFirst' \in BOOLEAN
    BY DEF ReasoningFirst
  <2>4. NoCallYet(Reasoning(reply, n), SentText, ReasoningFirst')
    BY <1>1, <1>5, <2>2, <2>3, ReasoningNoCall
  <2>5. QED
    BY <1>2, <1>4, <2>4
<1>7. ThinkingLast'
  <2>1. n \in 1..n /\ \A m \in n..n : m = n
    BY <1>2
  <2>2. \A m \in n..Len(chunks') : ~chunks'[m].text
    BY <1>0, <1>2, <2>1
  <2>3. \E m \in DOMAIN chunks' : chunks'[m].reasoning /\ \A k \in m..Len(chunks') : ~chunks'[k].text
    BY <1>2, <2>1, <2>2
  <2>4. QED
    BY <2>3 DEF ThinkingLast
<1>8. {1} # {}
  OBVIOUS
<1>9. QED
  BY <1>1, <1>3, <1>5, <1>6, <1>7, <1>8, GoesOn

LEMMA SentStarted ==
    ASSUME StreamInv, NEW chunk \in Sent, Receive(chunk)
    PROVE  /\ StartedCalls' # {} => 1 \in StartedCalls'
           /\ \A k \in Call \ StartedCalls' : SentArgs(k)' = {}
<1>0. PICK n : n = Len(chunks')
  OBVIOUS
<1>1. chunk \in Chunk /\ chunks \in Seq(Chunk) /\ chunks' = Append(chunks, chunk)
  BY ReceiveFinds
<1>2. /\ StartedCalls' = StartedCalls \cup StartedIn(chunk)
      /\ \A k : SentArgs(k)' = IF ArgsIn(chunk, k) THEN SentArgs(k) \cup {n} ELSE SentArgs(k)
  BY <1>0, <1>1, OneChunkMore
<1>3. /\ StartedCalls # {} => 1 \in StartedCalls
      /\ \A k \in Call \ StartedCalls : SentArgs(k) = {}
  BY DEF StreamInv
<1>4. CASE chunk.tools = <<>>
  BY <1>2, <1>3, <1>4, SaysNothing
<1>5. ASSUME NEW e \in Entry, OneEntry(e), Says(chunk, <<e>>)
      PROVE  /\ StartedCalls' # {} => 1 \in StartedCalls'
             /\ \A k \in Call \ StartedCalls' : SentArgs(k)' = {}
  <2>1. /\ StartedIn(chunk) = IF e.starts THEN {e.call} ELSE {}
        /\ \A k : ArgsIn(chunk, k) = (e.call = k /\ e.args)
    BY <1>5, SaysOne DEF Says
  <2>2. e.starts = (e.call \notin StartedCalls) /\ (e.call = 1 \/ StartedCalls # {})
    BY <1>5 DEF OneEntry, MaySay
  <2>3. QED
    BY <1>2, <1>3, <2>1, <2>2
<1>6. ASSUME Says(chunk, [k \in Call |-> Whole(k)])
      PROVE  /\ StartedCalls' # {} => 1 \in StartedCalls'
             /\ \A k \in Call \ StartedCalls' : SentArgs(k)' = {}
  <2>1. StartedCalls \subseteq Call
    BY DEF StartedCalls
  <2>2. StartedCalls' = Call
    BY <1>2, <1>6, <2>1, SaysAll DEF Says
  <2>3. Call # {} => 1 \in Call
    BY BoundsAssumption DEF Call
  <2>4. QED
    BY <2>2, <2>3
<1>7. QED
  BY <1>4, <1>5, <1>6, SentKinds

(* A chunk without text leaves the thinking last. *)
LEMMA StillLast ==
    ASSUME NEW n \in Nat \ {0}, n = Len(chunks'), n = Len(chunks) + 1, Len(chunks) \in Nat,
           DOMAIN chunks = 1..(n - 1), DOMAIN chunks' = 1..n,
           \A m \in 1..(n - 1) : chunks'[m] = chunks[m],
           ~chunks'[n].text, ThinkingLast, reply.thinkingOpen
    PROVE  \E m \in DOMAIN chunks' :
              chunks'[m].reasoning /\ \A k \in m..Len(chunks') : ~chunks'[k].text
<1>1. n - 1 = Len(chunks)
  OBVIOUS
<1>2. PICK m \in 1..(n - 1) : chunks[m].reasoning /\ \A k \in m..(n - 1) : ~chunks[k].text
  BY <1>1 DEF ThinkingLast
<1>3. m \in 1..n /\ \A k \in m..n : k = n \/ (k \in m..(n - 1) /\ k \in 1..(n - 1))
  BY <1>2
<1>4. \A k \in m..n : ~chunks'[k].text
  BY <1>2, <1>3
<1>5. chunks'[m].reasoning
  BY <1>2
<1>6. QED
  BY <1>3, <1>4, <1>5

LEMMA ReceiveEntry ==
    ASSUME StreamInv, provider = "openai", NEW chunk \in Sent, Receive(chunk),
           NEW e \in Entry, OneEntry(e), Says(chunk, <<e>>)
    PROVE  OpenaiInv'
<1>0. PICK n : n = Len(chunks')
  OBVIOUS
<1>1. /\ n \in Piece /\ chunk \in Chunk /\ chunks \in Seq(Chunk) /\ chunks' = Append(chunks, chunk)
      /\ reply \in OneReply /\ ~ended /\ ~ended' /\ ~Finished
      /\ reply' = Translate(reply, chunk, n)
  BY <1>0, ReceiveFinds
<1>2. /\ n \in Nat \ {0} /\ n = Len(chunks) + 1 /\ Len(chunks) \in Nat
      /\ DOMAIN chunks = 1..(n - 1) /\ DOMAIN chunks' = 1..n
      /\ chunks'[n] = chunk /\ \A m \in 1..(n - 1) : chunks'[m] = chunks[m]
      /\ SentText' = SentText
      /\ SentArgs(1) \subseteq 0..(n - 1)
      /\ StartedCalls' = StartedCalls \cup StartedIn(chunk)
      /\ SentArgs(1)' = IF ArgsIn(chunk, 1) THEN SentArgs(1) \cup {n} ELSE SentArgs(1)
      /\ ~Finished'
  BY <1>0, <1>1, OneChunkMore, LenProperties DEF Says
<1>3. /\ StartedIn(chunk) = IF e.starts THEN {e.call} ELSE {}
      /\ ArgsIn(chunk, 1) = (e.call = 1 /\ e.args)
  BY SaysOne DEF Says
<1>4. e.starts = (e.call \notin StartedCalls) /\ (e.call = 1 \/ StartedCalls # {})
  BY DEF OneEntry, MaySay
<1>5. reply' = ToolCall(reply, e, n)
  <2>1. chunk.tools = <<e>> /\ Len(<<e>>) = 1 /\ <<e>>[1] = e
    BY DEF Says
  <2>2. QED
    BY <1>1, <2>1, TranslateOne DEF Says
<1>6. /\ ReasoningFirst' => ReasoningFirst
      /\ OneCall' => OneCall
      /\ CallsLast' => CallsLast
  BY <1>1, FewerChunks
<1>7. ReasoningFirst' \in BOOLEAN
  BY DEF ReasoningFirst
<1>8. StartedCalls' # {} /\ e.call \in StartedCalls'
  BY <1>2, <1>3, <1>4
<1>9. ASSUME StartedCalls' = {1}, CallsLast'
      PROVE  OneCallOpen(reply', SentText', SentArgs(1)', ReasoningFirst')
  <2>1. e.call = 1 /\ StartedCalls \subseteq {1}
    BY <1>2, <1>8, <1>9
  <2>2. CASE StartedCalls = {}
    <3>1. e.starts /\ SentArgs(1) = {}
      BY <1>4, <2>1, <2>2 DEF StreamInv, Entry
    <3>2. NoCallYet(reply, SentText, ReasoningFirst)
      BY <1>1, <2>2 DEF StreamInv, OpenaiInv
    <3>3. NoCallYet(reply, SentText, ReasoningFirst')
      BY <1>6, <3>2, LessIsClaimed
    <3>4. OneCallOpen(ToolCall(reply, e, n), SentText, IF e.args THEN {n} ELSE {}, ReasoningFirst')
      BY <1>1, <1>7, <2>1, <3>1, <3>3, CallBegins
    <3>5. SentArgs(1)' = IF e.args THEN {n} ELSE {}
      BY <1>2, <1>3, <2>1, <3>1
    <3>6. QED
      BY <1>2, <1>5, <3>4, <3>5
  <2>3. CASE StartedCalls = {1}
    <3>1. ~e.starts
      BY <1>4, <2>1, <2>3
    <3>2. OneCallOpen(reply, SentText, SentArgs(1), ReasoningFirst)
      BY <1>1, <1>6, <1>9, <2>3 DEF StreamInv, OpenaiInv
    <3>3. OneCallOpen(reply, SentText, SentArgs(1), ReasoningFirst')
      BY <1>6, <3>2, LessIsClaimed
    <3>4. OneCallOpen(ToolCall(reply, e, n), SentText,
                      IF e.args THEN SentArgs(1) \cup {n} ELSE SentArgs(1), ReasoningFirst')
      BY <1>1, <1>2, <1>7, <3>1, <3>3, CallGoesOn
    <3>5. SentArgs(1)' = IF e.args THEN SentArgs(1) \cup {n} ELSE SentArgs(1)
      BY <1>2, <1>3, <2>1
    <3>6. QED
      BY <1>2, <1>5, <3>4, <3>5
  <2>4. QED
    BY <2>1, <2>2, <2>3
<1>10. ASSUME OneCall', CallsLast' PROVE ThinkingLast'
  <2>1. ThinkingLast
    BY <1>1, <1>6, <1>10 DEF StreamInv, OpenaiInv
  <2>2. SUFFICES ASSUME reply'.thinkingOpen
                 PROVE  \E m \in DOMAIN chunks' :
                           chunks'[m].reasoning /\ \A k \in m..Len(chunks') : ~chunks'[k].text
    BY DEF ThinkingLast
  <2>3. reply.thinkingOpen
    BY <1>1, <1>5, <2>2, WithThinking
  <2>4. QED
    BY <1>0, <1>2, <2>1, <2>3, StillLast DEF Says
<1>11. QED
  BY <1>1, <1>2, <1>8, <1>9, <1>10, GoesOn

LEMMA ReceiveAll ==
    ASSUME StreamInv, provider = "openai", NEW chunk \in Sent, Receive(chunk),
           StartedCalls = {}, Says(chunk, [k \in Call |-> Whole(k)])
    PROVE  OpenaiInv'
<1>0. PICK n : n = Len(chunks')
  OBVIOUS
<1>1. /\ n \in Piece /\ chunk \in Chunk /\ chunks \in Seq(Chunk) /\ chunks' = Append(chunks, chunk)
      /\ reply \in OneReply /\ ~ended /\ ~ended' /\ ~Finished
      /\ reply' = Translate(reply, chunk, n)
  BY <1>0, ReceiveFinds
<1>2. /\ n \in Nat \ {0} /\ n = Len(chunks) + 1 /\ Len(chunks) \in Nat
      /\ DOMAIN chunks = 1..(n - 1) /\ DOMAIN chunks' = 1..n
      /\ chunks'[n] = chunk /\ \A m \in 1..(n - 1) : chunks'[m] = chunks[m]
      /\ SentText' = SentText
      /\ StartedCalls' = StartedCalls \cup StartedIn(chunk)
      /\ ~Finished'
  BY <1>0, <1>1, OneChunkMore, LenProperties DEF Says
<1>3. StartedCalls' = Call
  <2>1. StartedIn(chunk) = Call
    BY SaysAll DEF Says
  <2>2. QED
    BY <1>2, <2>1
<1>4. CASE MaxCalls = 0
  <2>1. Call = {}
    BY <1>4 DEF Call
  <2>2. chunk.tools = <<>>
    <3>1. [k \in Call |-> Whole(k)] = <<>>
      BY <2>1
    <3>2. QED
      BY <3>1 DEF Says
  <2>3. reply' = reply
    <3>1. ToolCalls(reply, chunk.tools, n) = reply
      BY <1>1, <2>2, ToolCallsType DEF Chunk
    <3>2. QED
      BY <1>1, <3>1 DEF Translate, Says
  <2>4. /\ ReasoningFirst' => ReasoningFirst
        /\ OneCall' => OneCall
        /\ CallsLast' => CallsLast
    BY <1>1, FewerChunks
  <2>5. NoCallYet(reply, SentText, ReasoningFirst)
    BY <1>1 DEF StreamInv, OpenaiInv
  <2>6. NoCallYet(reply, SentText, ReasoningFirst')
    BY <2>4, <2>5, LessIsClaimed
  <2>7. NoCallYet(reply', SentText', ReasoningFirst')
    BY <1>2, <2>3, <2>6
  <2>8. ASSUME OneCall', CallsLast' PROVE ThinkingLast'
    <3>1. ThinkingLast
      BY <1>1, <2>4, <2>8 DEF StreamInv, OpenaiInv
    <3>2. SUFFICES ASSUME reply'.thinkingOpen
                   PROVE  \E m \in DOMAIN chunks' :
                             chunks'[m].reasoning /\ \A k \in m..Len(chunks') : ~chunks'[k].text
      BY DEF ThinkingLast
    <3>3. reply.thinkingOpen
      BY <2>3, <3>2
    <3>4. QED
      BY <1>0, <1>1, <1>2, <3>1, <3>3, StillLast DEF Says
  <2>9. {1} # {}
    OBVIOUS
  <2>10. QED
    BY <1>1, <1>2, <1>3, <2>1, <2>7, <2>8, <2>9, GoesOn
<1>5. CASE MaxCalls = 1
  <2>1. Call = {1}
    BY <1>5 DEF Call
  <2>2. Says(chunk, <<Whole(1)>>)
    <3>1. [k \in {1} |-> Whole(k)] = <<Whole(1)>>
      OBVIOUS
    <3>2. QED
      BY <2>1, <3>1 DEF Says
  <2>3. Whole(1) \in Entry /\ OneEntry(Whole(1))
    BY <2>1 DEF Whole, Entry, OneEntry, MaySay
  <2>4. QED
    BY <2>2, <2>3, ReceiveEntry
<1>6. CASE MaxCalls \in Nat /\ MaxCalls >= 2
  <2>1. 1 \in Call /\ 2 \in Call
    BY <1>6 DEF Call
  <2>2. StartedCalls' # {} /\ StartedCalls' # {1} /\ ~OneCall'
    BY <1>3, <2>1 DEF OneCall
  <2>3. QED
    BY <1>1, <1>2, <2>2, GoesOn
<1>7. MaxCalls \in Nat
  BY BoundsAssumption
<1>8. QED
  BY <1>4, <1>5, <1>6, <1>7

LEMMA ReceiveFinish ==
    ASSUME StreamInv, provider = "openai", NEW chunk \in Sent, Receive(chunk),
           chunk.tools = <<>>, ~chunk.text, ~chunk.reasoning, chunk.finish
    PROVE  OpenaiInv'
<1>0. PICK n : n = Len(chunks')
  OBVIOUS
<1>1. /\ n \in Piece /\ chunk \in Chunk /\ chunks \in Seq(Chunk) /\ chunks' = Append(chunks, chunk)
      /\ reply \in OneReply /\ ~ended /\ ~ended' /\ ~Finished
      /\ reply' = Translate(reply, chunk, n)
  BY <1>0, ReceiveFinds
<1>2. /\ n \in Nat \ {0} /\ n = Len(chunks) + 1 /\ Len(chunks) \in Nat
      /\ DOMAIN chunks = 1..(n - 1) /\ DOMAIN chunks' = 1..n
      /\ chunks'[n] = chunk /\ \A m \in 1..(n - 1) : chunks'[m] = chunks[m]
      /\ SentText' = SentText
      /\ StartedCalls' = StartedCalls \cup StartedIn(chunk)
      /\ SentArgs(1)' = IF ArgsIn(chunk, 1) THEN SentArgs(1) \cup {n} ELSE SentArgs(1)
      /\ Finished'
  BY <1>0, <1>1, OneChunkMore, LenProperties
<1>3. StartedCalls' = StartedCalls /\ SentArgs(1)' = SentArgs(1)
  BY <1>2, SaysNothing
<1>4. reply' = Finish(reply)
  BY <1>1, TranslateOne
<1>5. /\ ReasoningFirst' => ReasoningFirst
      /\ OneCall' => OneCall
      /\ CallsLast' => CallsLast
  BY <1>1, FewerChunks
<1>6. ReasoningFirst' \in BOOLEAN /\ TextBeforeCall' \in BOOLEAN
  BY DEF ReasoningFirst, TextBeforeCall
<1>7. ASSUME StartedCalls = {} PROVE NoCallDone(reply', SentText', ReasoningFirst')
  <2>1. NoCallYet(reply, SentText, ReasoningFirst)
    BY <1>1, <1>7 DEF StreamInv, OpenaiInv
  <2>2. NoCallYet(reply, SentText, ReasoningFirst')
    BY <1>5, <2>1, LessIsClaimed
  <2>3. NoCallDone(Finish(reply), SentText, ReasoningFirst')
    BY <1>1, <1>6, <2>2, FinishNoCall
  <2>4. QED
    BY <1>2, <1>4, <2>3
<1>8. ASSUME StartedCalls = {1}, CallsLast'
      PROVE  OneCallDone(reply', SentText', SentArgs(1)', ReasoningFirst', TextBeforeCall')
  <2>1. OneCallOpen(reply, SentText, SentArgs(1), ReasoningFirst)
    BY <1>1, <1>5, <1>8 DEF StreamInv, OpenaiInv
  <2>2. OneCallOpen(reply, SentText, SentArgs(1), ReasoningFirst')
    BY <1>5, <2>1, LessIsClaimed
  <2>3. OneCall
    BY <1>8 DEF OneCall
  <2>4. ThinkingLast
    BY <1>1, <1>5, <1>8, <2>3 DEF StreamInv, OpenaiInv
  <2>5. ASSUME reply.thinkingOpen
        PROVE  \E m \in 1..(n - 1) : chunks[m].reasoning /\ \A k \in m..(n - 1) : ~chunks[k].text
    BY <1>1, <1>2, <2>4, <2>5, LenProperties DEF ThinkingLast
  <2>6. ASSUME reply.thinkingOpen, TextBeforeCall' PROVE FALSE
    <3>1. PICK m \in 1..(n - 1) : chunks[m].reasoning /\ \A k \in m..(n - 1) : ~chunks[k].text
      BY <2>5, <2>6
    <3>2. m \in 1..n /\ chunks'[m].reasoning /\ {1} # {}
      BY <1>2, <3>1
    <3>3. PICK k \in m..n : chunks'[k].text
      BY <1>0, <1>2, <1>3, <1>8, <2>6, <3>2 DEF TextBeforeCall
    <3>4. k = n \/ (k \in m..(n - 1) /\ k \in 1..(n - 1))
      BY <1>2, <3>1, <3>3
    <3>5. QED
      BY <1>2, <3>1, <3>3, <3>4
  <2>7. ASSUME reply.thinkingOpen, ReasoningFirst', NEW j \in SentText PROVE FALSE
    <3>1. PICK m \in 1..(n - 1) : chunks[m].reasoning /\ \A k \in m..(n - 1) : ~chunks[k].text
      BY <2>5, <2>7
    <3>2. j \in 1..(n - 1) /\ chunks[j].text
      BY <1>2 DEF SentText
    <3>3. m <= j
      BY <1>2, <1>5, <2>7, <3>1, <3>2 DEF ReasoningFirst
    <3>4. j \in m..(n - 1)
      BY <1>2, <3>2, <3>3
    <3>5. QED
      BY <3>1, <3>2, <3>4
  <2>8. OneCallDone(Finish(reply), SentText, SentArgs(1), ReasoningFirst', TextBeforeCall')
    BY <1>1, <1>6, <2>2, <2>6, <2>7, FinishOneCall
  <2>9. QED
    BY <1>2, <1>3, <1>4, <2>8
<1>9. QED
  BY <1>2, <1>3, <1>7, <1>8, IsFinished

LEMMA OpenaiReceives ==
    ASSUME StreamInv, provider = "openai", NEW chunk \in Sent, Receive(chunk)
    PROVE  OpenaiInv'
  BY SentKinds, ReceiveText, ReceiveReasoning, ReceiveEntry, ReceiveAll, ReceiveFinish

-----------------------------------------------------------------------------
(* The answer of Gemini. *)

LEMMA ConcatAppend ==
    ASSUME NEW r \in Seq(Piece), NEW s \in Seq(Piece), NEW n \in Piece
    PROVE  r \o Append(s, n) = Append(r \o s, n)
<1>1. <<n>> \in Seq(Piece) /\ r \o s \in Seq(Piece)
  BY ConcatProperties
<1>2. Append(s, n) = s \o <<n>> /\ Append(r \o s, n) = (r \o s) \o <<n>>
  BY <1>1, AppendIsConcat
<1>3. r \o (s \o <<n>>) = (r \o s) \o <<n>>
  BY <1>1, ConcatAssociative
<1>4. QED
  BY <1>2, <1>3

LEMMA GeminiMoreText ==
    ASSUME NEW t \in OneReply, NEW T, GeminiText(t, T), NEW n \in Piece, T \subseteq 0..(n - 1)
    PROVE  /\ Text(t, n) \in OneReply /\ GeminiText(Text(t, n), T \cup {n})
           /\ Text(t, n).toolUses = t.toolUses
<1> DEFINE o == OpenText(t)
           r == Delta(o, "text", n)
<1>1. t \in Reply
  BY DEF OneReply
<1>2. CloseThinking(t) = t
  BY DEF CloseThinking, GeminiText
<1>3. /\ o \in Reply /\ o.textOpen /\ o.thinkingOpen = t.thinkingOpen
      /\ t.textOpen => o = t
      /\ ~t.textOpen => /\ o.blockIndex = t.blockIndex /\ SameTools(o, t)
                        /\ o.events = Append(t.events, EventOf(t, "start", "text", NoCall, Filler))
                        /\ o.currentText = <<>> /\ o.textContent = t.textContent
  BY <1>1, OpenTextDoes
<1> HIDE DEF o
<1>4. o.currentTool = <<>> /\ o.toolUses = t.toolUses /\ ~o.thinkingOpen
  BY <1>3 DEF GeminiText, SameTools
<1>5. Inside(o, "text")
  <2>1. CASE t.textOpen
    BY <1>3, <2>1 DEF GeminiText
  <2>2. CASE ~t.textOpen
    BY <1>1, <1>3, <2>2, StartNests DEF GeminiText
  <2>3. QED
    BY <2>1, <2>2
<1>6. /\ o.textContent \in Seq(Piece) /\ o.currentText \in Seq(Piece)
      /\ t.textContent \in Seq(Piece)
  BY <1>1, <1>3, ReplySeqs
<1>7. InOrder(o.textContent \o o.currentText, T)
  <2>1. CASE t.textOpen
    BY <1>3, <2>1 DEF GeminiText
  <2>2. CASE ~t.textOpen
    <3>1. t.textContent \o <<>> = t.textContent
      BY <1>6, NothingBefore
    <3>2. QED
      BY <1>3, <2>2, <3>1 DEF GeminiText
  <2>3. QED
    BY <2>1, <2>2
<1>8. /\ r \in Reply /\ SameFlags(r, o) /\ SameTools(r, o) /\ r.blockIndex = o.blockIndex
      /\ r.events = Append(o.events, EventOf(o, "delta", "text", NoCall, n))
      /\ r.currentText = Append(o.currentText, n) /\ r.textContent = o.textContent
  BY <1>3, DeltaTextDoes
<1> HIDE DEF r
<1>9. Inside(r, "text")
  BY <1>3, <1>5, <1>8, DeltaNests
<1>10. InOrder(r.textContent \o r.currentText, T \cup {n})
  <2>1. o.textContent \o o.currentText \in Seq(Piece)
    BY <1>6, ConcatProperties
  <2>2. InOrder(Append(o.textContent \o o.currentText, n), T \cup {n})
    BY <1>7, <2>1, InOrderMore
  <2>3. o.textContent \o Append(o.currentText, n) = Append(o.textContent \o o.currentText, n)
    BY <1>6, ConcatAppend
  <2>4. QED
    BY <1>8, <2>2, <2>3
<1>11. r.textOpen /\ ~r.thinkingOpen /\ r.currentTool = <<>> /\ r.toolUses = t.toolUses
  BY <1>3, <1>4, <1>8 DEF SameFlags, SameTools
<1>12. GeminiText(r, T \cup {n})
  BY <1>9, <1>10, <1>11 DEF GeminiText
<1>13. Text(t, n) = r
  BY <1>2 DEF Text, r, o
<1>14. Text(t, n) \in OneReply
  BY TextType
<1>15. QED
  BY <1>11, <1>12, <1>13, <1>14

LEMMA GeminiNoCalls ==
    ASSUME NEW t \in OneReply, NEW n \in Piece
    PROVE  GeminiCalls(t, <<>>, n) = t
<1>1. PICK none \in Seq(Entry) : none = <<>> /\ Len(none) = 0
  BY EmptySeq
<1>2. \E f : f[0] = t /\ GeminiCalls(t, none, n) = f[Len(none)]
  BY GeminiCallRounds
<1>3. QED
  BY <1>1, <1>2

LEMMA GeminiReceivesText ==
    ASSUME StreamInv, provider = "gemini", NEW chunk \in Sent, Receive(chunk),
           chunk.tools = <<>>, chunk.text
    PROVE  reply' \in OneReply /\ GeminiInv'
<1>0. PICK n : n = Len(chunks')
  OBVIOUS
<1>1. /\ n \in Piece /\ chunk \in Chunk /\ chunks \in Seq(Chunk) /\ chunks' = Append(chunks, chunk)
      /\ reply \in OneReply /\ ~ended /\ ~ended'
      /\ reply' = GeminiParts(reply, chunk, n)
  BY <1>0, ReceiveFinds
<1>2. /\ SentText \subseteq 0..(n - 1) /\ SentText' = SentText \cup {n}
      /\ StartedCalls' = StartedCalls \cup StartedIn(chunk)
      /\ \A k : SentArgs(k)' = IF ArgsIn(chunk, k) THEN SentArgs(k) \cup {n} ELSE SentArgs(k)
  BY <1>0, <1>1, OneChunkMore
<1>3. StartedCalls' = StartedCalls /\ \A k : SentArgs(k)' = SentArgs(k)
  BY <1>2, SaysNothing
<1>4. GeminiText(reply, SentText) /\ SentCallsCollected
  BY <1>1 DEF StreamInv, GeminiInv
<1>5. /\ Text(reply, n) \in OneReply /\ GeminiText(Text(reply, n), SentText')
      /\ Text(reply, n).toolUses = reply.toolUses
  BY <1>1, <1>2, <1>4, GeminiMoreText
<1>6. reply' = Text(reply, n)
  <2>1. GeminiCalls(Text(reply, n), <<>>, n) = Text(reply, n)
    BY <1>1, <1>5, EmptySeq, GeminiNoCalls
  <2>2. QED
    BY <1>1, <2>1 DEF GeminiParts
<1>7. /\ DOMAIN reply'.toolUses = StartedCalls'
      /\ \A k \in StartedCalls' :
            reply'.toolUses[k].call = k /\ InOrder(reply'.toolUses[k].input, SentArgs(k)')
  BY <1>3, <1>4, <1>5, <1>6 DEF SentCallsCollected
<1>8. SentCallsCollected'
  BY <1>7 DEF SentCallsCollected
<1>9. QED
  BY <1>1, <1>5, <1>6, <1>8 DEF GeminiInv

LEMMA GeminiReceivesCalls ==
    ASSUME StreamInv, provider = "gemini", NEW chunk \in Sent, Receive(chunk),
           NEW entries \in Seq(Entry), Says(chunk, entries),
           \A i \in 1..Len(entries) : entries[i] = Whole(Len(reply.toolUses) + i)
    PROVE  reply' \in OneReply /\ GeminiInv'
<1>0. PICK n, L, N : n = Len(chunks') /\ L = Len(reply.toolUses) /\ N = Len(entries)
  OBVIOUS
<1>1. /\ n \in Piece /\ chunk \in Chunk /\ chunks \in Seq(Chunk) /\ chunks' = Append(chunks, chunk)
      /\ reply \in OneReply /\ ~ended /\ ~ended'
      /\ reply' = GeminiParts(reply, chunk, n)
  BY <1>0, ReceiveFinds
<1>2. /\ SentText' = SentText
      /\ StartedCalls' = StartedCalls \cup StartedIn(chunk)
      /\ \A k : SentArgs(k)' = IF ArgsIn(chunk, k) THEN SentArgs(k) \cup {n} ELSE SentArgs(k)
  BY <1>0, <1>1, OneChunkMore DEF Says
<1>3. /\ GeminiText(reply, SentText)
      /\ DOMAIN reply.toolUses = StartedCalls
      /\ \A k \in StartedCalls :
            reply.toolUses[k].call = k /\ InOrder(reply.toolUses[k].input, SentArgs(k))
      /\ \A k \in Call \ StartedCalls : SentArgs(k) = {}
  BY <1>1 DEF StreamInv, GeminiInv, SentCallsCollected
<1>4. L \in Nat /\ N \in Nat /\ StartedCalls = 1..L
  <2>1. reply.toolUses \in Seq(ToolUse)
    BY <1>1, ReplySeqs DEF OneReply
  <2>2. QED
    BY <1>0, <1>3, <2>1, LenProperties
<1>5. /\ reply' \in OneReply /\ GeminiText(reply', SentText)
      /\ Len(reply'.toolUses) = L + N
      /\ \A i \in 1..L : reply'.toolUses[i] = reply.toolUses[i]
      /\ \A i \in 1..N : reply'.toolUses[L + i] = WholeUse(entries[i].call, n)
  <2>1. reply' = GeminiCalls(reply, entries, n)
    BY <1>1 DEF GeminiParts, Says
  <2> DEFINE r == GeminiCalls(reply, entries, n)
  <2>2. /\ r \in OneReply /\ GeminiText(r, SentText)
        /\ Len(r.toolUses) = Len(reply.toolUses) + Len(entries)
        /\ \A i \in 1..Len(reply.toolUses) : r.toolUses[i] = reply.toolUses[i]
        /\ \A i \in 1..Len(entries) :
              r.toolUses[Len(reply.toolUses) + i] = WholeUse(entries[i].call, n)
    BY <1>1, <1>3, GeminiCallsDo
  <2> HIDE DEF r
  <2>3. reply' = r
    BY <2>1 DEF r
  <2>4. QED
    BY <1>0, <2>2, <2>3
<1>6. DOMAIN reply'.toolUses = 1..(L + N)
  <2>1. reply'.toolUses \in Seq(ToolUse)
    BY <1>5, ReplySeqs DEF OneReply
  <2>2. QED
    BY <1>5, <2>1, LenProperties
<1>7. \A k : k \in (L + 1)..(L + N) <=> \E i \in 1..N : k = L + i
  <2>1. \A k \in (L + 1)..(L + N) : k - L \in 1..N /\ k = L + (k - L)
    BY <1>4
  <2>2. \A i \in 1..N : L + i \in (L + 1)..(L + N)
    BY <1>4
  <2>3. QED
    BY <2>1, <2>2
<1>8. \A i \in 1..N : /\ entries[i].call = L + i /\ entries[i].starts /\ entries[i].args
                      /\ L + i \in Call
  <2>1. \A i \in 1..N : entries[i] \in Entry
    BY <1>0, <1>4, ElementOfSeq
  <2>2. \A i \in 1..N : entries[i] = Whole(L + i)
    BY <1>0
  <2>3. \A k : Whole(k).call = k /\ Whole(k).starts /\ Whole(k).args
    BY DEF Whole
  <2>4. QED
    BY <2>1, <2>2, <2>3 DEF Entry
<1>9. \A e : e \in ToSet(chunk.tools) <=> \E i \in 1..N : e = entries[i]
  BY <1>0, LenProperties DEF ToSet, Says
<1>10. StartedIn(chunk) = (L + 1)..(L + N)
  BY <1>7, <1>8, <1>9 DEF StartedIn
<1>11. \A k : ArgsIn(chunk, k) <=> k \in (L + 1)..(L + N)
  BY <1>7, <1>8, <1>9 DEF ArgsIn
<1>12. StartedCalls' = 1..(L + N)
  BY <1>2, <1>4, <1>10
<1>13. ASSUME NEW k \in 1..(L + N)
       PROVE  reply'.toolUses[k].call = k /\ InOrder(reply'.toolUses[k].input, SentArgs(k)')
  <2>1. CASE k \in 1..L
    <3>1. k \notin (L + 1)..(L + N)
      BY <1>4, <2>1
    <3>2. QED
      BY <1>2, <1>3, <1>4, <1>5, <1>11, <2>1, <3>1
  <2>2. CASE k \in (L + 1)..(L + N)
    <3>1. PICK i \in 1..N : k = L + i
      BY <1>7, <2>2
    <3>2. reply'.toolUses[k] = WholeUse(k, n)
      BY <1>5, <1>8, <3>1
    <3>3. WholeUse(k, n).call = k /\ WholeUse(k, n).input = <<n>>
      BY DEF WholeUse
    <3>4. k \in Call \ StartedCalls
      BY <1>4, <1>8, <2>2, <3>1
    <3>5. SentArgs(k)' = {n}
      BY <1>2, <1>3, <1>11, <2>2, <3>4
    <3>6. QED
      BY <1>1, <3>2, <3>3, <3>5, InOrderOne
  <2>3. QED
    BY <1>4, <2>1, <2>2
<1>14. SentCallsCollected'
  BY <1>6, <1>12, <1>13 DEF SentCallsCollected
<1>15. QED
  BY <1>1, <1>2, <1>5, <1>14 DEF GeminiInv

LEMMA GeminiReceives ==
    ASSUME StreamInv, provider = "gemini", NEW chunk \in Sent, Receive(chunk)
    PROVE  reply' \in OneReply /\ GeminiInv'
<1> DEFINE L == Len(reply.toolUses)
<1>1. L \in Nat /\ StartedCalls = 1..L
  <2>1. ~ended
    BY DEF Receive
  <2>2. reply.toolUses \in Seq(ToolUse) /\ DOMAIN reply.toolUses = StartedCalls
    BY <2>1, ReplySeqs DEF StreamInv, StreamTypeOK, GeminiInv, SentCallsCollected
  <2>3. QED
    BY <2>2, LenProperties
<1> HIDE DEF L
<1>2. ASSUME NEW e \in Entry, OneEntry(e), Says(chunk, <<e>>) PROVE reply' \in OneReply /\ GeminiInv'
  <2>1. e = Whole(e.call) /\ e.starts
    BY <1>2 DEF OneEntry, Whole
  <2>2. e.call \in Nat \ {0} /\ e.call \notin 1..L /\ (e.call = 1 \/ e.call - 1 \in 1..L)
    BY <1>1, <1>2, <2>1, BoundsAssumption DEF OneEntry, MaySay, Entry, Call
  <2>3. e.call = L + 1
    BY <1>1, <2>2
  <2>4. <<e>> \in Seq(Entry) /\ Len(<<e>>) = 1 /\ <<e>>[1] = e
    OBVIOUS
  <2>5. \A i \in 1..Len(<<e>>) : <<e>>[i] = Whole(L + i)
    BY <2>1, <2>3, <2>4
  <2>6. QED
    BY <1>2, <2>4, <2>5, GeminiReceivesCalls DEF L
<1>3. ASSUME StartedCalls = {}, Says(chunk, [k \in Call |-> Whole(k)])
      PROVE  reply' \in OneReply /\ GeminiInv'
  <2>1. L = 0
    BY <1>1, <1>3
  <2>2. chunk \in Chunk
    BY SentKinds
  <2>3. chunk.tools \in Seq(Entry) /\ chunk.tools = [k \in Call |-> Whole(k)]
    BY <1>3, <2>2 DEF Chunk, Says
  <2>4. Len(chunk.tools) = MaxCalls
    BY <2>3, SaysAll
  <2>5. \A i \in 1..Len(chunk.tools) : chunk.tools[i] = Whole(L + i)
    <3>1. \A i \in 1..MaxCalls : chunk.tools[i] = Whole(i)
      BY <2>3 DEF Call
    <3>2. \A i \in 1..MaxCalls : L + i = i
      BY <2>1, BoundsAssumption
    <3>3. QED
      BY <2>4, <3>1, <3>2
  <2>6. Says(chunk, chunk.tools)
    BY <1>3 DEF Says
  <2>7. QED
    BY <2>3, <2>5, <2>6, GeminiReceivesCalls DEF L
<1>4. QED
  BY <1>2, <1>3, SentKinds, GeminiReceivesText

-----------------------------------------------------------------------------
(* The steps together. *)

LEMMA StreamInvInit == StreamInit => StreamInv
<1> SUFFICES ASSUME StreamInit PROVE StreamInv
  OBVIOUS
<1>1. /\ chunks = <<>> /\ ~ended /\ ended \in BOOLEAN /\ provider \in {"openai", "gemini"}
      /\ reply.blockIndex = 0 /\ ~reply.textOpen /\ ~reply.thinkingOpen /\ reply.toolCalls = {}
      /\ reply.events = <<>> /\ reply.currentText = <<>> /\ reply.currentTool = <<>>
      /\ reply.textContent = <<>> /\ reply.toolUses = <<>>
  BY DEF StreamInit
<1>2. /\ <<>> \in Seq(Event) /\ <<>> \in Seq(Piece) /\ <<>> \in Seq(ToolUse)
      /\ <<>> \in Seq(Chunk) /\ DOMAIN <<>> = {} /\ Len(<<>>) = 0
  BY EmptySeq
<1>3. reply \in Reply
  BY <1>2 DEF StreamInit, Reply
<1>4. DOMAIN chunks = {} /\ DOMAIN reply.events = {} /\ DOMAIN reply.toolUses = {}
  BY <1>1, <1>2
<1>5. SentText = {} /\ StartedCalls = {} /\ \A k : SentArgs(k) = {}
  BY <1>4 DEF SentText, StartedCalls, SentArgs
<1>6. BlocksDone(reply)
  BY <1>1, <1>4 DEF BlocksDone, EventsFit
<1>7. StreamTypeOK
  <2>1. Len(reply.currentTool) = 0
    BY <1>1, <1>2
  <2>2. Len(reply.currentTool) <= 1
    BY <2>1
  <2>3. QED
    BY <1>1, <1>2, <1>3, <2>2 DEF StreamTypeOK
<1>8. ~Finished
  BY <1>1 DEF Finished
<1>9. OpenaiInv
  <2>1. NoCallYet(reply, SentText, ReasoningFirst)
    BY <1>1, <1>5, <1>6 DEF NoCallYet
  <2>2. ThinkingLast
    BY <1>1 DEF ThinkingLast
  <2>3. {1} # {}
    OBVIOUS
  <2>4. QED
    BY <1>1, <1>5, <1>8, <2>1, <2>2, <2>3 DEF OpenaiInv
<1>10. GeminiInv
  BY <1>1, <1>4, <1>5, <1>6, InOrderNone DEF GeminiInv, GeminiText, SentCallsCollected
<1>11. QED
  BY <1>5, <1>7, <1>9, <1>10 DEF StreamInv

LEMMA ReceiveKeeps ==
    ASSUME StreamInv, NEW chunk \in Sent, Receive(chunk)
    PROVE  StreamInv'
<1>1. /\ Len(chunks') \in Piece /\ chunk \in Chunk /\ chunks \in Seq(Chunk)
      /\ chunks' = Append(chunks, chunk)
      /\ reply \in OneReply /\ ended' = ended /\ provider' = provider
      /\ provider = "openai" => reply' = Translate(reply, chunk, Len(chunks'))
  BY ReceiveFinds DEF Receive
<1>2. provider \in {"openai", "gemini"} /\ ended \in BOOLEAN
  BY DEF StreamInv, StreamTypeOK
<1>3. reply' \in OneReply
  <2>1. CASE provider = "openai"
    <3>1. Translate(reply, chunk, Len(chunks')) \in OneReply
      BY <1>1, TranslateType
    <3>2. QED
      BY <1>1, <2>1, <3>1
  <2>2. CASE provider = "gemini"
    BY <2>2, GeminiReceives
  <2>3. QED
    BY <1>2, <2>1, <2>2
<1>4. chunks' \in Seq(Chunk)
  BY <1>1, AppendProperties
<1>5. StreamTypeOK'
  BY <1>1, <1>2, <1>3, <1>4 DEF StreamTypeOK, OneReply
<1>6. provider' = "openai" => OpenaiInv'
  BY <1>1, OpenaiReceives
<1>7. provider' = "gemini" => GeminiInv'
  BY <1>1, GeminiReceives
<1>8. QED
  BY <1>5, <1>6, <1>7, SentStarted DEF StreamInv

(* While nothing is sent, what was sent stays. *)
LEMMA NothingSent ==
    ASSUME chunks' = chunks
    PROVE  /\ SentText' = SentText /\ StartedCalls' = StartedCalls
           /\ \A k : SentArgs(k)' = SentArgs(k)
           /\ Finished' = Finished /\ OneCall' = OneCall /\ ReasoningFirst' = ReasoningFirst
           /\ CallsLast' = CallsLast /\ TextBeforeCall' = TextBeforeCall
<1>1. StartedCalls' = StartedCalls
  BY DEF StartedCalls, Entries, ToSet
<1>2. \A k : SentArgs(k)' = SentArgs(k)
  BY DEF SentArgs, Entries, ToSet
<1>3. SentText' = SentText
  BY DEF SentText
<1>4. Finished' = Finished
  BY DEF Finished, Last
<1>5. OneCall' = OneCall /\ TextBeforeCall' = TextBeforeCall
  BY <1>1 DEF OneCall, TextBeforeCall
<1>6. ReasoningFirst' = ReasoningFirst /\ CallsLast' = CallsLast
  BY DEF ReasoningFirst, CallsLast
<1>7. QED
  BY <1>1, <1>2, <1>3, <1>4, <1>5, <1>6

LEMMA StreamStutterKeeps == StreamInv /\ UNCHANGED streamVars => StreamInv'
<1> SUFFICES ASSUME StreamInv, UNCHANGED streamVars PROVE StreamInv'
  OBVIOUS
<1>1. provider' = provider /\ chunks' = chunks /\ reply' = reply /\ ended' = ended
  BY DEF streamVars
<1>2. /\ SentText' = SentText /\ StartedCalls' = StartedCalls
      /\ \A k : SentArgs(k)' = SentArgs(k)
      /\ Finished' = Finished /\ OneCall' = OneCall /\ ReasoningFirst' = ReasoningFirst
      /\ CallsLast' = CallsLast /\ TextBeforeCall' = TextBeforeCall
  BY <1>1, NothingSent
<1>3. StreamTypeOK'
  BY <1>1 DEF StreamInv, StreamTypeOK
<1>4. ThinkingLast' = ThinkingLast
  BY <1>1 DEF ThinkingLast
<1>5. OpenaiInv' = OpenaiInv
  BY <1>1, <1>2, <1>4 DEF OpenaiInv
<1>6. SentCallsCollected' = SentCallsCollected
  BY <1>1, <1>2 DEF SentCallsCollected
<1>7. GeminiInv' = GeminiInv
  BY <1>1, <1>2, <1>6 DEF GeminiInv
<1>8. QED
  BY <1>1, <1>2, <1>3, <1>5, <1>7 DEF StreamInv

LEMMA EndStreamKeeps == StreamInv /\ EndStream => StreamInv'
<1> SUFFICES ASSUME StreamInv, EndStream PROVE StreamInv'
  OBVIOUS
<1>1. /\ ~ended /\ ended' /\ ended' \in BOOLEAN /\ provider' = provider /\ chunks' = chunks
      /\ provider \in {"openai", "gemini"} /\ chunks \in Seq(Chunk)
      /\ reply \in OneReply /\ reply \in Reply
  BY DEF StreamInv, StreamTypeOK, EndStream, OneReply
<1>2. /\ SentText' = SentText /\ StartedCalls' = StartedCalls
      /\ \A k : SentArgs(k)' = SentArgs(k)
      /\ Finished' = Finished /\ OneCall' = OneCall /\ ReasoningFirst' = ReasoningFirst
      /\ CallsLast' = CallsLast /\ TextBeforeCall' = TextBeforeCall
  BY <1>1, NothingSent
<1>3. CASE provider = "openai" /\ Finished
  <2>1. reply' = reply
    BY <1>3 DEF EndStream
  <2>2. OpenaiInv
    BY <1>3 DEF StreamInv
  <2>3. OpenaiInv'
    BY <1>2, <1>3, <2>1, <2>2 DEF OpenaiInv
  <2>4. StreamTypeOK'
    BY <1>1, <2>1 DEF StreamTypeOK, OneReply
  <2>5. QED
    BY <1>1, <1>2, <1>3, <2>3, <2>4 DEF StreamInv
<1>4. CASE provider = "openai" /\ ~Finished
  <2>1. reply' = EndUnfinished(reply)
    BY <1>4 DEF EndStream
  <2>2. ASSUME StartedCalls = {} PROVE Closed(reply')
    <3>1. NoCallYet(reply, SentText, ReasoningFirst)
      BY <1>1, <1>4, <2>2 DEF StreamInv, OpenaiInv
    <3>2. ReasoningFirst \in BOOLEAN
      BY DEF ReasoningFirst
    <3>3. QED
      BY <1>1, <2>1, <3>1, <3>2, EndNoCall
  <2>3. OpenaiInv'
    BY <1>1, <1>2, <1>4, <2>2 DEF OpenaiInv
  <2>4. reply' \in OneReply
    BY <1>1, <2>1, EndUnfinishedType
  <2>5. StreamTypeOK'
    BY <1>1, <2>4 DEF StreamTypeOK, OneReply
  <2>6. QED
    BY <1>1, <1>2, <1>4, <2>3, <2>5 DEF StreamInv
<1>5. CASE provider = "gemini"
  <2> DEFINE c == CloseText(reply)
             r == MessageStop(c)
  <2>1. reply' = r
    BY <1>5 DEF EndStream, GeminiEnd
  <2>2. GeminiText(reply, SentText) /\ SentCallsCollected
    BY <1>1, <1>5 DEF StreamInv, GeminiInv
  <2>3. /\ c \in Reply /\ ~c.textOpen /\ GeminiText(c, SentText) /\ BlocksDone(c)
        /\ c.toolUses = reply.toolUses
    BY <1>1, <2>2, GeminiCloseText
  <2>4. c \in OneReply /\ r \in OneReply
    BY <1>1, BlocksKeepOne
  <2> HIDE DEF c
  <2>5. /\ SameTools(r, c) /\ SameText(r, c)
        /\ r.events = Append(c.events, EventOf(c, "message_stop", "none", NoCall, Filler))
    BY <2>3, MessageStopDoes
  <2> HIDE DEF r
  <2>6. Closed(r)
    BY <2>3, <2>5, MessageStopNests
  <2>7. InOrder(r.textContent, SentText)
    BY <2>3, <2>5 DEF GeminiText, SameText
  <2>8. r.toolUses = reply.toolUses
    BY <2>3, <2>5 DEF SameTools
  <2>9. SentCallsCollected'
    <3>1. /\ DOMAIN reply'.toolUses = StartedCalls'
          /\ \A k \in StartedCalls' :
                reply'.toolUses[k].call = k /\ InOrder(reply'.toolUses[k].input, SentArgs(k)')
      BY <1>2, <2>1, <2>2, <2>8 DEF SentCallsCollected
    <3>2. QED
      BY <3>1 DEF SentCallsCollected
  <2>10. GeminiInv'
    BY <1>1, <1>2, <2>1, <2>6, <2>7, <2>9 DEF GeminiInv
  <2>11. StreamTypeOK'
    BY <1>1, <2>1, <2>4 DEF StreamTypeOK, OneReply
  <2>12. QED
    BY <1>1, <1>2, <1>5, <2>10, <2>11 DEF StreamInv
<1>6. QED
  BY <1>1, <1>3, <1>4, <1>5

(* Nothing is collected of an answer without a call, and its one call of   *)
(* an answer with one.                                                     *)
LEMMA NoneOrOneCollected ==
    ASSUME reply \in Reply
    PROVE  /\ StartedCalls = {} /\ reply.toolUses = <<>> => SentCallsCollected
           /\ StartedCalls = {1} /\ Len(reply.toolUses) = 1 /\ reply.toolUses[1].call = 1
              /\ InOrder(reply.toolUses[1].input, SentArgs(1)) => SentCallsCollected
<1>1. DOMAIN <<>> = {} /\ reply.toolUses \in Seq(ToolUse)
  BY EmptySeq, ReplySeqs
<1>2. Len(reply.toolUses) = 1 => DOMAIN reply.toolUses = {1}
  <2>1. DOMAIN reply.toolUses = 1..Len(reply.toolUses) /\ 1..1 = {1}
    BY <1>1, LenProperties
  <2>2. QED
    BY <2>1
<1>3. StartedCalls = {} /\ reply.toolUses = <<>> => SentCallsCollected
  BY <1>1 DEF SentCallsCollected
<1>4. StartedCalls = {1} /\ Len(reply.toolUses) = 1 /\ reply.toolUses[1].call = 1
      /\ InOrder(reply.toolUses[1].input, SentArgs(1)) => SentCallsCollected
  BY <1>2 DEF SentCallsCollected
<1>5. QED
  BY <1>3, <1>4

LEMMA StreamInvSafe == StreamInv => StreamSafe
<1> SUFFICES ASSUME StreamInv PROVE StreamSafe
  OBVIOUS
<1>1. StreamTypeOK /\ reply \in Reply /\ ended \in BOOLEAN
  BY DEF StreamInv, StreamTypeOK
<1>2. OneCall => StartedCalls = {} \/ StartedCalls = {1}
  <2>1. StartedCalls # {} => 1 \in StartedCalls
    BY DEF StreamInv
  <2>2. QED
    BY <2>1 DEF OneCall
<1>3. provider = "openai" => OpenaiInv
  BY DEF StreamInv
<1>4. provider = "gemini" => GeminiInv
  BY DEF StreamInv
<1>5. provider \in {"openai", "gemini"}
  BY <1>1 DEF StreamTypeOK
<1>6. CallsCollected
  <2>1. SUFFICES ASSUME Complete, provider = "openai" => OneCall /\ CallsLast
                 PROVE  SentCallsCollected
    BY DEF CallsCollected
  <2>2. CASE provider = "gemini"
    BY <1>4, <2>2 DEF GeminiInv
  <2>3. CASE provider = "openai" /\ StartedCalls = {}
    <3>1. Finished
      BY <2>1, <2>3 DEF Complete
    <3>2. reply.toolUses = <<>>
      BY <1>3, <2>3, <3>1 DEF OpenaiInv, NoCallDone
    <3>3. QED
      BY <1>1, <2>3, <3>2, NoneOrOneCollected
  <2>4. CASE provider = "openai" /\ StartedCalls = {1}
    <3>1. Finished /\ CallsLast
      BY <2>1, <2>4 DEF Complete
    <3>2. OneCallDone(reply, SentText, SentArgs(1), ReasoningFirst, TextBeforeCall)
      BY <1>3, <2>4, <3>1 DEF OpenaiInv
    <3>3. QED
      BY <1>1, <2>4, <3>2, NoneOrOneCollected DEF OneCallDone
  <2>5. QED
    BY <1>2, <1>5, <2>1, <2>2, <2>3, <2>4
<1>7. TextOnce
  <2>1. SUFFICES ASSUME Complete, provider = "openai" => OneCall /\ CallsLast /\ ReasoningFirst
                 PROVE  InOrder(reply.textContent, SentText)
    BY DEF TextOnce
  <2>2. CASE provider = "gemini"
    BY <1>4, <2>1, <2>2 DEF GeminiInv, Complete
  <2>3. CASE provider = "openai"
    <3>1. Finished /\ OneCall /\ CallsLast /\ ReasoningFirst
      BY <2>1, <2>3 DEF Complete
    <3>2. CASE StartedCalls = {}
      BY <1>3, <2>3, <3>1, <3>2 DEF OpenaiInv, NoCallDone
    <3>3. CASE StartedCalls = {1}
      BY <1>3, <2>3, <3>1, <3>3 DEF OpenaiInv, OneCallDone
    <3>4. QED
      BY <1>2, <3>1, <3>2, <3>3
  <2>4. QED
    BY <1>5, <2>2, <2>3
<1>8. BlocksNest
  <2>1. ASSUME ended, NestedOf(provider) PROVE Closed(reply)
    <3>1. CASE provider = "gemini"
      BY <1>4, <2>1, <3>1 DEF GeminiInv
    <3>2. CASE provider = "openai"
      <4>1. /\ OneCall /\ CallsLast /\ TextBeforeCall /\ (Finished \/ StartedCalls = {})
            /\ OpenaiInv
        BY <1>3, <2>1, <3>2 DEF NestedOf
      <4>2. CASE StartedCalls = {}
        BY <2>1, <4>1, <4>2 DEF OpenaiInv, NoCallDone
      <4>3. CASE StartedCalls = {1}
        <5>1. Finished /\ {1} # {}
          BY <4>1, <4>3
        <5>2. QED
          BY <4>1, <4>3, <5>1 DEF OpenaiInv, OneCallDone
      <4>4. QED
        BY <1>2, <4>1, <4>2, <4>3
    <3>3. QED
      BY <1>5, <3>1, <3>2
  <2>2. QED
    BY <2>1 DEF BlocksNest, Closed, EventsFit, Last
<1>9. QED
  BY <1>1, <1>6, <1>7, <1>8 DEF StreamSafe, AnswerCollected

(* What the loop collects of an answer is what the model sent: each call   *)
(* once, in order and with all of its arguments, each piece of the text    *)
(* once and in order, and the events between the two are blocks that nest  *)
(* and end with message_stop.  Of Gemini that holds of every answer that   *)
(* has ended; of an OpenAI-compatible provider of one that was finished    *)
(* and whose calls are last and at most one (for the text: reasoning       *)
(* first; for the blocks: a text between reasoning and the call, and no    *)
(* break in it), as response.go, gemini.go and loop.go:244-300 translate   *)
(* and collect it.                                                         *)
THEOREM StreamAlwaysSafe == StreamSpec => []StreamSafe
<1>1. StreamInit => StreamInv
  BY StreamInvInit
<1>2. StreamInv /\ [StreamNext]_streamVars => StreamInv'
  BY ReceiveKeeps, EndStreamKeeps, StreamStutterKeeps DEF StreamNext
<1>3. StreamInv => StreamSafe
  BY StreamInvSafe
<1>4. QED
  BY <1>1, <1>2, <1>3, PTL DEF StreamSpec
=============================================================================
