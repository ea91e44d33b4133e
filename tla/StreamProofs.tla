----------------------------- MODULE StreamProofs -----------------------------
(***************************************************************************)
(* Proofs about LlmStream for every capacity of the channel and responses   *)
(* of any length.                                                           *)
(***************************************************************************)
EXTENDS LlmStream, SequenceTheorems, TLAPS

USE StreamConstants DEF StreamConstants

-----------------------------------------------------------------------------
(* The events of a kind in q are T from n + 1 on, in order; f[i] tells how  *)
(* much of T is delivered before the i-th event. What repeats T as a whole  *)
(* comes after all of it.                                                   *)
Delivers(f, q, kind, whole, T, n) ==
    /\ f \in [1..(Len(q) + 1) -> 0..Len(T)]
    /\ f[1] = n /\ f[Len(q) + 1] = Len(T)
    /\ \A i \in 1..Len(q) :
          /\ q[i].kind = kind => f[i + 1] = f[i] + 1 /\ q[i].data = T[f[i] + 1]
          /\ q[i].kind # kind => f[i + 1] = f[i]
          /\ q[i].kind = whole => f[i] = Len(T)

Carries(q, kind, whole, T, n) ==
    \E f \in [1..(Len(q) + 1) -> 0..Len(T)] : Delivers(f, q, kind, whole, T, n)

Lacks(q, kind) == \A i \in 1..Len(q) : q[i].kind # kind

AllCarry(q, kind, d) == \A i \in 1..Len(q) : q[i].kind = kind => q[i].data = d

Prefix(s, T) == Len(s) <= Len(T) /\ \A i \in 1..Len(s) : s[i] = T[i]

(* The last event about thinking in q, or what the consumer has if there is *)
(* none, is t.                                                              *)
Latest(q, old, t) ==
    \/ Lacks(q, "thinking") /\ Lacks(q, "thought") /\ old = t
    \/ \E i \in 1..Len(q) :
          /\ q[i].kind = "thought" /\ q[i].data = t
          /\ \A j \in (i + 1)..Len(q) : q[j].kind \notin {"thinking", "thought"}

-----------------------------------------------------------------------------
Events ==
    [kind : {"text", "thinking", "content", "thought", "other", "error"}, data : Pieces]
        \cup [kind : {"call"}, data : Call]

Sessions == [content : Pieces, thinking : Pieces, call : Call]

Responses == [text : Pieces, thinking : Seq(Pieces), calls : Seq(Call),
              unread : SUBSET (1..MaxPieces)]

Answers == [thinking : Pieces, calls : Seq(Call), content : Pieces]

TypeInv ==
    /\ protocol \in {"anthropic", "openai"} /\ strayed \in BOOLEAN
    /\ block \in {"none", "text", "thinking", "tool"}
    /\ sent \in Responses
    /\ pieces \in 0..MaxPieces
    /\ finished \in BOOLEAN /\ broken \in BOOLEAN
    /\ session \in Sessions
    /\ reader \in {"reading", "flushing", "closing", "ended"}
    /\ emitting \in Seq(Events) /\ channel \in Seq(Events) /\ Len(channel) <= Capacity
    /\ answer \in Answers
    /\ deltas \in Pieces
    /\ outcome \in {"reading", "ok", "error"}

(* Events on their way, oldest first.                                       *)
Pending == channel \o emitting

LastThought == IF Thoughts = <<>> THEN <<>> ELSE Thoughts[Len(Thoughts)]

LastCall == sent.calls[Len(sent.calls)]

(* What the session under construction has to do with what was sent.        *)
SessionInv ==
    /\ strayed => protocol = "openai"
    /\ session.content = sent.text
    /\ protocol = "openai" => block = "none" /\ session.thinking = <<>> /\ sent.thinking = <<>>
    /\ session.call # NoCall => /\ sent.calls # <<>> /\ session.call.id = LastCall.id
                                /\ strayed \/ session.call = LastCall
    /\ protocol = "openai" /\ sent.calls # <<>> => session.call # NoCall
    /\ protocol = "anthropic" /\ session.call # NoCall => block = "tool"
    /\ block # "thinking" => session.thinking = <<>>
    /\ block = "thinking" => /\ sent.thinking # <<>>
                             /\ session.thinking = sent.thinking[Len(sent.thinking)]

(* Where the tasks are: nothing is left behind by an answer taken as whole, *)
(* and a broken stream has an error on its way.                             *)
PhaseInv ==
    /\ reader = "ended" => emitting = <<>>
    /\ outcome = "ok" => reader = "ended" /\ channel = <<>>
    /\ broken => /\ reader # "reading"
                 /\ outcome = "error" \/ ~Lacks(Pending, "error")

Singles(s) == [i \in 1..Len(s) |-> <<s[i]>>]

(* The text: what the consumer has, then what is on its way.                *)
TextInv ==
    outcome # "error" =>
        /\ Prefix(answer.content, session.content)
        /\ deltas = answer.content
        /\ Carries(Pending, "text", "content", Singles(session.content), Len(answer.content))
        /\ AllCarry(Pending, "content", session.content)
        /\ reader = "reading" => Lacks(Pending, "content")

Flushed == reader \in {"closing", "ended"}

(* The calls that are to be executed.                                       *)
Due ==
    IF protocol = "anthropic" THEN ClosedCalls
    ELSE IF Flushed /\ session.call # NoCall THEN <<session.call>> ELSE <<>>

CallInv ==
    outcome # "error" =>
        /\ Prefix(answer.calls, Due)
        /\ Carries(Pending, "call", "none", Due, Len(answer.calls))

ThinkingInv ==
    outcome # "error" /\ (session.thinking = <<>> \/ Flushed)
        => Latest(Pending, answer.thinking, LastThought)

StreamInv == TypeInv /\ SessionInv /\ PhaseInv /\ TextInv /\ CallInv /\ ThinkingInv

-----------------------------------------------------------------------------
(* Queues of events.                                                        *)

(* Concatenation, element by element.                                       *)
LEMMA Joined ==
    ASSUME NEW S, NEW q \in Seq(S), NEW e \in Seq(S)
    PROVE  /\ q \o e \in Seq(S) /\ Len(q \o e) = Len(q) + Len(e)
           /\ Len(q) \in Nat /\ Len(e) \in Nat
           /\ \A i \in 1..Len(q) : (q \o e)[i] = q[i]
           /\ \A i \in 1..Len(e) : (q \o e)[Len(q) + i] = e[i]
  <1>1. /\ q \o e \in Seq(S) /\ Len(q \o e) = Len(q) + Len(e)
        /\ \A i \in 1..(Len(q) + Len(e)) :
              (q \o e)[i] = IF i <= Len(q) THEN q[i] ELSE e[i - Len(q)]
    BY ConcatProperties
  <1>2. Len(q) \in Nat /\ Len(e) \in Nat
    OBVIOUS
  <1>3. ASSUME NEW i \in 1..Len(q)
        PROVE  (q \o e)[i] = q[i]
    BY <1>1, <1>2
  <1>4. ASSUME NEW i \in 1..Len(e)
        PROVE  (q \o e)[Len(q) + i] = e[i]
    <2>1. Len(q) + i \in 1..(Len(q) + Len(e)) /\ ~(Len(q) + i <= Len(q)) /\ (Len(q) + i) - Len(q) = i
      BY <1>2
    <2>2. QED
      BY <1>1, <2>1
  <1>5. QED
    BY <1>1, <1>2, <1>3, <1>4

(* Every position of a concatenation is one of the two parts.               *)
LEMMA JoinedAt ==
    ASSUME NEW S, NEW q \in Seq(S), NEW e \in Seq(S), NEW i \in 1..Len(q \o e)
    PROVE  \/ i \in 1..Len(q) /\ (q \o e)[i] = q[i]
           \/ \E j \in 1..Len(e) : i = Len(q) + j /\ (q \o e)[i] = e[j]
  <1>1. CASE i <= Len(q)
    BY <1>1, Joined
  <1>2. CASE i > Len(q)
    <2>1. i - Len(q) \in 1..Len(e) /\ i = Len(q) + (i - Len(q))
      BY <1>2, Joined
    <2>2. QED
      BY <2>1, Joined
  <1>3. QED
    BY <1>1, <1>2, Joined

(* Sending the head of what is left does not change what is on its way.     *)
LEMMA SendKeeps ==
    ASSUME NEW S, NEW q \in Seq(S), NEW e \in Seq(S), e # <<>>
    PROVE  /\ Append(q, Head(e)) \in Seq(S) /\ Tail(e) \in Seq(S)
           /\ Len(Append(q, Head(e))) = Len(q) + 1
           /\ Append(q, Head(e)) \o Tail(e) = q \o e
  <1> DEFINE a == Append(q, Head(e))
             t == Tail(e)
  <1>1. /\ Head(e) \in S /\ Head(e) = e[1] /\ t \in Seq(S) /\ Len(t) = Len(e) - 1 /\ Len(e) >= 1
        /\ \A i \in 1..Len(t) : t[i] = e[i + 1]
    BY HeadTailProperties, EmptySeq
  <1>2. /\ a \in Seq(S) /\ Len(a) = Len(q) + 1 /\ a[Len(q) + 1] = e[1]
        /\ \A i \in 1..Len(q) : a[i] = q[i]
    BY <1>1, AppendProperties
  <1>3. Len(q) \in Nat /\ Len(e) \in Nat
    OBVIOUS
  <1> HIDE DEF a, t
  <1>t. a \in Seq(S) /\ t \in Seq(S)
    BY <1>1, <1>2
  <1>4. Len(a \o t) = Len(q \o e) /\ a \o t \in Seq(S) /\ q \o e \in Seq(S)
    <2>1. a \o t \in Seq(S) /\ Len(a \o t) = Len(a) + Len(t)
      BY <1>t, Joined
    <2>2. q \o e \in Seq(S) /\ Len(q \o e) = Len(q) + Len(e)
      BY Joined
    <2>3. QED
      BY <1>1, <1>2, <1>3, <2>1, <2>2
  <1>5. ASSUME NEW i \in 1..Len(a \o t)
        PROVE  (a \o t)[i] = (q \o e)[i]
    <2>1. CASE i \in 1..Len(a)
      <3>1. (a \o t)[i] = a[i]
        BY <1>1, <1>2, <2>1, Joined
      <3>2. CASE i \in 1..Len(q)
        BY <1>2, <3>1, <3>2, Joined
      <3>3. CASE i = Len(q) + 1
        <4>1. 1 \in 1..Len(e)
          BY <1>1, <1>3
        <4>2. (q \o e)[Len(q) + 1] = e[1]
          BY <4>1, Joined
        <4>3. QED
          BY <1>2, <3>1, <3>3, <4>2
      <3>4. QED
        BY <1>2, <1>3, <2>1, <3>2, <3>3
    <2>2. CASE i \notin 1..Len(a)
      <3>0. \/ i \in 1..Len(a) /\ (a \o t)[i] = a[i]
            \/ \E j \in 1..Len(t) : i = Len(a) + j /\ (a \o t)[i] = t[j]
        BY <1>t, JoinedAt
      <3>1. PICK j \in 1..Len(t) : i = Len(a) + j /\ (a \o t)[i] = t[j]
        BY <2>2, <3>0
      <3>2. j + 1 \in 1..Len(e) /\ i = Len(q) + (j + 1)
        BY <1>1, <1>2, <1>3, <3>1
      <3>3. (q \o e)[i] = e[j + 1]
        BY <3>2, Joined
      <3>4. QED
        BY <1>1, <3>1, <3>3
    <2>3. QED
      BY <2>1, <2>2
  <1>6. a \o t = q \o e
    BY <1>4, <1>5, SeqEqual
  <1>7. QED
    BY <1>1, <1>2, <1>6 DEF a, t

(* Taking the oldest event takes it from all that is on its way.            *)
LEMMA TakeKeeps ==
    ASSUME NEW S, NEW q \in Seq(S), NEW e \in Seq(S), q # <<>>
    PROVE  /\ q \o e # <<>> /\ Head(q \o e) = Head(q) /\ Tail(q) \in Seq(S) /\ Head(q) \in S
           /\ Len(Tail(q)) = Len(q) - 1
           /\ Tail(q \o e) = Tail(q) \o e
  <1>1. /\ Head(q) \in S /\ Head(q) = q[1] /\ Tail(q) \in Seq(S) /\ Len(Tail(q)) = Len(q) - 1
        /\ Len(q) >= 1 /\ \A i \in 1..Len(Tail(q)) : Tail(q)[i] = q[i + 1]
    BY HeadTailProperties, EmptySeq
  <1>2. Len(q) \in Nat /\ Len(e) \in Nat
    OBVIOUS
  <1> DEFINE a == q \o e
             t == Tail(q)
  <1>3. /\ a \in Seq(S) /\ Len(a) = Len(q) + Len(e) /\ \A i \in 1..Len(q) : a[i] = q[i]
        /\ \A i \in 1..Len(e) : a[Len(q) + i] = e[i]
    BY Joined
  <1>4. t \in Seq(S) /\ Len(t) = Len(q) - 1 /\ \A i \in 1..Len(t) : t[i] = q[i + 1]
    BY <1>1
  <1> HIDE DEF a, t
  <1>5. a # <<>> /\ Len(a) >= 1
    BY <1>1, <1>2, <1>3
  <1>6. /\ Head(a) = a[1] /\ Tail(a) \in Seq(S) /\ Len(Tail(a)) = Len(a) - 1
        /\ \A i \in 1..Len(Tail(a)) : Tail(a)[i] = a[i + 1]
    BY <1>3, <1>5, HeadTailProperties
  <1>t. t \in Seq(S)
    BY <1>4
  <1>7. t \o e \in Seq(S) /\ Len(t \o e) = Len(Tail(a))
    <2>1. t \o e \in Seq(S) /\ Len(t \o e) = Len(t) + Len(e)
      BY <1>t, Joined
    <2>2. QED
      BY <1>2, <1>3, <1>4, <1>6, <2>1
  <1>8. ASSUME NEW i \in 1..Len(t \o e)
        PROVE  Tail(a)[i] = (t \o e)[i]
    <2>0. Tail(a)[i] = a[i + 1]
      BY <1>6, <1>7
    <2>1. CASE i \in 1..Len(t)
      <3>1. (t \o e)[i] = t[i] /\ i + 1 \in 1..Len(q)
        BY <1>2, <1>4, <2>1, Joined
      <3>2. QED
        BY <1>3, <1>4, <2>0, <2>1, <3>1
    <2>2. CASE i \notin 1..Len(t)
      <3>0. \/ i \in 1..Len(t) /\ (t \o e)[i] = t[i]
            \/ \E j \in 1..Len(e) : i = Len(t) + j /\ (t \o e)[i] = e[j]
        BY <1>t, JoinedAt
      <3>1. PICK j \in 1..Len(e) : i = Len(t) + j /\ (t \o e)[i] = e[j]
        BY <2>2, <3>0
      <3>2. i + 1 = Len(q) + j
        BY <1>2, <1>4, <3>1
      <3>3. QED
        BY <1>3, <2>0, <3>1, <3>2
    <2>3. QED
      BY <2>1, <2>2
  <1>9. Tail(a) = t \o e
    BY <1>6, <1>7, <1>8, SeqEqual
  <1>10. Head(a) = Head(q)
    BY <1>1, <1>2, <1>3, <1>6
  <1>11. QED
    BY <1>1, <1>5, <1>9, <1>10 DEF a, t

(* Nothing to send, and one event.                                          *)
LEMMA NothingJoined ==
    ASSUME NEW S, NEW q \in Seq(S)
    PROVE  q \o <<>> = q /\ <<>> \o q = q
  BY ConcatEmptySeq

-----------------------------------------------------------------------------
(* What is on its way, as it is taken and as more is sent.                  *)

LEMMA CarriesNothing ==
    ASSUME NEW kind, NEW whole, NEW D, NEW T \in Seq(D), NEW n
    PROVE  /\ Carries(<<>>, kind, whole, T, n) => n = Len(T)
           /\ Carries(<<>>, kind, whole, T, Len(T))
  <1>1. Len(T) \in Nat /\ Len(<<>>) = 0 /\ 1..(Len(<<>>) + 1) = {1}
    OBVIOUS
  <1>2. ASSUME Carries(<<>>, kind, whole, T, n)
        PROVE  n = Len(T)
    BY <1>1, <1>2 DEF Carries, Delivers
  <1>3. Carries(<<>>, kind, whole, T, Len(T))
    <2> DEFINE f == [i \in 1..(Len(<<>>) + 1) |-> Len(T)]
    <2>1. f \in [1..(Len(<<>>) + 1) -> 0..Len(T)]
      BY <1>1
    <2>2. Delivers(f, <<>>, kind, whole, T, Len(T))
      BY <1>1, <2>1 DEF Delivers
    <2>3. QED
      BY <2>1, <2>2 DEF Carries
  <1>4. QED
    BY <1>2, <1>3

LEMMA CarriesTake ==
    ASSUME NEW S, NEW q \in Seq(S), q # <<>>, NEW kind, NEW whole, NEW D, NEW T \in Seq(D), NEW n,
           Carries(q, kind, whole, T, n)
    PROVE  /\ n \in 0..Len(T)
           /\ Head(q).kind = kind => /\ n + 1 \in 1..Len(T) /\ Head(q).data = T[n + 1]
                                     /\ Carries(Tail(q), kind, whole, T, n + 1)
           /\ Head(q).kind # kind => Carries(Tail(q), kind, whole, T, n)
           /\ Head(q).kind = whole => n = Len(T)
  <1>1. PICK f \in [1..(Len(q) + 1) -> 0..Len(T)] : Delivers(f, q, kind, whole, T, n)
    BY DEF Carries
  <1>2. /\ Head(q) = q[1] /\ Tail(q) \in Seq(S) /\ Len(Tail(q)) = Len(q) - 1 /\ Len(q) >= 1
        /\ \A i \in 1..Len(Tail(q)) : Tail(q)[i] = q[i + 1]
    BY HeadTailProperties, EmptySeq
  <1>3. Len(q) \in Nat /\ Len(T) \in Nat /\ 1 \in 1..Len(q)
    BY <1>2
  <1> DEFINE t == Tail(q)
             g == [i \in 1..(Len(t) + 1) |-> f[i + 1]]
  <1>4. Len(t) = Len(q) - 1 /\ Len(t) \in Nat /\ \A i \in 1..Len(t) : t[i] = q[i + 1]
    BY <1>2, <1>3
  <1> HIDE DEF t
  <1>5. g \in [1..(Len(t) + 1) -> 0..Len(T)] /\ \A i \in 1..(Len(t) + 1) : g[i] = f[i + 1]
    BY <1>3, <1>4
  <1> HIDE DEF g
  <1>6. g[1] = f[2] /\ g[Len(t) + 1] = f[Len(q) + 1]
    BY <1>3, <1>4, <1>5
  <1>7. ASSUME NEW i \in 1..Len(t)
        PROVE  /\ t[i].kind = kind => g[i + 1] = g[i] + 1 /\ t[i].data = T[g[i] + 1]
               /\ t[i].kind # kind => g[i + 1] = g[i]
               /\ t[i].kind = whole => g[i] = Len(T)
    <2>1. /\ i + 1 \in 1..Len(q) /\ t[i] = q[i + 1] /\ g[i] = f[i + 1] /\ g[i + 1] = f[(i + 1) + 1]
      BY <1>3, <1>4, <1>5
    <2>2. QED
      BY <1>1, <2>1 DEF Delivers
  <1>8. Delivers(g, t, kind, whole, T, f[2])
    BY <1>1, <1>5, <1>6, <1>7 DEF Delivers
  <1>9. Carries(t, kind, whole, T, f[2])
    BY <1>5, <1>8 DEF Carries
  <1>10. /\ f[1] = n /\ f[1] \in 0..Len(T) /\ f[2] \in 0..Len(T)
         /\ q[1].kind = kind => f[2] = n + 1 /\ q[1].data = T[n + 1]
         /\ q[1].kind # kind => f[2] = n
         /\ q[1].kind = whole => n = Len(T)
    <2>1. /\ q[1].kind = kind => f[1 + 1] = f[1] + 1 /\ q[1].data = T[f[1] + 1]
          /\ q[1].kind # kind => f[1 + 1] = f[1]
          /\ q[1].kind = whole => f[1] = Len(T)
          /\ f[1] = n
      BY <1>1, <1>3 DEF Delivers
    <2>2. 1 + 1 = 2 /\ 1 \in 1..(Len(q) + 1) /\ 2 \in 1..(Len(q) + 1)
      BY <1>3
    <2>3. f[1] \in 0..Len(T) /\ f[2] \in 0..Len(T)
      BY <2>2
    <2>4. QED
      BY <2>1, <2>2, <2>3
  <1>11. QED
    BY <1>2, <1>3, <1>9, <1>10 DEF t

LEMMA CarriesJoin ==
    ASSUME NEW S, NEW q \in Seq(S), NEW e \in Seq(S), NEW kind, NEW whole, NEW D,
           NEW T \in Seq(D), NEW U \in Seq(D), NEW n,
           Carries(q, kind, whole, T, n), Carries(e, kind, whole, U, Len(T)),
           Prefix(T, U), Len(T) = Len(U) \/ Lacks(q, whole)
    PROVE  Carries(q \o e, kind, whole, U, n)
  <1>1. PICK f \in [1..(Len(q) + 1) -> 0..Len(T)] : Delivers(f, q, kind, whole, T, n)
    BY DEF Carries
  <1>2. PICK g \in [1..(Len(e) + 1) -> 0..Len(U)] : Delivers(g, e, kind, whole, U, Len(T))
    BY DEF Carries
  <1> DEFINE a == q \o e
             h == [i \in 1..(Len(a) + 1) |-> IF i <= Len(q) THEN f[i] ELSE g[i - Len(q)]]
  <1>3. Len(a) = Len(q) + Len(e) /\ Len(q) \in Nat /\ Len(e) \in Nat
    BY Joined
  <1>4. Len(T) \in Nat /\ Len(U) \in Nat /\ Len(T) <= Len(U)
    BY DEF Prefix
  <1>5. \A i \in 1..Len(q) : a[i] = q[i]
    BY Joined
  <1>6. \A i \in 1..Len(e) : a[Len(q) + i] = e[i]
    BY Joined
  <1> HIDE DEF a
  <1>7. h \in [1..(Len(a) + 1) -> 0..Len(U)]
    <2>1. ASSUME NEW i \in 1..(Len(a) + 1)
          PROVE  (IF i <= Len(q) THEN f[i] ELSE g[i - Len(q)]) \in 0..Len(U)
      <3>1. CASE i <= Len(q)
        <4>1. f[i] \in 0..Len(T)
          BY <1>3, <3>1
        <4>2. QED
          BY <1>4, <3>1, <4>1
      <3>2. CASE ~(i <= Len(q))
        <4>1. i - Len(q) \in 1..(Len(e) + 1)
          BY <1>3, <3>2
        <4>2. QED
          BY <3>2, <4>1
      <3>3. QED
        BY <3>1, <3>2
    <2>2. QED
      BY <2>1
  <1>8. \A i \in 1..(Len(a) + 1) : h[i] = IF i <= Len(q) THEN f[i] ELSE g[i - Len(q)]
    OBVIOUS
  <1> HIDE DEF h
  <1>9. /\ f[1] = n /\ f[Len(q) + 1] = Len(T) /\ g[1] = Len(T) /\ g[Len(e) + 1] = Len(U)
    BY <1>1, <1>2 DEF Delivers
  <1>10. \A i \in 1..(Len(q) + 1) : h[i] = f[i]
    <2>1. ASSUME NEW i \in 1..(Len(q) + 1)
          PROVE  h[i] = f[i]
      <3>1. CASE i <= Len(q)
        BY <1>3, <1>8, <3>1
      <3>2. CASE i = Len(q) + 1
        <4>1. i \in 1..(Len(a) + 1) /\ ~(i <= Len(q)) /\ i - Len(q) = 1
          BY <1>3, <3>2
        <4>2. QED
          BY <1>8, <1>9, <3>2, <4>1
      <3>3. QED
        BY <1>3, <3>1, <3>2
    <2>2. QED
      BY <2>1
  <1>11. \A i \in 1..(Len(e) + 1) : h[Len(q) + i] = g[i]
    <2>1. ASSUME NEW i \in 1..(Len(e) + 1)
          PROVE  h[Len(q) + i] = g[i]
      <3>1. Len(q) + i \in 1..(Len(a) + 1) /\ ~(Len(q) + i <= Len(q)) /\ (Len(q) + i) - Len(q) = i
        BY <1>3
      <3>2. QED
        BY <1>8, <3>1
    <2>2. QED
      BY <2>1
  <1>12. ASSUME NEW i \in 1..Len(a)
         PROVE  /\ a[i].kind = kind => h[i + 1] = h[i] + 1 /\ a[i].data = U[h[i] + 1]
                /\ a[i].kind # kind => h[i + 1] = h[i]
                /\ a[i].kind = whole => h[i] = Len(U)
    <2>1. CASE i \in 1..Len(q)
      <3>1. /\ i \in 1..(Len(q) + 1) /\ i + 1 \in 1..(Len(q) + 1)
            /\ h[i] = f[i] /\ h[i + 1] = f[i + 1] /\ a[i] = q[i]
            /\ f[i] \in 0..Len(T) /\ f[i + 1] \in 0..Len(T)
        BY <1>3, <1>5, <1>10, <2>1
      <3>2. /\ q[i].kind = kind => f[i + 1] = f[i] + 1 /\ q[i].data = T[f[i] + 1]
            /\ q[i].kind # kind => f[i + 1] = f[i]
            /\ q[i].kind = whole => f[i] = Len(T)
        BY <1>1, <2>1 DEF Delivers
      <3>3. q[i].kind = kind => T[f[i] + 1] = U[f[i] + 1]
        BY <1>4, <3>1, <3>2 DEF Prefix
      <3>4. q[i].kind = whole => Len(T) = Len(U)
        BY <2>1 DEF Lacks
      <3>5. QED
        BY <3>1, <3>2, <3>3, <3>4
    <2>2. CASE i \notin 1..Len(q)
      <3>1. PICK j \in 1..Len(e) : i = Len(q) + j
        <4>1. i - Len(q) \in 1..Len(e) /\ i = Len(q) + (i - Len(q))
          BY <1>3, <2>2
        <4>2. QED
          BY <4>1
      <3>2. /\ j \in 1..(Len(e) + 1) /\ j + 1 \in 1..(Len(e) + 1) /\ Len(q) + (j + 1) = i + 1
        BY <1>3, <3>1
      <3>3. h[i] = g[j] /\ h[i + 1] = g[j + 1] /\ a[i] = e[j]
        BY <1>6, <1>11, <3>1, <3>2
      <3>4. QED
        BY <1>2, <3>3 DEF Delivers
    <2>3. QED
      BY <2>1, <2>2
  <1>13. h[1] = n /\ h[Len(a) + 1] = Len(U)
    <2>1. 1 \in 1..(Len(q) + 1) /\ Len(e) + 1 \in 1..(Len(e) + 1) /\ Len(q) + (Len(e) + 1) = Len(a) + 1
      BY <1>3
    <2>2. QED
      BY <1>9, <1>10, <1>11, <2>1
  <1>14. Delivers(h, a, kind, whole, U, n)
    BY <1>7, <1>12, <1>13 DEF Delivers
  <1>15. QED
    BY <1>7, <1>14 DEF Carries, a

LEMMA CarriesOne ==
    ASSUME NEW kind, NEW whole, kind # whole, NEW D, NEW T \in Seq(D), NEW e
    PROVE  /\ e.kind # kind => Carries(<<e>>, kind, whole, T, Len(T))
           /\ e.kind = kind /\ T # <<>> /\ e.data = T[Len(T)]
                 => Carries(<<e>>, kind, whole, T, Len(T) - 1)
  <1>1. Len(<<e>>) = 1 /\ <<e>>[1] = e /\ Len(T) \in Nat /\ (T # <<>> => Len(T) > 0)
        /\ 1..Len(<<e>>) = {1} /\ 1..(Len(<<e>>) + 1) = {1, 2}
    BY EmptySeq
  <1>2. ASSUME e.kind # kind
        PROVE  Carries(<<e>>, kind, whole, T, Len(T))
    <2> DEFINE f == [i \in 1..(Len(<<e>>) + 1) |-> Len(T)]
    <2>1. f \in [1..(Len(<<e>>) + 1) -> 0..Len(T)] /\ f[1] = Len(T) /\ f[2] = Len(T)
      BY <1>1
    <2> HIDE DEF f
    <2>2. Delivers(f, <<e>>, kind, whole, T, Len(T))
      BY <1>1, <1>2, <2>1 DEF Delivers
    <2>3. QED
      BY <2>1, <2>2 DEF Carries
  <1>3. ASSUME e.kind = kind, T # <<>>, e.data = T[Len(T)]
        PROVE  Carries(<<e>>, kind, whole, T, Len(T) - 1)
    <2> DEFINE f == [i \in 1..(Len(<<e>>) + 1) |-> IF i = 1 THEN Len(T) - 1 ELSE Len(T)]
    <2>1. f \in [1..(Len(<<e>>) + 1) -> 0..Len(T)] /\ f[1] = Len(T) - 1 /\ f[2] = Len(T)
      BY <1>1, <1>3
    <2> HIDE DEF f
    <2>2. Delivers(f, <<e>>, kind, whole, T, Len(T) - 1)
      BY <1>1, <1>3, <2>1 DEF Delivers
    <2>3. QED
      BY <2>1, <2>2 DEF Carries
  <1>4. QED
    BY <1>2, <1>3

LEMMA LacksTake ==
    ASSUME NEW S, NEW q \in Seq(S), q # <<>>, NEW kind
    PROVE  /\ Lacks(q, kind) => Head(q).kind # kind /\ Lacks(Tail(q), kind)
           /\ Head(q).kind # kind /\ ~Lacks(q, kind) => ~Lacks(Tail(q), kind)
  <1>1. /\ Head(q) = q[1] /\ Tail(q) \in Seq(S) /\ Len(Tail(q)) = Len(q) - 1 /\ Len(q) >= 1
        /\ \A i \in 1..Len(Tail(q)) : Tail(q)[i] = q[i + 1]
    BY HeadTailProperties, EmptySeq
  <1>2. Len(q) \in Nat /\ 1 \in 1..Len(q)
    BY <1>1
  <1>3. ASSUME Lacks(q, kind)
        PROVE  Head(q).kind # kind /\ Lacks(Tail(q), kind)
    BY <1>1, <1>2, <1>3 DEF Lacks
  <1>4. ASSUME Head(q).kind # kind, ~Lacks(q, kind)
        PROVE  ~Lacks(Tail(q), kind)
    <2>1. PICK i \in 1..Len(q) : q[i].kind = kind
      BY <1>4 DEF Lacks
    <2>2. i - 1 \in 1..Len(Tail(q)) /\ Tail(q)[i - 1] = q[i]
      BY <1>1, <1>2, <1>4, <2>1
    <2>3. QED
      BY <2>1, <2>2 DEF Lacks
  <1>5. QED
    BY <1>3, <1>4

LEMMA LacksJoin ==
    ASSUME NEW S, NEW q \in Seq(S), NEW e \in Seq(S), NEW kind
    PROVE  Lacks(q \o e, kind) <=> Lacks(q, kind) /\ Lacks(e, kind)
  <1>1. ASSUME Lacks(q, kind), Lacks(e, kind), NEW i \in 1..Len(q \o e)
        PROVE  (q \o e)[i].kind # kind
    <2>1. \/ i \in 1..Len(q) /\ (q \o e)[i] = q[i]
          \/ \E j \in 1..Len(e) : i = Len(q) + j /\ (q \o e)[i] = e[j]
      BY JoinedAt
    <2>2. QED
      BY <1>1, <2>1 DEF Lacks
  <1>2. ASSUME Lacks(q \o e, kind)
        PROVE  Lacks(q, kind) /\ Lacks(e, kind)
    <2>1. ASSUME NEW i \in 1..Len(q)
          PROVE  q[i].kind # kind
      BY <1>2, Joined DEF Lacks
    <2>2. ASSUME NEW i \in 1..Len(e)
          PROVE  e[i].kind # kind
      <3>1. Len(q) + i \in 1..Len(q \o e) /\ (q \o e)[Len(q) + i] = e[i]
        BY Joined
      <3>2. QED
        BY <1>2, <3>1 DEF Lacks
    <2>3. QED
      BY <2>1, <2>2 DEF Lacks
  <1>3. QED
    BY <1>1, <1>2 DEF Lacks

LEMMA AllCarryJoin ==
    ASSUME NEW S, NEW q \in Seq(S), NEW e \in Seq(S), NEW kind, NEW d,
           AllCarry(q, kind, d), AllCarry(e, kind, d)
    PROVE  AllCarry(q \o e, kind, d)
  <1>1. ASSUME NEW i \in 1..Len(q \o e), (q \o e)[i].kind = kind
        PROVE  (q \o e)[i].data = d
    <2>1. \/ i \in 1..Len(q) /\ (q \o e)[i] = q[i]
          \/ \E j \in 1..Len(e) : i = Len(q) + j /\ (q \o e)[i] = e[j]
      BY JoinedAt
    <2>2. QED
      BY <1>1, <2>1 DEF AllCarry
  <1>2. QED
    BY <1>1 DEF AllCarry

LEMMA AllCarryTake ==
    ASSUME NEW S, NEW q \in Seq(S), q # <<>>, NEW kind, NEW d, AllCarry(q, kind, d)
    PROVE  /\ Head(q).kind = kind => Head(q).data = d
           /\ AllCarry(Tail(q), kind, d)
  <1>1. /\ Head(q) = q[1] /\ Len(Tail(q)) = Len(q) - 1 /\ Len(q) >= 1
        /\ \A i \in 1..Len(Tail(q)) : Tail(q)[i] = q[i + 1]
    BY HeadTailProperties, EmptySeq
  <1>2. Len(q) \in Nat /\ 1 \in 1..Len(q)
    BY <1>1
  <1>3. ASSUME NEW i \in 1..Len(Tail(q))
        PROVE  Tail(q)[i] = q[i + 1] /\ i + 1 \in 1..Len(q)
    BY <1>1, <1>2
  <1>4. QED
    BY <1>1, <1>2, <1>3 DEF AllCarry

LEMMA LacksOne ==
    ASSUME NEW e, NEW kind
    PROVE  Lacks(<<e>>, kind) <=> e.kind # kind
  BY DEF Lacks

LEMMA LacksNothing ==
    ASSUME NEW kind
    PROVE  Lacks(<<>>, kind)
  BY DEF Lacks

(* The consumer takes the oldest event.                                     *)
LEMMA LatestTake ==
    ASSUME NEW S, NEW q \in Seq(S), q # <<>>, NEW old, NEW new, NEW t, Latest(q, old, t),
           Head(q).kind \notin {"thinking", "thought"} => new = old,
           Head(q).kind = "thought" => new = Head(q).data
    PROVE  Latest(Tail(q), new, t)
  <1>1. /\ Head(q) = q[1] /\ Tail(q) \in Seq(S) /\ Len(Tail(q)) = Len(q) - 1 /\ Len(q) >= 1
        /\ \A i \in 1..Len(Tail(q)) : Tail(q)[i] = q[i + 1]
    BY HeadTailProperties, EmptySeq
  <1>2. Len(q) \in Nat /\ 1 \in 1..Len(q)
    BY <1>1
  <1>3. CASE Lacks(q, "thinking") /\ Lacks(q, "thought") /\ old = t
    BY <1>3, LacksTake DEF Latest
  <1>4. CASE \E i \in 1..Len(q) :
               /\ q[i].kind = "thought" /\ q[i].data = t
               /\ \A j \in (i + 1)..Len(q) : q[j].kind \notin {"thinking", "thought"}
    <2>1. PICK i \in 1..Len(q) :
             /\ q[i].kind = "thought" /\ q[i].data = t
             /\ \A j \in (i + 1)..Len(q) : q[j].kind \notin {"thinking", "thought"}
      BY <1>4
    <2>2. CASE i = 1
      <3>1. ASSUME NEW j \in 1..Len(Tail(q))
            PROVE  Tail(q)[j].kind \notin {"thinking", "thought"}
        <4>1. Tail(q)[j] = q[j + 1] /\ j + 1 \in (i + 1)..Len(q)
          BY <1>1, <1>2, <2>2
        <4>2. QED
          BY <2>1, <4>1
      <3>2. Lacks(Tail(q), "thinking") /\ Lacks(Tail(q), "thought")
        BY <3>1 DEF Lacks
      <3>3. new = t
        BY <1>1, <2>1, <2>2
      <3>4. QED
        BY <3>2, <3>3 DEF Latest
    <2>3. CASE i # 1
      <3>1. i - 1 \in 1..Len(Tail(q)) /\ Tail(q)[i - 1] = q[i]
        BY <1>1, <1>2, <2>1, <2>3
      <3>2. ASSUME NEW j \in ((i - 1) + 1)..Len(Tail(q))
            PROVE  Tail(q)[j].kind \notin {"thinking", "thought"}
        <4>1. j \in 1..Len(Tail(q)) /\ j + 1 \in (i + 1)..Len(q)
          BY <1>1, <1>2, <2>1, <2>3
        <4>2. QED
          BY <1>1, <2>1, <4>1
      <3>3. QED
        BY <2>1, <3>1, <3>2 DEF Latest
    <2>4. QED
      BY <2>2, <2>3
  <1>5. QED
    BY <1>3, <1>4 DEF Latest

(* Events that say nothing about thinking are sent.                         *)
LEMMA LatestJoin ==
    ASSUME NEW S, NEW q \in Seq(S), NEW e \in Seq(S), NEW old, NEW t, Latest(q, old, t),
           Lacks(e, "thinking"), Lacks(e, "thought")
    PROVE  Latest(q \o e, old, t)
  <1>1. CASE Lacks(q, "thinking") /\ Lacks(q, "thought") /\ old = t
    BY <1>1, LacksJoin DEF Latest
  <1>2. CASE \E i \in 1..Len(q) :
               /\ q[i].kind = "thought" /\ q[i].data = t
               /\ \A j \in (i + 1)..Len(q) : q[j].kind \notin {"thinking", "thought"}
    <2>1. PICK i \in 1..Len(q) :
             /\ q[i].kind = "thought" /\ q[i].data = t
             /\ \A j \in (i + 1)..Len(q) : q[j].kind \notin {"thinking", "thought"}
      BY <1>2
    <2>2. i \in 1..Len(q \o e) /\ (q \o e)[i] = q[i]
      BY Joined
    <2>3. ASSUME NEW j \in (i + 1)..Len(q \o e)
          PROVE  (q \o e)[j].kind \notin {"thinking", "thought"}
      <3>0. j \in 1..Len(q \o e)
        BY Joined
      <3>1. \/ j \in 1..Len(q) /\ (q \o e)[j] = q[j]
            \/ \E k \in 1..Len(e) : j = Len(q) + k /\ (q \o e)[j] = e[k]
        BY <3>0, JoinedAt
      <3>2. QED
        BY <2>1, <3>1 DEF Lacks
    <2>4. QED
      BY <2>1, <2>2, <2>3 DEF Latest
  <1>3. QED
    BY <1>1, <1>2 DEF Latest

(* A complete thought is sent last.                                         *)
LEMMA LatestThought ==
    ASSUME NEW S, NEW q \in Seq(S), NEW e \in S, e.kind = "thought", NEW old
    PROVE  Latest(q \o <<e>>, old, e.data)
  <1>1. q \o <<e>> = Append(q, e)
    BY AppendIsConcat
  <1>2. Len(q) + 1 \in 1..Len(q \o <<e>>) /\ (q \o <<e>>)[Len(q) + 1] = e /\ Len(q \o <<e>>) = Len(q) + 1
        /\ Len(q) \in Nat
    BY <1>1, AppendProperties
  <1>3. \A j \in ((Len(q) + 1) + 1)..Len(q \o <<e>>) : FALSE
    BY <1>2
  <1>4. QED
    BY <1>2, <1>3 DEF Latest

(* Events of other kinds deliver nothing.                                   *)
LEMMA CarriesLacking ==
    ASSUME NEW S, NEW e \in Seq(S), NEW kind, NEW whole, NEW D, NEW T \in Seq(D), Lacks(e, kind)
    PROVE  Carries(e, kind, whole, T, Len(T))
  <1> DEFINE f == [i \in 1..(Len(e) + 1) |-> Len(T)]
  <1>1. Len(e) \in Nat /\ Len(T) \in Nat
    OBVIOUS
  <1>2. f \in [1..(Len(e) + 1) -> 0..Len(T)] /\ \A i \in 1..(Len(e) + 1) : f[i] = Len(T)
    BY <1>1
  <1> HIDE DEF f
  <1>3. f[1] = Len(T) /\ f[Len(e) + 1] = Len(T)
    BY <1>1, <1>2
  <1>4. ASSUME NEW i \in 1..Len(e)
        PROVE  e[i].kind # kind /\ f[i + 1] = f[i] /\ f[i] = Len(T)
    <2>1. i \in 1..(Len(e) + 1) /\ i + 1 \in 1..(Len(e) + 1)
      BY <1>1
    <2>2. QED
      BY <1>2, <2>1 DEF Lacks
  <1>5. Delivers(f, e, kind, whole, T, Len(T))
    BY <1>2, <1>3, <1>4 DEF Delivers
  <1>6. QED
    BY <1>2, <1>5 DEF Carries

-----------------------------------------------------------------------------
(* Types.                                                                   *)

LEMMA EventTyped ==
    ASSUME NEW d \in Pieces
    PROVE  /\ \A kind \in {"text", "thinking", "content", "thought", "other", "error"} :
                 Event(kind, d) \in Events /\ Event(kind, d).kind = kind /\ Event(kind, d).data = d
           /\ Other \in Events /\ Other.kind = "other"
           /\ Event("error", <<>>) \in Events
  <1>1. <<>> \in Pieces
    BY DEF Pieces
  <1>2. QED
    BY <1>1 DEF Event, Other, Events

LEMMA CallTyped ==
    ASSUME NEW c \in Call
    PROVE  Event("call", c) \in Events /\ Event("call", c).kind = "call" /\ Event("call", c).data = c
  BY DEF Event, Events

(* An event or none.                                                        *)
LEMMA OptionalTyped ==
    ASSUME NEW e \in Events, NEW b \in BOOLEAN
    PROVE  (IF b THEN <<>> ELSE <<e>>) \in Seq(Events)
  OBVIOUS

(* What the session sends when a block stops and at the end.                *)
LEMMA SessionTyped ==
    ASSUME NEW s \in Sessions
    PROVE  Stopped(s) \in Seq(Events) /\ Finalized(s) \in Seq(Events)
           /\ AfterStop(s).content = s.content /\ AfterStop(s).thinking = <<>>
           /\ AfterStop(s).call = NoCall
           /\ AfterStop(s) \in Sessions
  <1>1. s.content \in Pieces /\ s.thinking \in Pieces /\ s.call \in Call /\ <<>> \in Pieces
    BY DEF Pieces, Sessions
  <1>2. NoCall \in Call
    BY <1>1 DEF NoCall, Call
  <1>3. /\ (IF s.content = <<>> THEN <<>> ELSE <<Event("content", s.content)>>) \in Seq(Events)
        /\ (IF s.thinking = <<>> THEN <<>> ELSE <<Event("thought", s.thinking)>>) \in Seq(Events)
        /\ (IF s.call = NoCall THEN <<>> ELSE <<Event("call", s.call)>>) \in Seq(Events)
    BY <1>1, EventTyped, CallTyped, OptionalTyped
  <1>4. Stopped(s) \in Seq(Events) /\ Finalized(s) \in Seq(Events)
    BY <1>3, ConcatProperties DEF Stopped, Finalized
  <1>5. QED
    BY <1>1, <1>2, <1>4 DEF AfterStop, Sessions

(* The data of an event the consumer uses.                                  *)
LEMMA AccumulatedTyped ==
    ASSUME NEW a \in Answers, NEW e \in Events
    PROVE  /\ Accumulated(a, e) \in Answers
           /\ Accumulated(a, e).content = IF e.kind = "text" THEN a.content \o e.data
                                          ELSE IF e.kind = "content" THEN e.data ELSE a.content
           /\ Accumulated(a, e).thinking = IF e.kind = "thinking" THEN a.thinking \o e.data
                                           ELSE IF e.kind = "thought" THEN e.data ELSE a.thinking
           /\ Accumulated(a, e).calls = IF e.kind = "call" THEN Append(a.calls, e.data) ELSE a.calls
  <1>1. /\ e.kind \in {"text", "thinking", "content", "thought", "other", "error", "call"}
        /\ e.kind = "call" => e.data \in Call
        /\ e.kind # "call" => e.data \in Pieces
    BY DEF Events
  <1>2. /\ e.kind # "call" => a.thinking \o e.data \in Pieces /\ a.content \o e.data \in Pieces
        /\ e.kind = "call" => Append(a.calls, e.data) \in Seq(Call)
    BY <1>1, ConcatProperties, AppendProperties DEF Pieces, Answers
  <1>3. CASE e.kind = "thinking"
    BY <1>1, <1>2, <1>3 DEF Accumulated, Answers
  <1>4. CASE e.kind = "thought"
    BY <1>1, <1>2, <1>4 DEF Accumulated, Answers
  <1>5. CASE e.kind = "text"
    BY <1>1, <1>2, <1>5 DEF Accumulated, Answers
  <1>6. CASE e.kind = "content"
    BY <1>1, <1>2, <1>6 DEF Accumulated, Answers
  <1>7. CASE e.kind = "call"
    BY <1>1, <1>2, <1>7 DEF Accumulated, Answers
  <1>8. CASE e.kind \in {"other", "error"}
    BY <1>1, <1>2, <1>8 DEF Accumulated, Answers
  <1>9. QED
    BY <1>1, <1>3, <1>4, <1>5, <1>6, <1>7, <1>8

LEMMA TypeInit == Init => TypeInv
  <1>1. <<>> \in Pieces /\ <<>> \in Seq(Pieces) /\ <<>> \in Seq(Call) /\ <<>> \in Seq(Events)
    BY DEF Pieces
  <1>2. NoCall \in Call
    BY <1>1 DEF NoCall, Call
  <1> SUFFICES ASSUME Init
               PROVE  TypeInv
    OBVIOUS
  <1>3. session \in Sessions
    BY <1>1, <1>2 DEF Init, Sessions
  <1>4. sent \in Responses
    BY <1>1 DEF Init, Responses
  <1>5. answer \in Answers
    BY <1>1 DEF Init, Answers
  <1>6. protocol \in {"anthropic", "openai"} /\ strayed \in BOOLEAN
    BY DEF Init
  <1>7. channel \in Seq(Events) /\ emitting \in Seq(Events) /\ Len(channel) <= Capacity /\ deltas \in Pieces
    <2>1. channel = <<>> /\ emitting = <<>> /\ deltas = <<>> /\ Len(<<>>) = 0 /\ Capacity >= 0
      BY DEF Init
    <2>2. QED
      BY <1>1, <2>1
  <1>8. /\ block \in {"none", "text", "thinking", "tool"}
        /\ reader \in {"reading", "flushing", "closing", "ended"}
        /\ outcome \in {"reading", "ok", "error"} /\ pieces \in 0..MaxPieces
    BY DEF Init
  <1>9. finished \in BOOLEAN /\ broken \in BOOLEAN
    BY DEF Init
  <1>10. QED
    BY <1>3, <1>4, <1>5, <1>6, <1>7, <1>8, <1>9 DEF TypeInv

LEMMA Shape ==
    ASSUME TypeInv
    PROVE  /\ session.content \in Pieces /\ session.thinking \in Pieces /\ session.call \in Call
           /\ session = [content |-> session.content, thinking |-> session.thinking,
                         call |-> session.call]
           /\ sent.text \in Pieces /\ sent.thinking \in Seq(Pieces) /\ sent.calls \in Seq(Call)
           /\ sent = [text |-> sent.text, thinking |-> sent.thinking, calls |-> sent.calls,
                      unread |-> sent.unread]
           /\ <<>> \in Pieces
  BY DEF TypeInv, Sessions, Responses, Pieces

(* A number more.                                                           *)
LEMMA PieceTyped ==
    ASSUME TypeInv, pieces < MaxPieces
    PROVE  /\ Piece \in 1..MaxPieces /\ NewCall \in Call /\ NewCall # NoCall
           /\ \A s \in Pieces : Append(s, Piece) \in Pieces /\ Append(s, Piece) # <<>>
           /\ <<Piece>> \in Pieces
           /\ \A c \in Call : WithArgs(c) \in Call /\ WithArgs(c) # NoCall
  <1>1. Piece \in 1..MaxPieces
    BY DEF TypeInv, Piece
  <1>2. <<>> \in Pieces /\ <<Piece>> \in Pieces
    BY <1>1 DEF Pieces
  <1>3. \A s \in Pieces : Append(s, Piece) \in Pieces /\ Append(s, Piece) # <<>>
    BY <1>1, AppendProperties DEF Pieces
  <1>4. NewCall \in Call /\ NewCall # NoCall
    BY <1>1, <1>2 DEF NewCall, Call, NoCall
  <1>5. ASSUME NEW c \in Call
        PROVE  WithArgs(c) \in Call /\ WithArgs(c) # NoCall
    <2>1. c.args \in Pieces /\ Append(c.args, Piece) \in Pieces /\ Append(c.args, Piece) # <<>>
      BY <1>3 DEF Call
    <2>2. WithArgs(c) \in Call /\ WithArgs(c).args = Append(c.args, Piece)
      BY <2>1 DEF WithArgs, Call
    <2>3. NoCall.args = <<>>
      BY DEF NoCall
    <2>4. QED
      BY <2>1, <2>2, <2>3
  <1>6. QED
    BY <1>1, <1>2, <1>3, <1>4, <1>5

(* Arguments of one call leave the others and every id as they were.        *)
LEMMA SentArgsAt ==
    ASSUME TypeInv, pieces < MaxPieces, NEW k \in DOMAIN sent.calls
    PROVE  /\ SentArgs(sent.calls, k) \in Seq(Call)
           /\ Len(SentArgs(sent.calls, k)) = Len(sent.calls)
           /\ \A i \in 1..Len(sent.calls) :
                 SentArgs(sent.calls, k)[i] = IF i = k THEN WithArgs(sent.calls[i]) ELSE sent.calls[i]
           /\ \A c \in Call : WithArgs(c).id = c.id
  <1>1. sent.calls \in Seq(Call) /\ k \in 1..Len(sent.calls) /\ sent.calls[k] \in Call
    BY Shape
  <1>2. WithArgs(sent.calls[k]) \in Call
    BY <1>1, PieceTyped
  <1>3. SentArgs(sent.calls, k) = [sent.calls EXCEPT ![k] = WithArgs(sent.calls[k])]
    BY DEF SentArgs
  <1>4. /\ SentArgs(sent.calls, k) \in Seq(Call)
        /\ Len(SentArgs(sent.calls, k)) = Len(sent.calls)
        /\ \A i \in 1..Len(sent.calls) :
              SentArgs(sent.calls, k)[i] = IF i = k THEN WithArgs(sent.calls[k]) ELSE sent.calls[i]
    BY <1>1, <1>2, <1>3, ExceptSeq
  <1>5. \A c \in Call : WithArgs(c).id = c.id
    BY DEF WithArgs, Call
  <1>6. QED
    BY <1>4, <1>5

(* The call that starts has its id, and no arguments unless they stray.     *)
LEMMA StartSent ==
    ASSUME TypeInv, ToolCallStart
    PROVE  /\ \E c \in Call : /\ sent' = [sent EXCEPT !.calls = Append(@, c)]
                              /\ c.id = NewCall.id /\ (strayed' \/ c = NewCall)
           /\ strayed' \in BOOLEAN /\ (strayed' => protocol = "openai")
  <1>1. pieces < MaxPieces
    BY DEF ToolCallStart
  <1>2. NewCall \in Call /\ WithArgs(NewCall) \in Call
    BY <1>1, PieceTyped
  <1>3. PICK early \in IF protocol = "openai" THEN BOOLEAN ELSE {FALSE} :
           /\ sent' = [sent EXCEPT !.calls = Append(@, IF early THEN WithArgs(NewCall) ELSE NewCall)]
           /\ strayed' = early
    BY DEF ToolCallStart
  <1>4. early \in BOOLEAN /\ (early => protocol = "openai")
    BY <1>3
  <1>5. WithArgs(NewCall).id = NewCall.id
    BY DEF WithArgs, NewCall
  <1>6. CASE early
    BY <1>2, <1>3, <1>4, <1>5, <1>6
  <1>7. CASE ~early
    BY <1>2, <1>3, <1>4, <1>7
  <1>8. QED
    BY <1>6, <1>7

(* Arguments, and what is passed over, add to one call at most: the last    *)
(* keeps its id, and what it gets is what was sent, or something strayed.   *)
SameButArgs(next) ==
    /\ sent' \in Responses
    /\ sent'.text = sent.text /\ sent'.thinking = sent.thinking
    /\ sent'.calls \in Seq(Call) /\ Len(sent'.calls) = Len(sent.calls)
    /\ strayed' \in BOOLEAN /\ (strayed => strayed')
    /\ sent.calls # <<>> =>
          /\ sent'.calls # <<>> /\ sent'.calls[Len(sent'.calls)].id = LastCall.id
          /\ strayed' \/ sent'.calls[Len(sent'.calls)] = next

LEMMA SentKept ==
    ASSUME TypeInv, NEW next, sent' = sent \/ (\E u \in SUBSET (1..MaxPieces) : sent' = [sent EXCEPT !.unread = u]),
           strayed' \in BOOLEAN, strayed => strayed', strayed' \/ sent.calls = <<>> \/ next = LastCall
    PROVE  SameButArgs(next)
  <1>1. /\ sent' \in Responses /\ sent'.text = sent.text /\ sent'.thinking = sent.thinking
        /\ sent'.calls = sent.calls
    <2>1. sent \in Responses
      BY DEF TypeInv
    <2>2. QED
      BY <2>1 DEF Responses
  <1>2. sent.calls \in Seq(Call)
    BY Shape
  <1>3. QED
    BY <1>1, <1>2 DEF SameButArgs, LastCall

LEMMA SentToOne ==
    ASSUME TypeInv, pieces < MaxPieces, NEW k \in DOMAIN sent.calls, NEW next,
           sent' = [sent EXCEPT !.calls = SentArgs(@, k)],
           strayed' \in BOOLEAN, strayed => strayed',
           strayed' \/ next = IF k = Len(sent.calls) THEN WithArgs(LastCall) ELSE LastCall
    PROVE  /\ SameButArgs(next)
           /\ k = Len(sent.calls) => \A i \in 1..(Len(sent.calls) - 1) : sent'.calls[i] = sent.calls[i]
  <1> DEFINE t == SentArgs(sent.calls, k)
             n == Len(sent.calls)
  <1>1. sent \in Responses /\ sent.calls \in Seq(Call) /\ n \in Nat /\ n \in 1..n /\ k \in 1..n
    BY Shape DEF TypeInv
  <1>2. /\ t \in Seq(Call) /\ Len(t) = n
        /\ \A i \in 1..n : t[i] = IF i = k THEN WithArgs(sent.calls[i]) ELSE sent.calls[i]
        /\ \A c \in Call : WithArgs(c).id = c.id
    BY SentArgsAt
  <1>3. sent' = [sent EXCEPT !.calls = t]
    OBVIOUS
  <1>4. LastCall = sent.calls[n] /\ LastCall \in Call
    BY <1>1 DEF LastCall
  <1> HIDE DEF t
  <1>5. /\ sent' \in Responses /\ sent'.text = sent.text /\ sent'.thinking = sent.thinking
        /\ sent'.calls = t
    BY <1>1, <1>2, <1>3 DEF Responses
  <1> HIDE DEF n
  <1>6. t[n] = (IF k = n THEN WithArgs(LastCall) ELSE LastCall) /\ t[n].id = LastCall.id
    BY <1>1, <1>2, <1>4
  <1>7. t # <<>>
    BY <1>1, <1>2, EmptySeq
  <1>8. SameButArgs(next)
    BY <1>2, <1>5, <1>6, <1>7 DEF SameButArgs, n
  <1>9. k = n => \A i \in 1..(n - 1) : sent'.calls[i] = sent.calls[i]
    BY <1>1, <1>2, <1>5
  <1>10. QED
    BY <1>8, <1>9 DEF n

LEMMA DeltaSent ==
    ASSUME TypeInv, ToolCallDelta
    PROVE  /\ SameButArgs(WithArgs(LastCall)) /\ (strayed' => strayed \/ protocol = "openai")
           /\ protocol = "anthropic" =>
                 /\ sent.calls # <<>>
                 /\ \A i \in 1..(Len(sent.calls) - 1) : sent'.calls[i] = sent.calls[i]
  <1>1. pieces < MaxPieces
    BY DEF ToolCallDelta
  <1>2. PICK k \in Targets :
           /\ sent' = IF k = 0 THEN sent ELSE [sent EXCEPT !.calls = SentArgs(@, k)]
           /\ strayed' = (strayed \/ k # Len(sent.calls))
    BY DEF ToolCallDelta
  <1>3. sent.calls \in Seq(Call) /\ Len(sent.calls) \in Nat /\ strayed \in BOOLEAN
    BY Shape DEF TypeInv
  <1>4. /\ k \in Nat /\ (k # 0 => k \in DOMAIN sent.calls)
        /\ protocol = "anthropic" => k # 0 /\ k = Len(sent.calls)
    BY <1>2, <1>3 DEF Targets
  <1>5. strayed' \in BOOLEAN /\ (strayed => strayed') /\ (strayed' => strayed \/ k # Len(sent.calls))
    BY <1>2, <1>3
  <1>6. CASE k = 0
    <2>1. sent' = sent /\ (strayed' \/ sent.calls = <<>>)
      BY <1>2, <1>3, <1>6, EmptySeq
    <2>2. SameButArgs(WithArgs(LastCall))
      BY <1>5, <2>1, SentKept
    <2>3. QED
      BY <1>4, <1>6, <2>2 DEF TypeInv
  <1>7. CASE k # 0
    <2>1. k \in DOMAIN sent.calls /\ sent' = [sent EXCEPT !.calls = SentArgs(@, k)]
      BY <1>2, <1>4, <1>7
    <2>2. strayed' \/ k = Len(sent.calls)
      BY <1>2, <1>3
    <2>3. /\ SameButArgs(WithArgs(LastCall))
          /\ k = Len(sent.calls) => \A i \in 1..(Len(sent.calls) - 1) : sent'.calls[i] = sent.calls[i]
      BY <1>1, <1>5, <2>1, <2>2, SentToOne
    <2>4. sent.calls # <<>>
      BY <1>3, <2>1, EmptySeq
    <2>5. QED
      BY <1>4, <1>5, <2>3, <2>4 DEF TypeInv
  <1>8. QED
    BY <1>6, <1>7

LEMMA PassedSent ==
    ASSUME TypeInv, PassedOver
    PROVE  SameButArgs(LastCall)
  <1>1. pieces < MaxPieces /\ strayed \in BOOLEAN
    BY DEF PassedOver, TypeInv
  <1>2. CASE UNCHANGED <<sent, strayed>>
    BY <1>1, <1>2, SentKept
  <1>3. CASE sent' = [sent EXCEPT !.unread = @ \cup {Piece}] /\ strayed' = strayed
    <2>1. sent.unread \cup {Piece} \in SUBSET (1..MaxPieces)
      BY <1>1, PieceTyped DEF TypeInv, Responses
    <2>2. QED
      BY <1>1, <1>3, <2>1, SentKept
  <1>4. CASE \E k \in DOMAIN sent.calls :
                /\ sent' = [sent EXCEPT !.calls = SentArgs(@, k)]
                /\ strayed' = (strayed \/ k = Len(sent.calls))
    <2>1. PICK k \in DOMAIN sent.calls :
                /\ sent' = [sent EXCEPT !.calls = SentArgs(@, k)]
                /\ strayed' = (strayed \/ k = Len(sent.calls))
      BY <1>4
    <2>2. strayed' \in BOOLEAN /\ (strayed => strayed') /\ (strayed' \/ k # Len(sent.calls))
      BY <1>1, <2>1
    <2>3. QED
      BY <1>1, <2>1, <2>2, SentToOne
  <1>5. QED
    BY <1>2, <1>3, <1>4 DEF PassedOver

(* What every line of the response does to the session and its events.      *)
LEMMA HandlesTyped ==
    ASSUME TypeInv, NEW s \in Sessions, NEW events \in Seq(Events), Handles(s, events),
           block' \in {"none", "text", "thinking", "tool"}, sent' \in Responses,
           strayed' \in BOOLEAN, pieces' \in 0..MaxPieces
    PROVE  TypeInv'
  <1>1. <<Other>> \in Seq(Events)
    <2>1. <<>> \in Pieces
      BY DEF Pieces
    <2>2. QED
      BY <2>1, EventTyped
  <1>2. QED
    BY <1>1 DEF TypeInv, Handles, consumerVars

LEMMA ThoughtsTyped ==
    ASSUME sent.thinking \in Seq(Pieces)
    PROVE  Thoughts \in Seq(Pieces)
  <1>1. CASE sent.thinking # <<>>
    <2>1. Len(sent.thinking) - 1 \in 0..Len(sent.thinking)
      BY <1>1, EmptySeq
    <2>2. QED
      BY <2>1, SubSeqProperties DEF Thoughts
  <1>2. QED
    BY <1>1 DEF Thoughts

LEMMA ServerTyped ==
    ASSUME TypeInv, SessionInv, ServerSends
    PROVE  TypeInv'
  <1>t. /\ session \in Sessions /\ sent \in Responses /\ <<>> \in Pieces /\ pieces \in 0..MaxPieces
        /\ session.content \in Pieces /\ session.thinking \in Pieces /\ session.call \in Call
        /\ sent.text \in Pieces /\ sent.thinking \in Seq(Pieces) /\ sent.calls \in Seq(Call)
        /\ Len(sent.thinking) \in Nat /\ Len(sent.calls) \in Nat
        /\ block \in {"none", "text", "thinking", "tool"} /\ strayed \in BOOLEAN
    BY DEF TypeInv, Sessions, Responses, Pieces
  <1>e. <<>> \in Seq(Events) /\ <<Other>> \in Seq(Events)
    BY <1>t, EventTyped
  <1>1. ASSUME NEW kind \in {"text", "thinking", "tool"}, BlockStarts(kind)
        PROVE  TypeInv'
    <2>1. Thoughts \in Seq(Pieces)
      BY <1>t, ThoughtsTyped
    <2>2. Append(Thoughts, <<>>) \in Seq(Pieces)
      BY <1>t, <2>1, AppendProperties
    <2>3. sent' \in Responses
      BY <1>1, <1>t, <2>2 DEF BlockStarts, Responses
    <2>4. QED
      BY <1>1, <2>3 DEF BlockStarts, TypeInv, consumerVars
  <1>2. CASE BlockStops
    BY <1>2, <1>t, SessionTyped, HandlesTyped DEF BlockStops
  <1>p. ASSUME pieces < MaxPieces
        PROVE  /\ Piece \in 1..MaxPieces /\ NewCall \in Call
               /\ \A s \in Pieces : Append(s, Piece) \in Pieces
               /\ <<Piece>> \in Pieces
               /\ \A c \in Call : WithArgs(c) \in Call
    BY <1>p, PieceTyped
  <1>3. CASE TextDelta
    <2>1. pieces < MaxPieces /\ pieces' = Piece /\ UNCHANGED <<block, strayed>>
          /\ sent' = [sent EXCEPT !.text = Append(@, Piece)]
          /\ Handles([session EXCEPT !.content = Append(@, Piece)], <<Event("text", <<Piece>>)>>)
      BY <1>3 DEF TextDelta
    <2>2. /\ [session EXCEPT !.content = Append(@, Piece)] \in Sessions
          /\ sent' \in Responses
      BY <1>p, <1>t, <2>1 DEF Sessions, Responses
    <2>3. <<Event("text", <<Piece>>)>> \in Seq(Events)
      BY <1>p, <2>1, EventTyped
    <2>4. pieces' \in 0..MaxPieces /\ block' \in {"none", "text", "thinking", "tool"}
          /\ strayed' \in BOOLEAN
      BY <1>p, <1>t, <2>1
    <2>5. QED
      BY <2>1, <2>2, <2>3, <2>4, HandlesTyped
  <1>4. CASE ThinkingDelta
    <2>1. /\ pieces < MaxPieces /\ pieces' = Piece /\ UNCHANGED <<block, strayed>> /\ block = "thinking"
          /\ sent' = [sent EXCEPT !.thinking[Len(sent.thinking)] = Append(@, Piece)]
          /\ Handles([session EXCEPT !.thinking = Append(@, Piece)],
                     <<Event("thinking", <<Piece>>)>>)
      BY <1>4 DEF ThinkingDelta
    <2>2. [session EXCEPT !.thinking = Append(@, Piece)] \in Sessions
      BY <1>p, <1>t, <2>1 DEF Sessions
    <2>3. Len(sent.thinking) \in 1..Len(sent.thinking)
      BY <1>t, <2>1, EmptySeq DEF SessionInv
    <2>4. [sent.thinking EXCEPT ![Len(sent.thinking)] = Append(@, Piece)] \in Seq(Pieces)
      <3>1. Append(sent.thinking[Len(sent.thinking)], Piece) \in Pieces
        BY <1>p, <1>t, <2>1, <2>3
      <3>2. QED
        BY <1>t, <2>3, <3>1, ExceptSeq
    <2>5. sent' \in Responses
      BY <1>t, <2>1, <2>4 DEF Responses
    <2>6. <<Event("thinking", <<Piece>>)>> \in Seq(Events)
      BY <1>p, <2>1, EventTyped
    <2>7. pieces' \in 0..MaxPieces /\ block' \in {"none", "text", "thinking", "tool"}
          /\ strayed' \in BOOLEAN
      BY <1>p, <1>t, <2>1
    <2>8. QED
      BY <2>1, <2>2, <2>5, <2>6, <2>7, HandlesTyped
  <1>5. CASE ToolCallStart
    <2>1. /\ pieces < MaxPieces /\ pieces' = Piece /\ block' = block
          /\ Handles([session EXCEPT !.call = NewCall], <<>>)
      BY <1>5 DEF ToolCallStart
    <2>2. PICK c \in Call : sent' = [sent EXCEPT !.calls = Append(@, c)]
      BY <1>5, StartSent
    <2>3. [session EXCEPT !.call = NewCall] \in Sessions /\ Append(sent.calls, c) \in Seq(Call)
      BY <1>p, <1>t, <2>1, <2>2, AppendProperties DEF Sessions
    <2>4. sent' \in Responses
      BY <1>t, <2>2, <2>3 DEF Responses
    <2>5. pieces' \in 0..MaxPieces /\ block' \in {"none", "text", "thinking", "tool"}
          /\ strayed' \in BOOLEAN
      BY <1>p, <1>t, <1>5, <2>1, StartSent
    <2>6. QED
      BY <1>e, <2>1, <2>3, <2>4, <2>5, HandlesTyped
  <1>6. CASE ToolCallDelta
    <2>1. /\ pieces < MaxPieces /\ pieces' = Piece /\ block' = block
          /\ Handles([session EXCEPT !.call = IF @ = NoCall THEN @ ELSE WithArgs(@)],
                     IF session.call = NoCall THEN <<>> ELSE <<Other>>)
      BY <1>6 DEF ToolCallDelta
    <2>2. [session EXCEPT !.call = IF @ = NoCall THEN @ ELSE WithArgs(@)] \in Sessions
      BY <1>p, <1>t, <2>1 DEF Sessions
    <2>3. sent' \in Responses /\ strayed' \in BOOLEAN
      BY <1>6, DeltaSent DEF SameButArgs
    <2>4. (IF session.call = NoCall THEN <<>> ELSE <<Other>>) \in Seq(Events)
      BY <1>e
    <2>5. pieces' \in 0..MaxPieces /\ block' \in {"none", "text", "thinking", "tool"}
      BY <1>p, <1>t, <2>1
    <2>6. QED
      BY <2>1, <2>2, <2>3, <2>4, <2>5, HandlesTyped
  <1>8. CASE PassedOver
    <2>1. /\ pieces < MaxPieces /\ pieces' = Piece /\ block' = block
          /\ \E events \in {<<>>, <<Other>>} : Handles(session, events)
      BY <1>8 DEF PassedOver
    <2>2. sent' \in Responses /\ strayed' \in BOOLEAN
      BY <1>8, PassedSent DEF SameButArgs
    <2>3. pieces' \in 0..MaxPieces /\ block' \in {"none", "text", "thinking", "tool"}
      BY <1>p, <1>t, <2>1
    <2>4. QED
      BY <1>e, <1>t, <2>1, <2>2, <2>3, HandlesTyped
  <1>7. CASE Finishes
    BY <1>7, <1>e DEF Finishes, TypeInv, consumerVars
  <1>9. QED
    BY <1>1, <1>2, <1>3, <1>4, <1>5, <1>6, <1>7, <1>8 DEF ServerSends

LEMMA ReaderTyped ==
    ASSUME TypeInv, Breaks \/ StreamEnds \/ ReaderStep
    PROVE  TypeInv'
  <1>1. CASE Breaks
    <2>1. <<Event("error", <<>>)>> \in Seq(Events)
      <3>1. <<>> \in Pieces
        BY DEF Pieces
      <3>2. QED
        BY <3>1, EventTyped
    <2>2. QED
      BY <1>1, <2>1 DEF Breaks, TypeInv, serverVars, consumerVars
  <1>2. CASE StreamEnds \/ Closes
    BY <1>2 DEF StreamEnds, Closes, TypeInv, serverVars, consumerVars
  <1>3. CASE Flush
    <2>1. emitting' \in Seq(Events)
      <3>1. session \in Sessions
        BY DEF TypeInv
      <3>2. /\ Stopped(session) \in Seq(Events) /\ Finalized(session) \in Seq(Events)
            /\ Finalized(AfterStop(session)) \in Seq(Events)
        BY <3>1, SessionTyped
      <3>3. Stopped(session) \o Finalized(AfterStop(session)) \in Seq(Events)
        BY <3>2, ConcatProperties
      <3>4. QED
        BY <1>3, <3>2, <3>3 DEF Flush
    <2>2. QED
      BY <1>3, <2>1 DEF Flush, TypeInv, serverVars, consumerVars
  <1>4. CASE Emits
    <2>1. CASE outcome = "reading"
      <3>1. /\ emitting # <<>> /\ Len(channel) < Capacity /\ channel' = Append(channel, Head(emitting))
            /\ emitting' = Tail(emitting) /\ UNCHANGED reader
        BY <1>4, <2>1 DEF Emits
      <3>2. channel \in Seq(Events) /\ emitting \in Seq(Events)
        BY DEF TypeInv
      <3>3. /\ channel' \in Seq(Events) /\ emitting' \in Seq(Events) /\ Len(channel') = Len(channel) + 1
            /\ Len(channel) \in Nat
        BY <3>1, <3>2, SendKeeps
      <3>4. Len(channel') <= Capacity
        BY <3>1, <3>3
      <3>5. QED
        BY <1>4, <3>1, <3>3, <3>4 DEF Emits, TypeInv, serverVars
    <2>2. CASE outcome # "reading"
      BY <1>4, <2>2 DEF Emits, TypeInv, serverVars
    <2>3. QED
      BY <2>1, <2>2
  <1>5. QED
    BY <1>1, <1>2, <1>3, <1>4 DEF ReaderStep

LEMMA ConsumerTyped ==
    ASSUME TypeInv, ConsumerStep
    PROVE  TypeInv'
  <1>1. CASE Returns
    BY <1>1 DEF Returns, TypeInv, serverVars
  <1>2. CASE Consumes
    <2> DEFINE e == Head(channel)
    <2>1. /\ channel # <<>> /\ UNCHANGED <<serverVars, broken, session, reader, emitting>>
      BY <1>2 DEF Consumes
    <2>2. /\ channel \in Seq(Events) /\ e \in Events /\ Tail(channel) \in Seq(Events)
          /\ Len(Tail(channel)) = Len(channel) - 1 /\ Len(channel) \in Nat
      BY <2>1, HeadTailProperties DEF TypeInv
    <2>3. CASE e.kind = "error"
      <3>1. outcome' = "error" /\ channel' = <<>> /\ UNCHANGED <<answer, deltas>>
        BY <1>2, <2>3 DEF Consumes
      <3>2. channel' \in Seq(Events) /\ Len(channel') <= Capacity
        BY <3>1
      <3>3. QED
        BY <2>1, <3>1, <3>2 DEF TypeInv, serverVars
    <2>4. CASE e.kind # "error"
      <3>1. /\ answer' = Accumulated(answer, e) /\ deltas' = deltas \o EmittedDelta(e)
            /\ channel' = Tail(channel) /\ UNCHANGED outcome
        BY <1>2, <2>4 DEF Consumes
      <3>2. answer' \in Answers
        BY <2>2, <3>1, AccumulatedTyped DEF TypeInv
      <3>3. EmittedDelta(e) \in Pieces
        <4>1. <<>> \in Pieces /\ (e.kind \in {"text", "content"} => e.data \in Pieces)
          BY <2>2 DEF Events, Pieces
        <4>2. QED
          BY <4>1 DEF EmittedDelta
      <3>4. deltas' \in Pieces
        <4>1. deltas \in Pieces
          BY DEF TypeInv
        <4>2. QED
          BY <3>1, <3>3, <4>1, ConcatProperties DEF Pieces
      <3>5. channel' \in Seq(Events) /\ Len(channel') <= Capacity
        BY <2>2, <3>1 DEF TypeInv
      <3>6. QED
        BY <2>1, <3>1, <3>2, <3>4, <3>5 DEF TypeInv, serverVars
    <2>5. QED
      BY <2>3, <2>4
  <1>3. QED
    BY <1>1, <1>2 DEF ConsumerStep

-----------------------------------------------------------------------------
(* Sending.                                                                 *)

(* A step that puts e behind what is on its way.                            *)
Adds(e) ==
    /\ Pending \in Seq(Events) /\ e \in Seq(Events) /\ Pending' = Pending \o e
    /\ UNCHANGED <<answer, deltas, outcome>>
    /\ reader' = "reading" => reader = "reading"

LEMMA PendingTyped ==
    ASSUME TypeInv
    PROVE  Pending \in Seq(Events) /\ (emitting = <<>> => Pending = channel)
           /\ (channel = <<>> => Pending = emitting)
  BY ConcatProperties, NothingJoined DEF TypeInv, Pending

LEMMA SendAdds ==
    ASSUME TypeInv, TypeInv', emitting = <<>>, UNCHANGED <<channel, answer, deltas, outcome>>,
           reader' = "reading" => reader = "reading"
    PROVE  Adds(emitting')
  <1>1. Pending = channel /\ Pending \in Seq(Events)
    BY PendingTyped
  <1>2. Pending' = channel' \o emitting'
    BY DEF Pending
  <1>3. emitting' \in Seq(Events)
    BY DEF TypeInv
  <1>4. QED
    BY <1>1, <1>2, <1>3 DEF Adds

LEMMA AddsNothing ==
    ASSUME TypeInv, UNCHANGED <<channel, emitting, answer, deltas, outcome>>,
           reader' = "reading" => reader = "reading"
    PROVE  Adds(<<>>)
  <1>1. Pending \in Seq(Events) /\ Pending' = Pending
    BY PendingTyped DEF Pending
  <1>2. Pending \o <<>> = Pending
    BY <1>1, NothingJoined
  <1>3. <<>> \in Seq(Events)
    OBVIOUS
  <1>4. QED
    BY <1>1, <1>2, <1>3 DEF Adds

(* The elements of a text one by one.                                       *)
LEMMA SinglesTyped ==
    ASSUME NEW s \in Pieces
    PROVE  /\ Singles(s) \in Seq(Pieces) /\ Len(Singles(s)) = Len(s) /\ Len(s) \in Nat
           /\ \A i \in 1..Len(s) : Singles(s)[i] = <<s[i]>>
  <1>1. s \in Seq(1..MaxPieces) /\ Len(s) \in Nat
    BY DEF Pieces
  <1>2. \A i \in 1..Len(s) : <<s[i]>> \in Pieces
    BY <1>1 DEF Pieces
  <1>3. QED
    BY <1>1, <1>2 DEF Singles

(* Nothing of the text is sent, except all of it.                           *)
LEMMA KeepsText ==
    ASSUME TypeInv, TextInv, NEW e, Adds(e), session'.content = session.content,
           Lacks(e, "text"),
           AllCarry(e, "content", session.content),
           reader' = "reading" => Lacks(e, "content")
    PROVE  TextInv'
  <1> SUFFICES ASSUME outcome # "error"
               PROVE  TextInv'
    BY DEF TextInv, Adds
  <1> DEFINE T == Singles(session.content)
             n == Len(answer.content)
  <1>1. session.content \in Pieces /\ T \in Seq(Pieces)
    BY SinglesTyped DEF TypeInv, Sessions
  <1>2. Carries(Pending, "text", "content", T, n)
    BY DEF TextInv
  <1>3. e \in Seq(Events) /\ Pending \in Seq(Events) /\ Pending' = Pending \o e
    BY DEF Adds
  <1>4. T' = T /\ n' = n
    BY DEF Adds, Singles
  <1> HIDE DEF T, n
  <1>5. Carries(e, "text", "content", T, Len(T))
    BY <1>1, <1>3, CarriesLacking
  <1>6. Prefix(T, T)
    BY <1>1 DEF Prefix
  <1>7. Carries(Pending \o e, "text", "content", T, n)
    BY <1>1, <1>2, <1>3, <1>5, <1>6, CarriesJoin
  <1>8. AllCarry(Pending \o e, "content", session.content)
    BY <1>3, AllCarryJoin DEF TextInv, AllCarry
  <1>9. reader' = "reading" => Lacks(Pending \o e, "content")
    BY <1>3, LacksJoin DEF TextInv, Adds
  <1>10. Prefix(answer.content, session.content) /\ deltas = answer.content
    BY DEF TextInv
  <1>11. Carries(Pending', "text", "content", T', n')
    BY <1>3, <1>4, <1>7
  <1>12. AllCarry(Pending, "content", session.content)'
    BY <1>3, <1>8 DEF AllCarry
  <1>13. (reader = "reading" => Lacks(Pending, "content"))'
    BY <1>3, <1>9 DEF Lacks
  <1>14. Prefix(answer.content, session.content)' /\ deltas' = answer'.content
    BY <1>10 DEF Prefix, Adds
  <1>15. QED
    BY <1>11, <1>12, <1>13, <1>14 DEF TextInv, T, n

(* No call is sent.                                                         *)
LEMMA KeepsCalls ==
    ASSUME CallInv, NEW e, Adds(e), Due' = Due, Due \in Seq(Call), Lacks(e, "call")
    PROVE  CallInv'
  <1> SUFFICES ASSUME outcome # "error"
               PROVE  CallInv'
    BY DEF CallInv, Adds
  <1>1. Carries(Pending, "call", "none", Due, Len(answer.calls)) /\ Prefix(answer.calls, Due)
    BY DEF CallInv
  <1>2. e \in Seq(Events) /\ Pending \in Seq(Events) /\ Pending' = Pending \o e
    BY DEF Adds
  <1>3. Carries(e, "call", "none", Due, Len(Due)) /\ Prefix(Due, Due)
    BY <1>2, CarriesLacking DEF Prefix
  <1>4. Carries(Pending \o e, "call", "none", Due, Len(answer.calls))
    BY <1>1, <1>2, <1>3, CarriesJoin
  <1>5. answer' = answer
    BY DEF Adds
  <1>6. QED
    BY <1>1, <1>2, <1>4, <1>5 DEF CallInv

(* Nothing about thinking is sent.                                          *)
LEMMA KeepsThinking ==
    ASSUME ThinkingInv, NEW e, Adds(e), LastThought' = LastThought,
           Lacks(e, "thinking"), Lacks(e, "thought"),
           outcome # "error" /\ (session'.thinking = <<>> \/ Flushed')
              => session.thinking = <<>> \/ Flushed
    PROVE  ThinkingInv'
  <1> SUFFICES ASSUME outcome # "error", session'.thinking = <<>> \/ Flushed'
               PROVE  Latest(Pending', answer'.thinking, LastThought')
    BY DEF ThinkingInv, Adds
  <1>1. Latest(Pending, answer.thinking, LastThought)
    BY DEF ThinkingInv
  <1>2. e \in Seq(Events) /\ Pending \in Seq(Events) /\ Pending' = Pending \o e /\ answer' = answer
    BY DEF Adds
  <1>3. Latest(Pending \o e, answer.thinking, LastThought)
    BY <1>1, <1>2, LatestJoin
  <1>4. QED
    BY <1>2, <1>3

(* The stream goes on, or comes to an end.                                  *)
LEMMA KeepsPhase ==
    ASSUME PhaseInv, NEW e, Adds(e), reader' = "ended" => emitting' = <<>>,
           outcome = "ok" => reader' = "ended" /\ channel' = <<>>,
           broken' => reader' # "reading" /\ (broken \/ ~Lacks(e, "error"))
    PROVE  PhaseInv'
  <1>1. e \in Seq(Events) /\ Pending \in Seq(Events) /\ Pending' = Pending \o e /\ outcome' = outcome
    BY DEF Adds
  <1>2. ASSUME broken'
        PROVE  outcome = "error" \/ ~Lacks(Pending \o e, "error")
    BY <1>1, <1>2, LacksJoin DEF PhaseInv
  <1>3. (~Lacks(Pending, "error"))' <=> ~Lacks(Pending \o e, "error")
    BY <1>1 DEF Lacks
  <1>4. QED
    BY <1>1, <1>2, <1>3 DEF PhaseInv

-----------------------------------------------------------------------------
(* The session under construction.                                          *)

(* The last of a sequence that got longer, or whose last was replaced.      *)
LEMMA LastAppended ==
    ASSUME NEW S, NEW s \in Seq(S), NEW d \in S
    PROVE  Append(s, d) # <<>> /\ Append(s, d)[Len(Append(s, d))] = d
  <1>1. Append(s, d) \in Seq(S) /\ Len(Append(s, d)) = Len(s) + 1 /\ Append(s, d)[Len(s) + 1] = d
    BY AppendProperties
  <1>2. Len(s) \in Nat
    OBVIOUS
  <1>3. QED
    BY <1>1, <1>2, EmptySeq

LEMMA LastReplaced ==
    ASSUME NEW S, NEW s \in Seq(S), s # <<>>, NEW d \in S
    PROVE  LET t == [s EXCEPT ![Len(s)] = d]
           IN  /\ t \in Seq(S) /\ t # <<>> /\ Len(t) = Len(s) /\ t[Len(t)] = d
               /\ \A i \in 1..(Len(s) - 1) : t[i] = s[i]
  <1> DEFINE t == [s EXCEPT ![Len(s)] = d]
  <1>1. Len(s) \in Nat /\ Len(s) >= 1 /\ Len(s) \in 1..Len(s)
    BY EmptySeq
  <1>2. /\ t \in Seq(S) /\ Len(t) = Len(s)
        /\ \A i \in 1..Len(s) : t[i] = IF i = Len(s) THEN d ELSE s[i]
    BY <1>1, ExceptSeq
  <1> HIDE DEF t
  <1>3. t[Len(t)] = d /\ t # <<>>
    BY <1>1, <1>2, EmptySeq
  <1>4. \A i \in 1..(Len(s) - 1) : t[i] = s[i]
    BY <1>1, <1>2
  <1>5. QED
    BY <1>2, <1>3, <1>4 DEF t

LEMMA ServerSession ==
    ASSUME TypeInv, SessionInv, ServerSends
    PROVE  SessionInv'
  <1>t. /\ session.content \in Pieces /\ session.thinking \in Pieces /\ session.call \in Call
        /\ session = [content |-> session.content, thinking |-> session.thinking,
                      call |-> session.call]
        /\ sent.text \in Pieces /\ sent.thinking \in Seq(Pieces) /\ sent.calls \in Seq(Call)
        /\ sent = [text |-> sent.text, thinking |-> sent.thinking, calls |-> sent.calls,
                   unread |-> sent.unread]
        /\ <<>> \in Pieces
        /\ protocol \in {"anthropic", "openai"}
    BY Shape DEF TypeInv
  <1>1. ASSUME NEW kind \in {"text", "thinking", "tool"}, BlockStarts(kind)
        PROVE  SessionInv'
    <2>1. /\ protocol = "anthropic" /\ block = "none" /\ block' = kind
          /\ UNCHANGED <<protocol, session>>
          /\ sent' = IF kind = "thinking"
                     THEN [sent EXCEPT !.thinking = Append(Thoughts, <<>>)] ELSE sent
      BY <1>1 DEF BlockStarts
    <2>2. /\ sent'.text = sent.text /\ sent'.calls = sent.calls
          /\ sent'.thinking = IF kind = "thinking" THEN Append(Thoughts, <<>>) ELSE sent.thinking
      BY <1>t, <2>1
    <2>3. kind = "thinking" => /\ Append(Thoughts, <<>>) # <<>>
                               /\ Append(Thoughts, <<>>)[Len(Append(Thoughts, <<>>))] = <<>>
      <3>1. Thoughts \in Seq(Pieces)
        BY <1>t, ThoughtsTyped
      <3>2. QED
        BY <1>t, <3>1, LastAppended
    <2>4. /\ ~strayed /\ strayed' = strayed
          /\ session.thinking = <<>> /\ session.call = NoCall /\ session.content = sent.text
      BY <1>1, <2>1 DEF SessionInv, BlockStarts
    <2>5. QED
      BY <2>1, <2>2, <2>3, <2>4 DEF SessionInv
  <1>2. CASE BlockStops
    <2>1. /\ block # "none" /\ block' = "none" /\ UNCHANGED <<protocol, sent, strayed>>
          /\ session' = AfterStop(session)
      BY <1>2 DEF BlockStops, Handles
    <2>2. ~strayed /\ protocol = "anthropic"
      BY <1>t, <2>1 DEF SessionInv
    <2>3. /\ session'.content = session.content /\ session'.thinking = <<>>
          /\ session'.call = NoCall
      BY <1>t, <2>1, <2>2 DEF AfterStop
    <2>4. QED
      BY <2>1, <2>2, <2>3 DEF SessionInv
  <1>3. CASE TextDelta
    <2>1. /\ UNCHANGED <<protocol, block, strayed>>
          /\ sent' = [sent EXCEPT !.text = Append(@, Piece)]
          /\ session' = [session EXCEPT !.content = Append(@, Piece)]
      BY <1>3 DEF TextDelta, Handles
    <2>2. /\ sent'.text = Append(sent.text, Piece) /\ sent'.calls = sent.calls
          /\ sent'.thinking = sent.thinking
      BY <1>t, <2>1
    <2>3. /\ session'.content = Append(session.content, Piece)
          /\ session'.thinking = session.thinking /\ session'.call = session.call
      BY <1>t, <2>1
    <2>4. QED
      BY <2>1, <2>2, <2>3 DEF SessionInv, LastCall
  <1>4. CASE ThinkingDelta
    <2>1. /\ block = "thinking" /\ pieces < MaxPieces /\ UNCHANGED <<protocol, block, strayed>>
          /\ sent' = [sent EXCEPT !.thinking[Len(sent.thinking)] = Append(@, Piece)]
          /\ session' = [session EXCEPT !.thinking = Append(@, Piece)]
      BY <1>4 DEF ThinkingDelta, Handles
    <2>2. ~strayed /\ protocol = "anthropic" /\ sent.thinking # <<>>
          /\ session.thinking = sent.thinking[Len(sent.thinking)]
      BY <1>t, <2>1 DEF SessionInv
    <2> DEFINE t == [sent.thinking EXCEPT ![Len(sent.thinking)] = Append(session.thinking, Piece)]
    <2>3. sent' = [sent EXCEPT !.thinking = t]
      BY <2>1, <2>2
    <2>4. Append(session.thinking, Piece) \in Pieces
      BY <1>t, <2>1, PieceTyped
    <2>5. t # <<>> /\ t[Len(t)] = Append(session.thinking, Piece)
      BY <1>t, <2>2, <2>4, LastReplaced
    <2> HIDE DEF t
    <2>6. sent'.text = sent.text /\ sent'.calls = sent.calls /\ sent'.thinking = t
      BY <1>t, <2>3
    <2>7. /\ session'.content = session.content /\ session'.call = session.call
          /\ session'.thinking = Append(session.thinking, Piece)
      BY <1>t, <2>1, <2>2
    <2>8. QED
      BY <2>1, <2>2, <2>5, <2>6, <2>7 DEF SessionInv, LastCall
  <1>5. CASE ToolCallStart
    <2>1. /\ pieces < MaxPieces /\ UNCHANGED <<protocol, block>>
          /\ protocol = "anthropic" => block = "tool"
          /\ session' = [session EXCEPT !.call = NewCall]
      BY <1>5 DEF ToolCallStart, Handles
    <2>2. PICK c \in Call : /\ sent' = [sent EXCEPT !.calls = Append(@, c)]
                            /\ c.id = NewCall.id /\ (strayed' \/ c = NewCall)
      BY <1>5, StartSent
    <2>3. /\ sent'.text = sent.text /\ sent'.thinking = sent.thinking
          /\ sent'.calls = Append(sent.calls, c)
      BY <1>t, <2>2
    <2>4. sent'.calls # <<>> /\ sent'.calls[Len(sent'.calls)] = c
      BY <1>t, <2>3, LastAppended
    <2>5. /\ session'.content = session.content /\ session'.thinking = session.thinking
          /\ session'.call = NewCall /\ NewCall # NoCall
      BY <1>t, <2>1, PieceTyped
    <2>6. strayed' => protocol = "openai"
      BY <1>5, StartSent
    <2>7. LastCall' = c
      BY <2>4 DEF LastCall
    <2>8. QED
      BY <1>t, <2>1, <2>2, <2>3, <2>4, <2>5, <2>6, <2>7 DEF SessionInv
  <1>6. CASE ToolCallDelta
    <2>1. /\ pieces < MaxPieces /\ UNCHANGED <<protocol, block>>
          /\ protocol = "anthropic" => block = "tool" /\ session.call # NoCall
          /\ session' = [session EXCEPT !.call = IF @ = NoCall THEN @ ELSE WithArgs(@)]
      BY <1>6 DEF ToolCallDelta, Handles
    <2>2. SameButArgs(WithArgs(LastCall)) /\ (strayed' => strayed \/ protocol = "openai")
      BY <1>6, DeltaSent
    <2>3. LastCall' = sent'.calls[Len(sent'.calls)]
      BY DEF LastCall
    <2>4. /\ session'.content = session.content /\ session'.thinking = session.thinking
          /\ session'.call = IF session.call = NoCall THEN NoCall ELSE WithArgs(session.call)
      BY <1>t, <2>1
    <2>5. CASE session.call = NoCall
      <3>1. protocol = "openai" /\ sent.calls = <<>> /\ sent'.calls = <<>>
        <4>1. protocol = "openai" /\ sent.calls = <<>>
          BY <1>t, <2>1, <2>5 DEF SessionInv
        <4>2. sent'.calls \in Seq(Call) /\ Len(sent'.calls) = 0
          BY <2>2, <4>1 DEF SameButArgs
        <4>3. QED
          BY <4>1, <4>2, EmptySeq
      <3>2. QED
        BY <1>t, <2>1, <2>2, <2>4, <2>5, <3>1 DEF SessionInv, SameButArgs
    <2>6. CASE session.call # NoCall
      <3>1. sent.calls # <<>> /\ session.call.id = LastCall.id /\ (strayed \/ session.call = LastCall)
        BY <2>6 DEF SessionInv
      <3>2. WithArgs(session.call) # NoCall /\ WithArgs(session.call).id = session.call.id
        <4>1. WithArgs(session.call) # NoCall
          BY <1>t, <2>1, PieceTyped
        <4>2. QED
          BY <1>t, <4>1 DEF WithArgs, Call
      <3>3. /\ sent'.calls # <<>> /\ LastCall'.id = LastCall.id
            /\ strayed' \/ LastCall' = WithArgs(LastCall)
        BY <2>2, <2>3, <3>1 DEF SameButArgs
      <3>4. session'.call.id = LastCall'.id /\ (strayed' \/ session'.call = LastCall')
        BY <2>2, <2>4, <2>6, <3>1, <3>2, <3>3 DEF SameButArgs
      <3>5. sent'.text = sent.text /\ sent'.thinking = sent.thinking
        BY <2>2 DEF SameButArgs
      <3>6. session'.call # NoCall
        BY <2>4, <2>6, <3>2
      <3>7. QED
        BY <1>t, <2>1, <2>2, <2>4, <2>6, <3>3, <3>4, <3>5, <3>6 DEF SessionInv
    <2>7. QED
      BY <2>5, <2>6
  <1>8. CASE PassedOver
    <2>1. protocol = "openai" /\ UNCHANGED <<protocol, block, session>>
      BY <1>8 DEF PassedOver, Handles
    <2>2. SameButArgs(LastCall)
      BY <1>8, PassedSent
    <2>3. LastCall' = sent'.calls[Len(sent'.calls)]
      BY DEF LastCall
    <2>4. /\ sent'.text = sent.text /\ sent'.thinking = sent.thinking
          /\ sent.calls # <<>> => /\ sent'.calls # <<>> /\ LastCall'.id = LastCall.id
                                  /\ strayed' \/ LastCall' = LastCall
          /\ strayed => strayed'
      BY <2>2, <2>3 DEF SameButArgs
    <2>5. sent'.calls # <<>> => sent.calls # <<>>
      BY <1>t, <2>2, EmptySeq DEF SameButArgs
    <2>6. QED
      BY <1>t, <2>1, <2>4, <2>5 DEF SessionInv
  <1>7. CASE Finishes
    BY <1>7 DEF Finishes, SessionInv, LastCall
  <1>9. QED
    BY <1>1, <1>2, <1>3, <1>4, <1>5, <1>6, <1>7, <1>8 DEF ServerSends

-----------------------------------------------------------------------------
(* A line of the response.                                                  *)

LEMMA SessionLacks ==
    ASSUME NEW s \in Sessions, NEW kind
    PROVE  /\ kind \notin {"call", "thought"} => Lacks(Stopped(s), kind)
           /\ kind \notin {"content", "thought"} => Lacks(Finalized(s), kind)
           /\ s.call = NoCall /\ kind = "call" => Lacks(Stopped(s), kind)
           /\ s.thinking = <<>> /\ kind = "thought" => Lacks(Stopped(s), kind) /\ Lacks(Finalized(s), kind)
           /\ AllCarry(Finalized(s), "content", s.content)
  <1>1. s.content \in Pieces /\ s.thinking \in Pieces /\ s.call \in Call
    BY DEF Sessions
  <1> DEFINE c == IF s.content = <<>> THEN <<>> ELSE <<Event("content", s.content)>>
             t == IF s.thinking = <<>> THEN <<>> ELSE <<Event("thought", s.thinking)>>
             k == IF s.call = NoCall THEN <<>> ELSE <<Event("call", s.call)>>
  <1>2. c \in Seq(Events) /\ t \in Seq(Events) /\ k \in Seq(Events)
    BY <1>1, EventTyped, CallTyped, OptionalTyped
  <1>3. /\ kind # "content" => Lacks(c, kind)
        /\ kind # "thought" => Lacks(t, kind)
        /\ s.thinking = <<>> => Lacks(t, kind)
        /\ kind # "call" => Lacks(k, kind)
        /\ s.call = NoCall => Lacks(k, kind)
        /\ AllCarry(c, "content", s.content) /\ AllCarry(t, "content", s.content)
    BY DEF Lacks, AllCarry, Event
  <1>4. Stopped(s) = k \o t /\ Finalized(s) = c \o t
    BY DEF Stopped, Finalized
  <1> HIDE DEF c, t, k
  <1>5. /\ Lacks(k \o t, kind) <=> Lacks(k, kind) /\ Lacks(t, kind)
        /\ Lacks(c \o t, kind) <=> Lacks(c, kind) /\ Lacks(t, kind)
    BY <1>2, LacksJoin
  <1>6. AllCarry(c \o t, "content", s.content)
    BY <1>2, <1>3, AllCarryJoin
  <1>7. QED
    BY <1>3, <1>4, <1>5, <1>6

LEMMA ServerAdds ==
    ASSUME TypeInv, SessionInv, ServerSends
    PROVE  /\ reader = "reading" /\ reader' = "reading" /\ Adds(emitting')
           /\ UNCHANGED <<protocol, broken, outcome>>
  <1>1. /\ Reads /\ UNCHANGED <<reader, consumerVars, protocol, broken>>
    BY DEF ServerSends, BlockStarts, BlockStops, TextDelta, ThinkingDelta, ToolCallStart,
           ToolCallDelta, PassedOver, Finishes, Handles, Reads
  <1>2. TypeInv'
    BY ServerTyped
  <1>3. /\ reader = "reading" /\ emitting = <<>>
        /\ UNCHANGED <<reader, channel, answer, deltas, outcome, protocol, broken>>
    BY <1>1 DEF Reads, consumerVars
  <1>4. QED
    BY <1>2, <1>3, SendAdds

LEMMA ServerPhase ==
    ASSUME TypeInv, SessionInv, PhaseInv, ServerSends
    PROVE  PhaseInv'
  BY ServerAdds DEF PhaseInv

(* A piece of text more.                                                    *)
LEMMA SinglesAppend ==
    ASSUME NEW s \in Pieces, NEW p \in 1..MaxPieces
    PROVE  /\ Prefix(Singles(s), Singles(Append(s, p)))
           /\ Singles(Append(s, p)) \in Seq(Pieces) /\ Singles(Append(s, p)) # <<>>
           /\ Len(Singles(Append(s, p))) = Len(Singles(s)) + 1
           /\ Singles(Append(s, p))[Len(Singles(s)) + 1] = <<p>>
           /\ Prefix(s, Append(s, p))
  <1> DEFINE a == Append(s, p)
  <1>1. s \in Seq(1..MaxPieces) /\ Len(s) \in Nat
    BY DEF Pieces
  <1>2. /\ a \in Seq(1..MaxPieces) /\ Len(a) = Len(s) + 1 /\ a[Len(s) + 1] = p
        /\ \A i \in 1..Len(s) : a[i] = s[i]
    BY <1>1, AppendProperties
  <1> HIDE DEF a
  <1>3. a \in Pieces
    BY <1>2 DEF Pieces
  <1>4. /\ Singles(s) \in Seq(Pieces) /\ Len(Singles(s)) = Len(s)
        /\ \A i \in 1..Len(s) : Singles(s)[i] = <<s[i]>>
    BY SinglesTyped
  <1>5. /\ Singles(a) \in Seq(Pieces) /\ Len(Singles(a)) = Len(a)
        /\ \A i \in 1..Len(a) : Singles(a)[i] = <<a[i]>>
    BY <1>3, SinglesTyped
  <1>6. Prefix(s, a)
    BY <1>1, <1>2 DEF Prefix
  <1>7. ASSUME NEW i \in 1..Len(s)
        PROVE  Singles(s)[i] = Singles(a)[i]
    <2>1. i \in 1..Len(a) /\ a[i] = s[i]
      BY <1>1, <1>2
    <2>2. Singles(a)[i] = <<a[i]>> /\ Singles(s)[i] = <<s[i]>>
      BY <1>4, <1>5, <2>1
    <2>3. QED
      BY <2>1, <2>2
  <1>8. Prefix(Singles(s), Singles(a))
    BY <1>1, <1>2, <1>4, <1>5, <1>7 DEF Prefix
  <1>9. Len(s) + 1 \in 1..Len(a) /\ Singles(a)[Len(s) + 1] = <<p>>
    BY <1>1, <1>2, <1>5
  <1>10. Singles(a) # <<>>
    BY <1>1, <1>2, <1>5, EmptySeq
  <1>11. QED
    BY <1>2, <1>4, <1>5, <1>6, <1>8, <1>9, <1>10 DEF a

LEMMA PrefixTrans ==
    ASSUME NEW D, NEW s \in Seq(D), NEW t \in Seq(D), NEW u \in Seq(D), Prefix(s, t), Prefix(t, u)
    PROVE  Prefix(s, u)
  <1>1. Len(s) \in Nat /\ Len(t) \in Nat /\ Len(u) \in Nat
    OBVIOUS
  <1>2. QED
    BY <1>1 DEF Prefix

(* What a line makes the reading task send, but for a delta of text.        *)
LEMMA ServerLacks ==
    ASSUME TypeInv, SessionInv, ServerSends, ~TextDelta
    PROVE  /\ Lacks(emitting', "text") /\ Lacks(emitting', "content")
           /\ session'.content = session.content
  <1>t. Other.kind = "other" /\ session \in Sessions /\ session.content \in Pieces
        /\ session = [content |-> session.content, thinking |-> session.thinking,
                      call |-> session.call]
    BY Shape, EventTyped DEF TypeInv
  <1>o. Lacks(<<Other>>, "text") /\ Lacks(<<Other>>, "content")
        /\ Lacks(<<>>, "text") /\ Lacks(<<>>, "content")
    BY <1>t, LacksOne, LacksNothing
  <1>1. CASE \E kind \in {"text", "thinking", "tool"} : BlockStarts(kind)
    BY <1>1, <1>o DEF BlockStarts, Reads
  <1>2. CASE BlockStops
    <2>1. /\ emitting' = Stopped(session)
          /\ session' = AfterStop(session)
      BY <1>2 DEF BlockStops, Handles
    <2>2. /\ Lacks(Stopped(session), "text") /\ Lacks(Stopped(session), "content")
          /\ AfterStop(session).content = session.content
      BY <1>t, SessionLacks, SessionTyped
    <2>3. QED
      BY <1>o, <2>1, <2>2
  <1>3. ~TextDelta
    OBVIOUS
  <1>4. CASE ThinkingDelta
    <2>1. /\ emitting' = <<Event("thinking", <<Piece>>)>>
          /\ session' = [session EXCEPT !.thinking = Append(@, Piece)]
      BY <1>4 DEF ThinkingDelta, Handles
    <2>2. /\ Lacks(<<Event("thinking", <<Piece>>)>>, "text")
          /\ Lacks(<<Event("thinking", <<Piece>>)>>, "content")
      BY DEF Lacks, Event
    <2>3. [session EXCEPT !.thinking = Append(@, Piece)].content = session.content
      BY <1>t
    <2>4. QED
      BY <1>o, <2>1, <2>2, <2>3
  <1>5. CASE ToolCallStart
    <2>1. /\ emitting' = <<>>
          /\ session' = [session EXCEPT !.call = NewCall]
      BY <1>5 DEF ToolCallStart, Handles
    <2>2. [session EXCEPT !.call = NewCall].content = session.content
      BY <1>t
    <2>3. QED
      BY <1>o, <2>1, <2>2
  <1>6. CASE ToolCallDelta
    <2>1. /\ emitting' = <<Other>> \/ emitting' = <<>>
          /\ session' = [session EXCEPT !.call = IF @ = NoCall THEN @ ELSE WithArgs(@)]
      BY <1>6 DEF ToolCallDelta, Handles
    <2>2. [session EXCEPT !.call = IF @ = NoCall THEN @ ELSE WithArgs(@)].content = session.content
      BY <1>t
    <2>3. QED
      BY <1>o, <2>1, <2>2
  <1>7. CASE Finishes
    BY <1>7, <1>o DEF Finishes
  <1>8. CASE PassedOver
    BY <1>8, <1>o DEF PassedOver, Handles
  <1>9. QED
    BY <1>1, <1>2, <1>3, <1>4, <1>5, <1>6, <1>7, <1>8 DEF ServerSends

LEMMA ServerText ==
    ASSUME TypeInv, SessionInv, TextInv, ServerSends
    PROVE  TextInv'
  <1> DEFINE e == emitting'
  <1>1. Adds(e) /\ reader = "reading" /\ reader' = "reading"
    BY ServerAdds
  <1>2. CASE ~TextDelta
    <2>1. Lacks(e, "text") /\ Lacks(e, "content") /\ session'.content = session.content
      BY <1>2, ServerLacks
    <2>2. AllCarry(e, "content", session.content)
      BY <2>1 DEF AllCarry, Lacks
    <2>3. QED
      BY <1>1, <2>1, <2>2, KeepsText
  <1>3. CASE TextDelta
    <2> SUFFICES ASSUME outcome # "error"
                 PROVE  TextInv'
      BY <1>1 DEF TextInv, Adds
    <2>1. /\ pieces < MaxPieces /\ e = <<Event("text", <<Piece>>)>>
          /\ session' = [session EXCEPT !.content = Append(@, Piece)]
      BY <1>3 DEF TextDelta, Handles
    <2> DEFINE c == session.content
               d == session'.content
    <2>2. /\ c \in Pieces /\ Piece \in 1..MaxPieces /\ d = Append(c, Piece) /\ <<Piece>> \in Pieces
          /\ d \in Pieces
      BY <2>1, Shape, PieceTyped
    <2>3. /\ Prefix(Singles(c), Singles(d)) /\ Prefix(c, d)
          /\ Singles(d) \in Seq(Pieces) /\ Singles(d) # <<>>
          /\ Len(Singles(d)) = Len(Singles(c)) + 1 /\ Singles(d)[Len(Singles(c)) + 1] = <<Piece>>
      BY <2>2, SinglesAppend
    <2>4. Singles(c) \in Seq(Pieces) /\ Len(Singles(c)) \in Nat
      BY <2>2, SinglesTyped
    <2> DEFINE E == Event("text", <<Piece>>)
               T == Singles(c)
               U == Singles(d)
               n == Len(answer.content)
    <2>5. E.kind = "text" /\ E.data = <<Piece>> /\ e = <<E>>
      BY <2>1 DEF Event
    <2>6. T \in Seq(Pieces) /\ U \in Seq(Pieces) /\ U # <<>> /\ Len(T) \in Nat
          /\ Len(U) = Len(T) + 1 /\ U[Len(U)] = <<Piece>> /\ Prefix(T, U)
      BY <2>3, <2>4
    <2>7. /\ Pending \in Seq(Events) /\ e \in Seq(Events) /\ Pending' = Pending \o e
          /\ UNCHANGED <<answer, deltas, outcome>>
      BY <1>1 DEF Adds
    <2>8. /\ Carries(Pending, "text", "content", T, n) /\ Lacks(Pending, "content")
          /\ Prefix(answer.content, c) /\ deltas = answer.content
      BY <1>1 DEF TextInv
    <2>a. answer.content \in Pieces
      BY DEF TypeInv, Answers
    <2>b. Prefix(answer.content, d)
      BY <2>2, <2>3, <2>8, <2>a, PrefixTrans DEF Pieces
    <2> HIDE DEF E, T, U, n, c, d, e
    <2>9. Carries(<<E>>, "text", "content", U, Len(U) - 1)
      BY <2>5, <2>6, CarriesOne
    <2>10. Carries(e, "text", "content", U, Len(T))
      BY <2>5, <2>6, <2>9
    <2>11. Carries(Pending \o e, "text", "content", U, n)
      BY <2>6, <2>7, <2>8, <2>10, CarriesJoin
    <2>12. Lacks(e, "content")
      BY <2>5, LacksOne
    <2>13. Lacks(Pending \o e, "content")
      BY <2>7, <2>8, <2>12, LacksJoin
    <2>14. AllCarry(Pending \o e, "content", d)
      BY <2>13 DEF AllCarry, Lacks
    <2>15. Carries(Pending, "text", "content", Singles(session.content), Len(answer.content))'
      BY <2>7, <2>11 DEF U, d, n
    <2>16. (reader = "reading" => Lacks(Pending, "content"))' /\ AllCarry(Pending, "content", session.content)'
      BY <2>7, <2>13, <2>14 DEF d, Lacks, AllCarry
    <2>17. Prefix(answer.content, session.content)' /\ deltas' = answer'.content
      BY <2>7, <2>8, <2>b DEF d, Prefix
    <2>18. QED
      BY <2>15, <2>16, <2>17 DEF TextInv
  <1>4. QED
    BY <1>2, <1>3

(* A call that was sent whole is closed when the next block begins.         *)
LEMMA AllButLast ==
    ASSUME NEW D, NEW s \in Seq(D), s # <<>>
    PROVE  LET t == SubSeq(s, 1, Len(s) - 1)
           IN  /\ t \in Seq(D) /\ Len(t) = Len(s) - 1 /\ Prefix(t, s)
               /\ \A i \in 1..(Len(s) - 1) : t[i] = s[i]
  <1> DEFINE t == SubSeq(s, 1, Len(s) - 1)
  <1>1. Len(s) \in Nat /\ Len(s) >= 1 /\ (Len(s) = 1 \/ Len(s) > 1)
    <2>1. Len(s) \in Nat
      OBVIOUS
    <2>2. Len(s) # 0
      BY EmptySeq
    <2> DEFINE n == Len(s)
    <2>3. n \in Nat /\ n # 0
      BY <2>1, <2>2
    <2> HIDE DEF n
    <2>4. n >= 1 /\ (n = 1 \/ n > 1)
      BY <2>3
    <2>5. QED
      BY <2>3, <2>4 DEF n
  <1>2. \A i \in 1..(Len(s) - 1) : s[i] \in D
    BY <1>1
  <1>3. /\ t \in Seq(D) /\ Len(t) = IF 1 <= Len(s) - 1 THEN (Len(s) - 1) - 1 + 1 ELSE 0
        /\ \A i \in 1..((Len(s) - 1) - 1 + 1) : t[i] = s[1 + i - 1]
    <2>1. 1 \in Int /\ Len(s) - 1 \in Int
      BY <1>1
    <2>2. QED
      BY <1>2, <2>1, SubSeqProperties
  <1> HIDE DEF t
  <1>l. Len(t) = IF 1 <= Len(s) - 1 THEN (Len(s) - 1) - 1 + 1 ELSE 0
    BY <1>3
  <1>c. Len(t) = Len(s) - 1
    <2>1. CASE Len(s) > 1
      BY <1>1, <1>l, <2>1
    <2>2. CASE Len(s) = 1
      BY <1>l, <2>2
    <2>3. QED
      BY <1>1, <2>1, <2>2
  <1>d. ASSUME NEW i \in 1..(Len(s) - 1)
        PROVE  t[i] = s[i]
    <2>1. i \in 1..((Len(s) - 1) - 1 + 1) /\ 1 + i - 1 = i
      BY <1>1
    <2>2. QED
      BY <1>3, <2>1
  <1>4. Prefix(t, s)
    BY <1>1, <1>c, <1>d DEF Prefix
  <1>5. QED
    BY <1>3, <1>c, <1>d, <1>4 DEF t

(* Two sequences that differ in their last only.                            *)
LEMMA SameButLast ==
    ASSUME NEW D, NEW s \in Seq(D), NEW t \in Seq(D), s # <<>>, t # <<>>, Len(s) = Len(t),
           \A i \in 1..(Len(s) - 1) : s[i] = t[i]
    PROVE  SubSeq(s, 1, Len(s) - 1) = SubSeq(t, 1, Len(t) - 1)
  <1> DEFINE a == SubSeq(s, 1, Len(s) - 1)
             b == SubSeq(t, 1, Len(t) - 1)
  <1>1. a \in Seq(D) /\ Len(a) = Len(s) - 1 /\ \A i \in 1..(Len(s) - 1) : a[i] = s[i]
    BY AllButLast
  <1>2. b \in Seq(D) /\ Len(b) = Len(t) - 1 /\ \A i \in 1..(Len(t) - 1) : b[i] = t[i]
    BY AllButLast
  <1> HIDE DEF a, b
  <1>3. a = b
    BY <1>1, <1>2, SeqEqual
  <1>4. QED
    BY <1>3 DEF a, b

(* Without what was appended it is as before.                               *)
LEMMA AppendedButLast ==
    ASSUME NEW D, NEW s \in Seq(D), NEW d \in D
    PROVE  SubSeq(Append(s, d), 1, Len(Append(s, d)) - 1) = s
  <1> DEFINE a == Append(s, d)
             b == SubSeq(a, 1, Len(a) - 1)
  <1>1. a \in Seq(D) /\ a # <<>> /\ Len(a) = Len(s) + 1 /\ \A i \in 1..Len(s) : a[i] = s[i]
    BY AppendProperties, LastAppended
  <1>2. Len(s) \in Nat
    OBVIOUS
  <1>3. b \in Seq(D) /\ Len(b) = Len(a) - 1 /\ \A i \in 1..(Len(a) - 1) : b[i] = a[i]
    BY <1>1, AllButLast
  <1> HIDE DEF a, b
  <1>4. b = s
    BY <1>1, <1>2, <1>3, SeqEqual
  <1>5. QED
    BY <1>4 DEF a, b

LEMMA DueTyped ==
    ASSUME TypeInv, SessionInv
    PROVE  Due \in Seq(Call) /\ ClosedCalls \in Seq(Call)
  <1>1. sent.calls \in Seq(Call) /\ session.call \in Call
    BY Shape
  <1>2. CASE session.call # NoCall
    <2>1. sent.calls # <<>>
      BY <1>2 DEF SessionInv
    <2>2. SubSeq(sent.calls, 1, Len(sent.calls) - 1) \in Seq(Call)
      BY <1>1, <2>1, AllButLast
    <2>3. <<>> \in Seq(Call) /\ <<session.call>> \in Seq(Call)
      BY <1>1
    <2>4. QED
      BY <1>1, <2>2, <2>3 DEF Due, ClosedCalls
  <1>3. CASE session.call = NoCall
    BY <1>1, <1>3 DEF Due, ClosedCalls
  <1>4. QED
    BY <1>2, <1>3

(* A call that is complete is sent.                                         *)
LEMMA SendsCall ==
    ASSUME TypeInv, CallInv, NEW e, Adds(e), NEW c \in Call,
           Due \in Seq(Call), Due' = Append(Due, c),
           Carries(e, "call", "none", Append(Due, c), Len(Due))
    PROVE  CallInv'
  <1> SUFFICES ASSUME outcome # "error"
               PROVE  CallInv'
    BY DEF CallInv, Adds
  <1> DEFINE U == Append(Due, c)
             n == Len(answer.calls)
  <1>1. /\ U \in Seq(Call) /\ Len(U) = Len(Due) + 1 /\ Len(Due) \in Nat
        /\ \A i \in 1..Len(Due) : U[i] = Due[i]
    BY AppendProperties
  <1>2. Due' = U /\ Carries(e, "call", "none", U, Len(Due))
    OBVIOUS
  <1>3. Carries(Pending, "call", "none", Due, n) /\ Prefix(answer.calls, Due)
    BY DEF CallInv
  <1>4. /\ e \in Seq(Events) /\ Pending \in Seq(Events) /\ Pending' = Pending \o e
        /\ answer' = answer /\ outcome' = outcome
    BY DEF Adds
  <1>5. answer.calls \in Seq(Call)
    BY DEF TypeInv, Answers
  <1>6. n' = n
    BY <1>4
  <1> HIDE DEF U, n
  <1>7. Prefix(Due, U)
    BY <1>1 DEF Prefix
  <1>8. Lacks(Pending, "none")
    <2>1. ASSUME NEW i \in 1..Len(Pending)
          PROVE  Pending[i].kind # "none"
      <3>1. Pending[i] \in Events
        BY <1>4
      <3>2. QED
        BY <3>1 DEF Events
    <2>2. QED
      BY <2>1 DEF Lacks
  <1>9. Carries(Pending \o e, "call", "none", U, n)
    BY <1>1, <1>2, <1>3, <1>4, <1>7, <1>8, CarriesJoin
  <1>10. Prefix(answer.calls, U)
    BY <1>1, <1>3, <1>5, <1>7, PrefixTrans
  <1>11. Carries(Pending, "call", "none", Due, Len(answer.calls))'
    BY <1>2, <1>4, <1>6, <1>9 DEF n
  <1>12. Prefix(answer.calls, Due)'
    BY <1>2, <1>4, <1>10 DEF Prefix
  <1>13. QED
    BY <1>11, <1>12 DEF CallInv

(* What the reading task sends and owes of calls.                           *)
LEMMA ServerDue ==
    ASSUME TypeInv, SessionInv, ServerSends, ~(BlockStops /\ session.call # NoCall)
    PROVE  Due' = Due /\ Lacks(emitting', "call")
  <1>t. /\ Other.kind = "other" /\ session \in Sessions /\ session.call \in Call
        /\ session = [content |-> session.content, thinking |-> session.thinking,
                      call |-> session.call]
        /\ sent.calls \in Seq(Call)
        /\ sent = [text |-> sent.text, thinking |-> sent.thinking, calls |-> sent.calls,
                   unread |-> sent.unread]
        /\ protocol \in {"anthropic", "openai"}
    BY Shape, EventTyped DEF TypeInv
  <1>o. Lacks(<<Other>>, "call") /\ Lacks(<<>>, "call")
    BY <1>t, LacksOne, LacksNothing
  <1>n. ~Flushed /\ ~Flushed' /\ protocol' = protocol
    BY ServerAdds DEF Flushed
  <1>d. ASSUME protocol = "anthropic" => ClosedCalls' = ClosedCalls
        PROVE  Due' = Due
    BY <1>d, <1>n DEF Due
  <1>1. ASSUME NEW kind \in {"text", "thinking", "tool"}, BlockStarts(kind)
        PROVE  Due' = Due /\ Lacks(emitting', "call")
    <2>1. /\ emitting' = <<>> /\ block = "none" /\ protocol = "anthropic" /\ session' = session
          /\ sent' = IF kind = "thinking"
                     THEN [sent EXCEPT !.thinking = Append(Thoughts, <<>>)] ELSE sent
      BY <1>1 DEF BlockStarts, Reads
    <2>2. sent'.calls = sent.calls /\ session.call = NoCall
      BY <1>t, <2>1 DEF SessionInv
    <2>3. ClosedCalls' = ClosedCalls
      BY <2>1, <2>2 DEF ClosedCalls
    <2>4. QED
      BY <1>d, <1>o, <2>1, <2>3
  <1>2. CASE BlockStops
    <2>1. /\ emitting' = Stopped(session)
          /\ session' = AfterStop(session)
          /\ sent' = sent /\ session.call = NoCall
      BY <1>2 DEF BlockStops, Handles
    <2>2. Lacks(Stopped(session), "call") /\ AfterStop(session).call = NoCall
      BY <1>t, <2>1, SessionLacks, SessionTyped
    <2>3. session'.call = NoCall
      BY <2>1, <2>2
    <2>4. ClosedCalls' = ClosedCalls
      BY <2>1, <2>3 DEF ClosedCalls
    <2>5. QED
      BY <1>d, <1>o, <2>1, <2>2, <2>4
  <1>3. CASE TextDelta
    <2>1. /\ emitting' = <<Event("text", <<Piece>>)>>
          /\ protocol = "anthropic" => block = "text"
          /\ block' = block /\ sent' = [sent EXCEPT !.text = Append(@, Piece)]
      BY <1>3 DEF TextDelta, Handles
    <2>2. Lacks(emitting', "call")
      <3>1. Lacks(<<Event("text", <<Piece>>)>>, "call")
        BY DEF Lacks, Event
      <3>2. QED
        BY <1>o, <2>1, <3>1
    <2>3. sent'.calls = sent.calls
      BY <1>t, <2>1
    <2>4. protocol = "anthropic" => ClosedCalls' = ClosedCalls
      BY <2>1, <2>3 DEF ClosedCalls
    <2>5. QED
      BY <1>d, <2>2, <2>4
  <1>4. CASE ThinkingDelta
    <2>1. /\ emitting' = <<Event("thinking", <<Piece>>)>>
          /\ block = "thinking" /\ block' = block
          /\ sent' = [sent EXCEPT !.thinking[Len(sent.thinking)] = Append(@, Piece)]
      BY <1>4 DEF ThinkingDelta, Handles
    <2>2. Lacks(emitting', "call")
      <3>1. Lacks(<<Event("thinking", <<Piece>>)>>, "call")
        BY DEF Lacks, Event
      <3>2. QED
        BY <1>o, <2>1, <3>1
    <2>3. sent'.calls = sent.calls
      BY <1>t, <2>1
    <2>4. ClosedCalls' = ClosedCalls
      BY <2>1, <2>3 DEF ClosedCalls
    <2>5. QED
      BY <1>d, <2>2, <2>4
  <1>5. CASE ToolCallStart
    <2>1. /\ emitting' = <<>> /\ pieces < MaxPieces /\ block' = block
          /\ protocol = "anthropic" => block = "tool" /\ session.call = NoCall
          /\ session' = [session EXCEPT !.call = NewCall]
      BY <1>5 DEF ToolCallStart, Handles
    <2>2. NewCall # NoCall
      BY <2>1, PieceTyped
    <2>3. ASSUME protocol = "anthropic"
          PROVE  ClosedCalls' = ClosedCalls
      <3>1. PICK c \in Call : sent' = [sent EXCEPT !.calls = Append(@, c)]
        BY <1>5, StartSent
      <3>2. session'.call = NewCall /\ sent'.calls = Append(sent.calls, c)
        BY <1>t, <2>1, <3>1
      <3>3. ClosedCalls' = SubSeq(Append(sent.calls, c), 1, Len(Append(sent.calls, c)) - 1)
        BY <2>1, <2>2, <2>3, <3>2 DEF ClosedCalls
      <3>4. ClosedCalls' = sent.calls
        BY <1>t, <3>3, AppendedButLast
      <3>5. QED
        BY <2>1, <2>3, <3>4 DEF ClosedCalls
    <2>4. QED
      BY <1>d, <1>o, <2>1, <2>3
  <1>6. CASE ToolCallDelta
    <2>1. /\ emitting' = <<Other>> \/ emitting' = <<>>
          /\ pieces < MaxPieces /\ block' = block
          /\ protocol = "anthropic" => block = "tool" /\ session.call # NoCall
          /\ session' = [session EXCEPT !.call = IF @ = NoCall THEN @ ELSE WithArgs(@)]
      BY <1>6 DEF ToolCallDelta, Handles
    <2>2. ASSUME protocol = "anthropic"
          PROVE  ClosedCalls' = ClosedCalls
      <3>1. session'.call = WithArgs(session.call)
        BY <1>t, <2>1, <2>2
      <3>2. WithArgs(session.call) # NoCall
        BY <1>t, <2>1, PieceTyped
      <3> DEFINE s == sent.calls
                 t == sent'.calls
      <3>3. /\ t \in Seq(Call) /\ Len(t) = Len(s) /\ s \in Seq(Call) /\ s # <<>> /\ t # <<>>
            /\ \A i \in 1..(Len(s) - 1) : s[i] = t[i]
        BY <1>t, <1>6, <2>2, DeltaSent DEF SameButArgs
      <3>4. ClosedCalls' = SubSeq(t, 1, Len(t) - 1)
        BY <2>1, <2>2, <3>1, <3>2 DEF ClosedCalls
      <3>5. ClosedCalls = SubSeq(s, 1, Len(s) - 1)
        BY <2>1, <2>2 DEF ClosedCalls
      <3> HIDE DEF s, t
      <3>6. QED
        BY <3>3, <3>4, <3>5, SameButLast
    <2>3. QED
      BY <1>d, <1>o, <2>1, <2>2
  <1>8. CASE PassedOver
    BY <1>8, <1>d, <1>o DEF PassedOver, Handles
  <1>7. CASE Finishes
    BY <1>7, <1>d, <1>o DEF Finishes, ClosedCalls
  <1>9. QED
    BY <1>1, <1>2, <1>3, <1>4, <1>5, <1>6, <1>7, <1>8 DEF ServerSends

LEMMA ServerCalls ==
    ASSUME TypeInv, SessionInv, CallInv, ServerSends
    PROVE  CallInv'
  <1>1. Adds(emitting')
    BY ServerAdds
  <1>2. Due \in Seq(Call)
    BY DueTyped
  <1>3. CASE ~(BlockStops /\ session.call # NoCall)
    BY <1>1, <1>2, <1>3, ServerDue, KeepsCalls
  <1>4. CASE BlockStops /\ session.call # NoCall
    <2> DEFINE c == session.call
    <2>1. /\ block # "none" /\ block' = "none" /\ UNCHANGED <<protocol, sent>>
          /\ emitting' = Stopped(session)
          /\ session' = AfterStop(session)
      BY <1>4 DEF BlockStops, Handles
    <2>2. /\ ~strayed /\ protocol = "anthropic" /\ block = "tool" /\ session.thinking = <<>>
          /\ sent.calls # <<>> /\ c = LastCall
      BY <1>4, <2>1 DEF SessionInv, TypeInv
    <2>3. sent.calls \in Seq(Call) /\ c \in Call
      BY Shape
    <2>4. Due = SubSeq(sent.calls, 1, Len(sent.calls) - 1) /\ Due' = sent.calls
      BY <1>4, <2>1, <2>2 DEF Due, ClosedCalls
    <2>5. sent.calls = Append(Due, c)
      <3>1. /\ Len(sent.calls) \in Nat /\ Len(sent.calls) >= 1 /\ Len(Due) = Len(sent.calls) - 1
            /\ \A i \in 1..(Len(sent.calls) - 1) : Due[i] = sent.calls[i]
        BY <2>2, <2>3, <2>4, AllButLast, EmptySeq
      <3>2. /\ Append(Due, c) \in Seq(Call) /\ Len(Append(Due, c)) = Len(Due) + 1
            /\ Append(Due, c)[Len(Due) + 1] = c
            /\ \A i \in 1..Len(Due) : Append(Due, c)[i] = Due[i]
        BY <1>2, <2>3, AppendProperties
      <3>3. c = sent.calls[Len(sent.calls)]
        BY <2>2 DEF LastCall
      <3>4. ASSUME NEW i \in 1..Len(sent.calls)
            PROVE  sent.calls[i] = Append(Due, c)[i]
        <4>1. CASE i = Len(sent.calls)
          BY <3>1, <3>2, <3>3, <4>1
        <4>2. CASE i # Len(sent.calls)
          BY <3>1, <3>2, <4>2
        <4>3. QED
          BY <4>1, <4>2
      <3>5. Len(sent.calls) = Len(Append(Due, c))
        BY <3>1, <3>2
      <3>6. QED
        BY <2>3, <3>2, <3>4, <3>5, SeqEqual
    <2> DEFINE E == Event("call", c)
               U == Append(Due, c)
    <2>6. emitting' = <<E>>
      <3>1. Stopped(session) = <<E>> \o <<>>
        BY <1>4, <2>2 DEF Stopped
      <3>2. E \in Events
        BY <2>3, CallTyped
      <3>3. <<E>> \in Seq(Events)
        BY <3>2
      <3>4. QED
        BY <2>1, <2>2, <3>1, <3>3, NothingJoined
    <2>7. E.kind = "call" /\ E.data = c
      BY <2>3, CallTyped
    <2>8. U \in Seq(Call) /\ U # <<>> /\ Len(U) = Len(Due) + 1 /\ U[Len(U)] = c /\ Len(Due) \in Nat
      BY <1>2, <2>3, AppendProperties, LastAppended
    <2> HIDE DEF E, U
    <2>9. Carries(<<E>>, "call", "none", U, Len(U) - 1)
      BY <2>7, <2>8, CarriesOne
    <2>10. Carries(emitting', "call", "none", U, Len(Due))
      BY <2>6, <2>8, <2>9
    <2>11. QED
      BY <1>1, <1>2, <2>3, <2>4, <2>5, <2>10, SendsCall DEF U
  <1>5. QED
    BY <1>3, <1>4

(* A block of thinking that begins is not yet one that holds something.     *)
LEMMA ThoughtsStart ==
    ASSUME TypeInv, sent'.thinking = Append(Thoughts, <<>>)
    PROVE  LastThought' = LastThought
  <1>1. Thoughts \in Seq(Pieces) /\ <<>> \in Pieces
    BY Shape, ThoughtsTyped
  <1> DEFINE a == Append(Thoughts, <<>>)
  <1>2. a # <<>> /\ a[Len(a)] = <<>>
    BY <1>1, LastAppended
  <1>3. SubSeq(a, 1, Len(a) - 1) = Thoughts
    BY <1>1, AppendedButLast
  <1>4. sent'.thinking = a
    OBVIOUS
  <1> HIDE DEF a
  <1>5. Thoughts' = Thoughts
    <2>1. Thoughts' = SubSeq(a, 1, Len(a) - 1)
      BY <1>2, <1>4 DEF Thoughts
    <2>2. QED
      BY <1>3, <2>1
  <1>6. QED
    BY <1>5 DEF LastThought

(* What a line makes of the thinking, but for a delta and the end of a      *)
(* block of it.                                                             *)
LEMMA ServerThoughts ==
    ASSUME TypeInv, SessionInv, ServerSends, ~ThinkingDelta,
           ~(BlockStops /\ session.thinking # <<>>)
    PROVE  /\ LastThought' = LastThought /\ session'.thinking = session.thinking
           /\ Lacks(emitting', "thinking") /\ Lacks(emitting', "thought")
  <1>t. /\ Other.kind = "other" /\ session \in Sessions
        /\ session = [content |-> session.content, thinking |-> session.thinking,
                      call |-> session.call]
        /\ sent = [text |-> sent.text, thinking |-> sent.thinking, calls |-> sent.calls,
                   unread |-> sent.unread]
    BY Shape, EventTyped DEF TypeInv
  <1>o. /\ Lacks(<<Other>>, "thinking") /\ Lacks(<<Other>>, "thought")
        /\ Lacks(<<>>, "thinking") /\ Lacks(<<>>, "thought")
    BY <1>t, LacksOne, LacksNothing
  <1>s. sent'.thinking = sent.thinking => LastThought' = LastThought
    BY DEF LastThought, Thoughts
  <1>1. ASSUME NEW kind \in {"text", "thinking", "tool"}, BlockStarts(kind)
        PROVE  /\ LastThought' = LastThought /\ session'.thinking = session.thinking
               /\ Lacks(emitting', "thinking") /\ Lacks(emitting', "thought")
    <2>1. /\ emitting' = <<>> /\ session' = session
          /\ sent' = IF kind = "thinking"
                     THEN [sent EXCEPT !.thinking = Append(Thoughts, <<>>)] ELSE sent
      BY <1>1 DEF BlockStarts, Reads
    <2>2. CASE kind = "thinking"
      <3>1. sent'.thinking = Append(Thoughts, <<>>)
        BY <1>t, <2>1, <2>2
      <3>2. QED
        BY <1>o, <2>1, <3>1, ThoughtsStart
    <2>3. CASE kind # "thinking"
      BY <1>o, <1>s, <2>1, <2>3
    <2>4. QED
      BY <2>2, <2>3
  <1>2. CASE BlockStops
    <2>1. /\ emitting' = Stopped(session)
          /\ session' = AfterStop(session)
          /\ sent' = sent /\ session.thinking = <<>>
      BY <1>2 DEF BlockStops, Handles
    <2>2. /\ Lacks(Stopped(session), "thinking") /\ Lacks(Stopped(session), "thought")
          /\ AfterStop(session).thinking = <<>>
      BY <1>t, <2>1, SessionLacks, SessionTyped
    <2>3. QED
      BY <1>o, <1>s, <2>1, <2>2
  <1>3. CASE TextDelta
    <2>1. /\ emitting' = <<Event("text", <<Piece>>)>>
          /\ session' = [session EXCEPT !.content = Append(@, Piece)]
          /\ sent' = [sent EXCEPT !.text = Append(@, Piece)]
      BY <1>3 DEF TextDelta, Handles
    <2>2. /\ Lacks(<<Event("text", <<Piece>>)>>, "thinking")
          /\ Lacks(<<Event("text", <<Piece>>)>>, "thought")
      BY DEF Lacks, Event
    <2>3. /\ sent'.thinking = sent.thinking /\ session'.thinking = session.thinking
      BY <1>t, <2>1
    <2>4. QED
      BY <1>o, <1>s, <2>1, <2>2, <2>3
  <1>4. CASE ToolCallStart
    <2>1. emitting' = <<>> /\ session' = [session EXCEPT !.call = NewCall]
      BY <1>4 DEF ToolCallStart, Handles
    <2>2. PICK c \in Call : sent' = [sent EXCEPT !.calls = Append(@, c)]
      BY <1>4, StartSent
    <2>3. sent'.thinking = sent.thinking /\ session'.thinking = session.thinking
      BY <1>t, <2>1, <2>2
    <2>4. QED
      BY <1>o, <1>s, <2>1, <2>3
  <1>5. CASE ToolCallDelta
    <2>1. /\ emitting' = <<Other>> \/ emitting' = <<>>
          /\ session' = [session EXCEPT !.call = IF @ = NoCall THEN @ ELSE WithArgs(@)]
      BY <1>5 DEF ToolCallDelta, Handles
    <2>2. sent'.thinking = sent.thinking /\ session'.thinking = session.thinking
      BY <1>t, <1>5, <2>1, DeltaSent DEF SameButArgs
    <2>3. QED
      BY <1>o, <1>s, <2>1, <2>2
  <1>7. CASE PassedOver
    <2>1. (emitting' = <<Other>> \/ emitting' = <<>>) /\ session' = session
      BY <1>7 DEF PassedOver, Handles
    <2>2. sent'.thinking = sent.thinking
      BY <1>7, PassedSent DEF SameButArgs
    <2>3. QED
      BY <1>o, <1>s, <2>1, <2>2
  <1>6. CASE Finishes
    BY <1>6, <1>o, <1>s DEF Finishes
  <1>8. QED
    BY <1>1, <1>2, <1>3, <1>4, <1>5, <1>6, <1>7 DEF ServerSends

(* A thought that is complete is sent, behind everything else.              *)
LEMMA SendsThought ==
    ASSUME NEW e, Adds(e), NEW a \in Seq(Events), NEW d \in Pieces,
           e = a \o <<Event("thought", d)>>, LastThought' = d
    PROVE  ThinkingInv'
  <1> DEFINE E == Event("thought", d)
             q == Pending
  <1>1. E \in Events /\ E.kind = "thought" /\ E.data = d
    BY EventTyped
  <1>2. q \in Seq(Events) /\ Pending' = q \o e
    BY DEF Adds
  <1>3. e = a \o <<E>>
    OBVIOUS
  <1> HIDE DEF E, q
  <1>4. <<E>> \in Seq(Events)
    BY <1>1
  <1>5. q \o e = (q \o a) \o <<E>>
    BY <1>2, <1>3, <1>4, ConcatAssociative
  <1>6. q \o a \in Seq(Events)
    BY <1>2, ConcatProperties
  <1>7. Latest((q \o a) \o <<E>>, answer'.thinking, E.data)
    BY <1>1, <1>6, LatestThought
  <1>8. QED
    BY <1>1, <1>2, <1>5, <1>7 DEF ThinkingInv

LEMMA ServerThinking ==
    ASSUME TypeInv, SessionInv, ThinkingInv, ServerSends
    PROVE  ThinkingInv'
  <1>1. Adds(emitting') /\ ~Flushed /\ ~Flushed' /\ outcome' = outcome
    BY ServerAdds DEF Flushed
  <1>t. /\ session.thinking \in Pieces
        /\ session = [content |-> session.content, thinking |-> session.thinking,
                      call |-> session.call]
    BY Shape
  <1>2. CASE ThinkingDelta
    <2>1. /\ block = "thinking" /\ pieces < MaxPieces
          /\ session' = [session EXCEPT !.thinking = Append(@, Piece)]
      BY <1>2 DEF ThinkingDelta, Handles
    <2>2. session'.thinking = Append(session.thinking, Piece)
      BY <1>t, <2>1
    <2>3. session'.thinking # <<>>
      BY <1>t, <2>1, <2>2, PieceTyped
    <2>4. QED
      BY <1>1, <2>3 DEF ThinkingInv
  <1>3. CASE BlockStops /\ session.thinking # <<>>
    <2>1. /\ emitting' = Stopped(session)
          /\ sent' = sent /\ block # "none"
      BY <1>3 DEF BlockStops, Handles
    <2>2. /\ block = "thinking" /\ session.call = NoCall /\ sent.thinking # <<>>
          /\ session.thinking = sent.thinking[Len(sent.thinking)]
      BY <1>3, <2>1 DEF SessionInv, TypeInv
    <2>3. emitting' = <<>> \o <<Event("thought", session.thinking)>>
      BY <1>3, <2>1, <2>2 DEF Stopped
    <2>4. LastThought' = session.thinking
      BY <1>3, <2>1, <2>2 DEF LastThought, Thoughts
    <2>5. <<>> \in Seq(Events)
      OBVIOUS
    <2>6. QED
      BY <1>1, <1>t, <2>3, <2>4, <2>5, SendsThought
  <1>4. CASE ~ThinkingDelta /\ ~(BlockStops /\ session.thinking # <<>>)
    <2>1. /\ LastThought' = LastThought /\ session'.thinking = session.thinking
          /\ Lacks(emitting', "thinking") /\ Lacks(emitting', "thought")
      BY <1>4, ServerThoughts
    <2>2. QED
      BY <1>1, <2>1, KeepsThinking
  <1>5. QED
    BY <1>2, <1>3, <1>4

-----------------------------------------------------------------------------
(* The end of the stream.                                                   *)

LEMMA SameSession ==
    ASSUME SessionInv, UNCHANGED <<serverVars, session>>
    PROVE  SessionInv'
  BY DEF SessionInv, serverVars, LastCall

LEMMA SameParts ==
    ASSUME TextInv, CallInv, ThinkingInv, UNCHANGED <<serverVars, session, reader, answer, deltas>>,
           Pending' = Pending, outcome' # "error" => outcome # "error"
    PROVE  TextInv' /\ CallInv' /\ ThinkingInv'
  <1>1. TextInv'
    BY DEF TextInv, Singles, AllCarry, Lacks
  <1>2. Due' = Due /\ LastThought' = LastThought /\ Flushed' = Flushed
    BY DEF Due, ClosedCalls, Flushed, LastThought, Thoughts, serverVars
  <1>3. CallInv' /\ ThinkingInv'
    BY <1>2 DEF CallInv, ThinkingInv
  <1>4. QED
    BY <1>1, <1>3

(* The stream breaks or ends: nothing of the answer is sent.                *)
LEMMA ReadingEnds ==
    ASSUME StreamInv, Breaks \/ StreamEnds
    PROVE  StreamInv'
  <1>t. TypeInv /\ SessionInv /\ PhaseInv /\ TextInv /\ CallInv /\ ThinkingInv
    BY DEF StreamInv
  <1>1. TypeInv'
    BY <1>t, ReaderTyped
  <1> DEFINE x == Event("error", <<>>)
  <1>2. /\ reader = "reading" /\ reader' = "flushing" /\ emitting = <<>>
        /\ UNCHANGED <<serverVars, session, consumerVars>>
        /\ \/ emitting' = <<x>>
           \/ emitting' = <<>> /\ broken' = broken
    BY DEF Breaks, StreamEnds
  <1>3. Adds(emitting')
    BY <1>1, <1>2, <1>t, SendAdds DEF consumerVars
  <1>4. ASSUME NEW kind, kind # "error"
        PROVE  Lacks(emitting', kind)
    <2>1. x.kind = "error"
      BY DEF Event
    <2>2. Lacks(<<x>>, kind) /\ Lacks(<<>>, kind)
      BY <1>4, <2>1, LacksOne, LacksNothing
    <2>3. QED
      BY <1>2, <2>2
  <1>5. emitting' = <<x>> => ~Lacks(emitting', "error")
    <2>1. x.kind = "error"
      BY DEF Event
    <2>2. ~Lacks(<<x>>, "error")
      BY <2>1, LacksOne
    <2>3. QED
      BY <2>2
  <1> HIDE DEF x
  <1>6. SessionInv'
    BY <1>t, <1>2, SameSession
  <1>7. PhaseInv'
    BY <1>t, <1>2, <1>3, <1>5, KeepsPhase DEF PhaseInv
  <1>8. TextInv'
    <2>1. AllCarry(emitting', "content", session.content)
      BY <1>4 DEF AllCarry, Lacks
    <2>2. QED
      BY <1>t, <1>2, <1>3, <1>4, <2>1, KeepsText
  <1>9. CallInv'
    <2>1. Due' = Due
      BY <1>2 DEF Due, ClosedCalls, Flushed, serverVars
    <2>2. QED
      BY <1>t, <1>3, <1>4, <2>1, DueTyped, KeepsCalls
  <1>10. ThinkingInv'
    <2>1. LastThought' = LastThought
      BY <1>2 DEF LastThought, Thoughts, serverVars
    <2>2. ~Flushed'
      BY <1>2 DEF Flushed
    <2>3. QED
      BY <1>t, <1>2, <1>3, <1>4, <2>1, <2>2, KeepsThinking
  <1>11. QED
    BY <1>1, <1>6, <1>7, <1>8, <1>9, <1>10 DEF StreamInv

LEMMA TaskEnds ==
    ASSUME StreamInv, Closes
    PROVE  StreamInv'
  <1>t. TypeInv /\ SessionInv /\ PhaseInv /\ TextInv /\ CallInv /\ ThinkingInv
    BY DEF StreamInv
  <1>1. TypeInv'
    BY <1>t, ReaderTyped DEF ReaderStep
  <1>2. /\ reader = "closing" /\ reader' = "ended" /\ emitting = <<>>
        /\ UNCHANGED <<serverVars, broken, session, emitting, consumerVars>>
    BY DEF Closes
  <1>3. Adds(<<>>)
    BY <1>2, <1>t, AddsNothing DEF consumerVars
  <1>4. ASSUME NEW kind
        PROVE  Lacks(<<>>, kind)
    BY LacksNothing
  <1>5. SessionInv'
    BY <1>t, <1>2, SameSession
  <1>6. PhaseInv'
    BY <1>t, <1>2, <1>3, KeepsPhase DEF PhaseInv, consumerVars
  <1>7. TextInv'
    <2>1. AllCarry(<<>>, "content", session.content)
      BY DEF AllCarry
    <2>2. QED
      BY <1>t, <1>2, <1>3, <1>4, <2>1, KeepsText
  <1>8. CallInv'
    <2>1. Due' = Due
      BY <1>2 DEF Due, ClosedCalls, Flushed, serverVars
    <2>2. QED
      BY <1>t, <1>3, <1>4, <2>1, DueTyped, KeepsCalls
  <1>9. ThinkingInv'
    <2>1. LastThought' = LastThought /\ Flushed
      BY <1>2 DEF LastThought, Thoughts, serverVars, Flushed
    <2>2. QED
      BY <1>t, <1>3, <1>4, <2>1, KeepsThinking
  <1>10. QED
    BY <1>1, <1>5, <1>6, <1>7, <1>8, <1>9 DEF StreamInv

(* What is left is sent.                                                    *)
LEMMA FlushSends ==
    ASSUME StreamInv, Flush
    PROVE  /\ TypeInv' /\ reader = "flushing" /\ reader' = "closing" /\ Adds(emitting')
           /\ UNCHANGED <<serverVars, broken, session, consumerVars>>
           /\ protocol = "anthropic" => emitting' = Finalized(session)
           /\ protocol = "openai" =>
                 /\ emitting' = Stopped(session) \o Finalized(AfterStop(session))
                 /\ session.thinking = <<>>
  <1>1. TypeInv'
    BY ReaderTyped DEF ReaderStep, StreamInv
  <1>2. /\ reader = "flushing" /\ reader' = "closing" /\ emitting = <<>>
        /\ UNCHANGED <<serverVars, broken, session, consumerVars>>
        /\ protocol = "anthropic" => emitting' = Finalized(session)
        /\ protocol = "openai" => emitting' = Stopped(session) \o Finalized(AfterStop(session))
    BY DEF Flush
  <1>3. protocol = "openai" => session.thinking = <<>>
    BY DEF StreamInv, SessionInv
  <1>4. Adds(emitting')
    BY <1>1, <1>2, SendAdds DEF consumerVars, StreamInv
  <1>5. QED
    BY <1>1, <1>2, <1>3, <1>4

LEMMA FlushText ==
    ASSUME StreamInv, Flush
    PROVE  TextInv'
  <1>1. /\ reader' = "closing" /\ Adds(emitting') /\ session' = session
        /\ protocol = "anthropic" => emitting' = Finalized(session)
        /\ protocol = "openai" => emitting' = Stopped(session) \o Finalized(AfterStop(session))
    BY FlushSends
  <1>2. TypeInv /\ TextInv /\ protocol \in {"anthropic", "openai"} /\ session \in Sessions
    BY DEF StreamInv, TypeInv
  <1> DEFINE f == Finalized(session)
             g == Finalized(AfterStop(session))
             k == Stopped(session)
  <1>3. /\ f \in Seq(Events) /\ g \in Seq(Events) /\ k \in Seq(Events)
        /\ AfterStop(session) \in Sessions /\ AfterStop(session).content = session.content
    BY <1>2, SessionTyped
  <1>4. /\ Lacks(f, "text") /\ Lacks(g, "text") /\ Lacks(k, "text") /\ Lacks(k, "content")
        /\ AllCarry(f, "content", session.content) /\ AllCarry(g, "content", session.content)
    <2>1. Lacks(f, "text") /\ Lacks(k, "text") /\ Lacks(k, "content")
          /\ AllCarry(f, "content", session.content)
      BY <1>2, SessionLacks
    <2>2. Lacks(g, "text") /\ AllCarry(g, "content", AfterStop(session).content)
      BY <1>3, SessionLacks
    <2>3. QED
      BY <1>3, <2>1, <2>2
  <1> HIDE DEF f, g, k
  <1>5. AllCarry(k, "content", session.content)
    BY <1>4 DEF AllCarry, Lacks
  <1>6. Lacks(k \o g, "text") /\ AllCarry(k \o g, "content", session.content)
    BY <1>3, <1>4, <1>5, LacksJoin, AllCarryJoin
  <1>7. emitting' = f \/ emitting' = k \o g
    BY <1>1, <1>2 DEF f, g, k
  <1>8. Lacks(emitting', "text") /\ AllCarry(emitting', "content", session.content)
    BY <1>4, <1>6, <1>7
  <1>9. session'.content = session.content /\ (reader' = "reading" => Lacks(emitting', "content"))
    BY <1>1
  <1>10. QED
    BY <1>1, <1>2, <1>8, <1>9, KeepsText

LEMMA FlushCalls ==
    ASSUME StreamInv, Flush
    PROVE  CallInv'
  <1>1. /\ reader = "flushing" /\ reader' = "closing" /\ Adds(emitting')
        /\ UNCHANGED <<serverVars, session>>
        /\ protocol = "anthropic" => emitting' = Finalized(session)
        /\ protocol = "openai" => /\ emitting' = Stopped(session) \o Finalized(AfterStop(session))
                                  /\ session.thinking = <<>>
    BY FlushSends
  <1>2. /\ TypeInv /\ CallInv /\ SessionInv /\ protocol \in {"anthropic", "openai"}
        /\ session \in Sessions /\ session.call \in Call
    BY Shape DEF StreamInv, TypeInv
  <1>3. Due \in Seq(Call)
    BY <1>2, DueTyped
  <1>4. ~Flushed /\ Flushed'
    BY <1>1 DEF Flushed
  <1>5. CASE protocol = "anthropic"
    <2>1. Due' = Due
      BY <1>1, <1>5 DEF Due, ClosedCalls, serverVars
    <2>2. Lacks(emitting', "call")
      BY <1>1, <1>2, <1>5, SessionLacks
    <2>3. QED
      BY <1>1, <1>2, <1>3, <2>1, <2>2, KeepsCalls
  <1>6. CASE protocol = "openai"
    <2> DEFINE g == Finalized(AfterStop(session))
               k == Stopped(session)
    <2>1. g \in Seq(Events) /\ k \in Seq(Events) /\ AfterStop(session) \in Sessions
      BY <1>2, SessionTyped
    <2>2. Lacks(g, "call")
      BY <2>1, SessionLacks
    <2>3. Due = <<>> /\ Due' = IF session.call # NoCall THEN <<session.call>> ELSE <<>>
      BY <1>1, <1>4, <1>6 DEF Due, serverVars
    <2>4. emitting' = k \o g
      BY <1>1, <1>6
    <2>5. CASE session.call = NoCall
      <3>1. Lacks(k, "call")
        BY <1>2, <2>5, SessionLacks
      <3> HIDE DEF g, k
      <3>2. Lacks(emitting', "call")
        BY <2>1, <2>2, <2>4, <3>1, LacksJoin
      <3>3. QED
        BY <1>1, <1>2, <1>3, <2>3, <2>5, <3>2, KeepsCalls
    <2>6. CASE session.call # NoCall
      <3> DEFINE c == session.call
                 E == Event("call", c)
                 U == <<c>>
      <3>1. E.kind = "call" /\ E.data = c /\ E \in Events
        BY <1>2, CallTyped
      <3>2. k = <<E>>
        <4>1. <<E>> \in Seq(Events)
          BY <3>1
        <4>2. k = <<E>> \o <<>>
          BY <1>1, <1>6, <2>6 DEF Stopped
        <4>3. QED
          BY <4>1, <4>2, NothingJoined
      <3>3. U \in Seq(Call) /\ U # <<>> /\ Len(U) = 1 /\ U[Len(U)] = c /\ Append(<<>>, c) = U
        BY <1>2
      <3> HIDE DEF g, k, E, U
      <3>4. Carries(<<E>>, "call", "none", U, Len(U) - 1)
        BY <3>1, <3>3, CarriesOne
      <3>5. Carries(g, "call", "none", U, Len(U))
        BY <2>1, <2>2, <3>3, CarriesLacking
      <3>6. Prefix(U, U)
        BY <3>3 DEF Prefix
      <3>7. <<E>> \in Seq(Events)
        BY <3>1
      <3>8. Carries(<<E>> \o g, "call", "none", U, Len(U) - 1)
        BY <2>1, <3>3, <3>4, <3>5, <3>6, <3>7, CarriesJoin
      <3>9. Len(U) - 1 = Len(Due) /\ Append(Due, c) = U /\ Due' = U
        BY <2>3, <2>6, <3>3 DEF U
      <3>10. Carries(emitting', "call", "none", Append(Due, c), Len(Due))
        BY <2>4, <3>2, <3>8, <3>9
      <3>11. QED
        BY <1>1, <1>2, <1>3, <3>9, <3>10, SendsCall
    <2>7. QED
      BY <2>5, <2>6
  <1>7. QED
    BY <1>2, <1>5, <1>6

LEMMA FlushThinking ==
    ASSUME StreamInv, Flush
    PROVE  ThinkingInv'
  <1>1. /\ reader = "flushing" /\ reader' = "closing" /\ Adds(emitting')
        /\ UNCHANGED <<serverVars, session>>
        /\ protocol = "anthropic" => emitting' = Finalized(session)
        /\ protocol = "openai" => /\ emitting' = Stopped(session) \o Finalized(AfterStop(session))
                                  /\ session.thinking = <<>>
    BY FlushSends
  <1>2. /\ TypeInv /\ ThinkingInv /\ SessionInv /\ protocol \in {"anthropic", "openai"}
        /\ session \in Sessions /\ session.thinking \in Pieces /\ session.content \in Pieces
    BY Shape DEF StreamInv, TypeInv
  <1>3. LastThought' = LastThought
    BY <1>1 DEF LastThought, Thoughts, serverVars
  <1>4. CASE session.thinking = <<>>
    <2> DEFINE f == Finalized(session)
               g == Finalized(AfterStop(session))
               k == Stopped(session)
    <2>1. /\ g \in Seq(Events) /\ k \in Seq(Events) /\ AfterStop(session) \in Sessions
          /\ AfterStop(session).thinking = <<>>
      BY <1>2, SessionTyped
    <2>2. /\ Lacks(f, "thinking") /\ Lacks(g, "thinking") /\ Lacks(k, "thinking")
          /\ Lacks(f, "thought") /\ Lacks(g, "thought") /\ Lacks(k, "thought")
      BY <1>2, <1>4, <2>1, SessionLacks
    <2>3. emitting' = f \/ emitting' = k \o g
      BY <1>1, <1>2
    <2> HIDE DEF f, g, k
    <2>4. Lacks(k \o g, "thinking") /\ Lacks(k \o g, "thought")
      BY <2>1, <2>2, LacksJoin
    <2>5. Lacks(emitting', "thinking") /\ Lacks(emitting', "thought")
      BY <2>2, <2>3, <2>4
    <2>6. QED
      BY <1>1, <1>2, <1>3, <1>4, <2>5, KeepsThinking
  <1>5. CASE session.thinking # <<>>
    <2>1. protocol = "anthropic" /\ emitting' = Finalized(session)
      BY <1>1, <1>2, <1>5
    <2>2. /\ block = "thinking" /\ sent.thinking # <<>>
          /\ session.thinking = sent.thinking[Len(sent.thinking)]
      BY <1>2, <1>5 DEF SessionInv
    <2>3. LastThought = session.thinking
      BY <1>5, <2>2 DEF LastThought, Thoughts
    <2> DEFINE a == IF session.content = <<>> THEN <<>> ELSE <<Event("content", session.content)>>
    <2>4. a \in Seq(Events)
      BY <1>2, EventTyped, OptionalTyped
    <2>5. emitting' = a \o <<Event("thought", session.thinking)>>
      BY <1>5, <2>1 DEF Finalized
    <2> HIDE DEF a
    <2>6. QED
      BY <1>1, <1>2, <1>3, <2>3, <2>4, <2>5, SendsThought
  <1>6. QED
    BY <1>4, <1>5

LEMMA FlushStep ==
    ASSUME StreamInv, Flush
    PROVE  StreamInv'
  <1>1. /\ TypeInv' /\ reader = "flushing" /\ reader' = "closing" /\ Adds(emitting')
        /\ UNCHANGED <<serverVars, broken, session, consumerVars>>
    BY FlushSends
  <1>2. SessionInv'
    BY <1>1, SameSession DEF StreamInv
  <1>3. PhaseInv'
    BY <1>1, KeepsPhase DEF StreamInv, PhaseInv, consumerVars
  <1>4. QED
    BY <1>1, <1>2, <1>3, FlushText, FlushCalls, FlushThinking DEF StreamInv

-----------------------------------------------------------------------------
(* What the consumer makes of an event.                                     *)

LEMMA PrefixNext ==
    ASSUME NEW D, NEW s \in Seq(D), NEW T \in Seq(D), Prefix(s, T), Len(s) + 1 \in 1..Len(T)
    PROVE  /\ Prefix(Append(s, T[Len(s) + 1]), T) /\ Len(Append(s, T[Len(s) + 1])) = Len(s) + 1
           /\ T[Len(s) + 1] \in D
  <1> DEFINE a == Append(s, T[Len(s) + 1])
  <1>1. T[Len(s) + 1] \in D /\ Len(s) \in Nat /\ Len(T) \in Nat
    OBVIOUS
  <1>2. /\ a \in Seq(D) /\ Len(a) = Len(s) + 1 /\ a[Len(s) + 1] = T[Len(s) + 1]
        /\ \A i \in 1..Len(s) : a[i] = s[i]
    BY <1>1, AppendProperties
  <1> HIDE DEF a
  <1>3. ASSUME NEW i \in 1..Len(a)
        PROVE  a[i] = T[i]
    <2>1. CASE i = Len(s) + 1
      BY <1>2, <2>1
    <2>2. CASE i # Len(s) + 1
      <3>1. i \in 1..Len(s)
        BY <1>1, <1>2, <2>2
      <3>2. QED
        BY <1>2, <3>1 DEF Prefix
    <2>3. QED
      BY <2>1, <2>2
  <1>4. Len(a) <= Len(T)
    BY <1>1, <1>2
  <1>5. Prefix(a, T)
    BY <1>3, <1>4 DEF Prefix
  <1>6. QED
    BY <1>1, <1>2, <1>5 DEF a

LEMMA PrefixWhole ==
    ASSUME NEW D, NEW s \in Seq(D), NEW T \in Seq(D), Prefix(s, T), Len(s) = Len(T)
    PROVE  s = T
  BY SeqEqual DEF Prefix

(* A delta and nothing put behind a text.                                   *)
LEMMA TextJoined ==
    ASSUME NEW s \in Pieces, NEW d \in 1..MaxPieces
    PROVE  s \o <<d>> = Append(s, d) /\ s \o <<>> = s /\ <<>> \o s = s
  <1>1. s \in Seq(1..MaxPieces)
    BY DEF Pieces
  <1>2. QED
    BY <1>1, AppendIsConcat, NothingJoined

LEMMA TakesText ==
    ASSUME StreamInv, outcome # "error", NEW e \in Events, e = Head(Pending), Pending # <<>>,
           Pending' = Tail(Pending), UNCHANGED <<session, reader>>,
           answer' = Accumulated(answer, e), deltas' = deltas \o EmittedDelta(e)
    PROVE  TextInv'
  <1> DEFINE c == session.content
             T == Singles(c)
             s == answer.content
             q == Pending
  <1>1. /\ c \in Pieces /\ T \in Seq(Pieces) /\ Len(T) = Len(c) /\ Len(c) \in Nat
        /\ \A i \in 1..Len(c) : T[i] = <<c[i]>>
    BY Shape, SinglesTyped DEF StreamInv
  <1>2. /\ s \in Pieces /\ answer \in Answers /\ q \in Seq(Events)
    BY PendingTyped DEF StreamInv, TypeInv, Answers
  <1>3. /\ Prefix(s, c) /\ deltas = s /\ Carries(q, "text", "content", T, Len(s))
        /\ AllCarry(q, "content", c)
        /\ reader = "reading" => Lacks(q, "content")
    BY DEF StreamInv, TextInv
  <1>4. answer'.content = IF e.kind = "text" THEN s \o e.data
                          ELSE IF e.kind = "content" THEN e.data ELSE s
    BY <1>2, AccumulatedTyped
  <1>5. q # <<>> /\ e = Head(q) /\ Pending' = Tail(q)
    OBVIOUS
  <1>6. c \in Seq(1..MaxPieces) /\ s \in Seq(1..MaxPieces)
    BY <1>1, <1>2 DEF Pieces
  <1>7. /\ c' = c /\ T' = T /\ reader' = reader /\ deltas' = s \o EmittedDelta(e)
    BY <1>3 DEF Singles
  <1>8. answer'.content = s' /\ s = answer.content
    OBVIOUS
  <1> HIDE DEF c, T, s, q
  <1>9. /\ Head(q).kind = "text" => /\ Len(s) + 1 \in 1..Len(T) /\ Head(q).data = T[Len(s) + 1]
                                    /\ Carries(Tail(q), "text", "content", T, Len(s) + 1)
        /\ Head(q).kind # "text" => Carries(Tail(q), "text", "content", T, Len(s))
        /\ Head(q).kind = "content" => Len(s) = Len(T)
    BY <1>1, <1>2, <1>3, <1>5, CarriesTake
  <1>10. /\ AllCarry(Tail(q), "content", c)
         /\ e.kind = "content" => e.data = c
    BY <1>2, <1>3, <1>5, AllCarryTake
  <1>11. reader' = "reading" => Lacks(Tail(q), "content")
    BY <1>2, <1>3, <1>5, <1>7, LacksTake
  <1>12. /\ Prefix(s', c) /\ deltas' = s'
         /\ Carries(Tail(q), "text", "content", T, Len(s'))
    <2>1. CASE e.kind = "text"
      <3>1. Len(s) + 1 \in 1..Len(c) /\ e.data = <<c[Len(s) + 1]>>
        BY <1>1, <1>5, <1>9, <2>1
      <3>2. /\ Prefix(Append(s, c[Len(s) + 1]), c) /\ Len(Append(s, c[Len(s) + 1])) = Len(s) + 1
            /\ c[Len(s) + 1] \in 1..MaxPieces
        BY <1>3, <1>6, <3>1, PrefixNext
      <3>3. s \o e.data = Append(s, c[Len(s) + 1])
        BY <1>2, <3>1, <3>2, TextJoined
      <3>4. s' = Append(s, c[Len(s) + 1])
        BY <1>4, <1>8, <2>1, <3>3
      <3>5. deltas' = s'
        BY <1>7, <2>1, <3>3, <3>4 DEF EmittedDelta
      <3>6. Carries(Tail(q), "text", "content", T, Len(s) + 1)
        BY <1>5, <1>9, <2>1
      <3>7. QED
        BY <3>2, <3>4, <3>5, <3>6
    <2>2. CASE e.kind = "content"
      <3>1. Len(s) = Len(c) /\ Carries(Tail(q), "text", "content", T, Len(s))
        BY <1>1, <1>5, <1>9, <2>2
      <3>2. s = c
        BY <1>3, <1>6, <3>1, PrefixWhole
      <3>3. s' = c
        BY <1>4, <1>8, <1>10, <2>2
      <3>4. deltas' = c
        <4>1. CASE deltas = <<>>
          <5>1. EmittedDelta(e) = c
            BY <1>10, <2>2, <4>1 DEF EmittedDelta
          <5>2. s = <<>>
            BY <1>3, <4>1
          <5>3. QED
            BY <1>1, <1>7, <5>1, <5>2, TextJoined
        <4>2. CASE deltas # <<>>
          <5>1. EmittedDelta(e) = <<>>
            BY <2>2, <4>2 DEF EmittedDelta
          <5>2. QED
            BY <1>6, <1>7, <3>2, <5>1, NothingJoined
        <4>3. QED
          BY <4>1, <4>2
      <3>5. QED
        BY <1>3, <3>1, <3>2, <3>3, <3>4
    <2>3. CASE e.kind \notin {"text", "content"}
      <3>1. s' = s /\ EmittedDelta(e) = <<>>
        BY <1>4, <1>8, <2>3 DEF EmittedDelta
      <3>2. deltas' = s
        BY <1>6, <1>7, <3>1, NothingJoined
      <3>3. Carries(Tail(q), "text", "content", T, Len(s))
        BY <1>5, <1>9, <2>3
      <3>4. QED
        BY <1>3, <3>1, <3>2, <3>3
    <2>4. QED
      BY <2>1, <2>2, <2>3
  <1>13. Carries(Pending, "text", "content", Singles(session.content), Len(answer.content))'
    BY <1>5, <1>7, <1>12 DEF s, T, c
  <1>14. AllCarry(Pending, "content", session.content)' /\ (reader = "reading" => Lacks(Pending, "content"))'
    BY <1>5, <1>7, <1>10, <1>11 DEF c, AllCarry, Lacks
  <1>15. Prefix(answer.content, session.content)' /\ deltas' = answer'.content
    BY <1>7, <1>12 DEF s, c, Prefix
  <1>16. QED
    BY <1>13, <1>14, <1>15 DEF TextInv

LEMMA TakesCalls ==
    ASSUME StreamInv, outcome # "error", NEW e \in Events, e = Head(Pending), Pending # <<>>,
           Pending' = Tail(Pending), Due' = Due, answer' = Accumulated(answer, e)
    PROVE  CallInv'
  <1> DEFINE s == answer.calls
             q == Pending
  <1>1. /\ s \in Seq(Call) /\ answer \in Answers /\ q \in Seq(Events) /\ Due \in Seq(Call)
    BY PendingTyped, DueTyped DEF StreamInv, TypeInv, Answers
  <1>2. Prefix(s, Due) /\ Carries(q, "call", "none", Due, Len(s))
    BY DEF StreamInv, CallInv
  <1>3. s' = IF e.kind = "call" THEN Append(s, e.data) ELSE s
    BY <1>1, AccumulatedTyped
  <1>4. q # <<>> /\ e = Head(q) /\ Pending' = Tail(q)
    OBVIOUS
  <1> HIDE DEF s, q
  <1>5. /\ Head(q).kind = "call" => /\ Len(s) + 1 \in 1..Len(Due) /\ Head(q).data = Due[Len(s) + 1]
                                    /\ Carries(Tail(q), "call", "none", Due, Len(s) + 1)
        /\ Head(q).kind # "call" => Carries(Tail(q), "call", "none", Due, Len(s))
    BY <1>1, <1>2, <1>4, CarriesTake
  <1>6. Prefix(s', Due) /\ Carries(Tail(q), "call", "none", Due, Len(s'))
    <2>1. CASE e.kind = "call"
      <3>1. /\ Len(s) + 1 \in 1..Len(Due) /\ s' = Append(s, Due[Len(s) + 1])
            /\ Carries(Tail(q), "call", "none", Due, Len(s) + 1)
        BY <1>3, <1>4, <1>5, <2>1
      <3>2. /\ Prefix(Append(s, Due[Len(s) + 1]), Due)
            /\ Len(Append(s, Due[Len(s) + 1])) = Len(s) + 1
        BY <1>1, <1>2, <3>1, PrefixNext
      <3>3. QED
        BY <3>1, <3>2
    <2>2. CASE e.kind # "call"
      BY <1>2, <1>3, <1>4, <1>5, <2>2
    <2>3. QED
      BY <2>1, <2>2
  <1>7. Carries(Pending, "call", "none", Due, Len(answer.calls))'
    BY <1>4, <1>6 DEF s
  <1>8. Prefix(answer.calls, Due)'
    BY <1>6 DEF s, Prefix
  <1>9. QED
    BY <1>7, <1>8 DEF CallInv

LEMMA TakesThinking ==
    ASSUME StreamInv, outcome # "error", NEW e \in Events, e = Head(Pending), Pending # <<>>,
           Pending' = Tail(Pending), UNCHANGED <<session, reader>>, LastThought' = LastThought,
           answer' = Accumulated(answer, e)
    PROVE  ThinkingInv'
  <1> SUFFICES ASSUME (session.thinking = <<>> \/ Flushed)'
               PROVE  Latest(Pending', answer'.thinking, LastThought')
    BY DEF ThinkingInv
  <1>1. session.thinking = <<>> \/ Flushed
    BY DEF Flushed
  <1>2. Latest(Pending, answer.thinking, LastThought)
    BY <1>1 DEF StreamInv, ThinkingInv
  <1>3. Pending \in Seq(Events) /\ answer \in Answers
    BY PendingTyped DEF StreamInv, TypeInv
  <1>4. answer'.thinking = IF e.kind = "thinking" THEN answer.thinking \o e.data
                           ELSE IF e.kind = "thought" THEN e.data ELSE answer.thinking
    BY <1>3, AccumulatedTyped
  <1>5. /\ Head(Pending).kind \notin {"thinking", "thought"} => answer'.thinking = answer.thinking
        /\ Head(Pending).kind = "thought" => answer'.thinking = Head(Pending).data
    BY <1>4
  <1>6. Latest(Tail(Pending), answer'.thinking, LastThought)
    BY <1>2, <1>3, <1>5, LatestTake
  <1>7. QED
    BY <1>6

LEMMA ConsumeStep ==
    ASSUME StreamInv, Consumes
    PROVE  StreamInv'
  <1>t. TypeInv /\ SessionInv /\ PhaseInv
    BY DEF StreamInv
  <1>1. TypeInv'
    BY <1>t, ConsumerTyped DEF ConsumerStep
  <1>2. /\ outcome = "reading" /\ channel # <<>>
        /\ UNCHANGED <<serverVars, broken, session, reader, emitting>>
    BY DEF Consumes
  <1>3. SessionInv'
    BY <1>t, <1>2, SameSession
  <1> DEFINE e == Head(channel)
  <1>4. CASE e.kind = "error"
    <2>1. outcome' = "error"
      BY <1>4 DEF Consumes
    <2>2. PhaseInv'
      BY <1>t, <1>2, <2>1 DEF PhaseInv
    <2>3. TextInv' /\ CallInv' /\ ThinkingInv'
      BY <2>1 DEF TextInv, CallInv, ThinkingInv
    <2>4. QED
      BY <1>1, <1>3, <2>2, <2>3 DEF StreamInv
  <1>5. CASE e.kind # "error"
    <2>1. /\ answer' = Accumulated(answer, e) /\ deltas' = deltas \o EmittedDelta(e)
          /\ channel' = Tail(channel) /\ outcome' = outcome
      BY <1>5 DEF Consumes
    <2>2. channel \in Seq(Events) /\ emitting \in Seq(Events)
      BY <1>t DEF TypeInv
    <2>3. /\ channel \o emitting # <<>> /\ Head(channel \o emitting) = e /\ e \in Events
          /\ Tail(channel \o emitting) = Tail(channel) \o emitting
      BY <1>2, <2>2, TakeKeeps
    <2>4. Pending # <<>> /\ Head(Pending) = e /\ Pending' = Tail(Pending)
      BY <1>2, <2>1, <2>3 DEF Pending
    <2>5. Due' = Due /\ LastThought' = LastThought
      BY <1>2 DEF Due, ClosedCalls, Flushed, LastThought, Thoughts, serverVars
    <2>6. PhaseInv'
      <3>1. Pending \in Seq(Events)
        BY <1>t, PendingTyped
      <3>2. ~Lacks(Pending, "error") => ~Lacks(Tail(Pending), "error")
        BY <1>5, <2>4, <3>1, LacksTake
      <3>3. ~Lacks(Pending, "error") => (~Lacks(Pending, "error"))'
        BY <2>4, <3>2 DEF Lacks
      <3>4. QED
        BY <1>t, <1>2, <2>1, <3>3 DEF PhaseInv
    <2>7. outcome # "error" /\ e \in Events /\ e = Head(Pending) /\ UNCHANGED <<session, reader>>
      BY <1>2, <2>3, <2>4
    <2> HIDE DEF e
    <2>8. TextInv' /\ CallInv' /\ ThinkingInv'
      BY <2>1, <2>4, <2>5, <2>7, TakesText, TakesCalls, TakesThinking
    <2>9. QED
      BY <1>1, <1>3, <2>6, <2>8 DEF StreamInv
  <1>6. QED
    BY <1>4, <1>5

LEMMA EmitStep ==
    ASSUME StreamInv, Emits
    PROVE  StreamInv'
  <1>t. TypeInv /\ SessionInv /\ PhaseInv /\ TextInv /\ CallInv /\ ThinkingInv
    BY DEF StreamInv
  <1>1. TypeInv'
    BY <1>t, ReaderTyped DEF ReaderStep
  <1>2. emitting # <<>> /\ UNCHANGED <<serverVars, broken, session, answer, deltas, outcome>>
    BY DEF Emits
  <1>3. SessionInv'
    BY <1>t, <1>2, SameSession
  <1>4. CASE outcome = "reading"
    <2>1. /\ channel' = Append(channel, Head(emitting)) /\ emitting' = Tail(emitting)
          /\ reader' = reader
      BY <1>4 DEF Emits
    <2>2. channel \in Seq(Events) /\ emitting \in Seq(Events)
      BY <1>t DEF TypeInv
    <2>3. Append(channel, Head(emitting)) \o Tail(emitting) = channel \o emitting
      BY <1>2, <2>2, SendKeeps
    <2>4. Pending' = Pending
      BY <2>1, <2>3 DEF Pending
    <2>5. TextInv' /\ CallInv' /\ ThinkingInv'
      BY <1>t, <1>2, <2>1, <2>4, SameParts
    <2>6. PhaseInv'
      BY <1>t, <1>2, <1>4, <2>1, <2>4 DEF PhaseInv, Lacks
    <2>7. QED
      BY <1>1, <1>3, <2>5, <2>6 DEF StreamInv
  <1>5. CASE outcome # "reading"
    <2>1. reader' = "ended" /\ emitting' = <<>>
      BY <1>5 DEF Emits
    <2>2. outcome = "error"
      BY <1>t, <1>2, <1>5 DEF PhaseInv, TypeInv
    <2>3. outcome' = "error"
      BY <1>2, <2>2
    <2>4. PhaseInv'
      BY <2>1, <2>3 DEF PhaseInv
    <2>5. TextInv' /\ CallInv' /\ ThinkingInv'
      BY <2>3 DEF TextInv, CallInv, ThinkingInv
    <2>6. QED
      BY <1>1, <1>3, <2>4, <2>5 DEF StreamInv
  <1>6. QED
    BY <1>4, <1>5

(* An error on its way keeps the consumer from returning.                   *)
LEMMA ReturnStep ==
    ASSUME StreamInv, Returns
    PROVE  StreamInv' /\ ~broken
  <1>t. TypeInv /\ SessionInv /\ PhaseInv /\ TextInv /\ CallInv /\ ThinkingInv
    BY DEF StreamInv
  <1>1. TypeInv'
    BY <1>t, ConsumerTyped DEF ConsumerStep
  <1>2. /\ outcome = "reading" /\ channel = <<>> /\ reader = "ended" /\ outcome' = "ok"
        /\ UNCHANGED <<serverVars, broken, session, reader, emitting, channel, answer, deltas>>
    BY DEF Returns
  <1>3. SessionInv'
    BY <1>t, <1>2, SameSession
  <1>4. Pending' = Pending
    BY <1>2 DEF Pending
  <1>5. TextInv' /\ CallInv' /\ ThinkingInv'
    BY <1>t, <1>2, <1>4, SameParts
  <1>6. ~broken
    <2>1. Pending = <<>>
      <3>1. emitting = <<>>
        BY <1>t, <1>2 DEF PhaseInv
      <3>2. QED
        BY <1>t, <1>2, <3>1, PendingTyped
    <2>2. Lacks(Pending, "error")
      BY <2>1, LacksNothing
    <2>3. QED
      BY <1>t, <1>2, <2>2 DEF PhaseInv
  <1>7. PhaseInv'
    BY <1>t, <1>2, <1>6 DEF PhaseInv
  <1>8. QED
    BY <1>1, <1>3, <1>5, <1>6, <1>7 DEF StreamInv

LEMMA StreamInit == Init => StreamInv
  <1> SUFFICES ASSUME Init
               PROVE  StreamInv
    OBVIOUS
  <1>1. TypeInv
    BY TypeInit
  <1>2. /\ session.content = <<>> /\ session.thinking = <<>> /\ session.call = NoCall
        /\ sent.text = <<>> /\ sent.thinking = <<>> /\ sent.calls = <<>>
        /\ answer.content = <<>> /\ answer.thinking = <<>> /\ answer.calls = <<>>
        /\ block = "none" /\ reader = "reading" /\ outcome = "reading" /\ ~broken /\ deltas = <<>>
        /\ session = [content |-> <<>>, thinking |-> <<>>, call |-> NoCall]
        /\ ~strayed
    BY DEF Init
  <1>3. Pending = <<>>
    <2>1. channel = <<>> /\ emitting = <<>>
      BY DEF Init
    <2>2. QED
      BY <1>1, <2>1, PendingTyped
  <1>4. SessionInv
    BY <1>2 DEF SessionInv
  <1>5. PhaseInv
    BY <1>2 DEF PhaseInv
  <1>6. Len(<<>>) = 0 /\ Prefix(<<>>, <<>>)
    BY DEF Prefix
  <1>7. TextInv
    <2>1. <<>> \in Pieces /\ <<>> \in Seq(Pieces)
      BY DEF Pieces
    <2>2. Singles(<<>>) = <<>>
      <3>1. Singles(<<>>) \in Seq(Pieces) /\ Len(Singles(<<>>)) = 0
        BY <1>6, <2>1, SinglesTyped
      <3>2. QED
        BY <3>1, EmptySeq
    <2>3. Carries(<<>>, "text", "content", <<>>, 0)
      BY <1>6, <2>1, CarriesNothing
    <2>4. Lacks(<<>>, "content") /\ AllCarry(<<>>, "content", <<>>)
      BY DEF Lacks, AllCarry
    <2>5. QED
      BY <1>2, <1>3, <1>6, <2>2, <2>3, <2>4 DEF TextInv
  <1>8. CallInv
    <2>1. Due = <<>> /\ <<>> \in Seq(Call)
      BY <1>2 DEF Due, ClosedCalls, Flushed
    <2>2. Carries(<<>>, "call", "none", <<>>, 0)
      BY <1>6, <2>1, CarriesNothing
    <2>3. QED
      BY <1>2, <1>3, <1>6, <2>1, <2>2 DEF CallInv
  <1>9. ThinkingInv
    <2>1. LastThought = <<>>
      BY <1>2 DEF LastThought, Thoughts
    <2>2. Lacks(<<>>, "thinking") /\ Lacks(<<>>, "thought")
      BY LacksNothing
    <2>3. QED
      BY <1>2, <1>3, <2>1, <2>2 DEF ThinkingInv, Latest
  <1>10. QED
    BY <1>1, <1>4, <1>5, <1>7, <1>8, <1>9 DEF StreamInv

LEMMA StreamStep ==
    ASSUME StreamInv, [Next]_vars
    PROVE  StreamInv'
  <1>t. TypeInv /\ SessionInv /\ PhaseInv /\ TextInv /\ CallInv /\ ThinkingInv
    BY DEF StreamInv
  <1>1. CASE ServerSends
    BY <1>t, <1>1, ServerTyped, ServerSession, ServerPhase, ServerText, ServerCalls,
       ServerThinking DEF StreamInv
  <1>2. CASE Breaks \/ StreamEnds
    BY <1>2, ReadingEnds
  <1>3. CASE Emits
    BY <1>3, EmitStep
  <1>4. CASE Flush
    BY <1>4, FlushStep
  <1>5. CASE Closes
    BY <1>5, TaskEnds
  <1>6. CASE Consumes
    BY <1>6, ConsumeStep
  <1>7. CASE Returns
    BY <1>7, ReturnStep
  <1>8. CASE UNCHANGED vars
    <2>1. Pending' = Pending
      BY <1>8 DEF vars, Pending
    <2>2. TextInv' /\ CallInv' /\ ThinkingInv'
      BY <1>t, <1>8, <2>1, SameParts DEF vars, serverVars
    <2>3. SessionInv'
      BY <1>t, <1>8, SameSession DEF vars, serverVars
    <2>4. TypeInv'
      BY <1>t, <1>8 DEF vars, TypeInv
    <2>5. PhaseInv'
      BY <1>t, <1>8, <2>1 DEF vars, PhaseInv, Lacks
    <2>6. QED
      BY <2>2, <2>3, <2>4, <2>5 DEF StreamInv
  <1>9. QED
    BY <1>1, <1>2, <1>3, <1>4, <1>5, <1>6, <1>7, <1>8 DEF Next, ReaderStep, ConsumerStep

THEOREM StreamBase == Spec => []StreamInv
  <1>1. Init => StreamInv
    BY StreamInit
  <1>2. StreamInv /\ [Next]_vars => StreamInv'
    BY StreamStep
  <1>3. QED
    BY <1>1, <1>2, PTL DEF Spec

(* When the consumer has returned an answer nothing is on its way.          *)
LEMMA NothingLeft ==
    ASSUME StreamInv, outcome = "ok"
    PROVE  /\ Pending = <<>> /\ reader = "ended" /\ ~broken
           /\ answer.content = session.content /\ deltas = answer.content
           /\ answer.calls = Due /\ answer.thinking = LastThought
  <1>t. TypeInv /\ SessionInv /\ PhaseInv /\ TextInv /\ CallInv /\ ThinkingInv
    BY DEF StreamInv
  <1>1. reader = "ended" /\ channel = <<>> /\ emitting = <<>> /\ outcome # "error" /\ Flushed
    BY <1>t DEF PhaseInv, Flushed
  <1>2. Pending = <<>>
    BY <1>t, <1>1, PendingTyped
  <1>3. ~broken
    <2>1. Lacks(Pending, "error")
      BY <1>2, LacksNothing
    <2>2. QED
      BY <1>t, <1>1, <2>1 DEF PhaseInv
  <1>4. answer.content = session.content /\ deltas = answer.content
    <2>1. /\ Prefix(answer.content, session.content) /\ deltas = answer.content
          /\ Carries(<<>>, "text", "content", Singles(session.content), Len(answer.content))
      BY <1>t, <1>1, <1>2 DEF TextInv
    <2>2. /\ session.content \in Pieces /\ answer.content \in Pieces
      BY <1>t, Shape DEF TypeInv, Answers
    <2>3. /\ Singles(session.content) \in Seq(Pieces)
          /\ Len(Singles(session.content)) = Len(session.content)
      BY <2>2, SinglesTyped
    <2>4. Len(answer.content) = Len(session.content)
      BY <2>1, <2>3, CarriesNothing
    <2>5. answer.content \in Seq(1..MaxPieces) /\ session.content \in Seq(1..MaxPieces)
      BY <2>2 DEF Pieces
    <2>6. QED
      BY <2>1, <2>4, <2>5, PrefixWhole
  <1>5. answer.calls = Due
    <2>1. Prefix(answer.calls, Due) /\ Carries(<<>>, "call", "none", Due, Len(answer.calls))
      BY <1>t, <1>1, <1>2 DEF CallInv
    <2>2. answer.calls \in Seq(Call) /\ Due \in Seq(Call)
      BY <1>t, DueTyped DEF TypeInv, Answers
    <2>3. Len(answer.calls) = Len(Due)
      BY <2>1, <2>2, CarriesNothing
    <2>4. QED
      BY <2>1, <2>2, <2>3, PrefixWhole
  <1>6. answer.thinking = LastThought
    <2>1. Latest(<<>>, answer.thinking, LastThought)
      BY <1>t, <1>1, <1>2 DEF ThinkingInv
    <2>2. \A i \in 1..Len(<<>>) : FALSE
      OBVIOUS
    <2>3. QED
      BY <2>1, <2>2 DEF Latest
  <1>7. QED
    BY <1>1, <1>2, <1>3, <1>4, <1>5, <1>6

(* What the agent takes for the model's answer, and what the user was shown *)
(* of it, is what the server sent (text and thinking), whatever the pace of *)
(* the two tasks and the room in the channel.                               *)
THEOREM AnswerWholeHolds == Spec => []AnswerWhole
  <1>1. StreamInv => AnswerWhole
    <2> SUFFICES ASSUME StreamInv
                 PROVE  AnswerWhole
      OBVIOUS
    <2>1. TypeInv /\ SessionInv
      BY DEF StreamInv
    <2>2. TypeOK
      BY <2>1 DEF TypeInv, TypeOK, Sessions, Answers
    <2>3. ContentWhole
      BY <2>1, NothingLeft DEF ContentWhole, SessionInv
    <2>4. DeltasAgree /\ ThinkingOfLastBlock
      BY NothingLeft DEF DeltasAgree, ThinkingOfLastBlock, LastThought
    <2>5. QED
      BY <2>2, <2>3, <2>4 DEF AnswerWhole
  <1>2. QED
    BY <1>1, StreamBase, PTL

(* The calls the agent executes are calls the server sent, with their       *)
(* arguments: of anthropic every closed one, of openai the last that was    *)
(* read, whose arguments are its own unless some of them strayed.           *)
THEOREM CallsFaithfulHolds == Spec => []CallsFaithful
  <1>1. StreamInv => CallsFaithful
    <2> SUFFICES ASSUME StreamInv
                 PROVE  CallsFaithful
      OBVIOUS
    <2>1. CallsWhole
      BY NothingLeft DEF CallsWhole, Due
    <2>2. LastCallOnly
      <3> SUFFICES ASSUME outcome = "ok", protocol = "openai"
                   PROVE  IF sent.calls = <<>> THEN answer.calls = <<>>
                          ELSE /\ Len(answer.calls) = 1
                               /\ answer.calls[1].id = LastCall.id
                               /\ strayed \/ answer.calls[1] = LastCall
        BY DEF LastCallOnly, LastCall
      <3>1. /\ session.call # NoCall => /\ sent.calls # <<>> /\ session.call.id = LastCall.id
                                        /\ strayed \/ session.call = LastCall
            /\ sent.calls # <<>> => session.call # NoCall
        BY DEF StreamInv, SessionInv
      <3>2. answer.calls = Due /\ Flushed
        BY NothingLeft DEF Flushed
      <3>3. Due = IF session.call # NoCall THEN <<session.call>> ELSE <<>>
        BY <3>2 DEF Due
      <3>4. QED
        BY <3>1, <3>2, <3>3
    <2>3. QED
      BY <2>1, <2>2 DEF CallsFaithful
  <1>2. QED
    BY <1>1, StreamBase, PTL

(* A stream that broke is never taken for a complete answer: its error is   *)
(* on its way until the consumer takes it, and then it returns an error.    *)
THEOREM BrokenIsErrorHolds == Spec => []BrokenIsError
  <1>1. StreamInv => BrokenIsError
    BY NothingLeft DEF BrokenIsError
  <1>2. QED
    BY <1>1, StreamBase, PTL
=============================================================================
