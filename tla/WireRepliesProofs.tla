--------------------------- MODULE WireRepliesProofs ---------------------------
(***************************************************************************)
(* Lemmas about the order that the protocol gives to the frames of an      *)
(* answer, for the proofs about callers and handlers.                      *)
(***************************************************************************)
EXTENDS WireReplies, TLAPS

\* An answer that has been started and not ended: its header, and chunks.
Open(s) == s # <<>> /\ s[1] = "Start" /\ \A i \in 2..Len(s) : s[i] = "Chunk"

\* What Append does to each element.
LEMMA Appended ==
    ASSUME NEW s \in Seq(Kinds), NEW k \in Kinds
    PROVE  /\ Append(s, k) \in Seq(Kinds)
           /\ Len(Append(s, k)) = Len(s) + 1 /\ Len(s) \in Nat
           /\ \A i \in 1..Len(s) : Append(s, k)[i] = s[i]
           /\ Append(s, k)[Len(s) + 1] = k
  OBVIOUS

\* An answer may begin with a whole response, a header or an error.
LEMMA FirstFrame ==
    ASSUME NEW k \in {"Response", "Start", "Error"}
    PROVE  Conforming(Frames(Append(<<>>, k)))
  <1>1. Append(<<>>, k) = <<k>> /\ Len(<<k>>) = 1 /\ <<k>>[1] = k
    OBVIOUS
  <1> DEFINE f == [i \in 1..1 |-> Good(k)]
  <1>2. Frames(Append(<<>>, k)) = f
    BY <1>1 DEF Frames
  <1>3. f[1].kind = k /\ f[1].ok /\ Len(f) = 1
    BY DEF Good
  <1> QED  BY <1>2, <1>3 DEF Conforming

\* The header opens an answer, and a chunk leaves it open.
LEMMA StaysOpen ==
    /\ Open(Append(<<>>, "Start"))
    /\ \A s \in Seq(Kinds) : Open(s) => Open(Append(s, "Chunk"))
  <1>1. Open(Append(<<>>, "Start"))
    BY DEF Open
  <1>2. ASSUME NEW s \in Seq(Kinds), Open(s) PROVE Open(Append(s, "Chunk"))
    <2>1. "Chunk" \in Kinds
      BY DEF Kinds
    <2> QED  BY <1>2, <2>1, Appended DEF Open
  <1> QED  BY <1>1, <1>2

\* An open answer may go on with a chunk, an end or an error.
LEMMA NextFrame ==
    ASSUME NEW s \in Seq(Kinds), Open(s), NEW k \in {"Chunk", "End", "Error"}
    PROVE  Conforming(Frames(Append(s, k)))
  <1> DEFINE a == Append(s, k)
             n == Len(s)
  <1>1. /\ a \in Seq(Kinds) /\ Len(a) = n + 1 /\ n \in Nat /\ n > 0
        /\ \A i \in 1..n : a[i] = s[i]
        /\ a[n + 1] = k
    <2>1. k \in Kinds
      BY DEF Kinds
    <2>2. n \in Nat /\ n > 0
      BY DEF Open
    <2> QED  BY <2>1, <2>2, Appended
  <1>2. /\ a[1] = "Start"
        /\ \A i \in 2..(n + 1) : a[i] \in {"Chunk", "End", "Error"}
        /\ \A i \in 2..(n + 1) : a[i - 1] \in {"Start", "Chunk"}
    BY <1>1 DEF Open
  <1> HIDE DEF a, n
  <1> DEFINE f == Frames(a)
  <1>3. /\ Len(f) = n + 1 /\ f # <<>>
        /\ \A i \in 1..(n + 1) : f[i].ok /\ f[i].kind = a[i]
    <2>1. f = [i \in 1..(n + 1) |-> Good(a[i])]
      BY <1>1 DEF Frames
    <2>2. \A i \in 1..(n + 1) : f[i].ok /\ f[i].kind = a[i]
      BY <2>1 DEF Good
    <2>3. n + 1 \in Nat /\ n + 1 # 0
      BY <1>1
    <2>4. Len(f) = n + 1
      BY <2>1, <2>3
    <2>5. f # <<>>
      BY <2>3, <2>4
    <2> QED  BY <2>2, <2>4, <2>5
  <1>4. \A i \in 2..(n + 1) : i \in 1..(n + 1) /\ i - 1 \in 1..(n + 1)
    BY <1>1
  <1>5. 1 \in 1..(n + 1)
    BY <1>1
  <1> HIDE DEF f
  <1>6. Conforming(f)
    BY <1>2, <1>3, <1>4, <1>5 DEF Conforming, Terminal
  <1> QED  BY <1>6 DEF f, a

\* A frame that is no End leaves an answer without one.
LEMMA NoEndYet ==
    ASSUME NEW s \in Seq(Kinds), NEW k \in Kinds, k # "End", \A i \in 1..Len(s) : s[i] # "End"
    PROVE  \A i \in 1..Len(Append(s, k)) : Append(s, k)[i] # "End"
  <1> DEFINE a == Append(s, k)
  <1>1. /\ Len(a) = Len(s) + 1 /\ Len(s) \in Nat
        /\ \A i \in 1..Len(s) : a[i] = s[i]
        /\ a[Len(s) + 1] = k
    BY Appended
  <1> HIDE DEF a
  <1>2. \A i \in 1..Len(a) : a[i] # "End"
    BY <1>1
  <1> QED  BY <1>2 DEF a

\* A header, unless it got lost, and n chunks.
Carries(s, n) ==
    \E h \in 0..1 : Len(s) = h + n /\ \A i \in 1..n : s[h + i] = "Chunk"

\* One chunk more, and one frame more.
LEMMA CarriesMore ==
    ASSUME NEW s \in Seq(Kinds), NEW n \in Nat, Carries(s, n)
    PROVE  /\ Carries(Append(s, "Chunk"), n + 1)
           /\ \A k \in Kinds : CarriesAll(Append(s, k), n)
  <1>1. PICK h \in 0..1 : Len(s) = h + n /\ \A i \in 1..n : s[h + i] = "Chunk"
    BY DEF Carries
  <1>2. ASSUME NEW k \in Kinds
        PROVE  /\ Len(Append(s, k)) = h + n + 1
               /\ \A i \in 1..n : Append(s, k)[h + i] = "Chunk"
               /\ Append(s, k)[h + (n + 1)] = k
    <2>1. /\ Len(Append(s, k)) = Len(s) + 1 /\ Append(s, k)[Len(s) + 1] = k
          /\ \A i \in 1..Len(s) : Append(s, k)[i] = s[i]
      BY Appended
    <2>2. \A i \in 1..n : h + i \in 1..Len(s)
      BY <1>1
    <2>3. Len(s) + 1 = h + n + 1 /\ Len(s) + 1 = h + (n + 1)
      BY <1>1
    <2> QED  BY <1>1, <2>1, <2>2, <2>3
  <1>3. \A k \in Kinds : CarriesAll(Append(s, k), n)
    BY <1>2 DEF CarriesAll
  <1>4. Carries(Append(s, "Chunk"), n + 1)
    <2>1. "Chunk" \in Kinds
      BY DEF Kinds
    <2>2. Len(Append(s, "Chunk")) = h + (n + 1)
      BY <1>2, <2>1
    <2>3. \A i \in 1..(n + 1) : Append(s, "Chunk")[h + i] = "Chunk"
      <3>1. \A i \in 1..(n + 1) : i \in 1..n \/ i = n + 1
        OBVIOUS
      <3> QED  BY <1>2, <2>1, <3>1
    <2> QED  BY <2>2, <2>3 DEF Carries
  <1> QED  BY <1>3, <1>4

===============================================================================
