---------------------------- MODULE StackLemmas ----------------------------
(***************************************************************************)
(* Facts about a call stack that the reentrancy guard keeps at one frame.  *)
(***************************************************************************)
EXTENDS Integers, Sequences, SequenceTheorems, TLAPS

\* A stack that is not empty has one frame.
LEMMA EmptyOrOne ==
    ASSUME NEW S, NEW s \in Seq(S), Len(s) <= 1
    PROVE  s = <<>> \/ (Len(s) = 1 /\ s[1] \in S /\ s # <<>>)
  <1>1. ASSUME s # <<>> PROVE Len(s) = 1
    <2>1. Len(s) \in Nat \ {0}
      BY <1>1, EmptySeq, Zenon
    <2>2. \A n \in Nat \ {0} : n <= 1 => n = 1
      OBVIOUS
    <2> QED
      BY <2>1, <2>2, Zenon
  <1>2. Len(s) = 1 => s[1] \in S
    BY ElementOfSeq
  <1> QED
    BY <1>1, <1>2

\* The first frame pushed is the only one.
LEMMA PushOne ==
    ASSUME NEW S, NEW f \in S
    PROVE  /\ Append(<<>>, f) \in Seq(S)
           /\ Len(Append(<<>>, f)) = 1
           /\ Append(<<>>, f) # <<>>
           /\ Append(<<>>, f)[1] = f
  OBVIOUS

\* Popping the only frame leaves none.
LEMMA PopOne ==
    ASSUME NEW S, NEW s \in Seq(S), Len(s) = 1
    PROVE  SubSeq(s, 1, Len(s) - 1) = <<>>
  OBVIOUS

\* Changing the only frame keeps it the only one.
LEMMA ReplaceOne ==
    ASSUME NEW S, NEW s \in Seq(S), Len(s) = 1, NEW f \in S
    PROVE  /\ [s EXCEPT ![1] = f] \in Seq(S)
           /\ Len([s EXCEPT ![1] = f]) = 1
           /\ [s EXCEPT ![1] = f][1] = f
  <1>1. 1 \in 1..Len(s)
    OBVIOUS
  <1> QED
    BY <1>1, ExceptSeq
=============================================================================
