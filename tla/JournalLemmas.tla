---------------------------- MODULE JournalLemmas -----------------------------
(***************************************************************************)
(* How what the runtime reads from a journal changes when a block is        *)
(* appended to it.                                                          *)
(***************************************************************************)
EXTENDS Journal, FiniteSetTheorems, TLAPS

(* A journal is never emptied, and holds nothing but blocks.                *)
LEMMA JournalGrows ==
  ASSUME NEW S, NEW b \in S
  PROVE  /\ <<b>> \in Seq(S) /\ <<b>> # <<>>
         /\ \A j \in Seq(S) : Append(j, b) \in Seq(S) /\ Append(j, b) # <<>>
<1>1. <<b>> \in Seq(S) /\ Len(<<b>>) = 1
  OBVIOUS
<1>2. ASSUME NEW j \in Seq(S)
      PROVE  Append(j, b) \in Seq(S) /\ Len(Append(j, b)) = Len(j) + 1
  OBVIOUS
<1>3. ASSUME NEW j \in Seq(S)
      PROVE  Append(j, b) # <<>>
  <2>1. Len(j) \in Nat
    OBVIOUS
  <2>2. Len(Append(j, b)) # 0
    BY <1>2, <2>1
  <2>3. Len(<<>>) = 0
    OBVIOUS
  <2>4. QED
    BY <2>2, <2>3, Zenon
<1>4. QED
  BY <1>1, <1>2, <1>3

(* The transition count is a number that an append raises by one for a      *)
(* transition and leaves alone for any other block.                         *)
LEMMA UsedAppend ==
  ASSUME NEW S, NEW j \in Seq(S), NEW b
  PROVE  /\ TransitionsUsed(j) \in Nat
         /\ TransitionsUsed(Append(j, b)) =
              IF b.type = "transition" THEN TransitionsUsed(j) + 1
                                       ELSE TransitionsUsed(j)
<1> DEFINE Old == {i \in 1..Len(j) : j[i].type = "transition"}
           New == {i \in 1..Len(Append(j, b)) :
                     Append(j, b)[i].type = "transition"}
<1>1. Len(j) \in Nat
  OBVIOUS
<1>2. IsFiniteSet(1..Len(j))
  BY <1>1, FS_Interval
<1>3. IsFiniteSet(Old)
  BY <1>2, FS_Subset
<1>4. Cardinality(Old) \in Nat
  BY <1>3, FS_CardinalityType
<1>5. /\ Len(Append(j, b)) = Len(j) + 1
      /\ \A i \in 1..Len(j) : Append(j, b)[i] = j[i]
      /\ Append(j, b)[Len(j) + 1] = b
  OBVIOUS
<1>6. New = IF b.type = "transition" THEN Old \cup {Len(j) + 1} ELSE Old
  BY <1>1, <1>5
<1>7. Len(j) + 1 \notin Old
  BY <1>1
<1>8. Cardinality(Old \cup {Len(j) + 1}) = Cardinality(Old) + 1
  BY <1>3, <1>7, FS_AddElement
<1>9. QED
  BY <1>4, <1>6, <1>8 DEF TransitionsUsed

(* A journal that verifies verified before its last block was appended, and *)
(* that block carries the number of its position.                           *)
LEMMA VerifiedAppend ==
  ASSUME NEW S, NEW j \in Seq(S), NEW b, Verified(Append(j, b)), j # <<>>
  PROVE  Verified(j) /\ b.seq = Len(j)
<1>1. Len(j) \in Nat /\ Len(j) > 0
  OBVIOUS
<1>2. /\ Len(Append(j, b)) = Len(j) + 1
      /\ \A i \in 1..Len(j) : Append(j, b)[i] = j[i]
      /\ Append(j, b)[Len(j) + 1] = b
  OBVIOUS
<1>3. \A i \in 1..Len(j) : Linked(j, i)
  BY <1>1, <1>2 DEF Verified, Linked
<1>4. b.seq = Len(j)
  BY <1>1, <1>2 DEF Verified, Linked
<1>5. QED
  BY <1>1, <1>3, <1>4 DEF Verified

(* In a journal that verifies, the number after the last block's is the     *)
(* length of the file.                                                      *)
LEMMA VerifiedNextSeq ==
  ASSUME NEW S, NEW j \in Seq(S), Verified(j)
  PROVE  j[Len(j)].seq + 1 = Len(j)
BY DEF Verified, Linked

=============================================================================
