------------------------------ MODULE DeskProofs ------------------------------
(***************************************************************************)
(* What writes that are cut short, or that rest on a journal that is no     *)
(* longer what it was, can never do to a session, and what the menu never   *)
(* does wrong, for any number of sessions, processes, blocks, workflow      *)
(* directories and menus; and that the files implement SessionStore.        *)
(*                                                                         *)
(* The argument about the files: a write changes no line that has an end,   *)
(* and spoils a line that has none.  So the first line that load_journal    *)
(* refuses stays where it is, and what comes before it stays too; and a     *)
(* journal that was accepted is either one block longer afterwards, a block *)
(* with the right number and hash, or refused.  About what processes have   *)
(* in hand: as long as the journal is accepted, nobody's number is ahead of *)
(* it, so whoever finds the number still free finds the state unchanged.    *)
(* About the menu: while it waits for a choice, sessions and directories    *)
(* are only added and a refused journal stays refused, so what its lists    *)
(* said stays true.                                                         *)
(***************************************************************************)
EXTENDS DeskProperties, JournalLemmas

(* A file whose lines are any of S.                                         *)
FilesOf(S) ==
  [exists : BOOLEAN, lines : Seq(S), ended : BOOLEAN, utf8 : BOOLEAN]

-----------------------------------------------------------------------------

(* Put adds a line, or spoils the line that has no end; either way what it  *)
(* wrote, or the line it spoiled, is the last one.                          *)
LEMMA PutLine ==
  ASSUME NEW S, NEW f \in FilesOf(S), NEW line \in S, NEW ended \in BOOLEAN,
         Garbled \in S, f.ended \/ f.lines # <<>>
  PROVE  LET g == Put(f, line, ended)
         IN  /\ g \in FilesOf(S)
             /\ g.exists /\ g.utf8 = f.utf8 /\ g.ended = ended
             /\ g.lines # <<>>
             /\ \/ f.ended /\ g.lines = Append(f.lines, line)
                \/ ~f.ended /\ g.lines[Len(g.lines)] = Garbled
<1> DEFINE g == Put(f, line, ended)
<1>1. f.lines \in Seq(S) /\ Len(f.lines) \in Nat
  BY DEF FilesOf
<1>2. CASE f.ended
  <2>1. g.lines = Append(f.lines, line)
    BY <1>2 DEF Put, FilesOf
  <2>2. Append(f.lines, line) \in Seq(S) /\ Append(f.lines, line) # <<>>
    BY <1>1, JournalGrows
  <2>3. QED
    BY <1>2, <2>1, <2>2 DEF Put, FilesOf
<1>3. CASE ~f.ended
  <2>1. g.lines = [f.lines EXCEPT ![Len(f.lines)] = Garbled]
    BY <1>3 DEF Put, FilesOf
  <2>2. Len(f.lines) > 0
    BY <1>1, <1>3
  <2>3. /\ g.lines \in Seq(S)
        /\ Len(g.lines) = Len(f.lines)
        /\ g.lines[Len(f.lines)] = Garbled
    BY <1>1, <2>1, <2>2
  <2>4. g.lines # <<>>
    BY <2>2, <2>3
  <2>5. QED
    BY <1>3, <2>3, <2>4 DEF Put, FilesOf
<1>4. QED
  BY <1>2, <1>3 DEF FilesOf

(* What one write leaves: the lines there were and the block's; or the      *)
(* lines there were, if it wrote nothing; or a last line that is no JSON.   *)
LEMMA WriteLine ==
  ASSUME NEW S, NEW f \in FilesOf(S), NEW b, NEW text, NEW cut \in WriteCuts,
         <<b>> \in S, Garbled \in S, f.ended \/ f.lines # <<>>
  PROVE  LET g == WriteBlock(f, b, text, cut)
         IN  /\ g \in FilesOf(S)
             /\ g.exists
             /\ \/ cut = "nothing" /\ g.lines = f.lines /\ g.utf8 = f.utf8
                \/ g.lines = Append(f.lines, <<b>>) /\ g.utf8 = f.utf8
                \/ g.lines # <<>> /\ g.lines[Len(g.lines)] = Garbled
<1> DEFINE g == WriteBlock(f, b, text, cut)
<1>1. ASSUME NEW h \in FilesOf(S), NEW ended \in BOOLEAN,
             h.ended \/ h.lines # <<>>
      PROVE  LET p == Put(h, Garbled, ended)
             IN  /\ p \in FilesOf(S) /\ p.exists
                 /\ p.lines # <<>> /\ p.lines[Len(p.lines)] = Garbled
  <2>1. h.lines \in Seq(S)
    BY DEF FilesOf
  <2>2. Append(h.lines, Garbled)[Len(Append(h.lines, Garbled))] = Garbled
    BY <2>1
  <2>3. QED
    BY <1>1, <2>2, PutLine
<1>2. ASSUME NEW ended \in BOOLEAN
      PROVE  LET p == PutBlock(f, b, text, ended)
             IN  /\ p \in FilesOf(S)
                 /\ p.exists
                 /\ \/ p.lines = Append(f.lines, <<b>>) /\ p.utf8 = f.utf8
                    \/ p.lines # <<>> /\ p.lines[Len(p.lines)] = Garbled
  <2>1. CASE text = "separator"
    <3> DEFINE q == Put(f, Garbled, TRUE)
    <3>1. q \in FilesOf(S) /\ q.lines # <<>>
      BY <1>1, TRUE \in BOOLEAN, Zenon
    <3>2. LET p == Put(q, Garbled, ended)
          IN  /\ p \in FilesOf(S) /\ p.exists
              /\ p.lines # <<>> /\ p.lines[Len(p.lines)] = Garbled
      BY <3>1, <1>1
    <3>3. PutBlock(f, b, text, ended) = Put(q, Garbled, ended)
      BY <2>1 DEF PutBlock
    <3>4. QED
      BY <3>2, <3>3
  <2>2. CASE text # "separator"
    <3>1. PutBlock(f, b, text, ended) = Put(f, <<b>>, ended)
      BY <2>2 DEF PutBlock
    <3>2. QED
      BY <3>1, PutLine
  <2>3. QED
    BY <2>1, <2>2
<1>3. CASE cut = "complete"
  BY <1>2, <1>3 DEF WriteBlock
<1>4. CASE cut = "no_newline"
  BY <1>2, <1>4 DEF WriteBlock
<1>5. CASE cut = "torn"
  <2>1. g = Put(f, Garbled, FALSE)
    BY <1>5 DEF WriteBlock
  <2>2. /\ g \in FilesOf(S) /\ g.exists
        /\ g.lines # <<>> /\ g.lines[Len(g.lines)] = Garbled
    BY <1>1, <2>1, FALSE \in BOOLEAN, Zenon
  <2>3. QED
    BY <2>2
<1>6. CASE cut = "in_character"
  <2> DEFINE p == Put(f, Garbled, FALSE)
  <2>1. g = [p EXCEPT !.utf8 = FALSE]
    BY <1>6 DEF WriteBlock
  <2>2. /\ p \in FilesOf(S) /\ p.exists
        /\ p.lines # <<>> /\ p.lines[Len(p.lines)] = Garbled
    BY <1>1, FALSE \in BOOLEAN, Zenon
  <2>3. g \in FilesOf(S) /\ g.exists /\ g.lines = p.lines
    BY <2>1, <2>2 DEF FilesOf
  <2>4. QED
    BY <2>2, <2>3
<1>7. CASE cut = "nothing"
  BY <1>7 DEF WriteBlock, FilesOf
<1>8. QED
  BY <1>3, <1>4, <1>5, <1>6, <1>7 DEF WriteCuts

(* What a write leaves alone: every line that has an end.                   *)
Settled(f) == IF f.ended THEN Len(f.lines) ELSE Len(f.lines) - 1

(* Whatever is put on a file, its settled lines stay where they are.        *)
LEMMA PutSettled ==
  ASSUME NEW S, NEW f \in FilesOf(S), NEW line, NEW ended \in BOOLEAN,
         f.ended \/ f.lines # <<>>
  PROVE  LET g == Put(f, line, ended)
         IN  /\ Len(g.lines) >= Settled(f)
             /\ \A i \in 1..Settled(f) : g.lines[i] = f.lines[i]
             /\ g.ended = ended
<1> DEFINE g == Put(f, line, ended)
<1>1. f.lines \in Seq(S) /\ Len(f.lines) \in Nat /\ f.ended \in BOOLEAN
  BY DEF FilesOf
<1>2. g.ended = ended
  BY DEF Put, FilesOf
<1>3. CASE f.ended
  <2>1. g.lines = Append(f.lines, line)
    BY <1>3 DEF Put, FilesOf
  <2>2. /\ Len(g.lines) = Len(f.lines) + 1
        /\ \A i \in 1..Len(f.lines) : g.lines[i] = f.lines[i]
    BY <1>1, <2>1
  <2>3. QED
    BY <1>1, <1>2, <1>3, <2>2 DEF Settled
<1>4. CASE ~f.ended
  <2>1. g.lines = [f.lines EXCEPT ![Len(f.lines)] = Garbled]
    BY <1>4 DEF Put, FilesOf
  <2>2. /\ Len(g.lines) = Len(f.lines)
        /\ \A i \in 1..Len(f.lines) - 1 : g.lines[i] = f.lines[i]
    BY <1>1, <2>1
  <2>3. QED
    BY <1>1, <1>2, <1>4, <2>2 DEF Settled
<1>5. QED
  BY <1>3, <1>4

(* So does a whole write, which ends its line when it is complete.          *)
LEMMA WriteSettled ==
  ASSUME NEW S, NEW f \in FilesOf(S), NEW b, NEW text, NEW cut \in WriteCuts,
         f.ended \/ f.lines # <<>>
  PROVE  LET g == WriteBlock(f, b, text, cut)
         IN  /\ Len(g.lines) >= Settled(f)
             /\ \A i \in 1..Settled(f) : g.lines[i] = f.lines[i]
             /\ cut = "complete" => g.ended
             /\ cut = "nothing" => g.ended = f.ended
<1> DEFINE g == WriteBlock(f, b, text, cut)
<1>1. f.lines \in Seq(S) /\ Len(f.lines) \in Nat /\ f.ended \in BOOLEAN
  BY DEF FilesOf
<1>2. ASSUME NEW ended \in BOOLEAN
      PROVE  LET p == PutBlock(f, b, text, ended)
             IN  /\ Len(p.lines) >= Settled(f)
                 /\ \A i \in 1..Settled(f) : p.lines[i] = f.lines[i]
                 /\ p.ended = ended
  <2>1. CASE text = "separator"
    <3> DEFINE R == S \cup {Garbled}
               q == Put(f, Garbled, TRUE)
               p == Put(q, Garbled, ended)
    <3>1. f \in FilesOf(R)
      BY <1>1 DEF FilesOf
    <3>2. Garbled \in R /\ TRUE \in BOOLEAN
      OBVIOUS
    <3> HIDE DEF R
    <3>3. q \in FilesOf(R) /\ q.ended
      BY <3>1, <3>2, PutLine
    <3>4. /\ Len(q.lines) >= Settled(f)
          /\ \A i \in 1..Settled(f) : q.lines[i] = f.lines[i]
      BY <3>2, PutSettled
    <3> HIDE DEF q
    <3>5. /\ Len(p.lines) >= Settled(q)
          /\ \A i \in 1..Settled(q) : p.lines[i] = q.lines[i]
          /\ p.ended = ended
      BY <3>3, PutSettled
    <3>6. Settled(q) = Len(q.lines) /\ Len(q.lines) \in Nat
      BY <3>3 DEF Settled, FilesOf
    <3>7. PutBlock(f, b, text, ended) = p
      BY <2>1 DEF PutBlock, q
    <3> HIDE DEF p
    <3>8. Len(p.lines) >= Settled(f)
      <4>1. p.lines \in Seq(R)
        BY <3>3, <3>2, PutLine DEF p, FilesOf
      <4>2. Len(p.lines) \in Nat /\ Settled(f) \in Int
        BY <1>1, <4>1 DEF Settled
      <4>3. QED
        BY <3>4, <3>5, <3>6, <4>2
    <3>9. \A i \in 1..Settled(f) : p.lines[i] = f.lines[i]
      BY <1>1, <3>4, <3>5, <3>6 DEF Settled
    <3>10. QED
      BY <3>5, <3>7, <3>8, <3>9
  <2>2. CASE text # "separator"
    <3>1. PutBlock(f, b, text, ended) = Put(f, <<b>>, ended)
      BY <2>2 DEF PutBlock
    <3>2. QED
      BY <3>1, PutSettled
  <2>3. QED
    BY <2>1, <2>2
<1> DEFINE torn == Put(f, Garbled, FALSE)
<1>9. /\ Len(torn.lines) >= Settled(f)
      /\ \A i \in 1..Settled(f) : torn.lines[i] = f.lines[i]
  BY FALSE \in BOOLEAN, PutSettled, Zenon
<1> HIDE DEF torn
<1>3. CASE cut = "complete"
  <2>1. g = PutBlock(f, b, text, TRUE)
    BY <1>3 DEF WriteBlock
  <2>2. QED
    BY <1>2, <1>3, <2>1
<1>4. CASE cut = "no_newline"
  <2>1. g = PutBlock(f, b, text, FALSE)
    BY <1>4 DEF WriteBlock
  <2>2. QED
    BY <1>2, <1>4, <2>1
<1>5. CASE cut = "torn"
  <2>1. g = torn
    BY <1>5 DEF WriteBlock, torn
  <2>2. QED
    BY <1>5, <1>9, <2>1
<1>6. CASE cut = "in_character"
  <2>1. g = [torn EXCEPT !.utf8 = FALSE]
    BY <1>6 DEF WriteBlock, torn
  <2>2. g.lines = torn.lines
    BY <2>1 DEF torn, Put, FilesOf
  <2>3. QED
    BY <1>6, <1>9, <2>2
<1>7. CASE cut = "nothing"
  <2>1. g.lines = f.lines /\ g.ended = f.ended
    BY <1>7 DEF WriteBlock, FilesOf
  <2>2. QED
    BY <1>1, <1>7, <2>1 DEF Settled
<1>8. QED
  BY <1>3, <1>4, <1>5, <1>6, <1>7 DEF WriteCuts

(* A line spoiled or put after the settled ones is the first of them to be  *)
(* found.                                                                   *)
LEMMA PutSpoils ==
  ASSUME NEW S, NEW f \in FilesOf(S), NEW line, NEW ended \in BOOLEAN,
         f.ended \/ f.lines # <<>>, ~f.ended \/ line = Garbled
  PROVE  LET g == Put(f, line, ended)
         IN  Len(g.lines) > Settled(f) /\ g.lines[Settled(f) + 1] = Garbled
<1> DEFINE g == Put(f, line, ended)
<1>1. f.lines \in Seq(S) /\ Len(f.lines) \in Nat /\ f.ended \in BOOLEAN
  BY DEF FilesOf
<1>2. CASE f.ended
  <2>1. g.lines = Append(f.lines, line)
    BY <1>2 DEF Put, FilesOf
  <2>2. Len(g.lines) = Len(f.lines) + 1 /\ g.lines[Len(f.lines) + 1] = line
    BY <1>1, <2>1
  <2>3. QED
    BY <1>1, <1>2, <2>2 DEF Settled
<1>3. CASE ~f.ended
  <2>1. g.lines = [f.lines EXCEPT ![Len(f.lines)] = Garbled]
    BY <1>3 DEF Put, FilesOf
  <2>2. Len(f.lines) > 0
    BY <1>1, <1>3
  <2>3. Len(g.lines) = Len(f.lines) /\ g.lines[Len(f.lines)] = Garbled
    BY <1>1, <2>1, <2>2
  <2>4. Settled(f) = Len(f.lines) - 1
    BY <1>3 DEF Settled
  <2>5. Settled(f) + 1 = Len(f.lines) /\ Len(f.lines) > Settled(f)
    BY <1>1, <2>4
  <2>6. Len(g.lines) > Settled(f) /\ g.lines[Settled(f) + 1] = Garbled
    BY <2>3, <2>5, Zenon
  <2>7. QED
    BY <2>6
<1>4. QED
  BY <1>2, <1>3

(* A write that does not add its line leaves one that is no JSON right      *)
(* after the settled ones.                                                  *)
LEMMA WriteSpoils ==
  ASSUME NEW S, NEW f \in FilesOf(S), NEW b, NEW text, NEW cut \in WriteCuts,
         f.ended \/ f.lines # <<>>
  PROVE  LET g == WriteBlock(f, b, text, cut)
         IN  \/ cut = "nothing" /\ g.lines = f.lines /\ g.utf8 = f.utf8
             \/ f.ended /\ g.lines = Append(f.lines, <<b>>) /\ g.utf8 = f.utf8
             \/ Len(g.lines) > Settled(f) /\ g.lines[Settled(f) + 1] = Garbled
<1> DEFINE g == WriteBlock(f, b, text, cut)
           torn == Put(f, Garbled, FALSE)
           Spoiled(p) == Len(p.lines) > Settled(f) /\ p.lines[Settled(f) + 1] = Garbled
<1>1. ASSUME NEW ended \in BOOLEAN
      PROVE  LET p == PutBlock(f, b, text, ended)
             IN  \/ f.ended /\ p.lines = Append(f.lines, <<b>>) /\ p.utf8 = f.utf8
                 \/ Spoiled(p)
  <2>1. CASE text = "separator"
    <3> DEFINE R == S \cup {Garbled}
               q == Put(f, Garbled, TRUE)
               p == Put(q, Garbled, ended)
    <3>1. f \in FilesOf(R) /\ Garbled \in R
      BY DEF FilesOf
    <3> HIDE DEF R
    <3>2. q \in FilesOf(R) /\ q.ended /\ q.lines \in Seq(R)
      <4>1. q \in FilesOf(R) /\ q.ended = TRUE
        BY <3>1, TRUE \in BOOLEAN, PutLine, Zenon
      <4>2. QED
        BY <4>1 DEF FilesOf
    <3>3. Spoiled(q)
      BY TRUE \in BOOLEAN, PutSpoils, Zenon
    <3> HIDE DEF q
    <3>4. p.lines = Append(q.lines, Garbled)
      BY <3>2 DEF Put, FilesOf
    <3>5. Settled(f) + 1 \in 1..Len(q.lines)
      <4>1. Settled(f) \in Nat
        BY DEF Settled, FilesOf
      <4>2. QED
        BY <3>2, <3>3, <4>1
    <3>7. PutBlock(f, b, text, ended) = p
      BY <2>1 DEF PutBlock, q
    <3> HIDE DEF p
    <3>6. Spoiled(p)
      <4> DEFINE k == Settled(f) + 1
      <4>1. k \in 1..Len(q.lines) /\ q.lines[k] = Garbled
        BY <3>3, <3>5
      <4>2. Settled(f) \in Nat
        BY DEF Settled, FilesOf
      <4>3. Len(p.lines) = Len(q.lines) + 1 /\ Len(q.lines) \in Nat
        BY <3>2, <3>4
      <4>4. p.lines[k] = q.lines[k]
        BY <3>2, <3>4, <4>1
      <4>5. Len(p.lines) > Settled(f)
        BY <3>3, <4>2, <4>3
      <4>6. QED
        BY <4>1, <4>4, <4>5
    <3>8. QED
      BY <3>6, <3>7
  <2>2. CASE text # "separator"
    <3>1. PutBlock(f, b, text, ended) = Put(f, <<b>>, ended)
      BY <2>2 DEF PutBlock
    <3>2. CASE f.ended
      BY <3>1, <3>2 DEF Put, FilesOf
    <3>3. CASE ~f.ended
      BY <3>1, <3>3, PutSpoils
    <3>4. QED
      BY <3>2, <3>3
  <2>3. QED
    BY <2>1, <2>2
<1>2. Spoiled(torn)
  BY FALSE \in BOOLEAN, PutSpoils, Zenon
<1>3. CASE cut = "complete"
  <2>1. g = PutBlock(f, b, text, TRUE)
    BY <1>3 DEF WriteBlock
  <2>2. QED
    BY <1>1, <2>1
<1>4. CASE cut = "no_newline"
  <2>1. g = PutBlock(f, b, text, FALSE)
    BY <1>4 DEF WriteBlock
  <2>2. QED
    BY <1>1, <2>1
<1>5. CASE cut = "torn"
  BY <1>2, <1>5 DEF WriteBlock
<1>6. CASE cut = "in_character"
  <2>1. g = [torn EXCEPT !.utf8 = FALSE]
    BY <1>6 DEF WriteBlock
  <2>2. g.lines = torn.lines
    BY <2>1 DEF Put, FilesOf
  <2>3. QED
    BY <1>2, <2>2
<1>7. CASE cut = "nothing"
  BY <1>7 DEF WriteBlock, FilesOf
<1>8. QED
  BY <1>3, <1>4, <1>5, <1>6, <1>7 DEF WriteCuts

(* The blocks of the first n lines are n blocks.                            *)
LEMMA BlocksOfLines ==
  ASSUME NEW f, NEW n \in Nat
  PROVE  /\ Len(Blocks(f, n)) = n
         /\ \A i \in 1..n : Blocks(f, n)[i] = f.lines[i][1]
<1> DEFINE T == {f.lines[i][1] : i \in 1..n}
<1>1. Blocks(f, n) \in [1..n -> T]
  BY DEF Blocks
<1>2. Len(Blocks(f, n)) = n
  BY <1>1
<1>3. QED
  BY <1>2 DEF Blocks

(* The blocks of the first lines are a sequence, and two files with the     *)
(* same lines have the same.                                                *)
LEMMA BlocksSeq ==
  ASSUME NEW f, NEW n \in Nat
  PROVE  /\ \E T : Blocks(f, n) \in Seq(T)
         /\ SubSeq(Blocks(f, n), 1, n) = Blocks(f, n)
<1> DEFINE T == {f.lines[i][1] : i \in 1..n}
           j == Blocks(f, n)
<1>1. j \in [1..n -> T]
  BY DEF Blocks
<1> HIDE DEF j, T
<1>2. j \in Seq(T) /\ Len(j) = n
  BY <1>1
<1>3. SubSeq(j, 1, n) = j
  BY <1>2
<1>4. QED
  BY <1>2, <1>3 DEF j

(* The blocks of one line more are those of the lines and one block more.   *)
LEMMA BlocksAppend ==
  ASSUME NEW S, NEW f \in FilesOf(S), NEW b, NEW g, g.lines = Append(f.lines, <<b>>)
  PROVE  Blocks(g, Len(f.lines) + 1) = Append(Blocks(f, Len(f.lines)), b)
<1> DEFINE n == Len(f.lines)
           j == Blocks(f, n)
           k == Blocks(g, n + 1)
<1>1. f.lines \in Seq(S) /\ n \in Nat
  BY DEF FilesOf
<1>2. Len(j) = n /\ \A i \in 1..n : j[i] = f.lines[i][1]
  BY <1>1, BlocksOfLines
<1>3. Len(k) = n + 1 /\ \A i \in 1..n + 1 : k[i] = g.lines[i][1]
  BY <1>1, BlocksOfLines
<1>4. PICK T : j \in Seq(T)
  BY <1>1, BlocksSeq
<1>5. PICK R : k \in Seq(R)
  BY <1>1, BlocksSeq
<1>6. /\ \A i \in 1..n : g.lines[i] = f.lines[i]
      /\ g.lines[n + 1] = <<b>>
  BY <1>1
<1>7. \A i \in 1..n : k[i] = j[i]
  BY <1>1, <1>2, <1>3, <1>6
<1>8. k[n + 1] = b
  BY <1>1, <1>3, <1>6
<1> HIDE DEF j, k, n
<1>9. /\ Len(Append(j, b)) = n + 1
      /\ \A i \in 1..n : Append(j, b)[i] = j[i]
      /\ Append(j, b)[n + 1] = b
  BY <1>2, <1>4
<1>10. k = Append(j, b)
  <2>1. k \in Seq(R \cup T \cup {b}) /\ Append(j, b) \in Seq(R \cup T \cup {b})
    BY <1>4, <1>5
  <2>2. \A i \in 1..n + 1 : k[i] = Append(j, b)[i]
    BY <1>1, <1>7, <1>8, <1>9
  <2>3. QED
    BY <1>3, <1>9, <2>1, <2>2
<1>11. QED
  BY <1>10 DEF j, k, n

-----------------------------------------------------------------------------
(* Line i of a file is one that load_journal accepts.                       *)
Fits(f, i) == Parses(f, i) /\ f.lines[i][1].prev = i - 1 /\ f.lines[i][1].seq = i - 1

(* A set of positions with every position before each of its own is the     *)
(* first so many.                                                           *)
LEMMA FirstPositions ==
  ASSUME NEW n \in Nat, NEW F \in SUBSET (1..n), \A i \in F : 1..i \subseteq F
  PROVE  Cardinality(F) \in 0..n /\ F = 1..Cardinality(F)
<1> DEFINE c == Cardinality(F)
<1>1. \A k \in Nat : IsFiniteSet(1..k) /\ Cardinality(1..k) = k
  BY FS_Interval
<1>2. IsFiniteSet(F) /\ c <= n
  <2>1. IsFiniteSet(1..n) /\ Cardinality(1..n) = n
    BY <1>1
  <2>2. F \subseteq 1..n
    OBVIOUS
  <2>3. IsFiniteSet(F) /\ Cardinality(F) <= Cardinality(1..n)
    BY <2>1, <2>2, FS_Subset
  <2>4. QED
    BY <2>1, <2>3
<1>3. c \in Nat
  BY <1>2, FS_CardinalityType
<1>4. ASSUME NEW i \in F
      PROVE  i \in 1..c
  <2>1. i \in Nat /\ 1 <= i
    OBVIOUS
  <2>2. Cardinality(1..i) <= c
    BY <1>2, <1>4, FS_Subset
  <2>3. i <= c
    BY <1>1, <2>1, <2>2
  <2> HIDE DEF c
  <2>4. QED
    BY <1>3, <2>1, <2>3
<1>5. F \subseteq 1..c
  BY <1>4
<1>6. F = 1..c
  <2>1. IsFiniteSet(1..c) /\ Cardinality(1..c) = c
    BY <1>1, <1>3
  <2>2. QED
    BY <1>5, <2>1, FS_Subset
<1>7. QED
  BY <1>2, <1>3, <1>6

(* load_journal accepts a file exactly when it accepts each of its lines.   *)
LEMMA LoadsByLine ==
  ASSUME NEW S, NEW f \in FilesOf(S)
  PROVE  Loads(f) <=> /\ f.exists /\ f.utf8 /\ Len(f.lines) > 0
                      /\ \A i \in 1..Len(f.lines) : Fits(f, i)
<1> DEFINE n == Len(f.lines)
<1>1. n \in Nat
  BY DEF FilesOf
<1>2. Len(Blocks(f, n)) = n /\ \A i \in 1..n : Blocks(f, n)[i] = f.lines[i][1]
  BY <1>1, BlocksOfLines
<1>3. QED
  BY <1>1, <1>2 DEF Loads, Verified, Linked, Fits

(* Somewhere there is a first line that is refused, or there is none.       *)
LEMMA FirstRefused ==
  ASSUME NEW S, NEW f \in FilesOf(S)
  PROVE  \E m \in 0..Len(f.lines) :
           /\ \A i \in 1..m : Fits(f, i)
           /\ m = Len(f.lines) \/ ~Fits(f, m + 1)
<1> DEFINE n == Len(f.lines)
           F == {i \in 1..n : \A k \in 1..i : Fits(f, k)}
           m == Cardinality(F)
<1>1. n \in Nat
  BY DEF FilesOf
<1>2. F \in SUBSET (1..n) /\ \A i \in F : 1..i \subseteq F
  BY <1>1
<1> HIDE DEF F, n
<1>3. m \in 0..n /\ F = 1..m
  BY <1>1, <1>2, FirstPositions
<1> HIDE DEF m
<1>4. \A i \in 1..m : Fits(f, i)
  BY <1>1, <1>3 DEF F
<1>5. ASSUME m # n
      PROVE  ~Fits(f, m + 1)
  <2>1. m + 1 \in 1..n /\ m + 1 \notin F
    BY <1>1, <1>3, <1>5
  <2>2. QED
    BY <1>1, <1>3, <1>4, <2>1 DEF F
<1>6. QED
  BY <1>3, <1>4, <1>5 DEF n

(* What load_journal accepts are the blocks of the lines before the first   *)
(* that it refuses.                                                         *)
LEMMA IntactIs ==
  ASSUME NEW S, NEW f \in FilesOf(S), NEW m \in 0..Len(f.lines),
         \A i \in 1..m : Fits(f, i),
         m = Len(f.lines) \/ ~Fits(f, m + 1)
  PROVE  Intact(f) = Blocks(f, m) /\ Len(Intact(f)) = m
<1> DEFINE N == Len(f.lines)
           P == {i \in 1..N : \A k \in 1..i : Parses(f, k)}
           n == Cardinality(P)
           j == Blocks(f, n)
           F == {i \in 1..Len(j) : \A k \in 1..i : Linked(j, k)}
<1>1. N \in Nat
  BY DEF FilesOf
<1>2. P \in SUBSET (1..N) /\ \A i \in P : 1..i \subseteq P
  BY <1>1
<1> HIDE DEF P, N
<1>3. n \in 0..N /\ P = 1..n
  BY <1>1, <1>2, FirstPositions
<1> HIDE DEF n
<1>4. m \in Nat /\ m <= n
  <2>1. m \in Nat /\ m <= N
    BY <1>1 DEF N
  <2>2. \A i \in 1..m : i \in P
    BY <1>1, <2>1 DEF P, Fits
  <2>3. CASE m = 0
    BY <1>1, <1>3, <2>3
  <2>4. CASE m # 0
    BY <1>1, <1>3, <2>1, <2>2, <2>4
  <2>5. QED
    BY <2>3, <2>4
<1>5. Len(j) = n /\ \A i \in 1..n : j[i] = f.lines[i][1]
  BY <1>1, <1>3, BlocksOfLines
<1>6. \A i \in 1..n : Linked(j, i) <=> Fits(f, i)
  <2>1. \A i \in 1..n : Parses(f, i)
    BY <1>3 DEF P
  <2>2. QED
    BY <1>5, <2>1 DEF Linked, Fits
<1>7. F = 1..m
  <2>1. m = n \/ (m + 1 \in 1..n /\ ~Linked(j, m + 1))
    BY <1>1, <1>3, <1>4, <1>6 DEF N
  <2>2. \A i \in 1..m : Linked(j, i)
    BY <1>1, <1>3, <1>4, <1>6
  <2> HIDE DEF j
  <2>3. QED
    BY <1>1, <1>3, <1>4, <1>5, <2>1, <2>2
<1>8. Cardinality(F) = m
  <2>1. Cardinality(1..m) = m
    BY <1>4, FS_Interval
  <2> HIDE DEF F
  <2>2. QED
    BY <1>7, <2>1
<1>9. Intact(f) = SubSeq(j, 1, m)
  BY <1>8 DEF Intact, VerifiedPrefix, n, P, N
<1>10. SubSeq(j, 1, m) = Blocks(f, m)
  <2> DEFINE front == Blocks(f, m)
  <2>1. PICK T : j \in Seq(T)
    BY <1>1, <1>3, BlocksSeq
  <2>2. PICK R : front \in Seq(R)
    BY <1>4, BlocksSeq
  <2>3. Len(front) = m /\ \A i \in 1..m : front[i] = j[i]
    BY <1>1, <1>3, <1>4, <1>5, BlocksOfLines
  <2> HIDE DEF j, front
  <2>4. /\ SubSeq(j, 1, m) \in Seq(T \cup R) /\ Len(SubSeq(j, 1, m)) = m
        /\ \A i \in 1..m : SubSeq(j, 1, m)[i] = j[i]
    BY <1>1, <1>3, <1>4, <1>5, <2>1
  <2>5. front \in Seq(T \cup R)
    BY <2>2
  <2>6. SubSeq(j, 1, m) = front
    BY <1>4, <2>3, <2>4, <2>5
  <2>7. QED
    BY <2>6 DEF front
<1>11. QED
  BY <1>4, <1>9, <1>10, BlocksOfLines

-----------------------------------------------------------------------------
Lines == {Garbled} \cup {<<b>> : b \in StoredBlocks}

(* What is true of a file between two writes, and of the blocks its writers *)
(* were told are in it.                                                     *)
Sound(f, told) ==
  /\ f \in FilesOf(Lines)
  /\ told \subseteq StoredBlocks
  /\ ~f.exists => f = NoFile /\ told = {}
  /\ f.ended \/ f.lines # <<>>
  /\ ~f.utf8 => \E i \in 1..Len(f.lines) : ~Parses(f, i)
  /\ Loads(f) => \A b \in told : \E i \in 1..Settled(f) : f.lines[i] = <<b>>

(* What one write does to the lines: nothing, or the block's line is added, *)
(* or there is one that is no JSON right after the lines that had an end.   *)
LEMMA WriteOnLines ==
  ASSUME NEW f, NEW told, Sound(f, told),
         NEW b \in StoredBlocks, NEW text, NEW cut \in WriteCuts
  PROVE  LET g == WriteBlock(f, b, text, cut)
             n == Len(f.lines)
             m == Settled(f)
         IN  /\ g \in FilesOf(Lines) /\ g.exists
             /\ n \in Nat /\ m \in 0..n /\ (f.ended => m = n) /\ m >= n - 1
             /\ Len(g.lines) \in Nat /\ Len(g.lines) >= n
             /\ \A i \in 1..m : g.lines[i] = f.lines[i]
             /\ cut = "complete" => g.ended /\ Len(g.lines) > 0
             /\ \/ /\ cut = "nothing" /\ g.lines = f.lines
                   /\ g.utf8 = f.utf8 /\ g.ended = f.ended
                \/ f.ended /\ g.lines = Append(f.lines, <<b>>) /\ g.utf8 = f.utf8
                \/ m + 1 \in 1..Len(g.lines) /\ ~Parses(g, m + 1)
<1> DEFINE g == WriteBlock(f, b, text, cut)
           n == Len(f.lines)
           m == Settled(f)
<1>1. f \in FilesOf(Lines) /\ f.lines \in Seq(Lines) /\ n \in Nat
  BY DEF Sound, FilesOf
<1>2. f.ended \/ f.lines # <<>>
  BY DEF Sound
<1>3. <<b>> \in Lines /\ Garbled \in Lines
  BY DEF Lines
<1>4. g \in FilesOf(Lines) /\ g.exists
  BY <1>1, <1>2, <1>3, WriteLine
<1>5. Len(g.lines) \in Nat
  BY <1>4 DEF FilesOf
<1>6. m \in 0..n /\ (f.ended => m = n) /\ m >= n - 1
  <2>1. f.lines # <<>> => n > 0
    BY <1>1
  <2>2. QED
    BY <1>1, <1>2, <2>1 DEF Settled
<1>7. /\ \A i \in 1..m : g.lines[i] = f.lines[i]
      /\ cut = "complete" => g.ended
      /\ cut = "nothing" => g.ended = f.ended
  BY <1>1, <1>2, WriteSettled
<1>8. \/ cut = "nothing" /\ g.lines = f.lines /\ g.utf8 = f.utf8
      \/ f.ended /\ g.lines = Append(f.lines, <<b>>) /\ g.utf8 = f.utf8
      \/ Len(g.lines) > m /\ g.lines[m + 1] = Garbled
  BY <1>1, <1>2, WriteSpoils
<1> HIDE DEF g, m
<1>9. CASE cut = "nothing" /\ g.lines = f.lines /\ g.utf8 = f.utf8
  BY <1>1, <1>4, <1>5, <1>6, <1>7, <1>9 DEF g, m
<1>10. CASE f.ended /\ g.lines = Append(f.lines, <<b>>) /\ g.utf8 = f.utf8
  <2>1. Len(g.lines) = n + 1
    BY <1>1, <1>10
  <2>2. Len(g.lines) >= n /\ Len(g.lines) > 0
    BY <1>1, <2>1
  <2>3. QED
    BY <1>1, <1>4, <1>5, <1>6, <1>7, <1>10, <2>2 DEF g, m
<1>11. CASE Len(g.lines) > m /\ g.lines[m + 1] = Garbled
  <2>1. m + 1 \in 1..Len(g.lines) /\ Len(g.lines) >= n /\ Len(g.lines) > 0
    BY <1>1, <1>5, <1>6, <1>11
  <2>2. ~Parses(g, m + 1)
    BY <1>11 DEF Parses
  <2>3. QED
    BY <1>1, <1>4, <1>5, <1>6, <1>7, <2>1, <2>2 DEF g, m
<1>12. QED
  BY <1>8, <1>9, <1>10, <1>11

(* A file that is accepted, or none, is accepted line by line, and all its  *)
(* blocks are read.                                                         *)
LEMMA AcceptedLines ==
  ASSUME NEW f \in FilesOf(Lines), f = NoFile \/ Loads(f)
  PROVE  LET n == Len(f.lines)
         IN  /\ f.utf8
             /\ \A i \in 1..n : Fits(f, i)
             /\ Intact(f) = Blocks(f, n) /\ Len(Intact(f)) = n
<1> DEFINE n == Len(f.lines)
<1>1. n \in Nat
  BY DEF FilesOf
<1>2. f.utf8 /\ \A i \in 1..n : Fits(f, i)
  <2>1. CASE f = NoFile
    BY <2>1 DEF NoFile
  <2>2. CASE Loads(f)
    BY <2>2, LoadsByLine
  <2>3. QED
    BY <2>1, <2>2
<1>3. n \in 0..Len(f.lines)
  BY <1>1
<1>4. QED
  BY <1>2, <1>3, IntactIs

(* A refused file has a first line that is refused, or no line at all.      *)
LEMMA RefusedLine ==
  ASSUME NEW f, NEW told, Sound(f, told), f.exists, ~Loads(f), f.lines # <<>>
  PROVE  \E m \in Nat : /\ m + 1 \in 1..Len(f.lines)
                        /\ \A i \in 1..m : Fits(f, i)
                        /\ ~Fits(f, m + 1)
<1> DEFINE n == Len(f.lines)
<1>1. f \in FilesOf(Lines) /\ n \in Nat /\ n > 0
  <2>1. f.lines \in Seq(Lines) /\ f \in FilesOf(Lines)
    BY DEF Sound, FilesOf
  <2>2. QED
    BY <2>1
<1>2. PICK m \in 0..n : (\A i \in 1..m : Fits(f, i)) /\ (m = n \/ ~Fits(f, m + 1))
  BY <1>1, FirstRefused
<1>3. m # n
  <2>1. SUFFICES ASSUME m = n
                 PROVE  FALSE
    OBVIOUS
  <2>2. f.utf8
    BY <1>2, <2>1 DEF Sound, Fits
  <2>3. QED
    BY <1>1, <1>2, <2>1, <2>2, LoadsByLine
<1>4. QED
  BY <1>1, <1>2, <1>3

(* What one write does to a file that is refused: it stays refused, and     *)
(* what was read before the damage is read again.                           *)
LEMMA WriteOnRefused ==
  ASSUME NEW f, NEW told, Sound(f, told), f.exists, ~Loads(f), f.lines # <<>>,
         NEW b \in StoredBlocks, NEW text, NEW cut \in WriteCuts
  PROVE  LET g == WriteBlock(f, b, text, cut)
         IN  ~Loads(g) /\ Intact(g) = Intact(f)
<1> DEFINE g == WriteBlock(f, b, text, cut)
           n == Len(f.lines)
           s == Settled(f)
<1>1. /\ g \in FilesOf(Lines)
      /\ n \in Nat /\ s \in 0..n /\ (f.ended => s = n) /\ s >= n - 1
      /\ Len(g.lines) \in Nat /\ Len(g.lines) >= n
      /\ \A i \in 1..s : g.lines[i] = f.lines[i]
      /\ \/ cut = "nothing" /\ g.lines = f.lines
         \/ f.ended
         \/ s + 1 \in 1..Len(g.lines) /\ ~Parses(g, s + 1)
  BY WriteOnLines
<1>2. f \in FilesOf(Lines)
  BY DEF Sound
<1>3. PICK m \in Nat : /\ m + 1 \in 1..n
                       /\ \A i \in 1..m : Fits(f, i)
                       /\ ~Fits(f, m + 1)
  BY RefusedLine
<1> HIDE DEF g, n, s
<1>4. m <= s /\ m < n
  BY <1>1, <1>3
<1>5. \A i \in 1..m : Fits(g, i) /\ g.lines[i][1] = f.lines[i][1]
  BY <1>1, <1>3, <1>4 DEF Fits, Parses
<1>6. ~Fits(g, m + 1)
  <2>1. CASE m + 1 <= s
    <3>1. g.lines[m + 1] = f.lines[m + 1]
      BY <1>1, <1>3, <2>1
    <3>2. QED
      BY <1>3, <3>1 DEF Fits, Parses
  <2>2. CASE ~(m + 1 <= s)
    <3>1. m = s /\ ~f.ended
      BY <1>1, <1>4, <2>2
    <3>2. CASE g.lines = f.lines
      BY <1>3, <3>2 DEF Fits, Parses
    <3>3. CASE ~Parses(g, s + 1)
      BY <3>1, <3>3 DEF Fits
    <3>4. QED
      BY <1>1, <3>1, <3>2, <3>3
  <2>3. QED
    BY <2>1, <2>2
<1>7. m + 1 \in 1..Len(g.lines)
  BY <1>1, <1>4
<1>8. ~Loads(g)
  BY <1>1, <1>6, <1>7, LoadsByLine
<1>9. Intact(g) = Blocks(g, m) /\ Intact(f) = Blocks(f, m)
  <2>1. m \in 0..Len(g.lines) /\ m \in 0..Len(f.lines)
    BY <1>1, <1>4 DEF n
  <2>2. \A i \in 1..m : Fits(g, i)
    BY <1>5
  <2>3. QED
    BY <1>1, <1>2, <1>3, <1>6, <2>1, <2>2, IntactIs
<1>10. Blocks(g, m) = Blocks(f, m)
  BY <1>5 DEF Blocks
<1>11. QED
  BY <1>8, <1>9, <1>10 DEF g

(* A block that somebody was told of is not one without a line feed, which  *)
(* the next write spoils.                                                   *)
LEMMA UnendedUntold ==
  ASSUME NEW f, NEW told, Sound(f, told), Loads(f), ~f.ended
  PROVE  LET n == Len(f.lines)
         IN  n \in Nat /\ n > 0 /\ f.lines[n][1] \notin told
<1> DEFINE n == Len(f.lines)
<1>1. f \in FilesOf(Lines) /\ n \in Nat
  BY DEF Sound, FilesOf
<1>2. n > 0 /\ \A i \in 1..n : Fits(f, i)
  BY <1>1, LoadsByLine
<1>3. SUFFICES ASSUME f.lines[n][1] \in told
               PROVE  FALSE
  BY <1>1, <1>2
<1>4. PICK i \in 1..Settled(f) : f.lines[i] = <<f.lines[n][1]>>
  BY <1>3 DEF Sound
<1>5. i \in 1..n - 1
  BY <1>1, <1>4 DEF Settled
<1>6. f.lines[i][1] = f.lines[n][1]
  BY <1>4
<1>7. f.lines[i][1].seq = i - 1 /\ f.lines[n][1].seq = n - 1
  BY <1>1, <1>2, <1>5 DEF Fits
<1>8. QED
  BY <1>1, <1>5, <1>6, <1>7

(* What one write does to a file that is accepted, or to none: the block is *)
(* the next one, and is added; or nothing is written; or the file is        *)
(* refused from now on, and a last block is lost at most that nobody was    *)
(* told of.                                                                 *)
LEMMA WriteOnAccepted ==
  ASSUME NEW f, NEW told, Sound(f, told), f = NoFile \/ Loads(f),
         NEW b \in StoredBlocks, NEW text, NEW cut \in WriteCuts
  PROVE  LET g == WriteBlock(f, b, text, cut)
             n == Len(f.lines)
             j == Intact(f)
         IN  \/ /\ Loads(g) /\ Intact(g) = Append(j, b)
                /\ b.prev = n /\ b.seq = n /\ Len(g.lines) = n + 1
             \/ /\ Loads(f) /\ Loads(g) /\ Intact(g) = j
                /\ g.lines = f.lines /\ cut = "nothing"
             \/ /\ ~Loads(g)
                /\ \/ Intact(g) = j
                   \/ /\ Len(j) > 0 /\ j[Len(j)] \notin told
                      /\ Intact(g) = SubSeq(j, 1, Len(j) - 1)
<1> DEFINE g == WriteBlock(f, b, text, cut)
           n == Len(f.lines)
           m == Settled(f)
           j == Blocks(f, n)
<1>1. /\ g \in FilesOf(Lines) /\ g.exists
      /\ n \in Nat /\ m \in 0..n /\ (f.ended => m = n) /\ m >= n - 1
      /\ Len(g.lines) \in Nat /\ Len(g.lines) >= n
      /\ \A i \in 1..m : g.lines[i] = f.lines[i]
      /\ \/ cut = "nothing" /\ g.lines = f.lines /\ g.utf8 = f.utf8
         \/ f.ended /\ g.lines = Append(f.lines, <<b>>) /\ g.utf8 = f.utf8
         \/ m + 1 \in 1..Len(g.lines) /\ ~Parses(g, m + 1)
  BY WriteOnLines
<1>2. f \in FilesOf(Lines) /\ f.lines \in Seq(Lines)
  BY DEF Sound, FilesOf
<1>3. /\ f.utf8 /\ \A i \in 1..n : Fits(f, i)
      /\ Intact(f) = j /\ Len(j) = n
  BY <1>2, AcceptedLines
<1>4. \A i \in 1..n : j[i] = f.lines[i][1]
  BY <1>1, BlocksOfLines
<1> HIDE DEF g
<1>5. CASE cut = "nothing" /\ g.lines = f.lines /\ g.utf8 = f.utf8
  <2>1. Intact(g) = Intact(f)
    BY <1>5 DEF Intact, Blocks, Parses
  <2>2. ASSUME Loads(g)
        PROVE  Loads(f)
    <3>1. Len(f.lines) > 0
      BY <1>1, <1>5, <2>2, LoadsByLine
    <3>2. Len(<<>>) = 0
      OBVIOUS
    <3>3. f # NoFile
      BY <3>1, <3>2 DEF NoFile
    <3>4. QED
      BY <3>3
  <2>3. QED
    BY <1>5, <2>1, <2>2 DEF g
<1>6. CASE f.ended /\ g.lines = Append(f.lines, <<b>>) /\ g.utf8 = f.utf8
  <2>1. /\ Len(g.lines) = n + 1 /\ g.lines[n + 1] = <<b>>
        /\ \A i \in 1..n : g.lines[i] = f.lines[i]
    BY <1>2, <1>6
  <2>2. \A i \in 1..n : Fits(g, i)
    BY <1>3, <2>1 DEF Fits, Parses
  <2>3. Blocks(g, n + 1) = Append(j, b)
    BY <1>2, <1>6, BlocksAppend
  <2>4. g.lines[n + 1][1] = b /\ Parses(g, n + 1)
    <3>1. <<b>>[1] = b /\ Len(<<b>>) = 1 /\ Len(<<>>) = 0
      OBVIOUS
    <3>2. <<b>> # <<>>
      BY <3>1, Zenon
    <3>3. QED
      BY <2>1, <3>1, <3>2 DEF Parses, Garbled
  <2>5. Fits(g, n + 1) <=> b.prev = n /\ b.seq = n
    <3>1. n + 1 - 1 = n
      BY <1>1
    <3>2. QED
      BY <2>4, <3>1 DEF Fits
  <2>6. CASE Fits(g, n + 1)
    <3>1. \A i \in 1..n + 1 : Fits(g, i)
      BY <1>1, <2>2, <2>6
    <3>2. Loads(g)
      <4>1. g.utf8 /\ Len(g.lines) > 0
        BY <1>1, <1>3, <1>6, <2>1
      <4>2. QED
        BY <1>1, <2>1, <3>1, <4>1, LoadsByLine
    <3>3. Intact(g) = Append(j, b)
      BY <1>1, <2>1, <2>3, <3>2, AcceptedLines
    <3>4. QED
      BY <1>3, <2>1, <2>5, <2>6, <3>2, <3>3 DEF g
  <2>7. CASE ~Fits(g, n + 1)
    <3>1. n + 1 \in 1..Len(g.lines) /\ n \in 0..Len(g.lines)
      BY <1>1, <2>1
    <3>2. ~Loads(g)
      BY <1>1, <2>7, <3>1, LoadsByLine
    <3>3. Intact(g) = Blocks(g, n)
      BY <1>1, <2>2, <2>7, <3>1, IntactIs
    <3>4. Blocks(g, n) = j
      BY <2>1 DEF Blocks
    <3>5. QED
      BY <1>3, <3>2, <3>3, <3>4 DEF g
  <2>8. QED
    BY <2>6, <2>7
<1>7. CASE m + 1 \in 1..Len(g.lines) /\ ~Parses(g, m + 1)
  <2>1. m = n \/ (m = n - 1 /\ ~f.ended)
    BY <1>1
  <2> HIDE DEF m
  <2>2. ~Fits(g, m + 1)
    BY <1>7 DEF Fits
  <2>3. ~Loads(g)
    BY <1>1, <1>7, <2>2, LoadsByLine
  <2>4. \A i \in 1..m : i \in 1..n
    BY <1>1
  <2>5. \A i \in 1..m : Fits(g, i)
    BY <1>1, <1>3, <2>4 DEF Fits, Parses
  <2>6. m \in 0..Len(g.lines)
    BY <1>1
  <2>7. Intact(g) = Blocks(g, m)
    BY <1>1, <2>2, <2>5, <2>6, IntactIs
  <2>8. Blocks(g, m) = Blocks(f, m)
    BY <1>1 DEF Blocks
  <2>9. CASE m = n
    BY <1>3, <2>3, <2>7, <2>8, <2>9 DEF g
  <2>10. CASE m = n - 1 /\ ~f.ended
    <3>1. Loads(f)
      BY <2>10 DEF NoFile
    <3>2. n > 0 /\ f.lines[n][1] \notin told
      BY <2>10, <3>1, UnendedUntold
    <3>3. j[n] \notin told
      BY <1>1, <1>4, <3>2
    <3>4. Blocks(f, m) = SubSeq(j, 1, n - 1)
      <4> DEFINE front == Blocks(f, m)
      <4>1. PICK T : j \in Seq(T)
        BY <1>1, BlocksSeq
      <4>2. PICK R : front \in Seq(R)
        BY <1>1, BlocksSeq
      <4>3. Len(front) = m /\ \A i \in 1..m : front[i] = j[i]
        BY <1>1, <1>4, <2>4, BlocksOfLines
      <4> HIDE DEF j, front
      <4>4. /\ SubSeq(j, 1, m) \in Seq(T \cup R) /\ Len(SubSeq(j, 1, m)) = m
            /\ \A i \in 1..m : SubSeq(j, 1, m)[i] = j[i]
        BY <1>1, <1>3, <4>1
      <4>5. front \in Seq(T \cup R)
        BY <4>2
      <4>6. SubSeq(j, 1, m) = front
        BY <1>1, <4>3, <4>4, <4>5
      <4>7. QED
        BY <2>10, <4>6 DEF front
    <3>5. QED
      BY <1>3, <2>3, <2>7, <2>8, <3>2, <3>3, <3>4 DEF g
  <2>11. QED
    BY <2>1, <2>9, <2>10
<1>8. QED
  BY <1>1, <1>5, <1>6, <1>7

(* And it leaves the file sound.                                            *)
LEMMA WriteKeepsSound ==
  ASSUME NEW f, NEW told, Sound(f, told), f.exists => f.lines # <<>>,
         NEW b \in StoredBlocks, NEW text, NEW cut \in WriteCuts
  PROVE  Sound(WriteBlock(f, b, text, cut),
               IF cut = "complete" THEN told \cup {b} ELSE told)
<1> DEFINE g == WriteBlock(f, b, text, cut)
           now == IF cut = "complete" THEN told \cup {b} ELSE told
           n == Len(f.lines)
           m == Settled(f)
<1>1. /\ g \in FilesOf(Lines) /\ g.exists
      /\ n \in Nat /\ m \in 0..n /\ (f.ended => m = n)
      /\ Len(g.lines) \in Nat /\ Len(g.lines) >= n
      /\ \A i \in 1..m : g.lines[i] = f.lines[i]
      /\ cut = "complete" => g.ended
      /\ \/ /\ cut = "nothing" /\ g.lines = f.lines
            /\ g.utf8 = f.utf8 /\ g.ended = f.ended
         \/ f.ended /\ g.lines = Append(f.lines, <<b>>) /\ g.utf8 = f.utf8
         \/ m + 1 \in 1..Len(g.lines) /\ ~Parses(g, m + 1)
  BY WriteOnLines
<1>2. f \in FilesOf(Lines) /\ f.lines \in Seq(Lines)
  BY DEF Sound, FilesOf
<1>3. now \subseteq StoredBlocks
  BY DEF Sound
<1> HIDE DEF g, n, m
<1>4. CASE /\ cut = "nothing" /\ g.lines = f.lines
           /\ g.utf8 = f.utf8 /\ g.ended = f.ended
  <2>1. now = told /\ Settled(g) = m
    BY <1>4 DEF Settled, m
  <2>2. g.ended \/ g.lines # <<>>
    BY <1>4 DEF Sound
  <2>3. ~g.utf8 => \E i \in 1..Len(g.lines) : ~Parses(g, i)
    BY <1>4 DEF Sound, Parses
  <2>4. Loads(g) => \A c \in now : \E i \in 1..Settled(g) : g.lines[i] = <<c>>
    <3>1. SUFFICES ASSUME Loads(g), NEW c \in told
                   PROVE  \E i \in 1..m : f.lines[i] = <<c>>
      BY <1>4, <2>1
    <3>2. f.exists
      BY <3>1 DEF Sound
    <3>3. Loads(f)
      BY <1>1, <1>2, <1>4, <3>1, <3>2, LoadsByLine DEF Fits, Parses
    <3>4. QED
      BY <3>1, <3>3 DEF Sound, m
  <2>5. QED
    BY <1>1, <1>3, <2>2, <2>3, <2>4 DEF Sound, g
<1>5. CASE f.ended /\ g.lines = Append(f.lines, <<b>>) /\ g.utf8 = f.utf8
  <2>1. /\ Len(g.lines) = n + 1 /\ g.lines[n + 1] = <<b>> /\ g.lines # <<>>
        /\ \A i \in 1..n : g.lines[i] = f.lines[i]
    BY <1>2, <1>5 DEF n
  <2>2. ~g.utf8 => \E i \in 1..Len(g.lines) : ~Parses(g, i)
    <3>1. SUFFICES ASSUME ~f.utf8
                   PROVE  \E i \in 1..Len(g.lines) : ~Parses(g, i)
      BY <1>5
    <3>2. PICK i \in 1..n : ~Parses(f, i)
      BY <3>1 DEF Sound, n
    <3>3. i \in 1..Len(g.lines) /\ ~Parses(g, i)
      BY <1>1, <2>1, <3>2 DEF Parses
    <3>4. QED
      BY <3>3
  <2>3. Settled(g) \in {n, n + 1}
    BY <1>1, <2>1 DEF Settled, FilesOf
  <2>4. ASSUME Loads(g), NEW c \in now
        PROVE  \E i \in 1..Settled(g) : g.lines[i] = <<c>>
    <3>1. CASE c \in told
      <4>1. f.exists
        BY <3>1 DEF Sound
      <4>2. g.utf8 /\ \A i \in 1..n + 1 : Fits(g, i)
        BY <1>1, <2>1, <2>4, LoadsByLine
      <4>3. \A i \in 1..n : Fits(f, i)
        <5>1. \A i \in 1..n : i \in 1..n + 1
          BY <1>1
        <5>2. QED
          BY <2>1, <4>2, <5>1 DEF Fits, Parses
      <4>4. f.utf8 /\ n > 0
        BY <1>2, <1>5, <4>1, <4>2 DEF n
      <4>5. Loads(f)
        BY <1>2, <4>1, <4>3, <4>4, LoadsByLine DEF n
      <4>6. PICK i \in 1..m : f.lines[i] = <<c>>
        BY <3>1, <4>5 DEF Sound, m
      <4>7. i \in 1..n
        BY <1>1, <4>6
      <4>9. i \in 1..Settled(g) /\ g.lines[i] = <<c>>
        BY <1>1, <2>1, <2>3, <4>6, <4>7
      <4>8. QED
        BY <4>9
    <3>2. CASE c = b /\ cut = "complete"
      <4>1. Settled(g) = n + 1
        BY <1>1, <2>1, <3>2 DEF Settled
      <4>2. n + 1 \in 1..n + 1
        BY <1>1
      <4>3. QED
        BY <2>1, <3>2, <4>1, <4>2
    <3>3. QED
      BY <3>1, <3>2
  <2>5. QED
    BY <1>1, <1>3, <2>1, <2>2, <2>4 DEF Sound, g
<1>6. CASE m + 1 \in 1..Len(g.lines) /\ ~Parses(g, m + 1)
  <2>1. ~Loads(g)
    BY <1>6 DEF Loads
  <2>2. g.lines # <<>>
    <3>1. Len(g.lines) > 0 /\ Len(<<>>) = 0
      BY <1>1, <1>6
    <3>2. QED
      BY <3>1
  <2>3. \E i \in 1..Len(g.lines) : ~Parses(g, i)
    BY <1>6
  <2>4. QED
    BY <1>1, <1>3, <2>1, <2>2, <2>3 DEF Sound, g
<1>7. QED
  BY <1>1, <1>4, <1>5, <1>6

(* How one write of block b can turn file f into file g: the block is the   *)
(* next one and is added; nothing is written; the file is refused from now  *)
(* on; it was refused before.                                               *)
Fresh(f) == f = NoFile \/ Loads(f)

Adds(f, g, b) ==
  /\ Fresh(f) /\ Loads(g)
  /\ Intact(g) = Append(Intact(f), b)
  /\ b.prev = Len(f.lines) /\ b.seq = Len(f.lines)
  /\ Len(g.lines) = Len(f.lines) + 1

Stays(f, g) ==
  Loads(f) /\ Loads(g) /\ Intact(g) = Intact(f) /\ g.lines = f.lines

Spoils(f, g, told) ==
  LET j == Intact(f)
  IN  /\ Fresh(f) /\ ~Loads(g)
      /\ \/ Intact(g) = j
         \/ /\ Len(j) > 0 /\ j[Len(j)] \notin told
            /\ Intact(g) = SubSeq(j, 1, Len(j) - 1)

Refuses(f, g) == f.exists /\ ~Loads(f) /\ ~Loads(g) /\ Intact(g) = Intact(f)

(* These are all the ways.                                                  *)
LEMMA WriteOutcome ==
  ASSUME NEW f, NEW told, Sound(f, told), f.exists => f.lines # <<>>,
         NEW b \in StoredBlocks, NEW text, NEW cut \in WriteCuts
  PROVE  LET g == WriteBlock(f, b, text, cut)
         IN  /\ Sound(g, IF cut = "complete" THEN told \cup {b} ELSE told)
             /\ g.exists
             /\ Len(f.lines) \in Nat /\ Len(g.lines) \in Nat
             /\ Len(g.lines) >= Len(f.lines)
             /\ cut = "complete" => Len(g.lines) > 0
             /\ \/ Adds(f, g, b) \/ Spoils(f, g, told) \/ Refuses(f, g)
                \/ Stays(f, g) /\ cut = "nothing"
<1> DEFINE g == WriteBlock(f, b, text, cut)
<1>1. Sound(g, IF cut = "complete" THEN told \cup {b} ELSE told)
  BY WriteKeepsSound
<1>2. /\ g.exists /\ Len(f.lines) \in Nat /\ Len(g.lines) \in Nat
      /\ Len(g.lines) >= Len(f.lines)
      /\ cut = "complete" => Len(g.lines) > 0
  BY WriteOnLines
<1>3. CASE Fresh(f)
  <2>1. f = NoFile \/ Loads(f)
    BY <1>3 DEF Fresh
  <2>2. \/ /\ Loads(g) /\ Intact(g) = Append(Intact(f), b)
           /\ b.prev = Len(f.lines) /\ b.seq = Len(f.lines)
           /\ Len(g.lines) = Len(f.lines) + 1
        \/ /\ Loads(f) /\ Loads(g) /\ Intact(g) = Intact(f)
           /\ g.lines = f.lines /\ cut = "nothing"
        \/ /\ ~Loads(g)
           /\ \/ Intact(g) = Intact(f)
              \/ /\ Len(Intact(f)) > 0 /\ Intact(f)[Len(Intact(f))] \notin told
                 /\ Intact(g) = SubSeq(Intact(f), 1, Len(Intact(f)) - 1)
    BY <2>1, WriteOnAccepted
  <2> HIDE DEF g
  <2>3. QED
    BY <1>1, <1>2, <1>3, <2>2 DEF Adds, Stays, Spoils, g
<1>4. CASE ~Fresh(f)
  <2>1. f.exists /\ ~Loads(f) /\ f.lines # <<>>
    BY <1>4 DEF Fresh, Sound
  <2>2. Refuses(f, g)
    BY <2>1, WriteOnRefused DEF Refuses
  <2>3. QED
    BY <1>1, <1>2, <2>2
<1>5. QED
  BY <1>3, <1>4

(* The state of a session is one of the workflow's, or that of a skill's    *)
(* block.                                                                   *)
LEMMA StateTyped ==
  ASSUME NEW f \in FilesOf(Lines), Loads(f)
  PROVE  StateIn(f) \in Names /\ Len(f.lines) \in Nat /\ Len(f.lines) > 0
<1> DEFINE n == Len(f.lines)
<1>1. f.lines \in Seq(Lines) /\ n \in Nat /\ n > 0
  <2>1. f.lines \in Seq(Lines)
    BY DEF FilesOf
  <2>2. n > 0
    BY LoadsByLine
  <2>3. QED
    BY <2>1, <2>2
<1>2. Intact(f) = Blocks(f, n) /\ Len(Intact(f)) = n /\ \A i \in 1..n : Fits(f, i)
  BY AcceptedLines
<1>3. n \in 1..n
  BY <1>1
<1>4. Blocks(f, n)[n] = f.lines[n][1]
  BY <1>1, <1>3, BlocksOfLines
<1>5. StateIn(f) = f.lines[n][1].to
  BY <1>2, <1>4 DEF StateIn, CurrentState
<1>6. f.lines[n] \in Lines /\ f.lines[n] # Garbled
  BY <1>1, <1>2, <1>3 DEF Fits, Parses
<1>7. PICK b \in StoredBlocks : f.lines[n] = <<b>>
  BY <1>6 DEF Lines
<1>8. f.lines[n][1] = b
  BY <1>7
<1>9. QED
  BY <1>1, <1>5, <1>8 DEF StoredBlocks

-----------------------------------------------------------------------------
(* What a process has in hand about file f.  While f is accepted nobody's   *)
(* number is ahead of it, and a number that still comes next was read with  *)
(* the state the file still has.                                            *)
Deciding == {"actor", "work", "failed", "checks", "judged"}

Holds(h, f) ==
  /\ Len(f.lines) > 0
  /\ h.at \in Deciding => h.state \in States
  /\ Loads(f) => /\ h.seq <= Len(f.lines)
                 /\ h.at \in {"checks", "judged"} /\ h.seq = Len(f.lines)
                      => h.state = StateIn(f)

HandOk(h) ==
  h.at # "idle" => h.session \in Sessions /\ Holds(h, files[h.session])

IInv ==
  /\ files = [s \in Sessions |-> files[s]]
  /\ acked = [s \in Sessions |-> acked[s]]
  /\ \A s \in Sessions : Sound(files[s], acked[s])
  /\ hand \in [Processes -> Hands]
  /\ \A p \in Processes : HandOk(hand[p])

(* What somebody else writes leaves that true.                              *)
LEMMA HoldsOn ==
  ASSUME NEW f \in FilesOf(Lines), NEW g \in FilesOf(Lines), NEW b, NEW told,
         NEW h \in Hands, Holds(h, f), Len(g.lines) >= Len(f.lines),
         Adds(f, g, b) \/ Spoils(f, g, told) \/ Refuses(f, g) \/ Stays(f, g)
  PROVE  Holds(h, g)
<1>1. Len(f.lines) \in Nat /\ Len(g.lines) \in Nat /\ h.seq \in Nat
  BY DEF FilesOf, Hands
<1>2. Len(g.lines) > 0
  BY <1>1 DEF Holds
<1>3. Loads(g) => Loads(f)
  <2>1. SUFFICES ASSUME f = NoFile
                 PROVE  FALSE
    BY DEF Adds, Stays, Spoils, Refuses, Fresh
  <2>2. Len(<<>>) = 0
    OBVIOUS
  <2>3. QED
    BY <2>1, <2>2 DEF Holds, NoFile
<1>4. ASSUME Loads(g)
      PROVE  /\ h.seq <= Len(g.lines)
             /\ h.at \in {"checks", "judged"} /\ h.seq = Len(g.lines)
                  => h.state = StateIn(g)
  <2>1. h.seq <= Len(f.lines)
    BY <1>3, <1>4 DEF Holds
  <2>2. CASE Adds(f, g, b)
    BY <1>1, <2>1, <2>2 DEF Adds
  <2>3. CASE Stays(f, g)
    BY <2>3 DEF Stays, Holds, StateIn
  <2>4. QED
    BY <1>4, <2>2, <2>3 DEF Spoils, Refuses
<1>5. QED
  BY <1>2, <1>4 DEF Holds

(* A process composes block b for session s and writes it, and goes on with *)
(* "next" in hand.                                                          *)
Carries(h, s, b) ==
  /\ h \in Hands /\ h.at # "idle" /\ h.session = s
  /\ h.at \in Deciding => h.state \in States
  /\ h.seq = 0 \/ h.seq = b.seq + 1
  /\ h.at \in {"checks", "judged"} => h.seq = b.seq + 1 /\ h.state = b.to

Composed(p, s, b, cut, next) ==
  /\ Write(s, b, cut)
  /\ files[s].exists => files[s].lines # <<>>
  /\ b \in StoredBlocks
  /\ LET n == Len(files[s].lines)
     IN  Fresh(files[s]) /\ b.seq = n /\ b.prev = n
           => b \in Store!Following(Intact(files[s]))
  /\ hand' = [hand EXCEPT ![p] = IF cut = "complete" THEN next ELSE Idle]
  /\ next = Idle \/ Carries(next, s, b)

Composes ==
  \E p \in Processes, s \in Sessions, cut \in WriteCuts :
    \E b, next : Composed(p, s, b, cut, next)

(* A process reads, or is done, and has h in hand.                          *)
Looks ==
  /\ UNCHANGED <<files, acked>>
  /\ \E p \in Processes, h \in Hands : HandOk(h) /\ hand' = [hand EXCEPT ![p] = h]

(* What a write does to the project.                                        *)
LEMMA ComposedWrites ==
  ASSUME IInv, NEW p \in Processes, NEW s \in Sessions, NEW cut \in WriteCuts,
         NEW b, NEW next, Composed(p, s, b, cut, next)
  PROVE  LET f == files[s]
             g == files'[s]
         IN  /\ files' = [files EXCEPT ![s] = g]
             /\ acked' = IF cut = "complete" THEN [acked EXCEPT ![s] = @ \cup {b}]
                                             ELSE acked
             /\ Sound(f, acked[s]) /\ Sound(g, acked'[s])
             /\ g.exists
             /\ Len(f.lines) \in Nat /\ Len(g.lines) \in Nat
             /\ Len(g.lines) >= Len(f.lines)
             /\ cut = "complete" => Len(g.lines) > 0
             /\ \/ Adds(f, g, b) \/ Spoils(f, g, acked[s]) \/ Refuses(f, g)
                \/ Stays(f, g) /\ cut = "nothing"
<1> DEFINE f == files[s]
<1>1. PICK text : files' = [files EXCEPT ![s] = WriteBlock(@, b, text, cut)]
  BY DEF Composed, Write
<1> DEFINE g == WriteBlock(f, b, text, cut)
<1>2. files'[s] = g /\ files' = [files EXCEPT ![s] = g]
  BY <1>1 DEF IInv
<1>3. acked' = IF cut = "complete" THEN [acked EXCEPT ![s] = @ \cup {b}] ELSE acked
  BY DEF Composed, Write
<1>4. acked'[s] = IF cut = "complete" THEN acked[s] \cup {b} ELSE acked[s]
  BY <1>3 DEF IInv
<1>5. Sound(f, acked[s])
  BY DEF IInv
<1>6. b \in StoredBlocks /\ (f.exists => f.lines # <<>>)
  BY DEF Composed
<1>7. /\ Sound(g, IF cut = "complete" THEN acked[s] \cup {b} ELSE acked[s])
      /\ g.exists
      /\ Len(f.lines) \in Nat /\ Len(g.lines) \in Nat
      /\ Len(g.lines) >= Len(f.lines)
      /\ cut = "complete" => Len(g.lines) > 0
      /\ \/ Adds(f, g, b) \/ Spoils(f, g, acked[s]) \/ Refuses(f, g)
         \/ Stays(f, g) /\ cut = "nothing"
  BY <1>5, <1>6, WriteOutcome
<1> HIDE DEF g
<1>8. QED
  BY <1>2, <1>3, <1>4, <1>5, <1>7

(* It keeps the files sound and what everybody has in hand right.           *)
LEMMA ComposedKeeps ==
  ASSUME IInv, NEW p \in Processes, NEW s \in Sessions, NEW cut \in WriteCuts,
         NEW b, NEW next, Composed(p, s, b, cut, next)
  PROVE  IInv'
<1> DEFINE f == files[s]
           g == files'[s]
           mine == IF cut = "complete" THEN next ELSE Idle
<1>1. /\ files' = [files EXCEPT ![s] = g]
      /\ acked' = IF cut = "complete" THEN [acked EXCEPT ![s] = @ \cup {b}]
                                      ELSE acked
      /\ Sound(f, acked[s]) /\ Sound(g, acked'[s])
      /\ Len(f.lines) \in Nat /\ Len(g.lines) \in Nat
      /\ Len(g.lines) >= Len(f.lines)
      /\ cut = "complete" => Len(g.lines) > 0
      /\ \/ Adds(f, g, b) \/ Spoils(f, g, acked[s]) \/ Refuses(f, g)
         \/ Stays(f, g) /\ cut = "nothing"
  BY ComposedWrites
<1>2. /\ \A r \in Sessions \ {s} : files'[r] = files[r] /\ acked'[r] = acked[r]
      /\ files' = [r \in Sessions |-> files'[r]]
      /\ acked' = [r \in Sessions |-> acked'[r]]
  BY <1>1 DEF IInv
<1>3. \A r \in Sessions : Sound(files'[r], acked'[r])
  BY <1>1, <1>2 DEF IInv
<1>4. mine \in Hands /\ hand' = [hand EXCEPT ![p] = mine]
  BY DEF Composed, Carries, Hands, Idle
<1>5. hand' \in [Processes -> Hands]
  BY <1>4 DEF IInv
<1>6. ASSUME NEW q \in Processes, q # p, hand[q].at # "idle"
      PROVE  hand[q].session \in Sessions /\ Holds(hand[q], files'[hand[q].session])
  <2>1. hand[q] \in Hands /\ hand[q].session \in Sessions
        /\ Holds(hand[q], files[hand[q].session])
    BY <1>6 DEF IInv, HandOk
  <2>2. f \in FilesOf(Lines) /\ g \in FilesOf(Lines)
    BY <1>1 DEF Sound
  <2>3. CASE hand[q].session = s
    BY <1>1, <2>1, <2>2, <2>3, HoldsOn
  <2>4. CASE hand[q].session # s
    BY <1>2, <2>1, <2>4
  <2>5. QED
    BY <2>3, <2>4
<1>7. ASSUME mine.at # "idle"
      PROVE  mine.session \in Sessions /\ Holds(mine, files'[mine.session])
  <2>1. cut = "complete" /\ mine = next /\ Carries(next, s, b)
    BY <1>7 DEF Composed, Idle
  <2>2. ASSUME Loads(g)
        PROVE  Adds(f, g, b)
    BY <1>1, <2>1, <2>2 DEF Spoils, Refuses
  <2>3. ASSUME Loads(g)
        PROVE  Len(g.lines) = b.seq + 1 /\ StateIn(g) = b.to
    <3>1. PICK T : Intact(f) \in Seq(T)
      <4>1. f \in FilesOf(Lines) /\ (f = NoFile \/ Loads(f))
        BY <1>1, <2>2, <2>3 DEF Sound, Adds, Fresh
      <4>2. Intact(f) = Blocks(f, Len(f.lines))
        BY <4>1, AcceptedLines
      <4>3. QED
        BY <1>1, <4>2, BlocksSeq
    <3>2. Intact(g) = Append(Intact(f), b)
      BY <2>2, <2>3 DEF Adds
    <3>3. Intact(g)[Len(Intact(g))] = b
      BY <3>1, <3>2
    <3>4. QED
      BY <2>2, <2>3, <3>3 DEF Adds, StateIn, CurrentState
  <2>4. Len(g.lines) > 0
    BY <1>1, <2>1
  <2>5. Holds(next, g)
    BY <1>1, <2>1, <2>3, <2>4 DEF Carries, Holds
  <2>6. QED
    BY <2>1, <2>5 DEF Carries
<1>8. \A q \in Processes : HandOk(hand[q])'
  <2> SUFFICES ASSUME NEW q \in Processes, hand'[q].at # "idle"
               PROVE  /\ hand'[q].session \in Sessions
                      /\ Holds(hand'[q], files'[hand'[q].session])
    BY DEF HandOk
  <2>1. hand'[p] = mine /\ (q # p => hand'[q] = hand[q])
    BY <1>4 DEF IInv
  <2> HIDE DEF mine
  <2>2. QED
    BY <1>6, <1>7, <2>1
<1>9. QED
  BY <1>2, <1>3, <1>5, <1>8 DEF IInv

(* So does a step that only reads.                                          *)
LEMMA LooksKeep ==
  ASSUME IInv, Looks \/ UNCHANGED fileVars
  PROVE  IInv'
<1>1. CASE UNCHANGED fileVars
  BY <1>1 DEF IInv, HandOk, fileVars
<1>2. CASE Looks
  <2>1. UNCHANGED <<files, acked>>
    BY <1>2 DEF Looks
  <2>2. PICK p \in Processes, h \in Hands :
          HandOk(h) /\ hand' = [hand EXCEPT ![p] = h]
    BY <1>2 DEF Looks
  <2>3. hand' \in [Processes -> Hands]
    BY <2>2 DEF IInv
  <2>4. \A q \in Processes : HandOk(hand'[q])
    BY <2>2 DEF IInv
  <2>5. \A q \in Processes : HandOk(hand[q])'
    BY <2>1, <2>4 DEF HandOk
  <2>6. QED
    BY <2>1, <2>3, <2>5 DEF IInv
<1>3. QED
  BY <1>1, <1>2

-----------------------------------------------------------------------------
(* The first block of a session follows the empty log.                      *)
LEMMA CreateComposes ==
  ASSUME IInv, NEW p \in Processes, NEW s \in Sessions, NEW cut \in WriteCuts,
         NEW goes \in BOOLEAN, Create(p, s, cut, goes)
  PROVE  Composes
<1> DEFINE b == Chained(Block(0, "session_opened", None, Initial), 0)
           next == IF goes THEN Opens("loop", s, 0) ELSE Idle
           f == files[s]
<1>1. ~f.exists /\ Write(s, b, cut)
  BY DEF Create
<1>2. f = NoFile
  BY <1>1 DEF IInv, Sound
<1>3. b = [seq |-> 0, prev |-> 0, type |-> "session_opened",
           from |-> None, to |-> Initial]
  BY DEF Chained, Block
<1>4. b \in StoredBlocks
  BY <1>3, TerminalsAssumption DEF StoredBlocks, BlockTypes, Names, TerminalsAssumption
<1>5. Len(Intact(f)) = 0
  <2>1. f \in FilesOf(Lines)
    BY DEF IInv, Sound
  <2>2. f.lines = <<>> /\ Len(<<>>) = 0
    BY <1>2 DEF NoFile
  <2>3. QED
    BY <1>2, <2>1, <2>2, AcceptedLines
<1>6. b \in Store!Following(Intact(f))
  <2>1. b = Store!Chained(Store!Block(0, "session_opened", None, Initial), 0)
    BY <1>3 DEF Store!Chained, Store!Block
  <2> HIDE DEF b
  <2>2. QED
    BY <1>5, <2>1 DEF Store!Following
<1>7. hand' = [hand EXCEPT ![p] = IF cut = "complete" THEN next ELSE Idle]
  BY DEF Create
<1>8. next = Idle \/ Carries(next, s, b)
  <2>1. CASE goes
    <3>1. next = [at |-> "loop", session |-> s, state |-> None, seq |-> 0, tip |-> 0]
      BY <2>1 DEF Opens
    <3>2. QED
      BY <3>1 DEF Carries, Hands, Deciding
  <2>2. QED
    BY <2>1
<1> HIDE DEF b, next
<1>9. Composed(p, s, b, cut, next)
  BY <1>1, <1>4, <1>6, <1>7, <1>8 DEF Composed
<1>10. QED
  BY <1>9 DEF Composes

(* The ways of composing a later block that its writers have.               *)
Meant(h, type, from, to) ==
  /\ from \in Names /\ to \in Names
  /\ \/ type = "session_resumed" /\ from = Blocked /\ to \in States \cup {Blocked}
     \/ type = "skill_invoked" /\ from = None /\ to = None
     \/ type = "artifact_produced" /\ from \in States /\ to = from
     \/ type = "transition" /\ from \in States /\ to = Blocked
     \/ /\ type = "transition" /\ from \in States /\ to \in States \cup {Blocked}
        /\ h.at = "judged" /\ h.state = from

(* If such a block finds its number free it follows the log.                *)
LEMMA MeantFollows ==
  ASSUME NEW f \in FilesOf(Lines), NEW h \in Hands, Holds(h, f), Fresh(f),
         NEW type, NEW from, NEW to, Meant(h, type, from, to),
         h.seq = Len(f.lines)
  PROVE  Chained(Block(h.seq, type, from, to), h.seq) \in Store!Following(Intact(f))
<1> DEFINE n == Len(f.lines)
           j == Intact(f)
           b == Chained(Block(n, type, from, to), n)
<1>1. n \in Nat /\ n > 0
  BY DEF FilesOf, Holds
<1>2. Loads(f)
  <2>1. Len(<<>>) = 0
    OBVIOUS
  <2>2. QED
    BY <1>1, <2>1 DEF Fresh, NoFile
<1>3. Len(j) = n
  BY <1>2, AcceptedLines
<1>4. h.at = "judged" => h.state = Store!CurrentState(j)
  BY <1>2 DEF Holds, StateIn, CurrentState, Store!CurrentState
<1> HIDE DEF j, n
<1>5. b = Store!Chained(Store!Block(Len(j), type, from, to), Len(j))
  BY <1>3 DEF Store!Chained, Store!Block, Chained, Block
<1>6. Len(j) # 0
  BY <1>1, <1>3
<1> HIDE DEF b
<1>7. b \in Store!Following(j)
  <2>1. CASE type = "session_resumed" /\ from = Blocked /\ to \in States \cup {Blocked}
    BY <1>5, <1>6, <2>1 DEF Store!Following, Store!Reachable
  <2>2. CASE type = "skill_invoked" /\ from = None /\ to = None
    BY <1>5, <1>6, <2>2 DEF Store!Following
  <2>3. CASE type = "artifact_produced" /\ from \in States /\ to = from
    BY <1>5, <1>6, <2>3 DEF Store!Following
  <2>4. CASE type = "transition" /\ from \in States /\ to = Blocked
    BY <1>5, <1>6, <2>4 DEF Store!Following
  <2>5. CASE /\ type = "transition" /\ from \in States /\ to \in States \cup {Blocked}
             /\ h.at = "judged" /\ h.state = from
    <3>1. from \in States \cap {Store!CurrentState(j)} /\ to \in Store!Reachable
      BY <1>4, <2>5 DEF Store!Reachable
    <3>2. QED
      BY <1>5, <1>6, <2>5, <3>1 DEF Store!Following
  <2>6. QED
    BY <2>1, <2>2, <2>3, <2>4, <2>5 DEF Meant
<1>8. QED
  BY <1>7 DEF b, j, n

(* So every append composes as it should.                                   *)
LEMMA AppendComposes ==
  ASSUME IInv, NEW p \in Processes, NEW cut \in WriteCuts,
         NEW type, NEW from, NEW to, NEW next,
         hand[p].at # "idle", Meant(hand[p], type, from, to),
         Append1(p, type, from, to, cut, next),
         \/ next = Idle
         \/ Carries(next, hand[p].session,
                    Chained(Block(hand[p].seq, type, from, to), hand[p].tip))
  PROVE  Composes
<1> DEFINE h == hand[p]
           s == h.session
           f == files[s]
           b == Chained(Block(h.seq, type, from, to), h.tip)
<1>1. h \in Hands /\ s \in Sessions /\ Holds(h, f)
  BY DEF IInv, HandOk
<1>2. h.seq \in Nat /\ h.tip \in Nat
  BY <1>1 DEF Hands
<1>3. f \in FilesOf(Lines)
  BY <1>1 DEF IInv, Sound
<1>4. b = [seq |-> h.seq, prev |-> h.tip, type |-> type, from |-> from, to |-> to]
  BY DEF Chained, Block
<1>5. type \in BlockTypes /\ from \in Names /\ to \in Names
  BY DEF Meant, BlockTypes
<1>6. b \in StoredBlocks
  BY <1>2, <1>4, <1>5 DEF StoredBlocks
<1>7. Write(s, b, cut)
      /\ hand' = [hand EXCEPT ![p] = IF cut = "complete" THEN next ELSE Idle]
  BY DEF Append1, Number
<1>8. f.lines # <<>>
  <2>1. Len(<<>>) = 0
    OBVIOUS
  <2>2. Len(f.lines) > 0
    BY <1>1 DEF Holds
  <2>3. QED
    BY <2>1, <2>2
<1>9. ASSUME Fresh(f), b.seq = Len(f.lines), b.prev = Len(f.lines)
      PROVE  b \in Store!Following(Intact(f))
  <2>1. h.seq = Len(f.lines) /\ h.tip = h.seq
    BY <1>4, <1>9
  <2>2. Chained(Block(h.seq, type, from, to), h.seq) \in Store!Following(Intact(f))
    BY <1>1, <1>3, <1>9, <2>1, MeantFollows
  <2>3. QED
    BY <2>1, <2>2
<1>10. next = Idle \/ Carries(next, s, b)
  OBVIOUS
<1> HIDE DEF b
<1>11. Composed(p, s, b, cut, next)
  BY <1>6, <1>7, <1>8, <1>9, <1>10 DEF Composed
<1>12. QED
  BY <1>1, <1>11 DEF Composes

(* A resume from the terminal or from the menu, and a skill's block.        *)
LEMMA OthersCompose ==
  ASSUME IInv, NEW p \in Processes, NEW cut \in WriteCuts,
         \/ \E to \in States \cup {Blocked} : Resume(p, to, cut)
         \/ RecordSkill(p, cut)
  PROVE  Composes
<1>1. ASSUME NEW to \in States \cup {Blocked}, Resume(p, to, cut)
      PROVE  Composes
  <2>1. Meant(hand[p], "session_resumed", Blocked, to)
    BY DEF Meant, Names
  <2>2. /\ hand[p].at # "idle"
        /\ Append1(p, "session_resumed", Blocked, to, cut, Idle)
    BY <1>1 DEF Resume
  <2>3. QED
    BY <2>1, <2>2, AppendComposes
<1>2. CASE RecordSkill(p, cut)
  <2>1. Meant(hand[p], "skill_invoked", None, None)
    BY DEF Meant, Names
  <2>2. /\ hand[p].at # "idle"
        /\ Append1(p, "skill_invoked", None, None, cut, Idle)
    BY <1>2 DEF RecordSkill
  <2>3. QED
    BY <2>1, <2>2, AppendComposes
<1>3. QED
  BY <1>1, <1>2

(* What a run writes.                                                       *)
LEMMA RunComposes ==
  ASSUME IInv, NEW p \in Processes, NEW cut \in WriteCuts, RunWrites(p, cut)
  PROVE  Composes
<1> DEFINE h == hand[p]
<1>1. h \in Hands /\ (h.at # "idle" => h.session \in Sessions /\ Holds(h, File(p)))
  BY DEF IInv, HandOk, File
<1>2. h.at \in {"work", "failed", "judged"} => h.state \in States
  BY <1>1 DEF Holds, Deciding
<1>3. CASE Produce(p, cut)
  <2> DEFINE more == [h EXCEPT !.seq = @ + 1, !.tip = 0]
             b == Chained(Block(h.seq, "artifact_produced", h.state, h.state), h.tip)
  <2>1. h.at \in {"work", "judged"}
        /\ Append1(p, "artifact_produced", h.state, h.state, cut, more)
    BY <1>3 DEF Produce
  <2>2. h.state \in States /\ Meant(h, "artifact_produced", h.state, h.state)
    BY <1>2, <2>1 DEF Meant, Names
  <2>3. Carries(more, h.session, b)
    <3>1. /\ more \in Hands /\ more.at = h.at /\ more.session = h.session
          /\ more.state = h.state /\ more.seq = h.seq + 1
      <4> DEFINE next == h.seq + 1
      <4>1. next \in Nat
        BY <1>1 DEF Hands
      <4>2. more = [h EXCEPT !.seq = next, !.tip = 0]
        OBVIOUS
      <4> HIDE DEF next
      <4>3. /\ more \in Hands /\ more.at = h.at /\ more.session = h.session
            /\ more.state = h.state /\ more.seq = next
        BY <1>1, <4>1, <4>2 DEF Hands
      <4>4. QED
        BY <4>3 DEF next
    <3>2. b.seq = h.seq /\ b.to = h.state
      BY DEF Chained, Block
    <3> HIDE DEF more, b
    <3>3. QED
      BY <2>1, <2>2, <3>1, <3>2 DEF Carries
  <2>4. QED
    BY <2>1, <2>2, <2>3, AppendComposes
<1>4. ASSUME NEW to \in States \cup {Blocked}, Decide(p, to, cut)
      PROVE  Composes
  <2> DEFINE more == IF to = Blocked THEN Idle ELSE Opens("loop", h.session, 0)
             b == Chained(Block(h.seq, "transition", h.state, to), h.tip)
  <2>1. /\ h.at = "judged" \/ (h.at = "failed" /\ to = Blocked)
        /\ Append1(p, "transition", h.state, to, cut, more)
    BY <1>4 DEF Decide
  <2>2. h.state \in States /\ Meant(h, "transition", h.state, to)
    BY <1>2, <2>1 DEF Meant, Names
  <2>3. more = Idle \/ Carries(more, h.session, b)
    <3>1. Opens("loop", h.session, 0) =
            [at |-> "loop", session |-> h.session, state |-> None, seq |-> 0, tip |-> 0]
      BY DEF Opens
    <3>2. h.session \in Sessions
      BY <1>1, <2>1
    <3>3. QED
      BY <3>1, <3>2 DEF Carries, Hands, Deciding
  <2>4. QED
    BY <2>1, <2>2, <2>3, AppendComposes
<1>5. QED
  BY <1>3, <1>4 DEF RunWrites

-----------------------------------------------------------------------------
(* A file that is not UTF-8 is refused, and one that loads can be appended  *)
(* to.                                                                      *)
LEMMA UndecodableRefused ==
  ASSUME NEW f
  PROVE  /\ Undecodable(f) => f.exists /\ ~Loads(f)
         /\ f \in FilesOf(Lines) /\ Loads(f) => CanAppend(f)
<1>1. Undecodable(f) => f.exists /\ ~Loads(f)
  BY DEF Undecodable, Loads
<1>2. ASSUME f \in FilesOf(Lines), Loads(f)
      PROVE  CanAppend(f)
  <2>1. Len(f.lines) \in Nat /\ Len(f.lines) > 0
    BY <1>2, StateTyped
  <2>2. Len(<<>>) = 0
    OBVIOUS
  <2>3. f.lines # <<>>
    BY <2>1, <2>2
  <2>4. QED
    BY <1>2, <2>1, <2>3 DEF CanAppend, Loads
<1>3. QED
  BY <1>1, <1>2

(* A step to another place in the same command.                             *)
LEMMA GotoLooks ==
  ASSUME IInv, NEW p \in Processes, NEW to \in {"actor", "work", "failed", "checks", "judged"},
         NEW state \in States, NEW seq \in Nat, hand[p].at # "idle",
         Loads(File(p)) => /\ seq <= Len(File(p).lines)
                           /\ to \in {"checks", "judged"} /\ seq = Len(File(p).lines)
                                => state = StateIn(File(p)),
         Goto(p, to, state, seq)
  PROVE  Looks
<1> DEFINE h == hand[p]
           moved == [h EXCEPT !.at = to, !.state = state, !.seq = seq]
<1>1. h \in Hands /\ h.session \in Sessions /\ Holds(h, File(p))
  BY DEF IInv, HandOk, File
<1>2. /\ moved \in Hands /\ moved.at = to /\ moved.session = h.session
      /\ moved.state = state /\ moved.seq = seq
  BY <1>1 DEF Hands
<1>3. hand' = [hand EXCEPT ![p] = moved]
  BY DEF Goto, IInv
<1> HIDE DEF moved
<1>4. HandOk(moved)
  BY <1>1, <1>2 DEF HandOk, Holds, File
<1>5. QED
  BY <1>2, <1>3, <1>4 DEF Looks, Goto

(* What a run reads.                                                        *)
LEMMA RunLooks ==
  ASSUME IInv, NEW p \in Processes, RunReads(p)
  PROVE  Looks
<1> DEFINE h == hand[p]
           f == File(p)
           n == Len(f.lines)
<1>1. ASSUME h.at # "idle", Loads(f)
      PROVE  h \in Hands /\ Holds(h, f) /\ n \in Nat /\ n > 0
  <2>1. h \in Hands /\ h.session \in Sessions /\ Holds(h, f)
    BY <1>1 DEF IInv, HandOk, File
  <2>2. f \in FilesOf(Lines)
    BY <2>1 DEF IInv, Sound, File
  <2>3. QED
    BY <1>1, <2>1, <2>2, StateTyped
<1>2. CASE Load(p)
  <2>1. h.at # "idle" /\ Loads(f) /\ StateIn(f) \in States
        /\ Goto(p, "actor", StateIn(f), 0)
    BY <1>2 DEF Load
  <2>2. n \in Nat
    BY <1>1, <2>1
  <2> HIDE DEF n, f
  <2>3. QED
    BY <2>1, <2>2, GotoLooks DEF n, f
<1>3. ASSUME NEW to \in {"work", "failed"}, ActorReturns(p, to)
      PROVE  Looks
  <2>1. h.at = "actor" /\ Loads(f) /\ Goto(p, to, h.state, n)
    BY <1>3 DEF ActorReturns
  <2>2. n \in Nat /\ h.state \in States
    BY <1>1, <2>1 DEF Holds, Deciding
  <2>3. QED
    BY <2>1, <2>2, GotoLooks
<1>4. CASE BeginAttempt(p)
  <2>1. h.at = "work" /\ Loads(f) /\ StateIn(f) \in States
        /\ Goto(p, "checks", StateIn(f), n)
    BY <1>4 DEF BeginAttempt
  <2>2. n \in Nat
    BY <1>1, <2>1
  <2>3. QED
    BY <2>1, <2>2, GotoLooks
<1>5. CASE Judge(p)
  <2>1. h.at = "checks" /\ Loads(f) /\ Goto(p, "judged", h.state, h.seq)
    BY <1>5 DEF Judge
  <2>2. h.seq \in Nat /\ h.state \in States /\ h.seq <= n
        /\ (h.seq = n => h.state = StateIn(f))
    BY <1>1, <2>1 DEF Holds, Deciding, Hands
  <2>3. QED
    BY <2>1, <2>2, GotoLooks
<1>6. QED
  BY <1>2, <1>3, <1>4, <1>5 DEF RunReads

(* How a resume and a skill's block begin.                                  *)
LEMMA BeginLooks ==
  ASSUME IInv, NEW p \in Processes, NEW s \in Sessions,
         BeginResume(p, s) \/ BeginSkill(p, s)
  PROVE  Looks
<1> DEFINE f == files[s]
           n == Len(f.lines)
<1>1. f \in FilesOf(Lines) /\ f.lines \in Seq(Lines)
  BY DEF IInv, Sound, FilesOf
<1>2. ASSUME NEW to \in {"resume", "skill"}, NEW seq \in Nat, n \in Nat, n > 0,
             Loads(f) => seq <= n
      PROVE  Opens(to, s, seq) \in Hands /\ HandOk(Opens(to, s, seq))
  <2>1. Opens(to, s, seq) =
          [at |-> to, session |-> s, state |-> None, seq |-> seq, tip |-> 0]
    BY DEF Opens
  <2>2. QED
    BY <1>2, <2>1 DEF Hands, HandOk, Holds, Deciding
<1>3. CASE BeginResume(p, s)
  <2>1. /\ Loads(f) /\ hand' = [hand EXCEPT ![p] = Opens("resume", s, n)]
        /\ UNCHANGED <<files, acked>>
    BY <1>3 DEF BeginResume
  <2>2. n \in Nat /\ n > 0
    BY <1>1, <2>1, StateTyped
  <2>3. Opens("resume", s, n) \in Hands /\ HandOk(Opens("resume", s, n))
    BY <1>2, <2>2
  <2>4. QED
    BY <2>1, <2>3 DEF Looks
<1>4. CASE BeginSkill(p, s)
  <2> DEFINE last == f.lines[n][1]
  <2>1. /\ CanAppend(f) /\ hand' = [hand EXCEPT ![p] = Opens("skill", s, last.seq + 1)]
        /\ UNCHANGED <<files, acked>>
    BY <1>4 DEF BeginSkill
  <2>2. n \in Nat /\ n > 0
    <3>1. f.lines # <<>>
      BY <2>1 DEF CanAppend
    <3>2. QED
      BY <1>1, <3>1
  <2>3. last \in StoredBlocks
    <3>1. f.lines[n] \in Lines /\ f.lines[n] # Garbled
      BY <1>1, <2>1, <2>2 DEF CanAppend, Parses
    <3>2. PICK b \in StoredBlocks : f.lines[n] = <<b>>
      BY <3>1 DEF Lines
    <3>3. QED
      BY <3>2
  <2>4. last.seq \in Nat
    BY <2>3 DEF StoredBlocks
  <2>5. Loads(f) => last.seq = n - 1
    <3>1. n \in 1..n
      BY <2>2
    <3>2. QED
      BY <1>1, <3>1, AcceptedLines DEF Fits
  <2> HIDE DEF last, n
  <2>6. last.seq + 1 \in Nat /\ (Loads(f) => last.seq + 1 <= n)
    BY <2>2, <2>4, <2>5
  <2>7. Opens("skill", s, last.seq + 1) \in Hands
        /\ HandOk(Opens("skill", s, last.seq + 1))
    BY <1>2, <2>2, <2>6
  <2>8. QED
    BY <2>1, <2>7 DEF Looks
<1>5. QED
  BY <1>3, <1>4

(* The read in append_block, and the end of a command.                      *)
LEMMA TipLooks ==
  ASSUME IInv, NEW p \in Processes, ReadTip(p) \/ Ends(p)
  PROVE  Looks
<1>1. CASE ReadTip(p)
  <2> DEFINE h == hand[p]
             held == [h EXCEPT !.tip = Len(File(p).lines)]
  <2>1. /\ h.at # "idle" /\ hand' = [hand EXCEPT ![p] = held]
        /\ UNCHANGED <<files, acked>>
    BY <1>1 DEF ReadTip, Writing, IInv
  <2>2. h \in Hands /\ HandOk(h)
    BY DEF IInv
  <2>3. Len(File(p).lines) \in Nat
    BY <2>1, <2>2 DEF HandOk, IInv, Sound, FilesOf, File
  <2>4. /\ held \in Hands /\ held.at = h.at /\ held.session = h.session
        /\ held.state = h.state /\ held.seq = h.seq
    BY <2>2, <2>3 DEF Hands
  <2> HIDE DEF held
  <2>5. HandOk(held)
    BY <2>2, <2>4 DEF HandOk, Holds
  <2>6. QED
    BY <2>1, <2>4, <2>5 DEF Looks
<1>2. CASE Ends(p)
  <2>1. hand' = [hand EXCEPT ![p] = Idle] /\ UNCHANGED <<files, acked>>
    BY <1>2 DEF Ends
  <2>2. Idle \in Hands /\ HandOk(Idle)
    BY DEF Idle, Hands, HandOk
  <2>3. QED
    BY <2>1, <2>2 DEF Looks
<1>3. QED
  BY <1>1, <1>2

-----------------------------------------------------------------------------
(* The menu's list of workflows.  Each directory has a place of its own in  *)
(* the order, and there are as many places as directories: so every place   *)
(* is taken.                                                                *)
LEMMA EveryPlaceTaken ==
  ASSUME versions \subseteq Versions, NEW k \in 1..Cardinality(versions)
  PROVE  \E v \in versions : Cardinality(Newer(v)) = k - 1
<1> DEFINE n == Cardinality(versions)
           place == [v \in versions |-> Cardinality(Newer(v))]
           Others == (0..n - 1) \ {k - 1}
<1>1. IsFiniteSet(versions) /\ n \in Nat
  BY DeskAssumption, FS_Subset, FS_CardinalityType DEF DeskAssumption
<1>2. ASSUME NEW v \in versions
      PROVE  IsFiniteSet(Newer(v)) /\ place[v] \in 0..n - 1
  <2>1. SortKey[v] \in Nat
    BY DeskAssumption DEF DeskAssumption
  <2>2. Newer(v) \subseteq versions \ {v}
    BY <2>1 DEF Newer
  <2>3. IsFiniteSet(versions \ {v}) /\ Cardinality(versions \ {v}) = n - 1
    BY <1>1, FS_RemoveElement
  <2>4. IsFiniteSet(Newer(v)) /\ Cardinality(Newer(v)) <= n - 1
    BY <2>2, <2>3, FS_Subset
  <2>5. Cardinality(Newer(v)) \in Nat
    BY <2>4, FS_CardinalityType
  <2>6. QED
    BY <1>1, <2>4, <2>5
<1>3. ASSUME NEW v \in versions, NEW w \in versions, SortKey[v] < SortKey[w]
      PROVE  place[v] # place[w]
  <2>1. SortKey[v] \in Nat /\ SortKey[w] \in Nat
    BY DeskAssumption DEF DeskAssumption
  <2>2. Newer(w) \subseteq Newer(v) /\ w \in Newer(v) /\ w \notin Newer(w)
    <3>1. \A u \in versions : SortKey[u] \in Nat
      BY DeskAssumption DEF DeskAssumption
    <3> HIDE DEF place
    <3>2. QED
      BY <1>3, <3>1 DEF Newer
  <2>3. Newer(w) # Newer(v)
    BY <2>2
  <2>4. Cardinality(Newer(w)) # Cardinality(Newer(v))
    BY <1>2, <2>2, <2>3, FS_Subset
  <2>5. QED
    BY <2>4
<1>4. ASSUME NEW v \in versions, NEW w \in versions, v # w
      PROVE  place[v] # place[w]
  <2>1. /\ SortKey[v] \in Nat /\ SortKey[w] \in Nat
        /\ SortKey[v] # SortKey[w]
    BY <1>4, DeskAssumption DEF DeskAssumption
  <2>2. CASE SortKey[v] < SortKey[w]
    BY <1>3, <2>2
  <2>3. CASE SortKey[w] < SortKey[v]
    BY <1>3, <2>3
  <2>4. QED
    BY <2>1, <2>2, <2>3
<1>5. IsFiniteSet(Others) /\ Cardinality(Others) = n - 1
  <2>1. k - 1 \in 0..n - 1
    BY <1>1
  <2> HIDE DEF n
  <2>2. n - 1 \in Int /\ (0 > n - 1 => n = 0)
    BY <1>1
  <2>3. IsFiniteSet(0..n - 1) /\ Cardinality(0..n - 1) = n
    BY <1>1, <2>2, FS_Interval
  <2>4. QED
    BY <2>1, <2>3, FS_RemoveElement
<1>6. SUFFICES ASSUME \A v \in versions : place[v] # k - 1
               PROVE  FALSE
  OBVIOUS
<1>7. place \in [versions -> Others]
  BY <1>2, <1>6
<1> HIDE DEF place, Others
<1>8. \E v, w \in versions : v # w /\ place[v] = place[w]
  BY <1>1, <1>5, <1>7, FS_PigeonHole
<1>9. QED
  BY <1>4, <1>8

(* So the list holds directories there are, ...                             *)
LEMMA ListedVersions ==
  ASSUME versions \subseteq Versions
  PROVE  /\ Cardinality(versions) \in Nat
         /\ DOMAIN Listed = 1..Cardinality(versions)
         /\ Len(Listed) = Cardinality(versions)
         /\ \A i \in 1..Len(Listed) : Listed[i] \in versions
<1>1. Cardinality(versions) \in Nat
  BY DeskAssumption, FS_Subset, FS_CardinalityType DEF DeskAssumption
<1>2. \A i \in 1..Cardinality(versions) : Listed[i] \in versions
  BY EveryPlaceTaken DEF Listed
<1>3. DOMAIN Listed = 1..Cardinality(versions)
  BY DEF Listed
<1>4. Listed \in [1..Cardinality(versions) -> versions]
  BY <1>2 DEF Listed
<1>5. Len(Listed) = Cardinality(versions)
  BY <1>1, <1>4
<1>6. QED
  BY <1>1, <1>2, <1>3, <1>5

(* ... and the first one is the newest.                                     *)
LEMMA ResolvedNewest ==
  ASSUME versions \subseteq Versions, versions # {}
  PROVE  /\ Resolved \in versions
         /\ \A v \in versions : SortKey[Resolved] >= SortKey[v]
<1>1. IsFiniteSet(versions)
  BY DeskAssumption, FS_Subset DEF DeskAssumption
<1>2. Cardinality(versions) \in Nat /\ Cardinality(versions) # 0
  BY <1>1, FS_EmptySet, FS_CardinalityType
<1>3. 1 \in 1..Cardinality(versions)
  BY <1>2
<1>4. \E v \in versions : Cardinality(Newer(v)) = 1 - 1
  BY <1>3, EveryPlaceTaken
<1>5. Resolved \in versions /\ Cardinality(Newer(Resolved)) = 0
  BY <1>3, <1>4 DEF Resolved, Listed
<1>6. Newer(Resolved) \subseteq versions
  BY DEF Newer
<1>7. IsFiniteSet(Newer(Resolved))
  BY <1>1, <1>6, FS_Subset
<1>8. Newer(Resolved) = {}
  BY <1>5, <1>7, FS_EmptySet
<1>9. \A v \in versions : SortKey[v] \in Nat
  BY DeskAssumption DEF DeskAssumption
<1>10. QED
  BY <1>5, <1>8, <1>9 DEF Newer

-----------------------------------------------------------------------------
Existing == {s \in Sessions : files[s].exists}

Refused(s) == files[s].exists /\ ~Loads(files[s])

(* What a list that was read before still says truly: the directories it    *)
(* shows are there, so are the sessions, and one it marks is refused.       *)
ListsTrue ==
  /\ Len(menu.workflows) \in Nat
  /\ DOMAIN menu.workflows = 1..Len(menu.workflows)
  /\ \A i \in 1..Len(menu.workflows) : menu.workflows[i] \in versions
  /\ Len(menu.sessions) \in Nat
  /\ DOMAIN menu.sessions = 1..Len(menu.sessions)
  /\ \A i \in DOMAIN menu.sessions :
       /\ menu.sessions[i] \in Entries
       /\ menu.sessions[i].id \in Existing
       /\ ~menu.sessions[i].valid => Refused(menu.sessions[i].id)

Places ==
  {"list", "shown", "submenu", "resume", "resuming", "running", "crashed"}

Targets(place) ==
  IF place \in {"resume", "resuming"} THEN States \cup {Blocked} ELSE {None}

MenuInv ==
  /\ versions \subseteq Versions
  /\ IsFiniteSet(Existing)
  /\ ListsTrue
  /\ at \in Places
  /\ chosen \in Sessions \cup {None}
  /\ target \in Targets(at)
  /\ at \in {"submenu", "resume", "resuming"} => chosen \in Existing
  /\ at = "crashed" => \E s \in Sessions : Refused(s)

(* Every step writes one block, or only reads.                              *)
LEMMA StepKinds ==
  ASSUME IInv, MenuInv, [Next]_vars
  PROVE  Composes \/ Looks \/ UNCHANGED fileVars
<1> DEFINE Kind == Composes \/ Looks \/ UNCHANGED fileVars
<1>1. ASSUME NEW p \in Elsewhere, NEW s \in Sessions, NEW cut \in WriteCuts,
             NEW goes \in BOOLEAN, Run(p, s, cut, goes)
      PROVE  Kind
  BY <1>1, CreateComposes DEF Run, Elsewhere
<1>2. ASSUME NEW p \in Elsewhere, NEW s \in Sessions, Begins(p, s)
      PROVE  Kind
  BY <1>2, BeginLooks DEF Begins, Elsewhere
<1>3. ASSUME NEW p \in Elsewhere, Reads(p)
      PROVE  Kind
  BY <1>3, RunLooks, TipLooks DEF Reads, Elsewhere
<1>4. ASSUME NEW p \in Elsewhere, NEW cut \in WriteCuts, Writes(p, cut)
      PROVE  Kind
  BY <1>4, RunComposes, OthersCompose DEF Writes, Elsewhere
<1>5. ASSUME NEW number \in Numbers, NEW s \in Sessions, NEW cut \in WriteCuts,
             NEW goes \in BOOLEAN, ChooseWorkflow(number, s, cut, goes)
      PROVE  Kind
  BY <1>5, CreateComposes, DeskAssumption DEF ChooseWorkflow, DeskAssumption
<1>6. CASE MenuBeginsResume
  <2>1. BeginResume(Menu, chosen) /\ chosen \in Sessions
    BY <1>6 DEF MenuBeginsResume, MenuInv, Existing
  <2>2. QED
    BY <2>1, BeginLooks, DeskAssumption DEF DeskAssumption
<1>7. CASE MenuCannotResume \/ CommandEnds
  <2>1. Ends(Menu) \/ UNCHANGED fileVars
    BY <1>7 DEF MenuCannotResume, CommandEnds
  <2>2. QED
    BY <2>1, TipLooks, DeskAssumption DEF DeskAssumption
<1>8. CASE MenuReads
  BY <1>8, RunLooks, TipLooks, DeskAssumption DEF MenuReads, DeskAssumption
<1>9. ASSUME NEW cut \in WriteCuts, MenuResumes(cut)
      PROVE  Kind
  <2>1. Resume(Menu, target, cut) /\ target \in States \cup {Blocked}
    BY <1>9 DEF MenuResumes, MenuInv, Targets
  <2>2. QED
    BY <2>1, OthersCompose, DeskAssumption DEF DeskAssumption
<1>10. ASSUME NEW cut \in WriteCuts, MenuWrites(cut)
       PROVE  Kind
  BY <1>10, RunComposes, DeskAssumption DEF MenuWrites, DeskAssumption
<1>11. CASE \/ \E v \in Versions : AddVersion(v)
            \/ \E number \in Numbers : ChooseSession(number)
            \/ Build \/ Quit \/ ShowLog \/ ChooseResume \/ MenuCannotBegin
  BY <1>11 DEF AddVersion, ChooseSession, Build, Quit, ShowLog, ChooseResume,
               MenuCannotBegin
<1>12. CASE UNCHANGED vars
  BY <1>12 DEF vars, fileVars
<1>13. QED
  BY <1>1, <1>2, <1>3, <1>4, <1>5, <1>6, <1>7, <1>8, <1>9, <1>10, <1>11, <1>12
  DEF Next

(* So every step keeps the files sound.                                     *)
LEMMA FilesStep == IInv /\ MenuInv /\ [Next]_vars => IInv'
BY StepKinds, ComposedKeeps, LooksKeep DEF Composes

(* What happens around the menu: sessions and directories are only added,   *)
(* and a refused journal stays refused.                                     *)
Around ==
  /\ Existing \subseteq Existing'
  /\ IsFiniteSet(Existing')
  /\ \A s \in Sessions : Refused(s) => Refused(s)'
  /\ versions \subseteq versions' /\ versions' \subseteq Versions

(* Directories are only added.                                              *)
LEMMA VersionsGrow ==
  ASSUME [Next]_vars, versions \subseteq Versions
  PROVE  versions \subseteq versions' /\ versions' \subseteq Versions
BY DEF Next, vars, Run, Begins, Reads, Writes, AddVersion, Build, Quit,
       ChooseWorkflow, ChooseSession, ShowLog, ChooseResume, MenuBeginsResume,
       MenuCannotBegin, MenuResumes, MenuCannotResume, MenuReads, MenuWrites,
       CommandEnds

(* A write leaves its file behind and no other new one, and a refused       *)
(* journal refused.                                                         *)
LEMMA WritesAdd ==
  ASSUME IInv, NEW p \in Processes, NEW s \in Sessions, NEW cut \in WriteCuts,
         NEW b, NEW next, Composed(p, s, b, cut, next)
  PROVE  /\ Existing' = Existing \cup {s}
         /\ \A r \in Sessions : Refused(r) => Refused(r)'
<1> DEFINE f == files[s]
           g == files'[s]
<1>1. /\ files' = [files EXCEPT ![s] = g] /\ g.exists
      /\ \/ Adds(f, g, b) \/ Spoils(f, g, acked[s]) \/ Refuses(f, g)
         \/ Stays(f, g)
  BY ComposedWrites
<1>2. \A r \in Sessions \ {s} : files'[r] = files[r]
  BY <1>1 DEF IInv
<1>3. Refused(s) => Refused(s)'
  BY <1>1 DEF Refused, Adds, Spoils, Refuses, Stays, Fresh, NoFile
<1>4. \A r \in Sessions : Refused(r) => Refused(r)'
  BY <1>2, <1>3 DEF Refused
<1>5. Existing' = Existing \cup {s}
  BY <1>1, <1>2 DEF Existing
<1>6. QED
  BY <1>4, <1>5

(* Every step is of that kind.                                              *)
LEMMA AroundHolds ==
  ASSUME IInv, MenuInv, [Next]_vars
  PROVE  Around
<1>1. versions \subseteq versions' /\ versions' \subseteq Versions
  BY VersionsGrow DEF MenuInv
<1>2. CASE Composes
  <2>1. PICK s \in Sessions :
          /\ Existing' = Existing \cup {s}
          /\ \A r \in Sessions : Refused(r) => Refused(r)'
    BY <1>2, WritesAdd DEF Composes
  <2>2. QED
    BY <1>1, <2>1, FS_AddElement DEF Around, MenuInv
<1>3. CASE UNCHANGED files
  BY <1>1, <1>3 DEF Around, MenuInv, Existing, Refused
<1>4. QED
  BY <1>2, <1>3, StepKinds DEF Looks, fileVars

(* A list that is kept stays true, and so does the empty one.               *)
LEMMA ListsStay ==
  ASSUME MenuInv, Around, menu' = menu \/ menu' = NoMenu
  PROVE  ListsTrue'
<1>1. CASE menu' = menu
  BY <1>1 DEF MenuInv, ListsTrue, Around, Existing
<1>2. CASE menu' = NoMenu
  <2>1. Len(<<>>) = 0 /\ DOMAIN <<>> = 1..0
    OBVIOUS
  <2>2. QED
    BY <1>2, <2>1 DEF NoMenu, ListsTrue
<1>3. QED
  BY <1>1, <1>2

(* The steps that leave the menu where it is.                               *)
LEMMA AsideKeeps ==
  ASSUME MenuInv, Around, UNCHANGED menuVars
  PROVE  MenuInv'
<1>1. ListsTrue'
  BY ListsStay DEF menuVars
<1>2. QED
  BY <1>1 DEF MenuInv, Around, menuVars

(* Going to another place of the menu.                                      *)
LEMMA EnterKeeps ==
  ASSUME MenuInv, Around, NEW label \in Places, NEW session, NEW state,
         Enter(label, session, state),
         session \in Sessions \cup {None}, state \in Targets(label),
         label \in {"submenu", "resume", "resuming"} => session \in Existing,
         label = "crashed" => \E s \in Sessions : Refused(s)
  PROVE  MenuInv'
<1>1. ListsTrue'
  BY ListsStay DEF Enter
<1>2. QED
  BY <1>1 DEF MenuInv, Around, Enter

(* Going back to the list, waiting for a run, a traceback.                  *)
LEMMA LeaveKeeps ==
  ASSUME MenuInv, Around,
         \/ Leave("running") \/ Leave("list")
         \/ Leave("crashed") /\ \E s \in Sessions : Refused(s)
  PROVE  MenuInv'
BY EnterKeeps DEF Leave, Places, Targets

(* build_menu lists what there is.                                          *)
LEMMA BuildKeeps ==
  ASSUME IInv, MenuInv, Around, Build
  PROVE  MenuInv'
<1>1. UNCHANGED <<files, versions, chosen, target>>
      /\ at \in {"list", "crashed"} /\ at' \in {"crashed", "shown"}
  BY DEF Build, fileVars
<1>2. CASE \E s \in Sessions : Undecodable(files[s])
  <2>1. at' = "crashed" /\ menu' = menu
    BY <1>2 DEF Build
  <2>2. ListsTrue'
    BY <2>1, ListsStay
  <2>3. \E s \in Sessions : Refused(s)
    BY <1>2, UndecodableRefused DEF Refused
  <2>4. QED
    BY <1>1, <2>1, <2>2, <2>3 DEF MenuInv, Around, Places, Targets, Refused
<1>3. CASE ~\E s \in Sessions : Undecodable(files[s])
  <2>1. at' = "shown"
    BY <1>3 DEF Build
  <2>2. PICK order \in SetToSeqs({s \in Sessions : files[s].exists}) :
          menu' = [workflows |-> Listed,
                   sessions |-> [i \in DOMAIN order |->
                                   [id |-> order[i], valid |-> Loads(files[order[i]])]]]
    BY <1>3 DEF Build
  <2> DEFINE n == Cardinality(Existing)
             shown == [i \in DOMAIN order |->
                         [id |-> order[i], valid |-> Loads(files[order[i]])]]
  <2>3. order \in [1..n -> Existing] /\ n \in Nat
    BY <2>2, FS_CardinalityType DEF SetToSeqs, Existing, MenuInv
  <2>4. menu'.workflows = Listed /\ menu'.sessions = shown
    BY <2>2
  <2> HIDE DEF n
  <2>5. DOMAIN shown = 1..n
    BY <2>3
  <2>6. Len(shown) = n
    BY <2>3, <2>5
  <2>7. \A i \in 1..n :
          /\ shown[i] \in Entries
          /\ shown[i].id \in Existing
          /\ ~shown[i].valid => Refused(shown[i].id)
    <3> SUFFICES ASSUME NEW i \in 1..n
                 PROVE  /\ shown[i] \in Entries
                        /\ shown[i].id \in Existing
                        /\ ~shown[i].valid => Refused(shown[i].id)
      OBVIOUS
    <3>1. shown[i] = [id |-> order[i], valid |-> Loads(files[order[i]])]
      BY <2>3
    <3>2. Loads(files[order[i]]) \in BOOLEAN
      BY DEF Loads
    <3>3. QED
      BY <2>3, <3>1, <3>2 DEF Existing, Refused, Entries
  <2>8. /\ Len(Listed) \in Nat
        /\ DOMAIN Listed = 1..Len(Listed)
        /\ \A i \in 1..Len(Listed) : Listed[i] \in versions
    BY ListedVersions DEF MenuInv
  <2>9. Existing' = Existing /\ \A s : Refused(s)' = Refused(s)
    BY <1>1 DEF Existing, Refused
  <2> HIDE DEF shown
  <2>10. ListsTrue'
    BY <1>1, <2>3, <2>4, <2>5, <2>6, <2>7, <2>8, <2>9 DEF ListsTrue
  <2>11. QED
    BY <1>1, <2>1, <2>10 DEF MenuInv, Around, Places, Targets
<1>4. QED
  BY <1>2, <1>3

(* Choosing a session opens the submenu of one there is.                    *)
LEMMA ChooseSessionKeeps ==
  ASSUME MenuInv, Around, NEW number, ChooseSession(number)
  PROVE  MenuInv'
<1> DEFINE n == Len(menu.workflows)
           m == Len(menu.sessions)
<1>1. n \in Nat /\ m \in Nat /\ DOMAIN menu.sessions = 1..m
  BY DEF MenuInv, ListsTrue
<1>2. number \in n + 1 .. n + m
  BY DEF ChooseSession
<1>3. number - n \in 1..m
  <2> HIDE DEF n, m
  <2>1. QED
    BY <1>1, <1>2
<1>4. SessionAt(number) \in Existing
  BY <1>1, <1>3 DEF MenuInv, ListsTrue, SessionAt
<1>5. Enter("submenu", SessionAt(number), None)
  BY DEF ChooseSession
<1>6. SessionAt(number) \in Sessions
  BY <1>4 DEF Existing
<1>7. QED
  BY <1>4, <1>5, <1>6, EnterKeeps DEF Places, Targets

(* A resume from the menu goes to a state or to blocked.                    *)
LEMMA LastStateIs ==
  ASSUME IInv, NEW s \in Sessions, Loads(files[s])
  PROVE  LastState(s) \in States \cup {Blocked}
<1>1. files[s] \in FilesOf(Lines)
  BY DEF IInv, Sound
<1>2. StateIn(files[s]) \in Names
  BY <1>1, StateTyped
<1>3. QED
  BY <1>2 DEF LastState, Names

(* In the submenu and after it the session may have been damaged since it   *)
(* was listed: a traceback then blames a session that is refused.           *)
LEMMA SubmenuKeeps ==
  ASSUME IInv, MenuInv, Around,
         \/ ShowLog \/ ChooseResume \/ MenuBeginsResume \/ MenuCannotBegin
         \/ MenuCannotResume
  PROVE  MenuInv'
<1>1. chosen \in Existing /\ chosen \in Sessions
  BY DEF ShowLog, ChooseResume, MenuBeginsResume, MenuCannotBegin, MenuCannotResume,
         MenuInv, Existing
<1> DEFINE f == files[chosen]
<1>2. f.exists /\ f \in FilesOf(Lines)
  BY <1>1 DEF Existing, IInv, Sound
<1>3. ASSUME ~Loads(f)
      PROVE  \E s \in Sessions : Refused(s)
  BY <1>1, <1>2, <1>3 DEF Refused
<1>4. CASE ShowLog
  <2>1. Leave("list") \/ (Leave("crashed") /\ Undecodable(f))
    BY <1>4 DEF ShowLog
  <2>2. Undecodable(f) => ~Loads(f)
    BY UndecodableRefused
  <2>3. QED
    BY <1>3, <2>1, <2>2, LeaveKeeps
<1>5. CASE ChooseResume
  <2>1. CASE Loads(f)
    <3>1. Enter("resume", chosen, LastState(chosen))
      BY <1>5, <2>1 DEF ChooseResume
    <3>2. LastState(chosen) \in States \cup {Blocked}
      BY <1>1, <2>1, LastStateIs
    <3>3. QED
      BY <1>1, <3>1, <3>2, EnterKeeps DEF Places, Targets
  <2>2. CASE ~Loads(f)
    <3>1. Leave("crashed")
      BY <1>5, <2>2 DEF ChooseResume
    <3>2. QED
      BY <1>3, <2>2, <3>1, LeaveKeeps
  <2>3. QED
    BY <2>1, <2>2
<1>6. CASE MenuBeginsResume
  <2>1. Enter("resuming", chosen, target) /\ target \in States \cup {Blocked}
    BY <1>6 DEF MenuBeginsResume, MenuInv, Targets
  <2>2. QED
    BY <1>1, <2>1, EnterKeeps DEF Places, Targets
<1>7. CASE MenuCannotBegin
  <2>1. ~Loads(f) /\ (Leave("crashed") \/ Leave("list"))
    BY <1>7 DEF MenuCannotBegin
  <2>2. QED
    BY <1>3, <2>1, LeaveKeeps
<1>8. CASE MenuCannotResume
  <2>1. ~CanAppend(f) /\ Leave("crashed")
    BY <1>8 DEF MenuCannotResume
  <2>2. ~Loads(f)
    BY <1>2, <2>1, UndecodableRefused
  <2>3. QED
    BY <1>3, <2>1, <2>2, LeaveKeeps
<1>9. QED
  BY <1>4, <1>5, <1>6, <1>7, <1>8

(* No session exists at first, no process has begun, no menu is shown.      *)
LEMMA InitHolds == Init => IInv /\ MenuInv
<1> SUFFICES ASSUME Init
             PROVE  IInv /\ MenuInv
  OBVIOUS
<1>1. Sound(NoFile, {})
  <2>1. NoFile \in FilesOf(Lines)
    BY DEF NoFile, FilesOf
  <2>2. NoFile.ended /\ NoFile.utf8 /\ ~NoFile.exists
    BY DEF NoFile
  <2>3. QED
    BY <2>1, <2>2 DEF Sound
<1>2. Idle \in Hands /\ HandOk(Idle)
  BY DEF Idle, Hands, HandOk
<1>3. IInv
  BY <1>1, <1>2 DEF Init, IInv
<1>4. Len(<<>>) = 0 /\ DOMAIN <<>> = 1..0
  OBVIOUS
<1>5. ListsTrue
  BY <1>4 DEF Init, NoMenu, ListsTrue
<1>6. Existing = {}
  BY DEF Init, Existing, NoFile
<1>7. MenuInv
  BY <1>5, <1>6, FS_EmptySet DEF Init, MenuInv, Places, Targets
<1>8. QED
  BY <1>3, <1>7

(* Every step keeps what the menu relies on.                                *)
LEMMA MenuStep == IInv /\ MenuInv /\ [Next]_vars => MenuInv'
<1> SUFFICES ASSUME IInv, MenuInv, [Next]_vars
             PROVE  MenuInv'
  OBVIOUS
<1>1. Around
  BY AroundHolds
<1>2. ASSUME UNCHANGED menuVars
      PROVE  MenuInv'
  BY <1>1, <1>2, AsideKeeps
<1>3. ASSUME NEW p \in Elsewhere,
             \/ \E s \in Sessions :
                  \/ \E cut \in WriteCuts, goes \in BOOLEAN : Run(p, s, cut, goes)
                  \/ Begins(p, s)
             \/ Reads(p)
             \/ \E cut \in WriteCuts : Writes(p, cut)
      PROVE  MenuInv'
  BY <1>2, <1>3 DEF Run, Begins, Reads, Writes
<1>4. CASE \E v \in Versions : AddVersion(v)
  BY <1>2, <1>4 DEF AddVersion
<1>5. CASE Build
  BY <1>1, <1>5, BuildKeeps
<1>6. ASSUME NEW number \in Numbers, NEW s \in Sessions, NEW cut \in WriteCuts,
             NEW goes \in BOOLEAN, ChooseWorkflow(number, s, cut, goes)
      PROVE  MenuInv'
  <2>1. Leave("running") \/ Leave("list")
    BY <1>6 DEF ChooseWorkflow
  <2>2. QED
    BY <1>1, <2>1, LeaveKeeps
<1>7. ASSUME NEW number \in Numbers, ChooseSession(number)
      PROVE  MenuInv'
  BY <1>1, <1>7, ChooseSessionKeeps
<1>8. CASE \/ ShowLog \/ ChooseResume \/ MenuBeginsResume \/ MenuCannotBegin
           \/ MenuCannotResume
  BY <1>1, <1>8, SubmenuKeeps
<1>9. ASSUME \/ Quit \/ CommandEnds
             \/ \E cut \in WriteCuts : MenuResumes(cut) \/ MenuWrites(cut)
      PROVE  MenuInv'
  <2>1. Leave("list") \/ UNCHANGED menuVars
    BY <1>9 DEF Quit, CommandEnds, MenuResumes, MenuWrites
  <2>2. QED
    BY <1>1, <1>2, <2>1, LeaveKeeps
<1>10. CASE MenuReads
  BY <1>2, <1>10 DEF MenuReads
<1>11. CASE UNCHANGED vars
  BY <1>2, <1>11 DEF vars, menuVars
<1>12. QED
  BY <1>3, <1>4, <1>5, <1>6, <1>7, <1>8, <1>9, <1>10, <1>11 DEF Next

-----------------------------------------------------------------------------
(* However the terminals and the menu get in each other's way, and wherever *)
(* their writes are cut: every file stays sound, so that a journal that is  *)
(* accepted holds what its writers were told; nobody's number is ahead of   *)
(* it; and what the menu's lists say stays true.                            *)
LEMMA Soundness == Spec => [](IInv /\ MenuInv)
BY InitHolds, FilesStep, MenuStep, PTL DEF Spec

(* As long as load_journal accepts a journal it returns every block whose   *)
(* append returned.                                                         *)
THEOREM NothingLost == Spec => []NothingLostSilently
<1>1. IInv => NothingLostSilently
  <2> SUFFICES ASSUME IInv, NEW s \in Sessions, Loads(files[s]), NEW b \in acked[s]
               PROVE  b \in Readable(s)
    BY DEF NothingLostSilently
  <2> DEFINE f == files[s]
             n == Len(f.lines)
  <2>1. Sound(f, acked[s]) /\ f \in FilesOf(Lines)
    BY DEF IInv, Sound
  <2>2. Intact(f) = Blocks(f, n) /\ n \in Nat
    BY <2>1, AcceptedLines, StateTyped
  <2>3. PICK i \in 1..Settled(f) : f.lines[i] = <<b>>
    BY <2>1 DEF Sound
  <2>4. i \in 1..n /\ f.lines[i][1] = b
    BY <2>2, <2>3 DEF Settled
  <2>5. i \in DOMAIN Intact(f) /\ Intact(f)[i] = b
    BY <2>2, <2>4 DEF Blocks
  <2>6. QED
    BY <2>5 DEF Readable, Range
<1>2. QED
  BY <1>1, Soundness, PTL

(* Once load_journal refuses a journal it refuses it for good, and reads    *)
(* the same before the damage, whoever still appends to it.                 *)
THEOREM RefusedStaysRefused == Spec => RefusedForGood
<1> DEFINE Same(s) ==
             \/ UNCHANGED files[s]
             \/ files[s].exists /\ ~Loads(files[s])
                  => ~Loads(files[s])' /\ Intact(files[s])' = Intact(files[s])
<1>1. IInv /\ MenuInv /\ [Next]_vars => [\A s \in Sessions : Same(s)]_vars
  <2> SUFFICES ASSUME IInv, MenuInv, [Next]_vars, NEW s \in Sessions
               PROVE  Same(s)
    OBVIOUS
  <2>1. CASE UNCHANGED files
    BY <2>1
  <2>2. ASSUME NEW p \in Processes, NEW r \in Sessions, NEW cut \in WriteCuts,
               NEW b, NEW next, Composed(p, r, b, cut, next)
        PROVE  Same(s)
    <3>1. /\ files' = [files EXCEPT ![r] = files'[r]]
          /\ \/ Adds(files[r], files'[r], b) \/ Spoils(files[r], files'[r], acked[r])
             \/ Refuses(files[r], files'[r]) \/ Stays(files[r], files'[r])
      BY <2>2, ComposedWrites
    <3>2. CASE r = s
      BY <3>1, <3>2 DEF Adds, Spoils, Refuses, Stays, Fresh, NoFile
    <3>3. CASE r # s
      BY <3>1, <3>3 DEF IInv
    <3>4. QED
      BY <3>2, <3>3
  <2>3. QED
    BY <2>1, <2>2, StepKinds DEF Composes, Looks, fileVars
<1>2. QED
  BY <1>1, Soundness, PTL DEF Spec, RefusedForGood

(* A block that was told of and that a load could return, or would before   *)
(* the damage, is never taken away.                                         *)
THEOREM ReadableForGood == Spec => ReadableStaysReadable
<1> DEFINE Stay(s) ==
             \/ UNCHANGED files[s]
             \/ acked[s] \cap Readable(s) \subseteq Readable(s)'
<1>1. IInv /\ MenuInv /\ [Next]_vars
        => [\A s \in Sessions :
              UNCHANGED files[s] \/ acked[s] \cap Readable(s) \subseteq Readable(s)']_vars
  <2> SUFFICES ASSUME IInv, MenuInv, [Next]_vars, NEW s \in Sessions
               PROVE  Stay(s)
    OBVIOUS
  <2>1. CASE UNCHANGED files
    BY <2>1
  <2>2. ASSUME NEW p \in Processes, NEW r \in Sessions, NEW cut \in WriteCuts,
               NEW b, NEW next, Composed(p, r, b, cut, next)
        PROVE  Stay(s)
    <3> DEFINE f == files[r]
               g == files'[r]
               j == Intact(f)
               k == Intact(g)
    <3>1. /\ files' = [files EXCEPT ![r] = g]
          /\ Sound(f, acked[r])
          /\ \/ Adds(f, g, b) \/ Spoils(f, g, acked[r]) \/ Refuses(f, g) \/ Stays(f, g)
      BY <2>2, ComposedWrites
    <3>2. CASE s # r
      BY <3>1, <3>2 DEF IInv
    <3>3. ASSUME Adds(f, g, b) \/ Spoils(f, g, acked[r]),
                 NEW c \in acked[r], c \in Range(j)
          PROVE  c \in Range(k)
      <4>1. f \in FilesOf(Lines) /\ (f = NoFile \/ Loads(f))
        BY <3>1, <3>3 DEF Sound, Adds, Spoils, Fresh
      <4>2. Len(f.lines) \in Nat
        BY <4>1 DEF FilesOf
      <4>3. PICK T : j \in Seq(T)
        BY <4>1, <4>2, AcceptedLines, BlocksSeq
      <4>4. PICK i \in DOMAIN j : j[i] = c
        BY <3>3 DEF Range
      <4> HIDE DEF j, k
      <4>5. i \in 1..Len(j) /\ Len(j) \in Nat
        BY <4>3, <4>4
      <4>6. CASE k = Append(j, b)
        <5>1. i \in DOMAIN k /\ k[i] = c
          BY <4>3, <4>4, <4>5, <4>6
        <5>2. QED
          BY <5>1 DEF Range
      <4>7. CASE k = j
        BY <3>3, <4>7
      <4>8. CASE /\ j[Len(j)] \notin acked[r]
                 /\ k = SubSeq(j, 1, Len(j) - 1)
        <5>1. i # Len(j)
          BY <3>3, <4>4, <4>8
        <5>2. i \in 1..Len(j) - 1
          BY <4>5, <5>1
        <5>3. i \in DOMAIN k /\ k[i] = c
          BY <4>3, <4>4, <4>5, <4>8, <5>2
        <5>4. QED
          BY <5>3 DEF Range
      <4>9. QED
        BY <3>3, <4>6, <4>7, <4>8 DEF Adds, Spoils, j, k
    <3>4. CASE s = r
      <4>1. CASE Refuses(f, g) \/ Stays(f, g)
        BY <3>4, <4>1 DEF Refuses, Stays, Readable
      <4>2. CASE Adds(f, g, b) \/ Spoils(f, g, acked[r])
        BY <3>3, <3>4, <4>2 DEF Readable
      <4>3. QED
        BY <3>1, <4>1, <4>2
    <3>5. QED
      BY <3>2, <3>4
  <2>3. QED
    BY <2>1, <2>2, StepKinds DEF Composes, Looks, fileVars
<1>2. QED
  BY <1>1, Soundness, PTL DEF Spec, ReadableStaysReadable

(* However long ago the menu was listed, a session it marks as invalid is   *)
(* refused, and it never ends in a traceback unless some session is.        *)
THEOREM MenuIsTruthful == Spec => []MenuTellsDamage
<1>1. MenuInv => MenuTellsDamage
  BY DEF MenuInv, ListsTrue, MenuTellsDamage, Refused
<1>2. QED
  BY <1>1, Soundness, PTL

(* Whatever directories are added meanwhile, no lower version runs than one *)
(* shown whose number has as many digits.                                   *)
THEOREM NewestRuns == Spec => []NeverOlderThanShown
<1>1. MenuInv => NeverOlderThanShown
  <2> SUFFICES ASSUME MenuInv, NEW number \in 1..Len(menu.workflows),
                      Digits[Resolved] = Digits[menu.workflows[number]]
               PROVE  Resolved >= menu.workflows[number]
    BY DEF NeverOlderThanShown
  <2> DEFINE shown == menu.workflows[number]
  <2>1. shown \in versions /\ versions \subseteq Versions
    BY DEF MenuInv, ListsTrue
  <2>2. Resolved \in versions /\ SortKey[Resolved] >= SortKey[shown]
    BY <2>1, ResolvedNewest
  <2> DEFINE run == Resolved
  <2>3. /\ run \in Nat /\ shown \in Nat
        /\ SortKey[run] \in Nat /\ SortKey[shown] \in Nat
        /\ run < shown <=> SortKey[run] < SortKey[shown]
    BY <2>1, <2>2, DeskAssumption DEF DeskAssumption
  <2> HIDE DEF shown, run
  <2>4. run >= shown
    BY <2>2, <2>3 DEF run
  <2>5. QED
    BY <2>4 DEF shown, run
<1>2. QED
  BY <1>1, Soundness, PTL

(* Every variable keeps its type, wherever writes are cut and whatever is   *)
(* chosen; a session is always resumed from the menu into a state.          *)
THEOREM TypeCorrect == Spec => []TypeOK
<1>1. IInv /\ MenuInv => TypeOK
  <2> SUFFICES ASSUME IInv, MenuInv
               PROVE  TypeOK
    OBVIOUS
  <2>1. ASSUME NEW s \in Sessions
        PROVE  /\ files[s].exists \in BOOLEAN /\ files[s].ended \in BOOLEAN
               /\ files[s].utf8 \in BOOLEAN
               /\ ~files[s].exists => files[s] = NoFile
               /\ acked[s] \subseteq StoredBlocks
    BY DEF IInv, Sound, FilesOf
  <2>2. ASSUME NEW s \in Sessions, NEW i \in DOMAIN files[s].lines
        PROVE  IsLine(files[s].lines[i])
    <3>1. files[s].lines \in Seq(Lines)
      BY DEF IInv, Sound, FilesOf
    <3>2. files[s].lines[i] \in Lines
      BY <2>2, <3>1
    <3>3. \A b : Len(<<b>>) = 1 /\ <<b>>[1] = b
      OBVIOUS
    <3>4. QED
      BY <3>2, <3>3 DEF Lines, IsLine
  <2>3. /\ \A i \in DOMAIN menu.workflows : menu.workflows[i] \in Versions
        /\ \A i \in DOMAIN menu.sessions : menu.sessions[i] \in Entries
        /\ versions \subseteq Versions
    BY DEF MenuInv, ListsTrue
  <2>4. /\ hand \in [Processes -> Hands]
        /\ at \in Places /\ chosen \in Sessions \cup {None} /\ target \in Targets(at)
    BY DEF IInv, MenuInv
  <2>5. QED
    BY <2>1, <2>2, <2>3, <2>4 DEF TypeOK, Places, Targets
<1>2. QED
  BY <1>1, Soundness, PTL

-----------------------------------------------------------------------------
(* One write on one file is a step of the store, or none.                   *)
LEMMA WriteRefines ==
  ASSUME IInv, NEW p \in Processes, NEW s \in Sessions, NEW cut \in WriteCuts,
         NEW b, NEW next, Composed(p, s, b, cut, next)
  PROVE  Store!Next \/ UNCHANGED Store!vars
<1> DEFINE f == files[s]
           g == files'[s]
<1>1. /\ files' = [files EXCEPT ![s] = g]
      /\ Sound(f, acked[s]) /\ g.exists
      /\ \/ Adds(f, g, b) \/ Spoils(f, g, acked[s]) \/ Refuses(f, g)
         \/ Stays(f, g) /\ cut = "nothing"
  BY ComposedWrites
<1>2. \A r \in Sessions \ {s} : files'[r] = files[r]
  BY <1>1 DEF IInv
<1>3. acked' = IF cut = "complete" THEN [acked EXCEPT ![s] = @ \cup {b}] ELSE acked
  BY DEF Composed, Write
<1>4. Store!Answer(s, b)
  BY <1>3 DEF Store!Answer
<1>5. Store!Mistaken(s)
  <2>1. CASE acked' = acked
    BY <2>1 DEF Store!Mistaken
  <2>2. CASE acked' = [acked EXCEPT ![s] = @ \cup {b}]
    <3>1. b \in acked'[s]
      BY <2>2 DEF IInv
    <3>2. QED
      BY <1>4, <3>1 DEF Store!Mistaken
  <2>3. QED
    BY <1>3, <2>1, <2>2
<1> DEFINE Spoiled(h) == h.exists /\ ~Loads(h)
<1>6. Damaged = [r \in Sessions |-> Spoiled(files[r])]
      /\ Damaged' = [r \in Sessions |-> Spoiled(files'[r])]
      /\ Logs = [r \in Sessions |-> Intact(files[r])]
      /\ Logs' = [r \in Sessions |-> Intact(files'[r])]
  BY DEF Damaged, Logs
<1>7. /\ Spoiled(f) <=> ~Fresh(f)
      /\ Spoiled(g) <=> ~Loads(g)
  BY <1>1 DEF Fresh, Sound, NoFile, Loads
<1> HIDE DEF Spoiled, f, g
<1>8. /\ Damaged[s] <=> Spoiled(f)
      /\ Damaged' = [Damaged EXCEPT ![s] = Spoiled(g)]
      /\ Logs[s] = Intact(f)
      /\ Logs' = [Logs EXCEPT ![s] = Intact(g)]
  BY <1>2, <1>6 DEF f, g
<1>9. /\ Spoiled(f) \in BOOLEAN /\ Spoiled(g) \in BOOLEAN
      /\ Spoiled(g) = Spoiled(f) => Damaged' = Damaged
  <2>1. Spoiled(f) \in BOOLEAN /\ Spoiled(g) \in BOOLEAN
    BY DEF Spoiled, Loads
  <2>2. ASSUME Spoiled(g) = Spoiled(f)
        PROVE  Damaged' = Damaged
    <3>1. \A r \in Sessions : Spoiled(files'[r]) = Spoiled(files[r])
      BY <1>2, <2>2 DEF f, g
    <3>2. QED
      BY <1>6, <3>1
  <2>3. QED
    BY <2>1, <2>2
<1>10. CASE Adds(f, g, b)
  <2>1. Fresh(f) /\ Loads(g) /\ Intact(g) = Append(Intact(f), b)
        /\ b.prev = Len(f.lines) /\ b.seq = Len(f.lines)
    BY <1>10 DEF Adds
  <2>2. b \in Store!Following(Logs[s])
    BY <1>8, <2>1 DEF Composed, f
  <2>3. Logs' = [Logs EXCEPT ![s] = Append(@, b)]
    BY <1>8, <2>1
  <2>4. Damaged' = Damaged /\ ~Damaged[s]
    BY <1>7, <1>8, <1>9, <2>1, Zenon
  <2>5. Len(Logs'[s]) = Len(Logs[s]) + 1
    <3>1. Logs'[s] = Append(Logs[s], b)
      BY <1>6, <2>3
    <3>2. \E T : Logs[s] \in Seq(T)
      <4>1. f \in FilesOf(Lines) /\ (f = NoFile \/ Loads(f))
        BY <1>1, <2>1 DEF Sound, Fresh, f
      <4>2. Len(f.lines) \in Nat
        BY <4>1 DEF FilesOf
      <4>3. QED
        BY <1>8, <4>1, <4>2, AcceptedLines, BlocksSeq
    <3>3. QED
      BY <3>1, <3>2
  <2>6. Store!Grow(s)
    BY <1>4, <2>2, <2>3, <2>4, <2>5 DEF Store!Grow
  <2>7. QED
    BY <2>4, <2>6 DEF Store!Next
<1>11. CASE Stays(f, g) /\ cut = "nothing"
  <2>1. Fresh(f) /\ Loads(g) /\ Intact(g) = Intact(f)
    BY <1>11 DEF Stays, Fresh
  <2>2. Logs' = Logs
    BY <1>6, <1>8, <2>1
  <2>3. Damaged' = Damaged
    BY <1>7, <1>9, <2>1, Zenon
  <2>4. acked' = acked
    BY <1>3, <1>11
  <2>5. QED
    BY <2>2, <2>3, <2>4 DEF Store!vars
<1>12. CASE Spoils(f, g, acked[s])
  <2>1. /\ Fresh(f) /\ ~Loads(g)
        /\ \/ Intact(g) = Intact(f)
           \/ /\ Len(Intact(f)) > 0 /\ Intact(f)[Len(Intact(f))] \notin acked[s]
              /\ Intact(g) = SubSeq(Intact(f), 1, Len(Intact(f)) - 1)
    BY <1>12 DEF Spoils
  <2>2. ~Damaged[s]
    BY <1>7, <1>8, <2>1
  <2>3. Damaged' = [Damaged EXCEPT ![s] = TRUE]
    BY <1>7, <1>8, <1>9, <2>1, Zenon
  <2>4. Damaged'[s]
    BY <1>6, <2>3
  <2>5. Logs' = Logs \/ Store!TakesBack(s)
    <3>1. CASE Intact(g) = Intact(f)
      BY <1>6, <1>8, <3>1
    <3>2. CASE /\ Len(Intact(f)) > 0 /\ Intact(f)[Len(Intact(f))] \notin acked[s]
               /\ Intact(g) = SubSeq(Intact(f), 1, Len(Intact(f)) - 1)
      BY <1>8, <3>2 DEF Store!TakesBack
    <3>3. QED
      BY <2>1, <3>1, <3>2
  <2>6. Store!Damage(s)
    BY <1>5, <2>3, <2>4, <2>5 DEF Store!Damage
  <2>7. QED
    BY <2>2, <2>6 DEF Store!Next
<1>13. CASE Refuses(f, g)
  <2>1. f.exists /\ ~Loads(f) /\ ~Loads(g) /\ Intact(g) = Intact(f)
    BY <1>13 DEF Refuses
  <2>2. Spoiled(f)
    BY <2>1 DEF Spoiled
  <2>3. Damaged[s]
    BY <1>8, <2>2
  <2>4. Logs' = Logs
    BY <1>6, <1>8, <2>1
  <2>5. Damaged' = Damaged
    BY <1>7, <1>9, <2>1, <2>2, Zenon
  <2>6. Store!Waste(s)
    BY <1>5, <2>4, <2>5 DEF Store!Waste
  <2>7. QED
    BY <2>3, <2>6 DEF Store!Next
<1>14. QED
  BY <1>1, <1>10, <1>11, <1>12, <1>13 DEF f, g

(* session.py, skills.py, runner.py: for any number of sessions, terminals, *)
(* menus and writes cut anywhere, the session files behave as SessionStore  *)
(* says.                                                                    *)
THEOREM FilesImplementStore == Spec => RefinesStore
<1>1. Init => Store!Init
  <2> SUFFICES ASSUME Init PROVE Store!Init
    OBVIOUS
  <2>1. Intact(NoFile) = <<>> /\ ~NoFile.exists
    <3>1. NoFile \in FilesOf(Lines) /\ NoFile.lines = <<>> /\ ~NoFile.exists
      BY DEF NoFile, FilesOf
    <3>2. Len(<<>>) = 0
      OBVIOUS
    <3>3. Intact(NoFile) = Blocks(NoFile, 0)
      BY <3>1, <3>2, AcceptedLines
    <3>4. PICK T : Blocks(NoFile, 0) \in Seq(T)
      BY BlocksSeq
    <3>5. Len(Blocks(NoFile, 0)) = 0
      BY BlocksOfLines
    <3> HIDE DEF NoFile
    <3>6. QED
      BY <3>1, <3>3, <3>4, <3>5
  <2>2. QED
    BY <2>1 DEF Init, Store!Init, Logs, Damaged
<1>2. IInv /\ MenuInv /\ [Next]_vars => [Store!Next]_(Store!vars)
  <2> SUFFICES ASSUME IInv, MenuInv, [Next]_vars
               PROVE  Store!Next \/ UNCHANGED Store!vars
    OBVIOUS
  <2>1. CASE Composes
    BY <2>1, WriteRefines DEF Composes
  <2>2. CASE UNCHANGED <<files, acked>>
    BY <2>2 DEF Store!vars, Logs, Damaged
  <2>3. QED
    BY <2>1, <2>2, StepKinds DEF Looks, fileVars
<1>3. QED
  BY <1>1, <1>2, Soundness, PTL DEF Spec, RefinesStore, Store!Spec

=============================================================================
